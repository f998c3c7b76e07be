------------------------------ MODULE Sessions ------------------------------
(***************************************************************************)
(* AuthService (src/modules/auth/auth.service.ts) and what UsersService    *)
(* (src/modules/users/users.service.ts) does to an account.                *)
(*                                                                         *)
(* Every request reads the row of the user first and writes it in later    *)
(* statements, one at a time; none is in a transaction.  The failure of    *)
(* any of them ends the request (Abandon).                                 *)
(*                                                                         *)
(* Passwords are not modelled: a comparison goes either way.  The hash of  *)
(* the refresh token covers 72 bytes, which hold its header and the start  *)
(* of the email: it matches every token of the user, so that a session is  *)
(* a column that is null or not.                                           *)
(***************************************************************************)
EXTENDS Integers, FiniteSets

CONSTANTS
    Users,      \* ids of users; never used twice
    Requests,   \* requests in flight together
    Patience,   \* wrong passwords on record at which login blocks: 4 in the code
    AdminPatience, \* the same for the login of administrators: 2
    MaxOps,     \* bound: operations
    None,       \* a row not inserted yet
    Deleted     \* a row that was deleted

(* Assumed of the constants, by the instances and by the theorems.         *)
SessionsAssumption ==
    /\ IsFiniteSet(Requests) /\ MaxOps \in Nat
    /\ Patience \in Nat /\ AdminPatience \in 0 .. Patience
    /\ None \notin Users /\ None # Deleted

Roles    == {"USER", "ADMIN", "SELLER"}
Statuses == {"ACTIVE", "BLOCKED", "PENDING_VERIFICATION"}
Ages     == {"never", "recent", "old"}      \* of a login, or of a password

Account == [role : Roles, status : Statuses, failures : Nat, session : BOOLEAN,
            login : Ages, password : Ages]

AccountAssumption == None \notin Account /\ Deleted \notin Account

VARIABLES
    account,    \* account[u]: the row of users, None or Deleted
    carts,      \* users with a cart
    call,       \* call[r]: request r, in flight or idle
    ops,        \* operations counted against MaxOps
    guesses,    \* history: wrong passwords since the last good login
    reprieved,  \* history: users who were not blocked, or unblocked, in spite of them
    overtaken   \* history: requests whose user was logged out or blocked meanwhile

sessionVars == <<account, carts, call, guesses, reprieved, overtaken>>

Stage == {"idle", "cart", "count", "block", "reset", "sign", "rotate", "password", "revoke", "delete"}
Call == [pc : Stage, user : Users \cup {None}, seen : Nat, limit : Nat]
NoCall == [pc |-> "idle", user |-> None, seen |-> 0, limit |-> 0]

Exists(u) == account[u] \notin {None, Deleted}
Open(u)   == Exists(u) /\ account[u].status # "BLOCKED"

Begin == ops < MaxOps /\ ops' = ops + 1
Goto(r, pc, u) == call' = [call EXCEPT ![r] = [NoCall EXCEPT !.pc = pc, !.user = u]]
Done(r) == call' = [call EXCEPT ![r] = NoCall]

InFlight(u) == {r \in Requests : call[r].user = u}
Overtake(u) == overtaken' = overtaken \cup InFlight(u)
Unmark(r)   == overtaken' = overtaken \ {r}

-----------------------------------------------------------------------------
(* register, registerAdmin: the user, then the cart.                       *)

NewUser == [role |-> "USER", status |-> "ACTIVE", failures |-> 0, session |-> FALSE,
            login |-> "never", password |-> "never"]

(* The secret and the strength of the password are checked before.         *)
NewAdmin == [role |-> "ADMIN", status |-> "ACTIVE", failures |-> 0, session |-> FALSE,
             login |-> "never", password |-> "recent"]

RegisterUser(r, u, new) ==
    /\ call[r] = NoCall /\ account[u] = None
    /\ Begin
    /\ account' = [account EXCEPT ![u] = new]
    /\ Goto(r, "cart", u)
    /\ UNCHANGED <<carts, guesses, reprieved, overtaken>>

RegisterCart(r) ==
    LET u == call[r].user
    IN  /\ call[r].pc = "cart"
        /\ carts' = IF Exists(u) THEN carts \cup {u} ELSE carts
        /\ Done(r) /\ Unmark(r)
        /\ UNCHANGED <<account, ops, guesses, reprieved>>

-----------------------------------------------------------------------------
(* validateUser and validateAdminUser: the row is read, and the password   *)
(* compared with it.                                                       *)

Compared(r, u, limit, dest) ==
    /\ \/ call' = [call EXCEPT ![r] = [pc |-> "count", user |-> u, seen |-> account[u].failures,
                                       limit |-> limit]]
       \/ Goto(r, dest, u)
    /\ UNCHANGED <<account, carts, guesses, reprieved, overtaken>>

LoginRead(r, u) ==
    /\ call[r] = NoCall /\ Open(u)
    /\ Begin
    /\ Compared(r, u, Patience, "reset")

(* An administrator who has been away too long is blocked at once; one     *)
(* whose password is due gets in, but keeps the wrong ones on record.      *)
AdminLoginRead(r, u) ==
    /\ call[r] = NoCall /\ Open(u) /\ account[u].role = "ADMIN"
    /\ Begin
    /\ IF account[u].login = "old"
         THEN /\ call' = [call EXCEPT ![r] = [pc |-> "block", user |-> u, seen |-> 0, limit |-> 0]]
              /\ UNCHANGED <<account, carts, guesses, reprieved, overtaken>>
         ELSE Compared(r, u, AdminPatience, IF account[u].password = "old" THEN "sign" ELSE "reset")

(* Mutant: the counter is written as read.                                 *)
CountLost(r) ==
    LET u == call[r].user
    IN  /\ call[r].pc = "count" /\ Exists(u)
        /\ account' = [account EXCEPT ![u] = [account[u] EXCEPT !.failures = call[r].seen + 1]]
        /\ guesses' = [guesses EXCEPT ![u] = guesses[u] + 1]
        /\ IF call[r].seen >= call[r].limit
             THEN /\ call' = [call EXCEPT ![r] = [call[r] EXCEPT !.pc = "block"]]
                  /\ UNCHANGED overtaken
             ELSE Done(r) /\ Unmark(r)
        /\ UNCHANGED <<carts, ops, reprieved>>

(* The database increments the counter; whether to block is decided by the *)
(* value that was read.                                                    *)
Count(r) ==
    LET u == call[r].user
    IN  /\ call[r].pc = "count" /\ Exists(u)
        /\ account' = [account EXCEPT ![u] = [account[u] EXCEPT !.failures = account[u].failures + 1]]
        /\ guesses' = [guesses EXCEPT ![u] = guesses[u] + 1]
        /\ IF call[r].seen >= call[r].limit
             THEN /\ call' = [call EXCEPT ![r] = [call[r] EXCEPT !.pc = "block"]]
                  /\ UNCHANGED overtaken
             ELSE Done(r) /\ Unmark(r)
        /\ UNCHANGED <<carts, ops, reprieved>>

Block(r) ==
    LET u == call[r].user
    IN  /\ call[r].pc = "block" /\ Exists(u)
        /\ account' = [account EXCEPT ![u] = [account[u] EXCEPT !.status = "BLOCKED"]]
        /\ Done(r)
        /\ overtaken' = (overtaken \cup InFlight(u)) \ {r}
        /\ UNCHANGED <<carts, ops, guesses, reprieved>>

Reset(r) ==
    LET u == call[r].user
    IN  /\ call[r].pc = "reset" /\ Exists(u)
        /\ account' = [account EXCEPT ![u] = [account[u] EXCEPT !.failures = 0, !.login = "recent"]]
        /\ guesses' = [guesses EXCEPT ![u] = 0]
        /\ reprieved' = reprieved \ {u}
        /\ Goto(r, "sign", u)
        /\ UNCHANGED <<carts, ops, overtaken>>

(* login: the new refresh token replaces that of any other device.         *)
Sign(r) ==
    LET u == call[r].user
    IN  /\ call[r].pc = "sign" /\ Exists(u)
        /\ account' = [account EXCEPT ![u] = [account[u] EXCEPT !.session = TRUE, !.login = "recent"]]
        /\ Done(r) /\ Unmark(r)
        /\ UNCHANGED <<carts, ops, guesses, reprieved>>

-----------------------------------------------------------------------------
(* refreshToken: reads and checks, then writes the hash of the new token.  *)

(* Mutant: a missing token is not refused.                                 *)
RefreshReadAny(r, u) ==
    /\ call[r] = NoCall /\ Open(u)
    /\ Begin
    /\ Goto(r, "rotate", u)
    /\ UNCHANGED <<account, carts, guesses, reprieved, overtaken>>

RefreshRead(r, u) ==
    /\ call[r] = NoCall /\ Open(u) /\ account[u].session
    /\ Begin
    /\ Goto(r, "rotate", u)
    /\ UNCHANGED <<account, carts, guesses, reprieved, overtaken>>

Rotate(r) ==
    LET u == call[r].user
    IN  /\ call[r].pc = "rotate" /\ Exists(u)
        /\ account' = [account EXCEPT ![u] = [account[u] EXCEPT !.session = TRUE]]
        /\ Done(r) /\ Unmark(r)
        /\ UNCHANGED <<carts, ops, guesses, reprieved>>

(* logout, with an access token that has not expired.                      *)
Logout(u) ==
    /\ Open(u)
    /\ Begin
    /\ account' = [account EXCEPT ![u] = [account[u] EXCEPT !.session = FALSE]]
    /\ Overtake(u)
    /\ UNCHANGED <<carts, call, guesses, reprieved>>

-----------------------------------------------------------------------------
(* changeAdminPassword writes the password, then ends the session;         *)
(* changePassword writes the password and leaves the session.              *)

ChangePasswordRead(r, u) ==
    /\ call[r] = NoCall /\ Open(u)
    /\ Begin
    /\ \/ Goto(r, "password", u)
       \/ /\ account[u].role = "ADMIN"
          /\ call' = [call EXCEPT ![r] = [pc |-> "password", user |-> u, seen |-> 1, limit |-> 0]]
    /\ UNCHANGED <<account, carts, guesses, reprieved, overtaken>>

(* seen tells the two apart.                                               *)
WritePassword(r) ==
    LET u == call[r].user
    IN  /\ call[r].pc = "password" /\ Exists(u)
        /\ account' = [account EXCEPT ![u] = [account[u] EXCEPT !.password = "recent"]]
        /\ IF call[r].seen = 1 THEN Goto(r, "revoke", u) /\ UNCHANGED overtaken
           ELSE Done(r) /\ Unmark(r)
        /\ UNCHANGED <<carts, ops, guesses, reprieved>>

Revoke(r) ==
    LET u == call[r].user
    IN  /\ call[r].pc = "revoke" /\ Exists(u)
        /\ account' = [account EXCEPT ![u] = [account[u] EXCEPT !.session = FALSE]]
        /\ Done(r)
        /\ overtaken' = (overtaken \cup InFlight(u)) \ {r}
        /\ UNCHANGED <<carts, ops, guesses, reprieved>>

-----------------------------------------------------------------------------
(* Administrators: updateUserStatus, updateUserRole, deleteUser.  A status *)
(* and a role are written whatever the row says by then: one step.         *)

UpdateStatus(u, s) ==
    /\ Exists(u)
    /\ Begin
    /\ account' = [account EXCEPT ![u] = [account[u] EXCEPT !.status = s]]
    /\ reprieved' = IF s = "BLOCKED" THEN reprieved ELSE reprieved \cup {u}
    /\ IF s = "BLOCKED" THEN Overtake(u) ELSE UNCHANGED overtaken
    /\ UNCHANGED <<carts, call, guesses>>

UpdateRole(u, role) ==
    /\ Exists(u) /\ account[u].role # role
    /\ Begin
    /\ account' = [account EXCEPT ![u] = [account[u] EXCEPT !.role = role]]
    /\ UNCHANGED <<carts, call, guesses, reprieved, overtaken>>

DeleteRead(r, u) ==
    /\ call[r] = NoCall /\ Exists(u) /\ account[u].role # "ADMIN"
    /\ Begin
    /\ Goto(r, "delete", u)
    /\ UNCHANGED <<account, carts, guesses, reprieved, overtaken>>

DeleteUser(r) ==
    LET u == call[r].user
    IN  /\ call[r].pc = "delete" /\ Exists(u)
        /\ account' = [account EXCEPT ![u] = Deleted]
        /\ carts' = carts \ {u}
        /\ Done(r) /\ Unmark(r)
        /\ UNCHANGED <<ops, guesses, reprieved>>

-----------------------------------------------------------------------------
(* The request fails: an error of the database, a user who is gone, orders *)
(* that keep a user from being deleted, a restart of the server.           *)
Abandon(r) ==
    /\ call[r] # NoCall
    /\ Done(r) /\ Unmark(r)
    /\ reprieved' = IF call[r].pc = "block" THEN reprieved \cup {call[r].user} ELSE reprieved
    /\ UNCHANGED <<account, carts, ops, guesses>>

(* A login or a password grows old.                                        *)
Age(u) ==
    /\ Exists(u)
    /\ \/ /\ account[u].login = "recent"
          /\ account' = [account EXCEPT ![u] = [account[u] EXCEPT !.login = "old"]]
       \/ /\ account[u].password = "recent"
          /\ account' = [account EXCEPT ![u] = [account[u] EXCEPT !.password = "old"]]
    /\ UNCHANGED <<carts, call, ops, guesses, reprieved, overtaken>>

SessionsInit ==
    /\ account = [u \in Users |-> None]
    /\ carts = {}
    /\ call = [r \in Requests |-> NoCall]
    /\ ops = 0
    /\ guesses = [u \in Users |-> 0]
    /\ reprieved = {} /\ overtaken = {}

(* What administrators do to accounts.                                     *)
UsersNext ==
    \E u \in Users :
        \/ \E s \in Statuses : UpdateStatus(u, s)
        \/ \E role \in Roles : UpdateRole(u, role)
        \/ \E r \in Requests : DeleteRead(r, u)

(* Every step but the deletion of a user, which is not of this module      *)
(* alone.                                                                  *)
SessionsNext ==
    \/ UsersNext
    \/ \E u \in Users :
          \/ Logout(u) \/ Age(u)
          \/ \E r \in Requests :
                \/ \E new \in {NewUser, NewAdmin} : RegisterUser(r, u, new)
                \/ LoginRead(r, u) \/ AdminLoginRead(r, u) \/ RefreshRead(r, u)
                \/ ChangePasswordRead(r, u)
    \/ \E r \in Requests :
          \/ RegisterCart(r) \/ Count(r) \/ Block(r) \/ Reset(r) \/ Sign(r)
          \/ Rotate(r) \/ WritePassword(r) \/ Revoke(r) \/ Abandon(r)

-----------------------------------------------------------------------------
SessionsTypeOK ==
    /\ account \in [Users -> Account \cup {None, Deleted}]
    /\ carts \subseteq Users
    /\ call \in [Requests -> Call]
    /\ ops \in Nat
    /\ guesses \in [Users -> Nat]
    /\ reprieved \subseteq Users /\ overtaken \subseteq Requests

(* How many wrong passwords an account takes before it is blocked          *)
(* (auth.service.ts:90).  The decision is made on the count that was read, *)
(* so that attempts handled together may all have read one too few: at     *)
(* most as many as there are requests in flight are added to the limit.    *)
(* Excepted are accounts that were unblocked, whose count starts where it  *)
(* stopped, and those whose blocking failed after the attempt was counted. *)
AttemptsBounded ==
    \A u \in Users :
        Open(u) /\ u \notin reprieved /\ (\A r \in Requests : call[r].user = u => call[r].pc # "block") =>
            guesses[u] < Patience + Cardinality(Requests)

(* A user who was logged out, or an administrator whose password was       *)
(* changed, has a session again only after a login, and a blocked one not  *)
(* even then (auth.service.ts:239); unless the logout or the block fell    *)
(* between the reads and the write of a login or a refresh.                *)
SessionOnlyByLogin ==
    [][\A u \in Users :
          Exists(u) /\ Exists(u)' /\ ~account[u].session /\ account'[u].session =>
             \E r \in InFlight(u) :
                /\ call'[r] = NoCall
                /\ r \in overtaken \/ (call[r].pc = "sign" /\ Open(u))]_<<sessionVars, ops>>
=============================================================================
