----------------------------- MODULE Addresses ------------------------------
(***************************************************************************)
(* The addresses of UsersService (src/modules/users/users.service.ts), and *)
(* the deletion of a user, which takes them along.                         *)
(*                                                                         *)
(* One address of a user is the default.  Every operation keeps that up    *)
(* with statements of its own: one clears the flag, one counts or looks    *)
(* for the oldest address, one writes.                                     *)
(***************************************************************************)
EXTENDS Sessions, Sequences

CONSTANTS
    AddressIds,     \* ids of addresses; never used twice
    Visitors        \* requests about addresses in flight together

VARIABLES
    book,       \* book[u]: the addresses of u, oldest first
    used,       \* ids of addresses given out
    visit,      \* visit[v]: the request of v, in flight or idle
    crowded,    \* history: requests in flight together with one of the same user
    disturbed   \* history: users whose default was left to chance, and not set since

bookVars == <<book, used, visit, crowded, disturbed>>
accountsVars == <<sessionVars, ops, bookVars>>

Address == [id : AddressIds, isDefault : BOOLEAN]

(* default: the flag asked for or read; "keep": none was sent              *)
Flags == {"yes", "no", "keep"}
VisitStage == {"idle", "count", "insert", "write", "delete", "oldest", "promote", "clear"}
Visit == [pc : VisitStage, user : Users \cup {None}, id : AddressIds \cup {None},
          default : Flags]
NoVisit == [pc |-> "idle", user |-> None, id |-> None, default |-> "keep"]

IdsOf(u) == {book[u][i].id : i \in DOMAIN book[u]}
IsDefault(u, a) == \E i \in DOMAIN book[u] : book[u][i].id = a /\ book[u][i].isDefault
Defaults(u) == {a \in IdsOf(u) : IsDefault(u, a)}

SetTo(u, ids, flag) ==
    [book EXCEPT ![u] = [i \in DOMAIN book[u] |->
        IF book[u][i].id \in ids THEN [book[u][i] EXCEPT !.isDefault = flag] ELSE book[u][i]]]

Without(s, i) == [j \in 1 .. Len(s) - 1 |-> s[IF j < i THEN j ELSE j + 1]]

Visiting(u) == {v \in Visitors : visit[v].user = u}

(* A request starts: it disturbs, and is disturbed by, those of its user   *)
(* that are in flight.                                                     *)
Enter(v, q) ==
    /\ visit[v] = NoVisit /\ Begin
    /\ visit' = [visit EXCEPT ![v] = q]
    /\ IF Visiting(q.user) = {} THEN UNCHANGED <<crowded, disturbed>>
       ELSE /\ crowded' = crowded \cup Visiting(q.user) \cup {v}
            /\ disturbed' = disturbed \cup {q.user}

Advance(v, q) ==
    /\ visit' = [visit EXCEPT ![v] = q]
    /\ UNCHANGED <<ops, used, crowded, disturbed>>

(* It ends; alone, and having set a default, it has put things right.      *)
Leave(v, sets) ==
    /\ visit' = [visit EXCEPT ![v] = NoVisit]
    /\ disturbed' = IF sets /\ v \notin crowded THEN disturbed \ {visit[v].user} ELSE disturbed
    /\ crowded' = crowded \ {v}
    /\ UNCHANGED <<ops, used>>

-----------------------------------------------------------------------------
(* createUserAddress: a default clears the others; the first address is    *)
(* the default in any case.                                                *)

CreateAddress(v, u, default) ==
    /\ Exists(u)
    /\ Enter(v, [pc |-> "count", user |-> u, id |-> None, default |-> default])
    /\ book' = IF default = "yes" THEN SetTo(u, IdsOf(u), FALSE) ELSE book
    /\ UNCHANGED used

(* Mutant: the first address is not made the default.                      *)
CountAddressesIgnored(v) ==
    LET q == visit[v]
    IN  /\ q.pc = "count"
        /\ Advance(v, [q EXCEPT !.pc = "insert"])
        /\ UNCHANGED book

CountAddresses(v) ==
    LET q == visit[v]
    IN  /\ q.pc = "count"
        /\ Advance(v, [q EXCEPT !.pc = "insert", 
                              !.default = IF book[q.user] = <<>> THEN "yes" ELSE q.default])
        /\ UNCHANGED book

InsertAddress(v, a) ==
    LET q == visit[v]
    IN  /\ q.pc = "insert" /\ Exists(q.user) /\ a \notin used
        /\ book' = [book EXCEPT ![q.user] = Append(book[q.user], [id |-> a, isDefault |-> q.default = "yes"])]
        /\ used' = used \cup {a}
        /\ visit' = [visit EXCEPT ![v] = NoVisit]
        /\ disturbed' = IF q.default = "yes" /\ v \notin crowded THEN disturbed \ {q.user} ELSE disturbed
        /\ crowded' = crowded \ {v}
        /\ UNCHANGED ops

(* updateUserAddress: a new default clears the others; the flag may also   *)
(* be taken away.                                                          *)
UpdateAddress(v, u, a, default) ==
    /\ Exists(u) /\ a \in IdsOf(u)
    /\ Enter(v, [pc |-> "write", user |-> u, id |-> a, default |-> default])
    /\ book' = IF default = "yes" THEN SetTo(u, IdsOf(u) \ {a}, FALSE) ELSE book
    /\ UNCHANGED used

WriteAddress(v) ==
    LET q == visit[v]
    IN  /\ q.pc = "write" /\ q.id \in IdsOf(q.user)
        /\ book' = IF q.default = "keep" THEN book ELSE SetTo(q.user, {q.id}, q.default = "yes")
        /\ visit' = [visit EXCEPT ![v] = NoVisit]
        /\ crowded' = crowded \ {v}
        /\ disturbed' = IF q.default = "no" /\ IsDefault(q.user, q.id) THEN disturbed \cup {q.user}
                        ELSE IF q.default = "yes" /\ v \notin crowded THEN disturbed \ {q.user}
                        ELSE disturbed
        /\ UNCHANGED <<ops, used>>

(* setDefaultAddress: all are cleared, this one is set.                    *)
SetDefault(v, u, a) ==
    /\ Exists(u) /\ a \in IdsOf(u)
    /\ Enter(v, [pc |-> "clear", user |-> u, id |-> a, default |-> "yes"])
    /\ UNCHANGED <<book, used>>

ClearDefaults(v) ==
    LET q == visit[v]
    IN  /\ q.pc = "clear"
        /\ book' = SetTo(q.user, IdsOf(q.user), FALSE)
        /\ Advance(v, [q EXCEPT !.pc = "write"])

(* deleteUserAddress: the oldest that is left takes the place of a default *)
DeleteAddress(v, u, a) ==
    /\ Exists(u) /\ a \in IdsOf(u)
    /\ Enter(v, [pc |-> "delete", user |-> u, id |-> a, 
                default |-> IF IsDefault(u, a) THEN "yes" ELSE "no"])
    /\ UNCHANGED <<book, used>>

DropAddress(v) ==
    LET q == visit[v]
    IN  /\ q.pc = "delete" /\ q.id \in IdsOf(q.user)
        /\ \E i \in DOMAIN book[q.user] :
              /\ book[q.user][i].id = q.id
              /\ book' = [book EXCEPT ![q.user] = Without(book[q.user], i)]
        /\ IF q.default = "yes" THEN Advance(v, [q EXCEPT !.pc = "oldest"]) ELSE Leave(v, FALSE)

FindOldest(v) ==
    LET q == visit[v]
    IN  /\ q.pc = "oldest"
        /\ IF book[q.user] = <<>> THEN Leave(v, FALSE)
           ELSE Advance(v, [q EXCEPT !.pc = "promote", !.id = Head(book[q.user]).id])
        /\ UNCHANGED book

Promote(v) ==
    LET q == visit[v]
    IN  /\ q.pc = "promote" /\ q.id \in IdsOf(q.user)
        /\ book' = SetTo(q.user, {q.id}, TRUE)
        /\ Leave(v, FALSE)

(* A request fails, because its address or user is gone or for any other   *)
(* reason.                                                                 *)
AbandonVisit(v) ==
    /\ visit[v] # NoVisit
    /\ visit' = [visit EXCEPT ![v] = NoVisit]
    /\ disturbed' = disturbed \cup {visit[v].user}
    /\ crowded' = crowded \ {v}
    /\ UNCHANGED <<book, ops, used>>

VisitNext ==
    \E v \in Visitors :
        \/ CountAddresses(v) \/ WriteAddress(v) \/ ClearDefaults(v) \/ DropAddress(v)
        \/ FindOldest(v) \/ Promote(v) \/ AbandonVisit(v)
        \/ \E a \in AddressIds : InsertAddress(v, a)
        \/ \E u \in Users :
              \/ \E default \in {"yes", "no"} : CreateAddress(v, u, default)
              \/ \E a \in AddressIds :
                    \/ \E default \in Flags : UpdateAddress(v, u, a, default)
                    \/ SetDefault(v, u, a) \/ DeleteAddress(v, u, a)

(* The addresses of a user go with the user.                               *)
DeleteUserAndBook(r) ==
    /\ DeleteUser(r)
    /\ book' = [book EXCEPT ![call[r].user] = <<>>]
    /\ UNCHANGED <<used, visit, crowded, disturbed>>

AccountsInit ==
    /\ SessionsInit
    /\ book = [u \in Users |-> <<>>]
    /\ used = {}
    /\ visit = [v \in Visitors |-> NoVisit]
    /\ crowded = {} /\ disturbed = {}

AccountsNext ==
    \/ SessionsNext /\ UNCHANGED bookVars
    \/ VisitNext /\ UNCHANGED sessionVars
    \/ \E r \in Requests : DeleteUserAndBook(r)

AccountsSpec == AccountsInit /\ [][AccountsNext]_accountsVars

-----------------------------------------------------------------------------
AccountsTypeOK ==
    /\ SessionsTypeOK
    /\ book \in [Users -> Seq(Address)]
    /\ used \subseteq AddressIds
    /\ visit \in [Visitors -> Visit]
    /\ crowded \subseteq Visitors /\ disturbed \subseteq Users

(* A user with addresses has one default, and one only, whenever no        *)
(* request about them is in flight; unless requests of the user overlapped *)
(* or failed half way, or the flag was taken away, and no address has been *)
(* made the default undisturbed since (users.service.ts:422).              *)
OneDefault ==
    \A u \in Users :
        Visiting(u) = {} /\ u \notin disturbed =>
            book[u] = <<>> \/ Cardinality(Defaults(u)) = 1
=============================================================================
