------------------------------- MODULE Deals --------------------------------
(***************************************************************************)
(* DealsService (src/modules/deals/deals.service.ts) with its              *)
(* DealValidationService, and the two deal operations of ProductsService.  *)
(*                                                                         *)
(* The table product_deals has a row for each product of a deal.  What an  *)
(* administrator calls a deal is a group: the rows that agree on type,     *)
(* discount and times, found through any one of them (the template).       *)
(* Operations on a group read the template, find the group, and then write *)
(* its rows one by one, in no transaction.  A use of a deal is validated   *)
(* first and recorded later, in a transaction that checks no limit again.  *)
(***************************************************************************)
EXTENDS Integers, FiniteSets

CONSTANTS
    Products,       \* products, among them:
    Placeholder,    \* the hidden product of the deals made by create()
    Users,          \* ids of users
    DealIds,        \* ids of rows of product_deals; never used twice
    Types,          \* deal types, each with one discount
    Calls,          \* requests in flight together
    MaxTime,        \* bound: the clock
    MaxLimit,       \* bound: the largest limit asked for
    MaxEdits,       \* bound: operations that create, change or remove deals
    None,           \* SQL NULL, an absent field, an id not given out yet
    Deleted         \* a deal that was removed

ASSUME DealsAssumption ==
    /\ Placeholder \in Products
    /\ IsFiniteSet(Calls) /\ Calls # {} /\ IsFiniteSet(Users)
    /\ MaxTime \in Nat /\ MaxLimit \in Nat /\ MaxEdits \in Nat
    /\ None \notin Types \cup Users \cup DealIds \cup Products \cup Int

Times == 0 .. MaxTime
Key   == [type : Types, from : Times, to : Times]
Deal  == [product : Products, key : Key]

(* What update() is asked to write; a field left out stays as it is        *)
Change == [type : Types \cup {None}, from : Times \cup {None}, to : Times \cup {None}]

(* A row of deal_limits: maxTotalUsage, maxUserUsage, currentUsage         *)
Limits == [total : Nat \cup {None}, perUser : Nat \cup {None}, used : Nat]

ASSUME DealRowsAssumption == /\ None \notin Deal /\ Deleted \notin Deal /\ None # Deleted
                             /\ None \notin Limits /\ None \notin Key /\ None \notin Change

VARIABLES
    deal,       \* deal[d]: the row of product_deals, None or Deleted
    limits,     \* limits[d]: its row of deal_limits, or None
    uses,       \* uses[d]: the users with a row of deal_usages for d
    members,    \* the users that exist
    now,        \* the clock
    call,       \* call[c]: the request served by c
    edits,      \* operations counted against MaxEdits
    forgotten,  \* history: forgotten[d], uses of d by users deleted since
    cut,        \* history: deals whose total was set to no more than was used
    overtaken   \* history: deals that an update wrote after they had changed,
                \* and deals made from such a template

history == <<edits, forgotten, cut, overtaken>>
vars == <<deal, limits, uses, members, now, call, history>>

Stage == {"idle", "add", "find", "insert", "limit", "update", "delete", "record"}
Kinds == {"apply", "addProduct", "removeProduct", "update", "remove"}

Call == [pc : Stage, kind : Kinds \cup {None},
         deal : DealIds \cup {None},        \* the template, or the deal applied
         product : Products \cup {None}, user : Users \cup {None},
         seen : Key \cup {None},            \* the template's key when it was read
         change : Change \cup {None},       \* update: what to write
         perUser : Nat \cup {None},         \* addProductWithValidation: its maxUsage
         group : SUBSET DealIds]            \* rows found and not yet written

Idle == [pc |-> "idle", kind |-> None, deal |-> None, product |-> None, user |-> None,
         seen |-> None, change |-> None, perUser |-> None, group |-> {}]

IsDeal(d) == deal[d] \notin {None, Deleted}
OfProduct(x, k) == {d \in DealIds : IsDeal(d) /\ deal[d] = [product |-> x, key |-> k]}
Group(k) == {d \in DealIds : IsDeal(d) /\ deal[d].key = k}

Begin(c, q) == call[c] = Idle /\ call' = [call EXCEPT ![c] = q]
End(c)      == call' = [call EXCEPT ![c] = Idle]
Goto(c, pc) == call' = [call EXCEPT ![c] = [call[c] EXCEPT !.pc = pc]]

EditAllowed == edits < MaxEdits /\ edits' = edits + 1

-----------------------------------------------------------------------------
(* applyDealToProduct.  validateDealApplication checks the product that    *)
(* the request names, which need not be the deal's: any product but the    *)
(* placeholder may be found for sale.  recordDealUsage inserts the use,    *)
(* unique for deal and user, and counts it, creating the limits on demand. *)

Running(d) == deal[d].key.from <= now /\ now <= deal[d].key.to

WithinLimits(d, u) ==
    limits[d] # None =>
        /\ limits[d].total # None => limits[d].used < limits[d].total
        /\ limits[d].perUser # None /\ u \in uses[d] => 1 < limits[d].perUser

(* Mutant: the deal's own limits are not looked at.                        *)
ApplyUnchecked(c, d, u) ==
    /\ IsDeal(d) /\ Running(d)
    /\ Begin(c, [Idle EXCEPT !.pc = "record", !.kind = "apply", !.deal = d, !.user = u])
    /\ UNCHANGED <<deal, limits, uses, members, now, history>>

ApplyValidate(c, d, u) ==
    /\ IsDeal(d) /\ Running(d) /\ WithinLimits(d, u)
    /\ Begin(c, [Idle EXCEPT !.pc = "record", !.kind = "apply", !.deal = d, !.user = u])
    /\ UNCHANGED <<deal, limits, uses, members, now, history>>

Counted(d) == IF limits[d] = None THEN [total |-> None, perUser |-> None, used |-> 1]
              ELSE [limits[d] EXCEPT !.used = limits[d].used + 1]

(* Mutant: the counter is incremented though the use is a duplicate.       *)
RecordTwice(c) ==
    LET d == call[c].deal
        u == call[c].user
    IN  /\ call[c].pc = "record"
        /\ End(c)
        /\ IF IsDeal(d) /\ u \in members
             THEN /\ uses' = [uses EXCEPT ![d] = uses[d] \cup {u}]
                  /\ limits' = [limits EXCEPT ![d] = Counted(d)]
             ELSE UNCHANGED <<uses, limits>>
        /\ UNCHANGED <<deal, members, now, history>>

(* Mutant: the deal is not looked up before the use is recorded.           *)
RecordBlindly(c) ==
    LET d == call[c].deal
        u == call[c].user
    IN  /\ call[c].pc = "record"
        /\ End(c)
        /\ IF u \in members \ uses[d]
             THEN /\ uses' = [uses EXCEPT ![d] = uses[d] \cup {u}]
                  /\ limits' = [limits EXCEPT ![d] = Counted(d)]
             ELSE UNCHANGED <<uses, limits>>
        /\ UNCHANGED <<deal, members, now, history>>

ApplyRecord(c) ==
    LET d == call[c].deal
        u == call[c].user
    IN  /\ call[c].pc = "record"
        /\ End(c)
        /\ IF IsDeal(d) /\ u \in members \ uses[d]
             THEN /\ uses' = [uses EXCEPT ![d] = uses[d] \cup {u}]
                  /\ limits' = [limits EXCEPT ![d] = Counted(d)]
             ELSE UNCHANGED <<uses, limits>>
        /\ UNCHANGED <<deal, members, now, history>>

-----------------------------------------------------------------------------
(* setDealLimits: an upsert; a limit that is not given stays as it is.     *)

WithLimits(d, t, m) ==
    LET row == IF limits[d] = None THEN [total |-> None, perUser |-> None, used |-> 0]
               ELSE limits[d]
    IN  [total   |-> IF t = None THEN row.total ELSE t,
         perUser |-> IF m = None THEN row.perUser ELSE m,
         used    |-> row.used]

WriteLimits(d, t, m) ==
    /\ limits' = [limits EXCEPT ![d] = WithLimits(d, t, m)]
    /\ cut' = IF t = None THEN cut
              ELSE IF t <= WithLimits(d, t, m).used THEN cut \cup {d} ELSE cut \ {d}

(* The deal is looked up first; once found it can only be removed, which   *)
(* its foreign key detects: one step.                                      *)
SetDealLimits(d, t, m) ==
    /\ IsDeal(d)
    /\ EditAllowed
    /\ WriteLimits(d, t, m)
    /\ UNCHANGED <<deal, uses, members, now, call, forgotten, overtaken>>

-----------------------------------------------------------------------------
(* create: a template for the placeholder product.                         *)

Insert(d, x, k) == deal[d] = None /\ deal' = [deal EXCEPT ![d] = [product |-> x, key |-> k]]

CreateDeal(d, k) ==
    /\ k.from < k.to
    /\ EditAllowed
    /\ Insert(d, Placeholder, k)
    /\ UNCHANGED <<limits, uses, members, now, call, forgotten, cut, overtaken>>

-----------------------------------------------------------------------------
(* Reading the template, with which every operation on a group begins.     *)

ReadTemplate(c, d, kind, x, ch) ==
    /\ EditAllowed
    /\ IsDeal(d)
    /\ Begin(c, [Idle EXCEPT !.pc = "find", !.kind = kind, !.deal = d, !.product = x,
                 !.seen = deal[d].key, !.change = ch])
    /\ UNCHANGED <<deal, limits, uses, members, now, forgotten, cut, overtaken>>

AddProduct(c, d, x)    == ReadTemplate(c, d, "addProduct", x, None)
RemoveProduct(c, d, x) == ReadTemplate(c, d, "removeProduct", x, None)
Remove(c, d)           == ReadTemplate(c, d, "remove", None, None)

(* Mutant: a type that is left out is written as NULL.                     *)
ChangedToNull(k, ch) == [type |-> ch.type,
                         from |-> IF ch.from = None THEN k.from ELSE ch.from,
                         to   |-> IF ch.to = None THEN k.to ELSE ch.to]

Changed(k, ch) == [type |-> IF ch.type = None THEN k.type ELSE ch.type,
                   from |-> IF ch.from = None THEN k.from ELSE ch.from,
                   to   |-> IF ch.to = None THEN k.to ELSE ch.to]

(* Mutant: only times given together are compared.                         *)
UpdateUnchecked(c, d, ch) ==
    /\ ReadTemplate(c, d, "update", None, ch)
    /\ ch.from # None /\ ch.to # None => ch.from < ch.to

Update(c, d, ch) ==
    /\ ReadTemplate(c, d, "update", None, ch)
    /\ Changed(deal[d].key, ch).from < Changed(deal[d].key, ch).to

(* addProductWithValidation: the product must have no deal of the type of  *)
(* the template; then it is added as by addProduct, and the limit asked    *)
(* for is set on the template, as a limit per user.                        *)
AddChecked(c, d, x, m) ==
    /\ IsDeal(d) /\ x # Placeholder
    /\ \A e \in DealIds : IsDeal(e) /\ deal[e].product = x => deal[e].key.type # deal[d].key.type
    /\ EditAllowed
    /\ Begin(c, [Idle EXCEPT !.pc = "add", !.kind = "addProduct", !.deal = d,
                 !.product = x, !.perUser = m])
    /\ UNCHANGED <<deal, limits, uses, members, now, forgotten, cut, overtaken>>

AddAfterCheck(c) ==
    LET d == call[c].deal
    IN  /\ call[c].pc = "add"
        /\ IF IsDeal(d)
             THEN call' = [call EXCEPT ![c] = [call[c] EXCEPT !.pc = "find", !.seen = deal[d].key]]
             ELSE End(c)
        /\ UNCHANGED <<deal, limits, uses, members, now, history>>

(* ProductsService.addDeal: the product must have no deal of the type that *)
(* overlaps; removeDeal deletes one.                                       *)
AddDeal(c, x, k) ==
    /\ EditAllowed
    /\ k.from < k.to
    /\ \A d \in DealIds : IsDeal(d) /\ deal[d].product = x /\ deal[d].key.type = k.type =>
          k.to < deal[d].key.from \/ deal[d].key.to < k.from
    /\ Begin(c, [Idle EXCEPT !.pc = "insert", !.kind = "addProduct", !.product = x, !.seen = k])
    /\ UNCHANGED <<deal, limits, uses, members, now, forgotten, cut, overtaken>>

-----------------------------------------------------------------------------
(* What is found with the key of the template.                             *)

FindForAdd(c) ==
    LET q == call[c]
    IN  /\ q.pc = "find" /\ q.kind = "addProduct"
        /\ IF OfProduct(q.product, q.seen) = {} THEN Goto(c, "insert") ELSE End(c)
        /\ UNCHANGED <<deal, limits, uses, members, now, history>>

Found(c, found, pc) ==
    /\ IF found = {} THEN End(c)
       ELSE call' = [call EXCEPT ![c] = [call[c] EXCEPT !.pc = pc, !.group = found]]
    /\ UNCHANGED <<deal, limits, uses, members, now, history>>

FindForRemoveProduct(c) ==
    LET q == call[c]
    IN  /\ q.pc = "find" /\ q.kind = "removeProduct"
        /\ \/ OfProduct(q.product, q.seen) = {} /\ Found(c, {}, "delete")
           \/ \E d \in OfProduct(q.product, q.seen) : Found(c, {d}, "delete")

FindGroup(c) ==
    LET q == call[c]
    IN  /\ q.pc = "find" /\ q.kind \in {"update", "remove"}
        /\ Found(c, Group(q.seen), IF q.kind = "update" THEN "update" ELSE "delete")

-----------------------------------------------------------------------------
(* The statements that write.  Those of a group are sent together and run  *)
(* in any order; one that fails does not stop the others.                  *)

InsertFound(c, d) ==
    LET q == call[c]
    IN  /\ q.pc = "insert"
        /\ Insert(d, q.product, q.seen)
        /\ IF q.perUser = None THEN End(c) ELSE Goto(c, "limit")
        /\ overtaken' = IF q.deal \in overtaken THEN overtaken \cup {d} ELSE overtaken
        /\ UNCHANGED <<limits, uses, members, now, edits, forgotten, cut>>

LimitTemplate(c) ==
    LET q == call[c]
    IN  /\ q.pc = "limit"
        /\ End(c)
        /\ IF IsDeal(q.deal) THEN WriteLimits(q.deal, None, q.perUser)
           ELSE UNCHANGED <<limits, cut>>
        /\ UNCHANGED <<deal, uses, members, now, edits, forgotten, overtaken>>

Written(c, d) ==
    IF call[c].group = {d} THEN End(c)
    ELSE call' = [call EXCEPT ![c] = [call[c] EXCEPT !.group = call[c].group \ {d}]]

UpdateOne(c, d) ==
    LET q == call[c]
    IN  /\ q.pc = "update" /\ d \in q.group
        /\ Written(c, d)
        /\ IF IsDeal(d)
             THEN /\ deal' = [deal EXCEPT ![d] =
                        [product |-> deal[d].product, key |-> Changed(deal[d].key, q.change)]]
                  /\ overtaken' = IF deal[d].key = q.seen THEN overtaken
                                  ELSE overtaken \cup {d}
             ELSE UNCHANGED <<deal, overtaken>>
        /\ UNCHANGED <<limits, uses, members, now, edits, forgotten, cut>>

(* The limits and uses of a deal are deleted with it.                      *)
Delete(d) ==
    /\ deal' = [deal EXCEPT ![d] = Deleted]
    /\ limits' = [limits EXCEPT ![d] = None]
    /\ uses' = [uses EXCEPT ![d] = {}]
    /\ forgotten' = [forgotten EXCEPT ![d] = 0]

DeleteOne(c, d) ==
    /\ call[c].pc = "delete" /\ d \in call[c].group
    /\ Written(c, d)
    /\ IF IsDeal(d) THEN Delete(d) ELSE UNCHANGED <<deal, limits, uses, forgotten>>
    /\ UNCHANGED <<members, now, edits, cut, overtaken>>

RemoveDeal(d) ==
    /\ IsDeal(d)
    /\ EditAllowed
    /\ Delete(d)
    /\ UNCHANGED <<members, now, call, cut, overtaken>>

-----------------------------------------------------------------------------
(* UsersService.remove: the uses of a deleted user are deleted with it,    *)
(* and stay counted in currentUsage.                                       *)
DeleteUser(u) ==
    /\ u \in members
    /\ members' = members \ {u}
    /\ uses' = [d \in DealIds |-> uses[d] \ {u}]
    /\ forgotten' = [d \in DealIds |->
          IF u \in uses[d] THEN forgotten[d] + 1 ELSE forgotten[d]]
    /\ UNCHANGED <<deal, limits, now, call, edits, cut, overtaken>>

Tick ==
    /\ now < MaxTime
    /\ now' = now + 1
    /\ UNCHANGED <<deal, limits, uses, members, call, history>>

(* A process dies, or a statement fails: nothing is rolled back.           *)
Abandon(c) ==
    /\ call[c] # Idle
    /\ End(c)
    /\ UNCHANGED <<deal, limits, uses, members, now, history>>

Init ==
    /\ deal = [d \in DealIds |-> None]
    /\ limits = [d \in DealIds |-> None]
    /\ uses = [d \in DealIds |-> {}]
    /\ members = Users
    /\ now = 0
    /\ call = [c \in Calls |-> Idle]
    /\ edits = 0
    /\ forgotten = [d \in DealIds |-> 0]
    /\ cut = {} /\ overtaken = {}

Asked == {None} \cup 1 .. MaxLimit

Next ==
    \/ \E c \in Calls, d \in DealIds :
          \/ \E u \in Users : ApplyValidate(c, d, u)
          \/ \E x \in Products : AddProduct(c, d, x) \/ RemoveProduct(c, d, x)
          \/ \E x \in Products, m \in Asked : AddChecked(c, d, x, m)
          \/ Remove(c, d)
          \/ \E ch \in Change : Update(c, d, ch)
          \/ InsertFound(c, d) \/ UpdateOne(c, d) \/ DeleteOne(c, d)
    \/ \E c \in Calls :
          \/ \E x \in Products, k \in Key : AddDeal(c, x, k)
          \/ ApplyRecord(c) \/ AddAfterCheck(c) \/ FindForAdd(c)
          \/ FindForRemoveProduct(c) \/ FindGroup(c) \/ LimitTemplate(c) \/ Abandon(c)
    \/ \E d \in DealIds :
          \/ \E k \in Key : CreateDeal(d, k)
          \/ \E t, m \in Asked : SetDealLimits(d, t, m)
          \/ RemoveDeal(d)
    \/ \E u \in Users : DeleteUser(u)
    \/ Tick

Spec == Init /\ [][Next]_vars

-----------------------------------------------------------------------------
TypeOK ==
    /\ deal \in [DealIds -> Deal \cup {None, Deleted}]
    /\ limits \in [DealIds -> Limits \cup {None}]
    /\ uses \in [DealIds -> SUBSET Users]
    /\ members \subseteq Users
    /\ now \in Times
    /\ call \in [Calls -> Call]
    /\ edits \in Nat
    /\ forgotten \in [DealIds -> Nat]
    /\ cut \subseteq DealIds /\ overtaken \subseteq DealIds

(* Requests that have validated deal d and will record their use of it     *)
Validated(d) == {c \in Calls : call[c].pc = "record" /\ call[c].deal = d}

(* How far the total limit of a deal can be overshot.  The limit is        *)
(* checked when a use is validated (deal-validation.service.ts:80) and not *)
(* when it is recorded, so that all requests in flight may have passed the *)
(* check for the last use that is left; but none can pass it later.        *)
(* Excepted are deals whose limit was lowered to what was used already.    *)
OvershootBounded ==
    \A d \in DealIds :
        limits[d] # None /\ limits[d].total # None /\ d \notin cut =>
            limits[d].used + Cardinality(Validated(d)) < limits[d].total + Cardinality(Calls)

(* currentUsage, which the limit is compared with, counts every use once:  *)
(* a duplicate use is not counted, and a limit set later finds the uses    *)
(* before it.  It also counts the uses of users deleted since, whose rows  *)
(* are gone.                                                               *)
CounterCountsUses ==
    \A d \in DealIds :
        (IF limits[d] = None THEN 0 ELSE limits[d].used) = Cardinality(uses[d]) + forgotten[d]

(* No use or limit is recorded for a deal that has been removed while the  *)
(* request was in flight, nor a use by a user that was deleted.            *)
UsesHaveDealAndUser ==
    \A d \in DealIds : /\ uses[d] \subseteq members
                       /\ uses[d] # {} \/ limits[d] # None => IsDeal(d)

(* A deal ends before it starts only if an update wrote to it what it had  *)
(* checked against a row that has changed since, or if it was copied from  *)
(* such a template: addProduct does not compare the times again.           *)
BackwardsOnlyIfOvertaken ==
    \A d \in DealIds : IsDeal(d) /\ d \notin overtaken => deal[d].key.from < deal[d].key.to
=============================================================================
