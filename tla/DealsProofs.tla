---------------------------- MODULE DealsProofs -----------------------------
(***************************************************************************)
(* Proofs about Deals, for any number of deals, users and requests.        *)
(*                                                                         *)
(* The four safety properties are inductive but for what a request in      *)
(* flight knows (CallsKnow) and for the times it carries from its template *)
(* (TimesKnown).  Most steps are quiet: they change neither a table nor    *)
(* who is about to record a use.  NextCases puts them aside, so that each  *)
(* property is proved over the few steps that matter to it.                *)
(***************************************************************************)
EXTENDS Deals, FiniteSetTheorems, TLAPS

(* What request record q carries, by the stage it has reached.             *)
Knows(q) ==
    /\ q.pc = "record" => q.deal \in DealIds /\ q.user \in Users
    /\ q.pc \in {"add", "limit", "find"} => q.deal \in DealIds
    /\ q.pc = "add" => q.product \in Products /\ q.kind = "addProduct"
    /\ q.pc \in {"find", "insert", "update"} => q.seen \in Key
    /\ q.pc = "insert" \/ (q.pc = "find" /\ q.kind = "addProduct") => q.product \in Products
    /\ q.pc = "insert" /\ q.perUser # None => q.deal \in DealIds
    /\ q.pc = "limit" => q.perUser \in Nat
    /\ q.pc = "update" => q.kind = "update"
    /\ q.pc \in {"find", "update"} /\ q.kind = "update" =>
          /\ q.change \in Change
          /\ Changed(q.seen, q.change).from < Changed(q.seen, q.change).to

CallsKnow == \A c \in Calls : Knows(call[c])

(* The times a row will be inserted with are in order, or the template was *)
(* one of those that an update overtook.                                   *)
TimesKnown ==
    \A c \in Calls :
        LET q == call[c]
        IN  q.pc = "insert" \/ (q.pc = "find" /\ q.kind = "addProduct") =>
                q.seen.from < q.seen.to \/ q.deal \in overtaken

IInv ==
    /\ TypeOK /\ CallsKnow /\ TimesKnown
    /\ UsesHaveDealAndUser /\ CounterCountsUses /\ OvershootBounded /\ BackwardsOnlyIfOvertaken

-----------------------------------------------------------------------------
(* Helpers on the records.                                                 *)

LEMMA IdleCall == Idle \in Call /\ Knows(Idle)
BY DEF Idle, Call, Stage, Knows

LEMMA IsDealTyped ==
    ASSUME TypeOK, NEW d \in DealIds, IsDeal(d)
    PROVE  deal[d] \in Deal /\ deal[d].key \in Key /\ deal[d].product \in Products
BY DEF TypeOK, IsDeal, Deal

LEMMA ChangedTyped ==
    ASSUME NEW k \in Key, NEW ch \in Change
    PROVE  Changed(k, ch) \in Key
BY DEF Key, Change, Changed

LEMMA TimesAreIntegers ==
    ASSUME NEW k \in Key
    PROVE  k.from \in Int /\ k.to \in Int
BY DealsAssumption DEF Key, Times

(* A request that moves on: it keeps its type and knows what it must.      *)
LEMMA OneCall ==
    ASSUME TypeOK, CallsKnow, NEW c \in Calls, NEW q \in Call, Knows(q),
           call' = [call EXCEPT ![c] = q]
    PROVE  call' \in [Calls -> Call] /\ CallsKnow'
<1>1. call' \in [Calls -> Call]
  BY DEF TypeOK
<1>2. ASSUME NEW e \in Calls
      PROVE  Knows(call'[e])
  <2>1. CASE e = c
    BY <2>1 DEF TypeOK
  <2>2. CASE e # c
    BY <2>2 DEF TypeOK, CallsKnow
  <2> QED BY <2>1, <2>2
<1> QED BY <1>1, <1>2 DEF CallsKnow

-----------------------------------------------------------------------------
(* Each step keeps the types, and every request knows what it must.        *)

LEMMA CallStep ==
    ASSUME TypeOK, CallsKnow, Next
    PROVE  call' \in [Calls -> Call] /\ CallsKnow'
<1> USE DealsAssumption, DealRowsAssumption
<1>0. Idle \in Call /\ Knows(Idle)
  BY IdleCall
<1>a. ASSUME NEW c \in Calls, End(c)
      PROVE  call' \in [Calls -> Call] /\ CallsKnow'
  BY <1>0, <1>a, OneCall DEF End
<1>b. ASSUME UNCHANGED call
      PROVE  call' \in [Calls -> Call] /\ CallsKnow'
  BY <1>b DEF TypeOK, CallsKnow
<1>1. ASSUME NEW c \in Calls, NEW d \in DealIds, NEW u \in Users, ApplyValidate(c, d, u)
      PROVE  call' \in [Calls -> Call] /\ CallsKnow'
  <2> DEFINE q == [Idle EXCEPT !.pc = "record", !.kind = "apply", !.deal = d, !.user = u]
  <2>1. q \in Call /\ Knows(q)
    BY DEF Idle, Call, Stage, Kinds, Knows
  <2>2. call' = [call EXCEPT ![c] = q]
    BY <1>1 DEF ApplyValidate, Begin
  <2> HIDE DEF q
  <2> QED BY <2>1, <2>2, OneCall
<1>2. ASSUME NEW c \in Calls, NEW d \in DealIds, NEW x \in Products, AddProduct(c, d, x)
      PROVE  call' \in [Calls -> Call] /\ CallsKnow'
  <2> DEFINE q == [Idle EXCEPT !.pc = "find", !.kind = "addProduct", !.deal = d, !.product = x,
                              !.seen = deal[d].key, !.change = None]
  <2>0. IsDeal(d)
    BY <1>2 DEF AddProduct, ReadTemplate
  <2>1. q \in Call /\ Knows(q)
    BY <2>0, IsDealTyped DEF Idle, Call, Stage, Kinds, Knows
  <2>2. call' = [call EXCEPT ![c] = q]
    BY <1>2 DEF AddProduct, ReadTemplate, Begin
  <2> HIDE DEF q
  <2> QED BY <2>1, <2>2, OneCall
<1>3. ASSUME NEW c \in Calls, NEW d \in DealIds, NEW x \in Products, RemoveProduct(c, d, x)
      PROVE  call' \in [Calls -> Call] /\ CallsKnow'
  <2> DEFINE q == [Idle EXCEPT !.pc = "find", !.kind = "removeProduct", !.deal = d, !.product = x,
                              !.seen = deal[d].key, !.change = None]
  <2>0. IsDeal(d)
    BY <1>3 DEF RemoveProduct, ReadTemplate
  <2>1. q \in Call /\ Knows(q)
    BY <2>0, IsDealTyped DEF Idle, Call, Stage, Kinds, Knows
  <2>2. call' = [call EXCEPT ![c] = q]
    BY <1>3 DEF RemoveProduct, ReadTemplate, Begin
  <2> HIDE DEF q
  <2> QED BY <2>1, <2>2, OneCall
<1>4. ASSUME NEW c \in Calls, NEW d \in DealIds, Remove(c, d)
      PROVE  call' \in [Calls -> Call] /\ CallsKnow'
  <2> DEFINE q == [Idle EXCEPT !.pc = "find", !.kind = "remove", !.deal = d, !.product = None,
                              !.seen = deal[d].key, !.change = None]
  <2>0. IsDeal(d)
    BY <1>4 DEF Remove, ReadTemplate
  <2>1. q \in Call /\ Knows(q)
    BY <2>0, IsDealTyped DEF Idle, Call, Stage, Kinds, Knows
  <2>2. call' = [call EXCEPT ![c] = q]
    BY <1>4 DEF Remove, ReadTemplate, Begin
  <2> HIDE DEF q
  <2> QED BY <2>1, <2>2, OneCall
<1>5. ASSUME NEW c \in Calls, NEW d \in DealIds, NEW ch \in Change, Update(c, d, ch)
      PROVE  call' \in [Calls -> Call] /\ CallsKnow'
  <2> DEFINE q == [Idle EXCEPT !.pc = "find", !.kind = "update", !.deal = d, !.product = None,
                              !.seen = deal[d].key, !.change = ch]
  <2>0. IsDeal(d) /\ Changed(deal[d].key, ch).from < Changed(deal[d].key, ch).to
    BY <1>5 DEF Update, ReadTemplate
  <2>1. q \in Call /\ Knows(q)
    BY <2>0, IsDealTyped DEF Idle, Call, Stage, Kinds, Knows
  <2>2. call' = [call EXCEPT ![c] = q]
    BY <1>5 DEF Update, ReadTemplate, Begin
  <2> HIDE DEF q
  <2> QED BY <2>1, <2>2, OneCall
<1>6. ASSUME NEW c \in Calls, NEW d \in DealIds, NEW x \in Products, NEW m \in Asked,
             AddChecked(c, d, x, m)
      PROVE  call' \in [Calls -> Call] /\ CallsKnow'
  <2> DEFINE q == [Idle EXCEPT !.pc = "add", !.kind = "addProduct", !.deal = d,
                 !.product = x, !.perUser = m]
  <2>0. m \in Nat \cup {None}
    BY DEF Asked
  <2>1. q \in Call /\ Knows(q)
    BY <2>0 DEF Idle, Call, Stage, Kinds, Knows
  <2>2. call' = [call EXCEPT ![c] = q]
    BY <1>6 DEF AddChecked, Begin
  <2> HIDE DEF q
  <2> QED BY <2>1, <2>2, OneCall
<1>7. ASSUME NEW c \in Calls, AddAfterCheck(c)
      PROVE  call' \in [Calls -> Call] /\ CallsKnow'
  <2> DEFINE d == call[c].deal
             q == [call[c] EXCEPT !.pc = "find", !.seen = deal[d].key]
  <2>0. call[c] \in Call /\ Knows(call[c]) /\ call[c].pc = "add"
    BY <1>7 DEF TypeOK, CallsKnow, AddAfterCheck
  <2>1. CASE IsDeal(d)
    <3>1. d \in DealIds /\ deal[d].key \in Key
      BY <2>0, <2>1, IsDealTyped DEF Knows
    <3>2. q \in Call /\ Knows(q)
      BY <2>0, <3>1 DEF Call, Stage, Kinds, Knows
    <3>3. call' = [call EXCEPT ![c] = q]
      BY <1>7, <2>1 DEF AddAfterCheck
    <3> HIDE DEF q
    <3> QED BY <3>2, <3>3, OneCall
  <2>2. CASE ~IsDeal(d)
    BY <1>7, <2>2, <1>a DEF AddAfterCheck
  <2> QED BY <2>1, <2>2
<1>8. ASSUME NEW c \in Calls, NEW x \in Products, NEW k \in Key, AddDeal(c, x, k)
      PROVE  call' \in [Calls -> Call] /\ CallsKnow'
  <2> DEFINE q == [Idle EXCEPT !.pc = "insert", !.kind = "addProduct", !.product = x, !.seen = k]
  <2>1. q \in Call /\ Knows(q)
    BY DEF Idle, Call, Stage, Kinds, Knows
  <2>2. call' = [call EXCEPT ![c] = q]
    BY <1>8 DEF AddDeal, Begin
  <2> HIDE DEF q
  <2> QED BY <2>1, <2>2, OneCall
<1>9. ASSUME NEW c \in Calls, FindForAdd(c)
      PROVE  call' \in [Calls -> Call] /\ CallsKnow'
  <2> DEFINE q == [call[c] EXCEPT !.pc = "insert"]
  <2>0. /\ call[c] \in Call /\ Knows(call[c])
        /\ call[c].pc = "find" /\ call[c].kind = "addProduct"
    BY <1>9 DEF TypeOK, CallsKnow, FindForAdd
  <2>1. q \in Call /\ Knows(q)
    BY <2>0 DEF Call, Stage, Kinds, Knows
  <2>2. call' = [call EXCEPT ![c] = q] \/ End(c)
    BY <1>9 DEF FindForAdd, Goto
  <2> HIDE DEF q
  <2> QED BY <2>1, <2>2, <1>a, OneCall
<1>10. ASSUME NEW c \in Calls, NEW found, NEW pc, Found(c, found, pc), call[c].pc = "find",
              found \subseteq DealIds,
              pc = "delete" \/ (pc = "update" /\ call[c].kind = "update")
       PROVE  call' \in [Calls -> Call] /\ CallsKnow'
  <2> DEFINE q == [call[c] EXCEPT !.pc = pc, !.group = found]
  <2>0. call[c] \in Call /\ Knows(call[c])
    BY DEF TypeOK, CallsKnow
  <2>1. q \in Call
    BY <1>10, <2>0 DEF Call, Stage, Kinds
  <2>2. /\ q.pc = pc /\ q.kind = call[c].kind /\ q.seen = call[c].seen
        /\ q.change = call[c].change
    BY <2>0 DEF Call
  <2>3. Knows(q)
    <3> HIDE DEF q
    <3> QED BY <1>10, <2>0, <2>2 DEF Knows
  <2>4. call' = [call EXCEPT ![c] = q] \/ End(c)
    BY <1>10 DEF Found
  <2> HIDE DEF q
  <2> QED BY <2>1, <2>3, <2>4, <1>a, OneCall
<1>11. ASSUME NEW c \in Calls, FindForRemoveProduct(c)
       PROVE  call' \in [Calls -> Call] /\ CallsKnow'
  <2>1. call[c].pc = "find"
    BY <1>11 DEF FindForRemoveProduct
  <2>2. PICK found \in SUBSET DealIds : Found(c, found, "delete")
    BY <1>11 DEF FindForRemoveProduct, OfProduct
  <2> QED BY <2>1, <2>2, <1>10
<1>12. ASSUME NEW c \in Calls, FindGroup(c)
       PROVE  call' \in [Calls -> Call] /\ CallsKnow'
  <2>1. call[c].pc = "find"
    BY <1>12 DEF FindGroup
  <2>2. Group(call[c].seen) \subseteq DealIds
    BY DEF Group
  <2>3. CASE call[c].kind = "update"
    <3>1. Found(c, Group(call[c].seen), "update")
      BY <1>12, <2>3 DEF FindGroup
    <3> QED BY <2>1, <2>2, <2>3, <3>1, <1>10
  <2>4. CASE call[c].kind # "update"
    <3>1. Found(c, Group(call[c].seen), "delete")
      BY <1>12, <2>4 DEF FindGroup
    <3> QED BY <2>1, <2>2, <3>1, <1>10
  <2> QED BY <2>3, <2>4
<1>13. ASSUME NEW c \in Calls, NEW d \in DealIds, InsertFound(c, d)
       PROVE  call' \in [Calls -> Call] /\ CallsKnow'
  <2> DEFINE q == [call[c] EXCEPT !.pc = "limit"]
  <2>0. call[c] \in Call /\ Knows(call[c]) /\ call[c].pc = "insert"
    BY <1>13 DEF TypeOK, CallsKnow, InsertFound
  <2>1. CASE call[c].perUser = None
    BY <1>13, <2>1, <1>a DEF InsertFound
  <2>2. CASE call[c].perUser # None
    <3>1. q \in Call /\ Knows(q)
      BY <2>0, <2>2 DEF Call, Stage, Kinds, Knows
    <3>2. call' = [call EXCEPT ![c] = q]
      BY <1>13, <2>2 DEF InsertFound, Goto
    <3> HIDE DEF q
    <3> QED BY <3>1, <3>2, OneCall
  <2> QED BY <2>1, <2>2
<1>14. ASSUME NEW c \in Calls, NEW d \in DealIds, Written(c, d),
              call[c].pc \in {"update", "delete"}
       PROVE  call' \in [Calls -> Call] /\ CallsKnow'
  <2> DEFINE q == [call[c] EXCEPT !.group = call[c].group \ {d}]
  <2>0. call[c] \in Call /\ Knows(call[c])
    BY DEF TypeOK, CallsKnow
  <2>1. q \in Call /\ Knows(q)
    BY <2>0, <1>14 DEF Call, Knows
  <2>2. call' = [call EXCEPT ![c] = q] \/ End(c)
    BY <1>14 DEF Written
  <2> HIDE DEF q
  <2> QED BY <2>1, <2>2, <1>a, OneCall
<1>15. ASSUME NEW c \in Calls, NEW d \in DealIds, UpdateOne(c, d) \/ DeleteOne(c, d)
       PROVE  call' \in [Calls -> Call] /\ CallsKnow'
  BY <1>14, <1>15 DEF UpdateOne, DeleteOne
<1>16. ASSUME NEW c \in Calls, ApplyRecord(c) \/ LimitTemplate(c) \/ Abandon(c)
       PROVE  call' \in [Calls -> Call] /\ CallsKnow'
  BY <1>a, <1>16 DEF ApplyRecord, LimitTemplate, Abandon
<1>17. ASSUME NEW d \in DealIds, NEW k \in Key, CreateDeal(d, k)
       PROVE  call' \in [Calls -> Call] /\ CallsKnow'
  BY <1>b, <1>17 DEF CreateDeal
<1>18. ASSUME NEW d \in DealIds, NEW t \in Asked, NEW m \in Asked, SetDealLimits(d, t, m)
       PROVE  call' \in [Calls -> Call] /\ CallsKnow'
  BY <1>b, <1>18 DEF SetDealLimits
<1>19. ASSUME NEW d \in DealIds, RemoveDeal(d)
       PROVE  call' \in [Calls -> Call] /\ CallsKnow'
  BY <1>b, <1>19 DEF RemoveDeal
<1>20. ASSUME NEW u \in Users, DeleteUser(u)
       PROVE  call' \in [Calls -> Call] /\ CallsKnow'
  BY <1>b, <1>20 DEF DeleteUser
<1>21. ASSUME Tick
       PROVE  call' \in [Calls -> Call] /\ CallsKnow'
  BY <1>b, <1>21 DEF Tick
<1> QED
  BY <1>1, <1>2, <1>3, <1>4, <1>5, <1>6, <1>7, <1>8, <1>9, <1>11, <1>12, <1>13,
     <1>15, <1>16, <1>17, <1>18, <1>19, <1>20, <1>21 DEF Next

-----------------------------------------------------------------------------
(* A quiet step changes no table, and no request comes to hold a use it    *)
(* will record.                                                            *)

NoNewUse == \A c \in Calls : call'[c].pc = "record" => call'[c] = call[c]

Quiet == UNCHANGED <<deal, limits, uses, members, forgotten, cut, overtaken>> /\ NoNewUse

LEMMA Moved ==
    ASSUME TypeOK, NEW c \in Calls, NEW q, q.pc # "record",
           call' = [call EXCEPT ![c] = q]
    PROVE  NoNewUse
BY DEF TypeOK, NoNewUse

LEMMA Ended ==
    ASSUME TypeOK, NEW c \in Calls, End(c)
    PROVE  NoNewUse
<1>1. Idle.pc # "record"
  BY DEF Idle
<1> QED BY <1>1, Moved DEF End

LEMMA WrittenNoUse ==
    ASSUME TypeOK, NEW c \in Calls, NEW d, Written(c, d), call[c].pc # "record"
    PROVE  NoNewUse
<1> DEFINE q == [call[c] EXCEPT !.group = call[c].group \ {d}]
<1>1. q.pc # "record"
  BY DEF TypeOK, Call
<1>2. call' = [call EXCEPT ![c] = q] \/ End(c)
  BY DEF Written
<1> HIDE DEF q
<1> QED BY <1>1, <1>2, Moved, Ended

LEMMA QuietSteps ==
    ASSUME TypeOK, NEW c \in Calls,
           \/ \E d \in DealIds, x \in Products : AddProduct(c, d, x) \/ RemoveProduct(c, d, x)
           \/ \E d \in DealIds, x \in Products, m \in Asked : AddChecked(c, d, x, m)
           \/ \E d \in DealIds : Remove(c, d)
           \/ \E d \in DealIds, ch \in Change : Update(c, d, ch)
           \/ \E x \in Products, k \in Key : AddDeal(c, x, k)
           \/ AddAfterCheck(c) \/ FindForAdd(c) \/ FindForRemoveProduct(c)
           \/ FindGroup(c) \/ Abandon(c)
    PROVE  Quiet
<1> USE DEF history
<1>1. ASSUME NEW d \in DealIds, NEW kind, NEW x, NEW ch, ReadTemplate(c, d, kind, x, ch)
      PROVE  Quiet
  <2> DEFINE q == [Idle EXCEPT !.pc = "find", !.kind = kind, !.deal = d, !.product = x,
                               !.seen = deal[d].key, !.change = ch]
  <2>1. q.pc # "record"
    BY DEF Idle
  <2>2. call' = [call EXCEPT ![c] = q]
    BY <1>1 DEF ReadTemplate, Begin
  <2>3. NoNewUse
    <3> HIDE DEF q
    <3> QED BY <2>1, <2>2, Moved
  <2> QED BY <1>1, <2>3 DEF ReadTemplate, Quiet
<1>2. ASSUME NEW d \in DealIds, NEW x \in Products, NEW m \in Asked, AddChecked(c, d, x, m)
      PROVE  Quiet
  <2> DEFINE q == [Idle EXCEPT !.pc = "add", !.kind = "addProduct", !.deal = d,
                               !.product = x, !.perUser = m]
  <2>1. q.pc # "record"
    BY DEF Idle
  <2>2. call' = [call EXCEPT ![c] = q]
    BY <1>2 DEF AddChecked, Begin
  <2>3. NoNewUse
    <3> HIDE DEF q
    <3> QED BY <2>1, <2>2, Moved
  <2> QED BY <1>2, <2>3 DEF AddChecked, Quiet
<1>3. ASSUME NEW x \in Products, NEW k \in Key, AddDeal(c, x, k)
      PROVE  Quiet
  <2> DEFINE q == [Idle EXCEPT !.pc = "insert", !.kind = "addProduct", !.product = x, !.seen = k]
  <2>1. q.pc # "record"
    BY DEF Idle
  <2>2. call' = [call EXCEPT ![c] = q]
    BY <1>3 DEF AddDeal, Begin
  <2>3. NoNewUse
    <3> HIDE DEF q
    <3> QED BY <2>1, <2>2, Moved
  <2> QED BY <1>3, <2>3 DEF AddDeal, Quiet
<1>4. CASE AddAfterCheck(c)
  <2> DEFINE q == [call[c] EXCEPT !.pc = "find", !.seen = deal[call[c].deal].key]
  <2>1. q.pc # "record"
    BY DEF TypeOK, Call
  <2>2. call' = [call EXCEPT ![c] = q] \/ End(c)
    BY <1>4 DEF AddAfterCheck
  <2>3. NoNewUse
    <3> HIDE DEF q
    <3> QED BY <2>1, <2>2, Moved, Ended
  <2> QED BY <1>4, <2>3 DEF AddAfterCheck, Quiet
<1>5. CASE FindForAdd(c)
  <2> DEFINE q == [call[c] EXCEPT !.pc = "insert"]
  <2>1. q.pc # "record"
    BY DEF TypeOK, Call
  <2>2. call' = [call EXCEPT ![c] = q] \/ End(c)
    BY <1>5 DEF FindForAdd, Goto
  <2>3. NoNewUse
    <3> HIDE DEF q
    <3> QED BY <2>1, <2>2, Moved, Ended
  <2> QED BY <1>5, <2>3 DEF FindForAdd, Quiet
<1>6. ASSUME NEW found, NEW pc, pc # "record", Found(c, found, pc)
      PROVE  Quiet
  <2> DEFINE q == [call[c] EXCEPT !.pc = pc, !.group = found]
  <2>1. q.pc # "record"
    BY <1>6 DEF TypeOK, Call
  <2>2. call' = [call EXCEPT ![c] = q] \/ End(c)
    BY <1>6 DEF Found
  <2>3. NoNewUse
    <3> HIDE DEF q
    <3> QED BY <2>1, <2>2, Moved, Ended
  <2> QED BY <1>6, <2>3 DEF Found, Quiet
<1>7. CASE FindForRemoveProduct(c) \/ FindGroup(c)
  <2>1. \E found, pc : pc # "record" /\ Found(c, found, pc)
    BY <1>7 DEF FindForRemoveProduct, FindGroup
  <2> QED BY <1>6, <2>1
<1>8. CASE Abandon(c)
  <2>1. NoNewUse
    BY <1>8, Ended DEF Abandon
  <2> QED BY <1>8, <2>1 DEF Abandon, Quiet
<1> QED
  BY <1>1, <1>2, <1>3, <1>4, <1>5, <1>7, <1>8 DEF AddProduct, RemoveProduct, Remove, Update

(* The steps that matter to the tables.                                    *)
LEMMA NextCases ==
    ASSUME TypeOK, Next
    PROVE  \/ Quiet
           \/ \E c \in Calls, d \in DealIds, u \in Users : ApplyValidate(c, d, u)
           \/ \E c \in Calls : ApplyRecord(c) \/ LimitTemplate(c)
           \/ \E c \in Calls, d \in DealIds :
                 InsertFound(c, d) \/ UpdateOne(c, d) \/ DeleteOne(c, d)
           \/ \E d \in DealIds, k \in Key : CreateDeal(d, k)
           \/ \E d \in DealIds, t, m \in Asked : SetDealLimits(d, t, m)
           \/ \E d \in DealIds : RemoveDeal(d)
           \/ \E u \in Users : DeleteUser(u)
<1>1. Tick => Quiet
  BY DEF Tick, Quiet, NoNewUse, history
<1> QED BY <1>1, QuietSteps DEF Next

-----------------------------------------------------------------------------
(* What the statements that write a table write.                           *)

LEMMA LimitsWritten ==
    ASSUME TypeOK, NEW d \in DealIds, NEW t \in Nat \cup {None}, NEW m \in Nat \cup {None},
           WriteLimits(d, t, m)
    PROVE  /\ WithLimits(d, t, m) \in Limits
           /\ WithLimits(d, t, m).used = IF limits[d] = None THEN 0 ELSE limits[d].used
           /\ WithLimits(d, t, m).total =
                 IF t # None THEN t ELSE IF limits[d] = None THEN None ELSE limits[d].total
           /\ limits' \in [DealIds -> Limits \cup {None}]
           /\ limits'[d] = WithLimits(d, t, m)
           /\ \A e \in DealIds \ {d} : limits'[e] = limits[e]
           /\ cut' \subseteq DealIds
           /\ \A e \in DealIds \ {d} : e \in cut' <=> e \in cut
           /\ t = None => cut' = cut
           /\ t # None => (d \in cut' <=> t <= WithLimits(d, t, m).used)
<1>1. /\ WithLimits(d, t, m) \in Limits
      /\ WithLimits(d, t, m).used = IF limits[d] = None THEN 0 ELSE limits[d].used
      /\ WithLimits(d, t, m).total =
            IF t # None THEN t ELSE IF limits[d] = None THEN None ELSE limits[d].total
  <2>1. CASE limits[d] = None
    BY <2>1 DEF WithLimits, Limits
  <2>2. CASE limits[d] # None
    <3>1. limits[d] \in Limits
      BY <2>2 DEF TypeOK
    <3> QED BY <2>2, <3>1 DEF WithLimits, Limits
  <2> QED BY <2>1, <2>2
<1> DEFINE w == WithLimits(d, t, m)
<1>2. limits' = [limits EXCEPT ![d] = w]
  BY DEF WriteLimits
<1>3. cut' = IF t = None THEN cut ELSE IF t <= w.used THEN cut \cup {d} ELSE cut \ {d}
  BY DEF WriteLimits
<1> HIDE DEF w
<1>4. w \in Limits
  BY <1>1 DEF w
<1>5. /\ limits' \in [DealIds -> Limits \cup {None}] /\ limits'[d] = w
      /\ \A e \in DealIds \ {d} : limits'[e] = limits[e]
  BY <1>2, <1>4 DEF TypeOK
<1>6. /\ cut' \subseteq DealIds
      /\ \A e \in DealIds \ {d} : e \in cut' <=> e \in cut
      /\ t = None => cut' = cut
      /\ t # None => (d \in cut' <=> t <= w.used)
  BY <1>3 DEF TypeOK
<1> QED BY <1>1, <1>5, <1>6 DEF w

LEMMA CountedOne ==
    ASSUME TypeOK, NEW d \in DealIds
    PROVE  /\ Counted(d) \in Limits
           /\ Counted(d).used = IF limits[d] = None THEN 1 ELSE limits[d].used + 1
           /\ Counted(d).total = IF limits[d] = None THEN None ELSE limits[d].total
<1>1. CASE limits[d] = None
  BY <1>1 DEF Counted, Limits
<1>2. CASE limits[d] # None
  <2>1. limits[d] \in Limits
    BY <1>2 DEF TypeOK
  <2> QED BY <1>2, <2>1 DEF Counted, Limits
<1> QED BY <1>1, <1>2

(* The limits a request asks for are numbers.                              *)
LEMMA AskedTyped == \A t \in Asked : t \in Nat \cup {None}
BY DealsAssumption DEF Asked

LEMMA ClockStep ==
    ASSUME TypeOK, Next
    PROVE  now' \in Times /\ edits' \in Nat
<1> DEFINE Timely == now' = now /\ edits' \in {edits, edits + 1}
<1> USE DEF history, EditAllowed
<1>1. CASE Tick
  BY <1>1, DealsAssumption DEF Tick, Times, TypeOK
<1>2. ASSUME NEW c \in Calls, NEW d \in DealIds, NEW kind, NEW x, NEW ch,
             ReadTemplate(c, d, kind, x, ch)
      PROVE  Timely
  BY <1>2 DEF ReadTemplate
<1>3. ASSUME NEW c \in Calls, NEW d \in DealIds,
             \/ \E u \in Users : ApplyValidate(c, d, u)
             \/ \E x \in Products, m \in Asked : AddChecked(c, d, x, m)
             \/ InsertFound(c, d) \/ UpdateOne(c, d) \/ DeleteOne(c, d)
      PROVE  Timely
  BY <1>3 DEF ApplyValidate, AddChecked, InsertFound, UpdateOne, DeleteOne
<1>4. ASSUME NEW c \in Calls,
             \/ \E x \in Products, k \in Key : AddDeal(c, x, k)
             \/ ApplyRecord(c) \/ AddAfterCheck(c) \/ FindForAdd(c)
             \/ FindForRemoveProduct(c) \/ FindGroup(c) \/ LimitTemplate(c) \/ Abandon(c)
      PROVE  Timely
  BY <1>4 DEF AddDeal, ApplyRecord, AddAfterCheck, FindForAdd, FindForRemoveProduct, FindGroup,
              Found, LimitTemplate, Abandon
<1>5. ASSUME NEW d \in DealIds,
             \/ \E k \in Key : CreateDeal(d, k)
             \/ \E t, m \in Asked : SetDealLimits(d, t, m)
             \/ RemoveDeal(d)
      PROVE  Timely
  BY <1>5 DEF CreateDeal, SetDealLimits, RemoveDeal
<1>6. ASSUME NEW u \in Users, DeleteUser(u)
      PROVE  Timely
  BY <1>6 DEF DeleteUser
<1>7. Tick \/ Timely
  BY <1>2, <1>3, <1>4, <1>5, <1>6 DEF Next, AddProduct, RemoveProduct, Remove, Update
<1> QED BY <1>1, <1>7 DEF TypeOK

Tables == /\ deal \in [DealIds -> Deal \cup {None, Deleted}]
          /\ limits \in [DealIds -> Limits \cup {None}]
          /\ uses \in [DealIds -> SUBSET Users]
          /\ members \subseteq Users
          /\ forgotten \in [DealIds -> Nat]
          /\ cut \subseteq DealIds /\ overtaken \subseteq DealIds

LEMMA TablesStep ==
    ASSUME TypeOK, CallsKnow, Next
    PROVE  Tables'
<1> USE DEF history
<1>0. Tables
  BY DEF TypeOK, Tables
<1>1. CASE Quiet
  BY <1>0, <1>1 DEF Quiet, Tables
<1>2. ASSUME NEW c \in Calls, NEW d \in DealIds, NEW u \in Users, ApplyValidate(c, d, u)
      PROVE  Tables'
  BY <1>0, <1>2 DEF ApplyValidate, Tables
<1>3. ASSUME NEW c \in Calls, ApplyRecord(c)
      PROVE  Tables'
  <2>1. call[c].deal \in DealIds /\ call[c].user \in Users
    BY <1>3 DEF ApplyRecord, CallsKnow, Knows
  <2>2. Counted(call[c].deal) \in Limits
    BY <2>1, CountedOne
  <2> QED BY <1>0, <1>3, <2>1, <2>2 DEF ApplyRecord, Tables
<1>4. ASSUME NEW c \in Calls, LimitTemplate(c)
      PROVE  Tables'
  <2>1. call[c].deal \in DealIds /\ call[c].perUser \in Nat \cup {None}
    BY <1>4 DEF LimitTemplate, CallsKnow, Knows
  <2> QED BY <1>0, <1>4, <2>1, LimitsWritten DEF LimitTemplate, Tables
<1>5. ASSUME NEW c \in Calls, NEW d \in DealIds, InsertFound(c, d)
      PROVE  Tables'
  <2>1. call[c].product \in Products /\ call[c].seen \in Key
    BY <1>5 DEF InsertFound, CallsKnow, Knows
  <2>2. [product |-> call[c].product, key |-> call[c].seen] \in Deal
    BY <2>1 DEF Deal
  <2> QED BY <1>0, <1>5, <2>2 DEF InsertFound, Insert, Tables
<1>6. ASSUME NEW c \in Calls, NEW d \in DealIds, UpdateOne(c, d)
      PROVE  Tables'
  <2>1. CASE IsDeal(d)
    <3>1. call[c].change \in Change
      BY <1>6 DEF UpdateOne, CallsKnow, Knows
    <3>2. [product |-> deal[d].product, key |-> Changed(deal[d].key, call[c].change)] \in Deal
      BY <2>1, <3>1, IsDealTyped, ChangedTyped DEF Deal
    <3> QED BY <1>0, <1>6, <2>1, <3>2 DEF UpdateOne, Tables
  <2>2. CASE ~IsDeal(d)
    BY <1>0, <1>6, <2>2 DEF UpdateOne, Tables
  <2> QED BY <2>1, <2>2
<1>7. ASSUME NEW c \in Calls, NEW d \in DealIds, DeleteOne(c, d)
      PROVE  Tables'
  BY <1>0, <1>7 DEF DeleteOne, Delete, Tables
<1>8. ASSUME NEW d \in DealIds, NEW k \in Key, CreateDeal(d, k)
      PROVE  Tables'
  <2>1. [product |-> Placeholder, key |-> k] \in Deal
    BY DealsAssumption DEF Deal
  <2> QED BY <1>0, <1>8, <2>1 DEF CreateDeal, Insert, Tables
<1>9. ASSUME NEW d \in DealIds, NEW t \in Asked, NEW m \in Asked, SetDealLimits(d, t, m)
      PROVE  Tables'
  BY <1>0, <1>9, LimitsWritten, AskedTyped DEF SetDealLimits, Tables
<1>10. ASSUME NEW d \in DealIds, RemoveDeal(d)
       PROVE  Tables'
  BY <1>0, <1>10 DEF RemoveDeal, Delete, Tables
<1>11. ASSUME NEW u \in Users, DeleteUser(u)
       PROVE  Tables'
  BY <1>0, <1>11 DEF DeleteUser, Tables
<1> QED
  BY <1>1, <1>2, <1>3, <1>4, <1>5, <1>6, <1>7, <1>8, <1>9, <1>10, <1>11, NextCases

LEMMA TypeStep ==
    ASSUME TypeOK, CallsKnow, Next
    PROVE  TypeOK'
BY CallStep, ClockStep, TablesStep DEF TypeOK, Tables

-----------------------------------------------------------------------------
(* Uses belong to deals and users that exist.                              *)

LEMMA UsesStep ==
    ASSUME TypeOK, CallsKnow, UsesHaveDealAndUser, Next
    PROVE  UsesHaveDealAndUser'
<1> USE DEF history
<1>0. ASSUME NEW d \in DealIds
      PROVE  uses[d] \subseteq members /\ (uses[d] # {} \/ limits[d] # None => IsDeal(d))
  BY DEF UsesHaveDealAndUser
<1>1. CASE Quiet
  BY <1>1 DEF Quiet, UsesHaveDealAndUser, IsDeal
<1>2. ASSUME NEW c \in Calls, NEW d \in DealIds, NEW u \in Users, ApplyValidate(c, d, u)
      PROVE  UsesHaveDealAndUser'
  BY <1>2 DEF ApplyValidate, UsesHaveDealAndUser, IsDeal
<1>3. ASSUME NEW c \in Calls, ApplyRecord(c)
      PROVE  UsesHaveDealAndUser'
  <2> DEFINE d == call[c].deal
             u == call[c].user
  <2>1. CASE IsDeal(d) /\ u \in members \ uses[d]
    <3>1. /\ uses' = [uses EXCEPT ![d] = uses[d] \cup {u}]
          /\ limits' = [limits EXCEPT ![d] = Counted(d)]
          /\ UNCHANGED <<deal, members>>
      BY <1>3, <2>1 DEF ApplyRecord
    <3> HIDE DEF d, u
    <3> QED BY <1>0, <2>1, <3>1 DEF UsesHaveDealAndUser, IsDeal, TypeOK
  <2>2. CASE ~(IsDeal(d) /\ u \in members \ uses[d])
    <3>1. UNCHANGED <<uses, limits, deal, members>>
      BY <1>3, <2>2 DEF ApplyRecord
    <3> QED BY <3>1 DEF UsesHaveDealAndUser, IsDeal
  <2> QED BY <2>1, <2>2
<1>4. ASSUME NEW d \in DealIds, NEW t, NEW m, IsDeal(d), WriteLimits(d, t, m),
             UNCHANGED <<deal, uses, members>>
      PROVE  UsesHaveDealAndUser'
  BY <1>0, <1>4 DEF WriteLimits, UsesHaveDealAndUser, IsDeal, TypeOK
<1>5. ASSUME NEW c \in Calls, LimitTemplate(c)
      PROVE  UsesHaveDealAndUser'
  <2>1. call[c].deal \in DealIds
    BY <1>5 DEF LimitTemplate, CallsKnow, Knows
  <2>2. CASE IsDeal(call[c].deal)
    BY <1>4, <1>5, <2>1, <2>2 DEF LimitTemplate
  <2>3. CASE ~IsDeal(call[c].deal)
    BY <1>5, <2>3 DEF LimitTemplate, UsesHaveDealAndUser, IsDeal
  <2> QED BY <2>2, <2>3
<1>6. ASSUME NEW d \in DealIds, NEW t, NEW m, SetDealLimits(d, t, m)
      PROVE  UsesHaveDealAndUser'
  BY <1>4, <1>6 DEF SetDealLimits
<1>7. ASSUME NEW d \in DealIds, NEW row \in Deal, deal' = [deal EXCEPT ![d] = row],
             UNCHANGED <<limits, uses, members>>
      PROVE  UsesHaveDealAndUser'
  BY <1>0, <1>7, DealRowsAssumption DEF UsesHaveDealAndUser, IsDeal, TypeOK
<1>8. ASSUME NEW d \in DealIds, NEW x \in Products, NEW k \in Key, Insert(d, x, k),
             UNCHANGED <<limits, uses, members>>
      PROVE  UsesHaveDealAndUser'
  <2>1. [product |-> x, key |-> k] \in Deal
    BY DEF Deal
  <2> QED BY <1>7, <1>8, <2>1 DEF Insert
<1>9. ASSUME NEW c \in Calls, NEW d \in DealIds, InsertFound(c, d)
      PROVE  UsesHaveDealAndUser'
  <2>1. call[c].product \in Products /\ call[c].seen \in Key
    BY <1>9 DEF InsertFound, CallsKnow, Knows
  <2> QED BY <1>8, <1>9, <2>1 DEF InsertFound
<1>10. ASSUME NEW d \in DealIds, NEW k \in Key, CreateDeal(d, k)
       PROVE  UsesHaveDealAndUser'
  BY <1>8, <1>10, DealsAssumption DEF CreateDeal
<1>11. ASSUME NEW c \in Calls, NEW d \in DealIds, UpdateOne(c, d)
       PROVE  UsesHaveDealAndUser'
  <2>1. CASE IsDeal(d)
    <3>1. call[c].change \in Change
      BY <1>11 DEF UpdateOne, CallsKnow, Knows
    <3>2. [product |-> deal[d].product, key |-> Changed(deal[d].key, call[c].change)] \in Deal
      BY <2>1, <3>1, IsDealTyped, ChangedTyped DEF Deal
    <3> QED BY <1>7, <1>11, <2>1, <3>2 DEF UpdateOne
  <2>2. CASE ~IsDeal(d)
    BY <1>11, <2>2 DEF UpdateOne, UsesHaveDealAndUser, IsDeal
  <2> QED BY <2>1, <2>2
<1>12. ASSUME NEW d \in DealIds, Delete(d), UNCHANGED members
       PROVE  UsesHaveDealAndUser'
  BY <1>0, <1>12 DEF Delete, UsesHaveDealAndUser, IsDeal, TypeOK
<1>13. ASSUME NEW c \in Calls, NEW d \in DealIds, DeleteOne(c, d)
       PROVE  UsesHaveDealAndUser'
  <2>1. CASE IsDeal(d)
    BY <1>12, <1>13, <2>1 DEF DeleteOne
  <2>2. CASE ~IsDeal(d)
    BY <1>13, <2>2 DEF DeleteOne, UsesHaveDealAndUser, IsDeal
  <2> QED BY <2>1, <2>2
<1>14. ASSUME NEW d \in DealIds, RemoveDeal(d)
       PROVE  UsesHaveDealAndUser'
  BY <1>12, <1>14 DEF RemoveDeal
<1>15. ASSUME NEW u \in Users, DeleteUser(u)
       PROVE  UsesHaveDealAndUser'
  BY <1>0, <1>15 DEF DeleteUser, UsesHaveDealAndUser, IsDeal
<1> QED
  BY <1>1, <1>2, <1>3, <1>5, <1>6, <1>9, <1>10, <1>11, <1>13, <1>14, <1>15, NextCases

-----------------------------------------------------------------------------
(* The counter of a deal counts its uses.                                  *)

CounterAt(d) == IF limits[d] = None THEN 0 ELSE limits[d].used

LEMMA UsesFinite ==
    ASSUME TypeOK, NEW d \in DealIds
    PROVE  IsFiniteSet(uses[d]) /\ Cardinality(uses[d]) \in Nat
BY DealsAssumption, FS_Subset, FS_CardinalityType DEF TypeOK

LEMMA CounterStep ==
    ASSUME TypeOK, CallsKnow, UsesHaveDealAndUser, CounterCountsUses, Next
    PROVE  CounterCountsUses'
<1> USE DEF history
<1>0. ASSUME NEW d \in DealIds
      PROVE  /\ CounterAt(d) = Cardinality(uses[d]) + forgotten[d]
             /\ uses[d] \subseteq members
             /\ IsFiniteSet(uses[d]) /\ Cardinality(uses[d]) \in Nat /\ forgotten[d] \in Nat
  BY UsesFinite DEF CounterCountsUses, CounterAt, UsesHaveDealAndUser, TypeOK
<1>1. ASSUME UNCHANGED <<limits, uses, forgotten>>
      PROVE  CounterCountsUses'
  BY <1>1 DEF CounterCountsUses
<1>2. ASSUME NEW c \in Calls, ApplyRecord(c)
      PROVE  CounterCountsUses'
  <2>0. PICK d \in DealIds, u \in Users : d = call[c].deal /\ u = call[c].user
    BY <1>2 DEF ApplyRecord, CallsKnow, Knows
  <2>1. CASE IsDeal(d) /\ u \in members \ uses[d]
    <3>1. /\ uses' = [uses EXCEPT ![d] = uses[d] \cup {u}]
          /\ limits' = [limits EXCEPT ![d] = Counted(d)]
          /\ UNCHANGED forgotten
      BY <1>2, <2>0, <2>1 DEF ApplyRecord
    <3>2. Cardinality(uses[d] \cup {u}) = Cardinality(uses[d]) + 1
      BY <1>0, <2>0, <2>1, FS_AddElement
    <3>3. Counted(d) # None /\ Counted(d).used = CounterAt(d) + 1
      BY <2>0, CountedOne, DealRowsAssumption DEF CounterAt
    <3>4. limits'[d] = Counted(d) /\ uses'[d] = uses[d] \cup {u}
      BY <2>0, <3>1 DEF TypeOK
    <3>5. \A e \in DealIds \ {d} : limits'[e] = limits[e] /\ uses'[e] = uses[e]
      BY <3>1 DEF TypeOK
    <3>6. ASSUME NEW e \in DealIds
          PROVE  (IF limits'[e] = None THEN 0 ELSE limits'[e].used)
                    = Cardinality(uses'[e]) + forgotten'[e]
      <4>1. CASE e = d
        <5>1. CounterAt(d) = Cardinality(uses[d]) + forgotten[d] /\ forgotten[d] \in Nat
              /\ Cardinality(uses[d]) \in Nat
          BY <1>0
        <5>2. Cardinality(uses'[d]) = Cardinality(uses[d]) + 1
          BY <3>2, <3>4
        <5>3. limits'[d] # None /\ limits'[d].used = CounterAt(d) + 1
          BY <3>3, <3>4
        <5>4. forgotten'[d] = forgotten[d]
          BY <3>1
        <5> QED BY <4>1, <5>1, <5>2, <5>3, <5>4
      <4>2. CASE e # d
        BY <1>0, <3>1, <3>5, <4>2 DEF CounterAt
      <4> QED BY <4>1, <4>2
    <3> QED BY <3>6 DEF CounterCountsUses
  <2>2. CASE ~(IsDeal(d) /\ u \in members \ uses[d])
    BY <1>1, <1>2, <2>0, <2>2 DEF ApplyRecord
  <2> QED BY <2>1, <2>2
<1>3. ASSUME NEW d \in DealIds, NEW t \in Nat \cup {None}, NEW m \in Nat \cup {None},
             WriteLimits(d, t, m), UNCHANGED <<uses, forgotten>>
      PROVE  CounterCountsUses'
  <2>1. /\ limits'[d] # None /\ limits'[d].used = CounterAt(d)
        /\ \A e \in DealIds \ {d} : limits'[e] = limits[e]
    BY <1>3, LimitsWritten, DealRowsAssumption DEF CounterAt
  <2> QED BY <1>0, <1>3, <2>1 DEF CounterCountsUses, CounterAt
<1>4. ASSUME NEW c \in Calls, LimitTemplate(c)
      PROVE  CounterCountsUses'
  <2>1. call[c].deal \in DealIds /\ call[c].perUser \in Nat
    BY <1>4 DEF LimitTemplate, CallsKnow, Knows
  <2> QED BY <1>1, <1>3, <1>4, <2>1 DEF LimitTemplate
<1>5. ASSUME NEW d \in DealIds, NEW t \in Asked, NEW m \in Asked, SetDealLimits(d, t, m)
      PROVE  CounterCountsUses'
  BY <1>3, <1>5, AskedTyped DEF SetDealLimits
<1>6. ASSUME NEW d \in DealIds, Delete(d)
      PROVE  CounterCountsUses'
  <2>1. /\ limits'[d] = None /\ uses'[d] = {} /\ forgotten'[d] = 0
        /\ \A e \in DealIds \ {d} : /\ limits'[e] = limits[e] /\ uses'[e] = uses[e]
                                    /\ forgotten'[e] = forgotten[e]
    BY <1>6 DEF Delete, TypeOK
  <2>2. Cardinality({}) = 0
    BY FS_EmptySet
  <2>3. ASSUME NEW e \in DealIds
        PROVE  (IF limits'[e] = None THEN 0 ELSE limits'[e].used)
                  = Cardinality(uses'[e]) + forgotten'[e]
    <3>1. CASE e = d
      BY <2>1, <2>2, <3>1
    <3>2. CASE e # d
      BY <1>0, <2>1, <3>2 DEF CounterAt
    <3> QED BY <3>1, <3>2
  <2> QED BY <2>3 DEF CounterCountsUses
<1>7. ASSUME NEW c \in Calls, NEW d \in DealIds, DeleteOne(c, d)
      PROVE  CounterCountsUses'
  BY <1>1, <1>6, <1>7 DEF DeleteOne
<1>8. ASSUME NEW u \in Users, DeleteUser(u)
      PROVE  CounterCountsUses'
  <2>1. ASSUME NEW d \in DealIds
        PROVE  Cardinality(uses'[d]) + forgotten'[d] = Cardinality(uses[d]) + forgotten[d]
    <3>1. CASE u \in uses[d]
      <4>1. Cardinality(uses[d] \ {u}) = Cardinality(uses[d]) - 1
        BY <1>0, <3>1, FS_RemoveElement
      <4>2. uses'[d] = uses[d] \ {u} /\ forgotten'[d] = forgotten[d] + 1
        BY <1>8, <3>1 DEF DeleteUser
      <4> QED BY <1>0, <4>1, <4>2
    <3>2. CASE u \notin uses[d]
      <4>1. uses'[d] = uses[d] /\ forgotten'[d] = forgotten[d]
        BY <1>8, <3>2 DEF DeleteUser
      <4> QED BY <4>1
    <3> QED BY <3>1, <3>2
  <2> QED BY <1>0, <1>8, <2>1 DEF DeleteUser, CounterCountsUses, CounterAt
<1>9. ASSUME \/ Quiet
             \/ \E c \in Calls, d \in DealIds, u \in Users : ApplyValidate(c, d, u)
             \/ \E c \in Calls, d \in DealIds : InsertFound(c, d) \/ UpdateOne(c, d)
             \/ \E d \in DealIds, k \in Key : CreateDeal(d, k)
      PROVE  CounterCountsUses'
  BY <1>1, <1>9 DEF Quiet, ApplyValidate, InsertFound, UpdateOne, CreateDeal
<1>10. ASSUME NEW d \in DealIds, RemoveDeal(d)
       PROVE  CounterCountsUses'
  BY <1>6, <1>10 DEF RemoveDeal
<1> QED
  BY <1>2, <1>4, <1>5, <1>7, <1>8, <1>9, <1>10, NextCases

-----------------------------------------------------------------------------
(* A limit is overshot by no more than the requests in flight.             *)

LEMMA ValidatedFinite ==
    ASSUME NEW d
    PROVE  /\ IsFiniteSet(Validated(d)) /\ Cardinality(Validated(d)) \in Nat
           /\ Cardinality(Validated(d)) <= Cardinality(Calls) /\ Cardinality(Calls) \in Nat
BY DealsAssumption, FS_Subset, FS_CardinalityType DEF Validated

(* Where no request comes to hold a use, those that do get no more.        *)
LEMMA ValidatedShrinks ==
    ASSUME NoNewUse, NEW d
    PROVE  /\ IsFiniteSet(Validated(d)') /\ Cardinality(Validated(d)') \in Nat
           /\ Cardinality(Validated(d)') <= Cardinality(Validated(d))
<1>1. Validated(d)' \subseteq Validated(d)
  BY DEF Validated, NoNewUse
<1> QED BY <1>1, ValidatedFinite, FS_Subset, FS_CardinalityType

LEMMA OvershootStep ==
    ASSUME TypeOK, CallsKnow, OvershootBounded, Next
    PROVE  OvershootBounded'
<1> USE DEF history
<1> DEFINE Limited(d) == limits[d] # None /\ limits[d].total # None /\ d \notin cut
<1>0. ASSUME NEW d \in DealIds
      PROVE  /\ Limited(d) => limits[d].used + Cardinality(Validated(d))
                                < limits[d].total + Cardinality(Calls)
             /\ limits[d] # None => limits[d] \in Limits
             /\ Cardinality(Validated(d)) \in Nat /\ Cardinality(Calls) \in Nat
             /\ Cardinality(Validated(d)) <= Cardinality(Calls)
  BY ValidatedFinite DEF OvershootBounded, TypeOK
<1>1. ASSUME NoNewUse, UNCHANGED cut, NEW d \in DealIds,
             limits'[d] = limits[d] \/ limits'[d] = None,
             Limited(d)'
      PROVE  limits'[d].used + Cardinality(Validated(d)')
                < limits'[d].total + Cardinality(Calls)
  <2>1. limits'[d] = limits[d] /\ Limited(d) /\ limits[d] \in Limits
    BY <1>0, <1>1
  <2>2. limits[d].used \in Nat /\ limits[d].total \in Nat
    BY <2>1 DEF Limits
  <2> QED BY <1>0, <1>1, <2>1, <2>2, ValidatedShrinks
<1>2. ASSUME NoNewUse, UNCHANGED cut,
             \A d \in DealIds : limits'[d] = limits[d] \/ limits'[d] = None
      PROVE  OvershootBounded'
  BY <1>1, <1>2 DEF OvershootBounded
<1>3. ASSUME NEW c \in Calls, NEW d \in DealIds, NEW u \in Users, ApplyValidate(c, d, u)
      PROVE  OvershootBounded'
  <2>1. call[c] = Idle /\ UNCHANGED <<limits, cut>>
    BY <1>3 DEF ApplyValidate, Begin
  <2> DEFINE q == [Idle EXCEPT !.pc = "record", !.kind = "apply", !.deal = d, !.user = u]
  <2>2. call' = [call EXCEPT ![c] = q] /\ q.deal = d /\ Idle.pc = "idle"
    BY <1>3 DEF ApplyValidate, Begin, Idle
  <2>3. ASSUME NEW e \in DealIds, e # d
        PROVE  Validated(e)' = Validated(e)
    <3> HIDE DEF q
    <3> QED BY <2>1, <2>2, <2>3 DEF Validated, TypeOK
  <2>4. ASSUME Limited(d)'
        PROVE  limits'[d].used + Cardinality(Validated(d)')
                  < limits'[d].total + Cardinality(Calls)
    <3>1. limits[d].used < limits[d].total
      BY <1>3, <2>1, <2>4 DEF ApplyValidate, WithinLimits
    <3>2. limits[d].used \in Nat /\ limits[d].total \in Nat
      BY <1>0, <2>1, <2>4 DEF Limits
    <3>3. Validated(d)' \subseteq Calls
      BY DEF Validated
    <3>4. /\ Cardinality(Validated(d)') \in Nat
          /\ Cardinality(Validated(d)') <= Cardinality(Calls)
      BY <3>3, DealsAssumption, FS_Subset, FS_CardinalityType
    <3> QED BY <1>0, <2>1, <3>1, <3>2, <3>4
  <2> QED BY <1>0, <2>1, <2>3, <2>4 DEF OvershootBounded
<1>4. ASSUME NEW c \in Calls, ApplyRecord(c)
      PROVE  OvershootBounded'
  <2>a. PICK d \in DealIds, u \in Users : d = call[c].deal /\ u = call[c].user
    BY <1>4 DEF ApplyRecord, CallsKnow, Knows
  <2>0. NoNewUse /\ UNCHANGED cut /\ call[c].pc = "record"
    BY <1>4, Ended DEF ApplyRecord
  <2>1. CASE IsDeal(d) /\ u \in members \ uses[d]
    <3>1. limits' = [limits EXCEPT ![d] = Counted(d)]
      BY <1>4, <2>a, <2>1 DEF ApplyRecord
    <3>2. call' = [call EXCEPT ![c] = Idle]
      BY <1>4 DEF ApplyRecord, End
    <3>3. c \in Validated(d)
      BY <2>a, <2>0 DEF Validated
    <3>4. Validated(d)' = Validated(d) \ {c}
      BY <3>2 DEF Validated, Idle, TypeOK
    <3>5. Cardinality(Validated(d)') = Cardinality(Validated(d)) - 1
      BY <3>3, <3>4, ValidatedFinite, FS_RemoveElement
    <3>6. limits'[d] = Counted(d) /\ \A e \in DealIds \ {d} : limits'[e] = limits[e]
      BY <2>0, <3>1 DEF TypeOK
    <3>7. ASSUME Limited(d)'
          PROVE  limits'[d].used + Cardinality(Validated(d)')
                    < limits'[d].total + Cardinality(Calls)
      <4>1. limits[d] # None /\ Counted(d).used = limits[d].used + 1
            /\ Counted(d).total = limits[d].total
        BY <2>0, <3>6, <3>7, CountedOne
      <4>2. Limited(d) /\ limits[d].used \in Nat /\ limits[d].total \in Nat
        BY <1>0, <2>0, <3>6, <3>7, <4>1 DEF Limits
      <4> HIDE DEF Limited
      <4> QED BY <1>0, <2>0, <3>5, <3>6, <4>1, <4>2
    <3> QED BY <1>1, <2>0, <3>6, <3>7 DEF OvershootBounded
  <2>2. CASE ~(IsDeal(d) /\ u \in members \ uses[d])
    BY <1>2, <1>4, <2>a, <2>0, <2>2 DEF ApplyRecord
  <2> QED BY <2>1, <2>2
<1>5. ASSUME NEW d \in DealIds, NEW t \in Nat \cup {None}, NEW m \in Nat \cup {None},
             WriteLimits(d, t, m), NoNewUse
      PROVE  OvershootBounded'
  <2>1. \A e \in DealIds \ {d} : limits'[e] = limits[e] /\ (e \in cut' <=> e \in cut)
    BY <1>5, LimitsWritten
  <2>2. ASSUME NEW e \in DealIds, e # d, Limited(e)'
        PROVE  limits'[e].used + Cardinality(Validated(e)')
                  < limits'[e].total + Cardinality(Calls)
    <3>1. limits'[e] = limits[e] /\ Limited(e)
      BY <2>1, <2>2
    <3>2. limits[e].used \in Nat /\ limits[e].total \in Nat
      BY <1>0, <3>1 DEF Limits
    <3> HIDE DEF Limited
    <3> QED BY <1>0, <1>5, <3>1, <3>2, ValidatedShrinks
  <2>3. ASSUME Limited(d)'
        PROVE  limits'[d].used + Cardinality(Validated(d)')
                  < limits'[d].total + Cardinality(Calls)
    <3>0. limits'[d] \in Limits
      BY <1>5, LimitsWritten
    <3>1. limits'[d].used \in Nat /\ limits'[d].total \in Nat
      BY <2>3, <3>0 DEF Limits
    <3>2. /\ Cardinality(Validated(d)') \in Nat
          /\ Cardinality(Validated(d)') <= Cardinality(Validated(d))
      BY <1>5, ValidatedShrinks
    <3>3. CASE t = None
      <4>1. /\ limits[d] # None /\ Limited(d)
            /\ limits'[d].used = limits[d].used /\ limits'[d].total = limits[d].total
        BY <1>5, <2>3, <3>3, LimitsWritten
      <4> HIDE DEF Limited
      <4> QED BY <1>0, <3>1, <3>2, <4>1
    <3>4. CASE t # None
      <4>1. limits'[d].used < limits'[d].total
        BY <1>5, <2>3, <3>1, <3>4, LimitsWritten
      <4> QED BY <1>0, <3>1, <3>2, <4>1
    <3> QED BY <3>3, <3>4
  <2> QED BY <2>2, <2>3 DEF OvershootBounded
<1>6. ASSUME NEW c \in Calls, LimitTemplate(c)
      PROVE  OvershootBounded'
  <2>1. call[c].deal \in DealIds /\ call[c].perUser \in Nat /\ NoNewUse
    BY <1>6, Ended DEF LimitTemplate, CallsKnow, Knows
  <2> QED BY <1>2, <1>5, <1>6, <2>1 DEF LimitTemplate
<1>7. ASSUME NEW d \in DealIds, NEW t \in Asked, NEW m \in Asked, SetDealLimits(d, t, m)
      PROVE  OvershootBounded'
  <2>1. NoNewUse
    BY <1>7 DEF SetDealLimits, NoNewUse
  <2> QED BY <1>5, <1>7, <2>1, AskedTyped DEF SetDealLimits
<1>8. ASSUME NEW c \in Calls, NEW d \in DealIds,
             InsertFound(c, d) \/ UpdateOne(c, d) \/ DeleteOne(c, d)
      PROVE  OvershootBounded'
  <2>1. CASE InsertFound(c, d)
    <3> DEFINE q == [call[c] EXCEPT !.pc = "limit"]
    <3>1. q.pc # "record"
      BY DEF TypeOK, Call
    <3>2. call' = [call EXCEPT ![c] = q] \/ End(c)
      BY <2>1 DEF InsertFound, Goto
    <3>3. NoNewUse
      <4> HIDE DEF q
      <4> QED BY <3>1, <3>2, Moved, Ended
    <3> QED BY <1>2, <2>1, <3>3 DEF InsertFound
  <2>2. CASE UpdateOne(c, d)
    <3>1. NoNewUse
      BY <2>2, WrittenNoUse DEF UpdateOne
    <3> QED BY <1>2, <2>2, <3>1 DEF UpdateOne
  <2>3. CASE DeleteOne(c, d)
    <3>1. NoNewUse
      BY <2>3, WrittenNoUse DEF DeleteOne
    <3> QED BY <1>2, <2>3, <3>1 DEF DeleteOne, Delete, TypeOK
  <2> QED BY <1>8, <2>1, <2>2, <2>3
<1>9. ASSUME \/ Quiet
             \/ \E d \in DealIds, k \in Key : CreateDeal(d, k)
             \/ \E u \in Users : DeleteUser(u)
      PROVE  OvershootBounded'
  <2>1. NoNewUse /\ UNCHANGED <<limits, cut>>
    BY <1>9 DEF Quiet, CreateDeal, DeleteUser, NoNewUse
  <2> QED BY <1>2, <2>1
<1>10. ASSUME NEW d \in DealIds, RemoveDeal(d)
       PROVE  OvershootBounded'
  <2>1. NoNewUse
    BY <1>10 DEF RemoveDeal, NoNewUse
  <2> QED BY <1>2, <1>10, <2>1 DEF RemoveDeal, Delete, TypeOK
<1> QED
  BY <1>3, <1>4, <1>6, <1>7, <1>8, <1>9, <1>10, NextCases

-----------------------------------------------------------------------------
(* The times that requests carry, and those of the deals.                  *)

LEMMA OneCallTimes ==
    ASSUME TypeOK, TimesKnown, overtaken \subseteq overtaken', NEW c \in Calls, NEW q,
           q.pc = "insert" \/ (q.pc = "find" /\ q.kind = "addProduct") =>
              q.seen.from < q.seen.to \/ q.deal \in overtaken,
           call' = [call EXCEPT ![c] = q]
    PROVE  TimesKnown'
<1>1. ASSUME NEW e \in Calls
      PROVE  call'[e].pc = "insert" \/ (call'[e].pc = "find" /\ call'[e].kind = "addProduct") =>
                call'[e].seen.from < call'[e].seen.to \/ call'[e].deal \in overtaken'
  <2>1. CASE e = c
    <3>1. call'[e] = q
      BY <2>1 DEF TypeOK
    <3> QED BY <3>1
  <2>2. CASE e # c
    <3>1. call'[e] = call[e]
      BY <2>2 DEF TypeOK
    <3> QED BY <3>1 DEF TimesKnown
  <2> QED BY <2>1, <2>2
<1> QED BY <1>1 DEF TimesKnown

LEMMA TimesStep ==
    ASSUME TypeOK, CallsKnow, TimesKnown, BackwardsOnlyIfOvertaken, Next
    PROVE  TimesKnown'
<1> USE DEF history
<1>a. ASSUME NEW c \in Calls, End(c), overtaken \subseteq overtaken'
      PROVE  TimesKnown'
  <2>1. Idle.pc = "idle"
    BY DEF Idle
  <2> QED BY <1>a, <2>1, OneCallTimes DEF End
<1>b. ASSUME UNCHANGED call, overtaken \subseteq overtaken'
      PROVE  TimesKnown'
  BY <1>b DEF TimesKnown
<1>1. ASSUME NEW c \in Calls, NEW d \in DealIds, NEW u \in Users, ApplyValidate(c, d, u)
      PROVE  TimesKnown'
  <2> DEFINE q == [Idle EXCEPT !.pc = "record", !.kind = "apply", !.deal = d, !.user = u]
  <2>1. q.pc = "record"
    BY DEF Idle
  <2>2. call' = [call EXCEPT ![c] = q] /\ overtaken' = overtaken
    BY <1>1 DEF ApplyValidate, Begin
  <2> HIDE DEF q
  <2> QED BY <2>1, <2>2, OneCallTimes
<1>2. ASSUME NEW c \in Calls, NEW d \in DealIds, NEW kind, NEW x, NEW ch,
             ReadTemplate(c, d, kind, x, ch)
      PROVE  TimesKnown'
  <2> DEFINE q == [Idle EXCEPT !.pc = "find", !.kind = kind, !.deal = d, !.product = x,
                               !.seen = deal[d].key, !.change = ch]
  <2>1. q.pc = "find" /\ q.seen = deal[d].key /\ q.deal = d
    BY DEF Idle
  <2>2. call' = [call EXCEPT ![c] = q] /\ overtaken' = overtaken
    BY <1>2 DEF ReadTemplate, Begin
  <2>3. deal[d].key.from < deal[d].key.to \/ d \in overtaken
    BY <1>2 DEF ReadTemplate, BackwardsOnlyIfOvertaken
  <2> HIDE DEF q
  <2> QED BY <2>1, <2>2, <2>3, OneCallTimes
<1>3. ASSUME NEW c \in Calls, NEW d \in DealIds, NEW x \in Products, NEW m \in Asked,
             AddChecked(c, d, x, m)
      PROVE  TimesKnown'
  <2> DEFINE q == [Idle EXCEPT !.pc = "add", !.kind = "addProduct", !.deal = d,
                               !.product = x, !.perUser = m]
  <2>1. q.pc = "add"
    BY DEF Idle
  <2>2. call' = [call EXCEPT ![c] = q] /\ overtaken' = overtaken
    BY <1>3 DEF AddChecked, Begin
  <2> HIDE DEF q
  <2> QED BY <2>1, <2>2, OneCallTimes
<1>4. ASSUME NEW c \in Calls, AddAfterCheck(c)
      PROVE  TimesKnown'
  <2> DEFINE q == [call[c] EXCEPT !.pc = "find", !.seen = deal[call[c].deal].key]
  <2>1. CASE IsDeal(call[c].deal)
    <3>1. call[c].deal \in DealIds
      BY <1>4 DEF AddAfterCheck, CallsKnow, Knows
    <3>2. q.pc = "find" /\ q.seen = deal[call[c].deal].key /\ q.deal = call[c].deal
      BY DEF TypeOK, Call
    <3>3. call' = [call EXCEPT ![c] = q] /\ overtaken' = overtaken
      BY <1>4, <2>1 DEF AddAfterCheck
    <3>4. \/ deal[call[c].deal].key.from < deal[call[c].deal].key.to
          \/ call[c].deal \in overtaken
      BY <2>1, <3>1 DEF BackwardsOnlyIfOvertaken
    <3> HIDE DEF q
    <3> QED BY <3>2, <3>3, <3>4, OneCallTimes
  <2>2. CASE ~IsDeal(call[c].deal)
    BY <1>a, <1>4, <2>2 DEF AddAfterCheck
  <2> QED BY <2>1, <2>2
<1>5. ASSUME NEW c \in Calls, NEW x \in Products, NEW k \in Key, AddDeal(c, x, k)
      PROVE  TimesKnown'
  <2> DEFINE q == [Idle EXCEPT !.pc = "insert", !.kind = "addProduct", !.product = x, !.seen = k]
  <2>1. q.pc = "insert" /\ q.seen = k
    BY DEF Idle
  <2>2. call' = [call EXCEPT ![c] = q] /\ overtaken' = overtaken /\ k.from < k.to
    BY <1>5 DEF AddDeal, Begin
  <2> HIDE DEF q
  <2> QED BY <2>1, <2>2, OneCallTimes
<1>6. ASSUME NEW c \in Calls, FindForAdd(c)
      PROVE  TimesKnown'
  <2> DEFINE q == [call[c] EXCEPT !.pc = "insert"]
  <2>1. q.seen = call[c].seen /\ q.deal = call[c].deal
    BY DEF TypeOK, Call
  <2>2. call[c].seen.from < call[c].seen.to \/ call[c].deal \in overtaken
    BY <1>6 DEF FindForAdd, TimesKnown
  <2>3. (call' = [call EXCEPT ![c] = q] \/ End(c)) /\ overtaken' = overtaken
    BY <1>6 DEF FindForAdd, Goto
  <2> HIDE DEF q
  <2> QED BY <1>a, <2>1, <2>2, <2>3, OneCallTimes
<1>7. ASSUME NEW c \in Calls, NEW found, NEW pc, pc \in {"update", "delete"}, Found(c, found, pc)
      PROVE  TimesKnown'
  <2> DEFINE q == [call[c] EXCEPT !.pc = pc, !.group = found]
  <2>1. q.pc = pc
    BY DEF TypeOK, Call
  <2>2. (call' = [call EXCEPT ![c] = q] \/ End(c)) /\ overtaken' = overtaken
    BY <1>7 DEF Found
  <2> HIDE DEF q
  <2> QED BY <1>7, <1>a, <2>1, <2>2, OneCallTimes
<1>8. ASSUME NEW c \in Calls, FindForRemoveProduct(c) \/ FindGroup(c)
      PROVE  TimesKnown'
  <2>1. \E found, pc : pc \in {"update", "delete"} /\ Found(c, found, pc)
    BY <1>8 DEF FindForRemoveProduct, FindGroup
  <2> QED BY <1>7, <2>1
<1>9. ASSUME NEW c \in Calls, NEW d \in DealIds, InsertFound(c, d)
      PROVE  TimesKnown'
  <2> DEFINE q == [call[c] EXCEPT !.pc = "limit"]
  <2>1. q.pc = "limit"
    BY DEF TypeOK, Call
  <2>2. (call' = [call EXCEPT ![c] = q] \/ End(c)) /\ overtaken \subseteq overtaken'
    BY <1>9 DEF InsertFound, Goto
  <2> HIDE DEF q
  <2> QED BY <1>a, <2>1, <2>2, OneCallTimes
<1>10. ASSUME NEW c \in Calls, NEW d \in DealIds, UpdateOne(c, d) \/ DeleteOne(c, d)
       PROVE  TimesKnown'
  <2> DEFINE q == [call[c] EXCEPT !.group = call[c].group \ {d}]
  <2>1. q.pc = call[c].pc /\ call[c].pc \in {"update", "delete"}
    BY <1>10 DEF UpdateOne, DeleteOne, TypeOK, Call
  <2>2. (call' = [call EXCEPT ![c] = q] \/ End(c)) /\ overtaken \subseteq overtaken'
    BY <1>10 DEF UpdateOne, DeleteOne, Written
  <2> HIDE DEF q
  <2> QED BY <1>a, <2>1, <2>2, OneCallTimes
<1>11. ASSUME NEW c \in Calls, ApplyRecord(c) \/ LimitTemplate(c) \/ Abandon(c)
       PROVE  TimesKnown'
  BY <1>a, <1>11 DEF ApplyRecord, LimitTemplate, Abandon
<1>12. ASSUME NEW d \in DealIds,
              \/ \E k \in Key : CreateDeal(d, k)
              \/ \E t, m \in Asked : SetDealLimits(d, t, m)
              \/ RemoveDeal(d)
       PROVE  TimesKnown'
  BY <1>b, <1>12 DEF CreateDeal, SetDealLimits, RemoveDeal
<1>13. ASSUME \/ Tick
              \/ \E u \in Users : DeleteUser(u)
       PROVE  TimesKnown'
  BY <1>b, <1>13 DEF Tick, DeleteUser
<1> QED
  BY <1>1, <1>2, <1>3, <1>4, <1>5, <1>6, <1>8, <1>9, <1>10, <1>11, <1>12, <1>13
     DEF Next, AddProduct, RemoveProduct, Remove, Update

LEMMA BackwardsStep ==
    ASSUME TypeOK, CallsKnow, TimesKnown, BackwardsOnlyIfOvertaken, Next
    PROVE  BackwardsOnlyIfOvertaken'
<1> USE DEF history
<1>0. ASSUME NEW d \in DealIds, IsDeal(d), d \notin overtaken
      PROVE  deal[d].key.from < deal[d].key.to
  BY <1>0 DEF BackwardsOnlyIfOvertaken
<1>1. ASSUME UNCHANGED <<deal, overtaken>>
      PROVE  BackwardsOnlyIfOvertaken'
  BY <1>1 DEF BackwardsOnlyIfOvertaken, IsDeal
<1>2. ASSUME NEW d \in DealIds, NEW row, deal' = [deal EXCEPT ![d] = row],
             overtaken \subseteq overtaken',
             row \in {None, Deleted} \/ row.key.from < row.key.to \/ d \in overtaken'
      PROVE  BackwardsOnlyIfOvertaken'
  <2>1. ASSUME NEW e \in DealIds, IsDeal(e)', e \notin overtaken'
        PROVE  deal'[e].key.from < deal'[e].key.to
    <3>1. CASE e = d
      <4>1. deal'[e] = row
        BY <1>2, <3>1 DEF TypeOK
      <4> QED BY <1>2, <2>1, <3>1, <4>1 DEF IsDeal
    <3>2. CASE e # d
      <4>1. deal'[e] = deal[e]
        BY <1>2, <3>2 DEF TypeOK
      <4> QED BY <1>0, <1>2, <2>1, <4>1 DEF IsDeal
    <3> QED BY <3>1, <3>2
  <2> QED BY <2>1 DEF BackwardsOnlyIfOvertaken
<1>3. ASSUME NEW c \in Calls, NEW d \in DealIds, InsertFound(c, d)
      PROVE  BackwardsOnlyIfOvertaken'
  <2> DEFINE row == [product |-> call[c].product, key |-> call[c].seen]
  <2>1. call[c].seen.from < call[c].seen.to \/ call[c].deal \in overtaken
    BY <1>3 DEF InsertFound, TimesKnown
  <2>2. /\ deal' = [deal EXCEPT ![d] = row] /\ row.key = call[c].seen
        /\ overtaken' = IF call[c].deal \in overtaken THEN overtaken \cup {d} ELSE overtaken
    BY <1>3 DEF InsertFound, Insert
  <2> HIDE DEF row
  <2> QED BY <1>2, <2>1, <2>2
<1>4. ASSUME NEW d \in DealIds, NEW k \in Key, CreateDeal(d, k)
      PROVE  BackwardsOnlyIfOvertaken'
  <2> DEFINE row == [product |-> Placeholder, key |-> k]
  <2>1. deal' = [deal EXCEPT ![d] = row] /\ row.key = k /\ k.from < k.to /\ overtaken' = overtaken
    BY <1>4 DEF CreateDeal, Insert
  <2> HIDE DEF row
  <2> QED BY <1>2, <2>1
<1>5. ASSUME NEW c \in Calls, NEW d \in DealIds, UpdateOne(c, d)
      PROVE  BackwardsOnlyIfOvertaken'
  <2>1. CASE IsDeal(d)
    <3> DEFINE row == [product |-> deal[d].product,
                       key |-> Changed(deal[d].key, call[c].change)]
    <3>1. Changed(call[c].seen, call[c].change).from < Changed(call[c].seen, call[c].change).to
      BY <1>5 DEF UpdateOne, CallsKnow, Knows
    <3>2. /\ deal' = [deal EXCEPT ![d] = row]
          /\ row.key = Changed(deal[d].key, call[c].change)
          /\ overtaken' = IF deal[d].key = call[c].seen THEN overtaken ELSE overtaken \cup {d}
      BY <1>5, <2>1 DEF UpdateOne
    <3> HIDE DEF row
    <3> QED BY <1>2, <3>1, <3>2
  <2>2. CASE ~IsDeal(d)
    BY <1>1, <1>5, <2>2 DEF UpdateOne
  <2> QED BY <2>1, <2>2
<1>6. ASSUME NEW c \in Calls, NEW d \in DealIds, DeleteOne(c, d)
      PROVE  BackwardsOnlyIfOvertaken'
  <2>1. CASE IsDeal(d)
    BY <1>2, <1>6, <2>1 DEF DeleteOne, Delete
  <2>2. CASE ~IsDeal(d)
    BY <1>1, <1>6, <2>2 DEF DeleteOne
  <2> QED BY <2>1, <2>2
<1>7. ASSUME NEW d \in DealIds, RemoveDeal(d)
      PROVE  BackwardsOnlyIfOvertaken'
  BY <1>2, <1>7 DEF RemoveDeal, Delete
<1>8. ASSUME \/ Quiet
             \/ \E c \in Calls, d \in DealIds, u \in Users : ApplyValidate(c, d, u)
             \/ \E c \in Calls : ApplyRecord(c) \/ LimitTemplate(c)
             \/ \E d \in DealIds, t, m \in Asked : SetDealLimits(d, t, m)
             \/ \E u \in Users : DeleteUser(u)
      PROVE  BackwardsOnlyIfOvertaken'
  BY <1>1, <1>8 DEF Quiet, ApplyValidate, ApplyRecord, LimitTemplate, SetDealLimits, DeleteUser
<1> QED
  BY <1>3, <1>4, <1>5, <1>6, <1>7, <1>8, NextCases

-----------------------------------------------------------------------------
(* The inductive invariant holds in every behaviour: tables are typed,     *)
(* requests know what they read, and the four safety properties.           *)
THEOREM Invariance == Spec => []IInv
<1>1. Init => IInv
  <2> SUFFICES ASSUME Init PROVE IInv
    OBVIOUS
  <2> USE DEF Init
  <2>1. TypeOK
    BY DealsAssumption, IdleCall DEF TypeOK, Times
  <2>2. CallsKnow
    BY IdleCall DEF CallsKnow
  <2>3. TimesKnown
    BY DEF TimesKnown, Idle
  <2>4. UsesHaveDealAndUser
    BY DEF UsesHaveDealAndUser
  <2>5. CounterCountsUses
    BY FS_EmptySet DEF CounterCountsUses
  <2>6. OvershootBounded
    BY DEF OvershootBounded
  <2>7. BackwardsOnlyIfOvertaken
    BY DEF BackwardsOnlyIfOvertaken, IsDeal
  <2> QED BY <2>1, <2>2, <2>3, <2>4, <2>5, <2>6, <2>7 DEF IInv
<1>2. IInv /\ [Next]_vars => IInv'
  <2> SUFFICES ASSUME IInv, [Next]_vars PROVE IInv'
    OBVIOUS
  <2>1. CASE Next
    BY <2>1, TypeStep, CallStep, TimesStep, UsesStep, CounterStep, OvershootStep, BackwardsStep
       DEF IInv
  <2>2. CASE UNCHANGED vars
    BY <2>2 DEF IInv, vars, history, TypeOK, CallsKnow, TimesKnown, UsesHaveDealAndUser,
                CounterCountsUses, OvershootBounded, BackwardsOnlyIfOvertaken, IsDeal, Validated
  <2> QED BY <2>1, <2>2
<1> QED BY <1>1, <1>2, PTL DEF Spec

(* Type correctness of the deals, for any number of requests in flight.    *)
THEOREM TypeCorrect == Spec => []TypeOK
<1>1. IInv => TypeOK
  BY DEF IInv
<1> QED BY Invariance, <1>1, PTL

(* validateDealApplication reads the counter and recordDealUsage raises it *)
(* later: with n requests in flight the total limit is overshot by at most *)
(* n - 1, unless it was lowered to what had been used already.             *)
THEOREM LimitOvershootIsBounded == Spec => []OvershootBounded
<1>1. IInv => OvershootBounded
  BY DEF IInv
<1> QED BY Invariance, <1>1, PTL

(* recordDealUsage counts each use once, however requests interleave with  *)
(* setDealLimits and with the deletion of deals and users.                 *)
THEOREM CounterIsExact == Spec => []CounterCountsUses
<1>1. IInv => CounterCountsUses
  BY DEF IInv
<1> QED BY Invariance, <1>1, PTL

(* No use outlives its deal or its user, whatever was in flight.           *)
THEOREM NoOrphanedUse == Spec => []UsesHaveDealAndUser
<1>1. IInv => UsesHaveDealAndUser
  BY DEF IInv
<1> QED BY Invariance, <1>1, PTL

(* update() gives a deal times that are out of order only if another       *)
(* request changed it after they were checked; addProduct may copy them.   *)
THEOREM TimesInOrderUnlessOvertaken == Spec => []BackwardsOnlyIfOvertaken
<1>1. IInv => BackwardsOnlyIfOvertaken
  BY DEF IInv
<1> QED BY Invariance, <1>1, PTL
=============================================================================
