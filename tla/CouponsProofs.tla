--------------------------- MODULE CouponsProofs ----------------------------
(***************************************************************************)
(* The bookkeeping of the coupons implements UsageLedger; the coupon that  *)
(* gave a discount is credited with it as long as its code has been        *)
(* nobody else's; no discount exceeds the price of the goods it is for;    *)
(* and a limit is overshot by no more than the clients that held the       *)
(* coupon at once: for any number of coupons, codes, orders and requests.  *)
(*                                                                         *)
(* What holds of the tables and of the clients' codes comes first (IInv);  *)
(* the two results on amounts and limits rest on it and on the sums.       *)
(*                                                                         *)
(* Then what the shop tells its visitors: the rating of a product is that  *)
(* of its reviews unless the transaction was overtaken (ReviewsInv), the   *)
(* cron counts no customers (ProfilingInv), and a list of recommendations  *)
(* holds what is open, or was hidden after it was read, and is empty only  *)
(* when nothing stayed (RecommendInv): for any number of users, orders,    *)
(* products, requests and runs.  What the job on trends says of few        *)
(* activities is computed from sums of ones (TrendFlat) and of fewer       *)
(* terms than there are bins (FewAreCertain).                              *)
(***************************************************************************)
EXTENDS Coupons, Sums, FiniteSetTheorems, SequenceTheorems, TLAPS

CONSTANTS ItemsOf, Ratings, Readers, MaxOps, Runs, BatchSize, Habits, MaxRuns,
          CategoryOf, BrandOf, Rating, TopRated, Age, Interval, Earlier, Limit, Questions,
          MaxMoves,
          Tracked, Short, Mid, Long, Bins, Threshold, Batches, MaxTracked,
          MaxDetections, Unknown

VARIABLES users, delivered, review, stats, call, ops, behind, stale, page,
          profile, segments, task, todo, running, started,
          open, placed, cancelled, active, viewed, ask, cache, moves, hidden,
          series, tally, trend, season, listed, phase, detections, requests,
          batched, basis

INSTANCE Profiling
INSTANCE Recommend
INSTANCE Trends

Reached == {"granted", "record", "done"}

(* What the client of order o knows, with its state q: whatever it found   *)
(* by its code has held that code, and it reports what it was granted.     *)
Knows(o, q) ==
    /\ DOMAIN q = DOMAIN Start
    /\ q.pc # "start" => q.code \in Codes
    /\ q.pc \in Reached => q.coupon \in holders[q.code]
    /\ q.pc = "record" => q.credited \in holders[q.code]
    /\ \A c \in CouponIds : o \in usages[c] => q.pc \in Reached /\ c \in holders[q.code]

Tables ==
    /\ coupon \in [CouponIds -> Coupon \cup {None, Deleted}]
    /\ usages \in [CouponIds -> SUBSET Orders]
    /\ DOMAIN checkout = Orders
    /\ removal \in [Requests -> Removal \cup {None}]
    /\ holders \in [Codes -> SUBSET CouponIds]
    /\ \A k \in Codes : IsFiniteSet(holders[k])

(* A coupon was disabled, or is about to be, because it has been used.     *)
UsedStays ==
    /\ \A c \in CouponIds : usages[c] # {} => Exists(c)
    /\ \A c \in CouponIds : Exists(c) /\ coupon[c].status = "DISABLED" => usages[c] # {}
    /\ \A c \in CouponIds : Exists(c) /\ usages[c] = {} => coupon[c].count = 0
    /\ \A r \in Requests : removal[r] # None /\ removal[r].used => usages[removal[r].coupon] # {}

CodesRemembered == \A c \in CouponIds : Exists(c) => c \in holders[coupon[c].code]

IInv ==
    /\ Tables /\ UsedStays /\ CodesRemembered
    /\ \A o \in Orders : Knows(o, checkout[o])

-----------------------------------------------------------------------------
LEMMA RowsDiffer ==
    /\ None # Deleted /\ None \notin Coupon /\ Deleted \notin Coupon
    /\ Asked \subseteq Nat \cup {None}
  BY CouponsAssumption, RowsAssumption DEF CouponsAssumption, RowsAssumption, Asked

(* A coupon that exists is a row, and the other way round.                 *)
LEMMA ExistsIsRow ==
    ASSUME Tables, NEW c \in CouponIds
    PROVE  Exists(c) <=> coupon[c] \in Coupon
  BY RowsDiffer DEF Tables, Exists

LEMMA OnlyOne ==
    ASSUME NEW S, IsFiniteSet(S), Cardinality(S) <= 1, NEW x \in S, NEW y \in S
    PROVE  x = y
  <1>1. {x} \in SUBSET S /\ Cardinality({x}) = 1
    BY FS_Singleton
  <1>2. Cardinality(S) \in Nat /\ Cardinality({x}) <= Cardinality(S)
        /\ (Cardinality(S) = Cardinality({x}) => S = {x})
    BY <1>1, FS_CardinalityType, FS_Subset
  <1>3. S = {x}
    BY <1>1, <1>2
  <1>4. QED
    BY <1>3

(* The rows that the steps write.                                          *)
LEMMA Rows ==
    /\ \A k \in Codes, f \in Offers, w \in Windows, l, m \in Asked :
          [code |-> k, offer |-> f, window |-> w, status |-> "ACTIVE",
           limit |-> l, perUser |-> m, count |-> 0] \in Coupon
    /\ \A x \in Coupon, k \in Codes, f \in Offers, w \in Windows, l, m \in Asked :
          [code |-> k, offer |-> f, window |-> w, status |-> x.status,
           limit |-> l, perUser |-> m, count |-> x.count] \in Coupon
  BY RowsDiffer DEF Coupon, Statuses

LEMMA Rewritten ==
    ASSUME NEW x \in Coupon
    PROVE  /\ [x EXCEPT !.status = "DISABLED"] \in Coupon
           /\ [x EXCEPT !.status = "DISABLED"].status = "DISABLED"
           /\ [x EXCEPT !.status = "DISABLED"].code = x.code
           /\ [x EXCEPT !.status = "DISABLED"].count = x.count
           /\ [x EXCEPT !.count = x.count + 1] \in Coupon
           /\ [x EXCEPT !.count = x.count + 1].status = x.status
           /\ [x EXCEPT !.count = x.count + 1].code = x.code
           /\ [x EXCEPT !.count = x.count + 1].count = x.count + 1
           /\ \A w \in Windows : /\ [x EXCEPT !.window = w] \in Coupon
                                 /\ [x EXCEPT !.window = w].status = x.status
                                 /\ [x EXCEPT !.window = w].code = x.code
                                 /\ [x EXCEPT !.window = w].count = x.count
  BY DEF Coupon, Statuses

-----------------------------------------------------------------------------
THEOREM Initially == Init => IInv
  <1> SUFFICES ASSUME Init PROVE IInv
    OBVIOUS
  <1>1. Tables
    BY FS_EmptySet DEF Init, Tables
  <1>2. UsedStays /\ CodesRemembered
    BY RowsDiffer DEF Init, UsedStays, CodesRemembered, Exists
  <1>3. ASSUME NEW o \in Orders PROVE Knows(o, checkout[o])
    BY DEF Init, Knows, Start, Reached
  <1>4. QED
    BY <1>1, <1>2, <1>3 DEF IInv

(* What changes nothing in the tables but the requests' own state.         *)
Quiet == UNCHANGED <<coupon, usages, removal, holders>> /\ DOMAIN checkout' = DOMAIN checkout

LEMMA QuietSteps ==
    ASSUME NEW o \in Orders
    PROVE  /\ \A k \in Codes, x \in Carts : Validate(o, k, x) => Quiet
           /\ CountPerUser(o) \/ Grant(o) \/ RecordFind(o) => Quiet
  <1>1. ASSUME NEW q, Step(o, q) PROVE Quiet
    BY <1>1 DEF Step, Quiet
  <1>2. ASSUME NEW k \in Codes, NEW x \in Carts, Validate(o, k, x) PROVE Quiet
    BY <1>2 DEF Validate, Admit, Quiet
  <1>3. ASSUME CountPerUser(o) PROVE Quiet
    BY <1>1, <1>3 DEF CountPerUser
  <1>4. ASSUME Grant(o) PROVE Quiet
    BY <1>1, <1>4 DEF Grant
  <1>5. ASSUME RecordFind(o) PROVE Quiet
    BY <1>1, <1>5 DEF RecordFind
  <1>6. QED
    BY <1>2, <1>3, <1>4, <1>5

(* A code is remembered together with who has had it.                      *)
LEMMA Remembering ==
    ASSUME Tables, NEW k \in Codes, NEW c \in CouponIds,
           holders' = [holders EXCEPT ![k] = holders[k] \cup {c}]
    PROVE  /\ holders' \in [Codes -> SUBSET CouponIds]
           /\ \A j \in Codes : IsFiniteSet(holders'[j]) /\ holders[j] \subseteq holders'[j]
           /\ c \in holders'[k]
  <1>1. IsFiniteSet(holders[k] \cup {c})
    BY FS_AddElement DEF Tables
  <1>2. QED
    BY <1>1 DEF Tables

LEMMA CreateStep ==
    ASSUME IInv, NEW c \in CouponIds, NEW k \in Codes, NEW f \in Offers, NEW w \in Windows,
           NEW l \in Asked, NEW m \in Asked, Create(c, k, f, w, l, m)
    PROVE  Tables' /\ UsedStays' /\ CodesRemembered'
  <1> DEFINE row == [code |-> k, offer |-> f, window |-> w, status |-> "ACTIVE",
                     limit |-> l, perUser |-> m, count |-> 0]
  <1>1. row \in Coupon /\ row.status = "ACTIVE" /\ row.count = 0 /\ row.code = k
    BY Rows
  <1>2. coupon' = [coupon EXCEPT ![c] = row] /\ UNCHANGED <<usages, removal, checkout>>
    BY DEF Create
  <1> HIDE DEF row
  <1>3. /\ holders' \in [Codes -> SUBSET CouponIds] /\ c \in holders'[k]
        /\ \A j \in Codes : IsFiniteSet(holders'[j]) /\ holders[j] \subseteq holders'[j]
    BY Remembering DEF IInv, Create
  <1>4. Tables'
    BY <1>1, <1>2, <1>3 DEF IInv, Tables
  <1>5. \A d \in CouponIds : /\ Exists(d) => Exists(d)'
                             /\ d # c => coupon'[d] = coupon[d] /\ (Exists(d)' <=> Exists(d))
    BY <1>1, <1>2, RowsDiffer DEF IInv, Tables, Exists
  <1>6. UsedStays'
    BY <1>1, <1>2, <1>5 DEF IInv, UsedStays, Tables
  <1>7. CodesRemembered'
    <2> SUFFICES ASSUME NEW d \in CouponIds, Exists(d)' PROVE d \in holders'[coupon'[d].code]
      BY DEF CodesRemembered
    <2>1. CASE d = c
      BY <1>1, <1>2, <1>3, <2>1 DEF IInv, Tables
    <2>2. CASE d # c
      <3>1. coupon'[d] = coupon[d] /\ Exists(d)
        BY <1>5, <2>2
      <3>2. coupon[d].code \in Codes
        BY <3>1, ExistsIsRow DEF IInv, Coupon
      <3>3. QED
        BY <1>3, <3>1, <3>2 DEF IInv, CodesRemembered
    <2>3. QED
      BY <2>1, <2>2
  <1>8. QED
    BY <1>4, <1>6, <1>7

LEMMA UpdateStep ==
    ASSUME IInv, NEW c \in CouponIds, NEW k \in Codes, NEW f \in Offers, NEW w \in Windows,
           NEW l \in Asked, NEW m \in Asked, Update(c, k, f, w, l, m)
    PROVE  Tables' /\ UsedStays' /\ CodesRemembered'
  <1> DEFINE row == [code |-> k, offer |-> f, window |-> w, status |-> coupon[c].status,
                     limit |-> l, perUser |-> m, count |-> coupon[c].count]
  <1>0. Exists(c) /\ coupon[c] \in Coupon
    BY ExistsIsRow DEF IInv, Update
  <1>1. row \in Coupon /\ row.status = coupon[c].status /\ row.count = coupon[c].count /\ row.code = k
    BY <1>0, Rows
  <1>2. coupon' = [coupon EXCEPT ![c] = row] /\ UNCHANGED <<usages, removal, checkout>>
    BY DEF Update
  <1> HIDE DEF row
  <1>3. /\ holders' \in [Codes -> SUBSET CouponIds] /\ c \in holders'[k]
        /\ \A j \in Codes : IsFiniteSet(holders'[j]) /\ holders[j] \subseteq holders'[j]
    BY Remembering DEF IInv, Update
  <1>4. Tables'
    BY <1>1, <1>2, <1>3 DEF IInv, Tables
  <1>5. \A d \in CouponIds : /\ Exists(d)' <=> Exists(d)
                             /\ d # c => coupon'[d] = coupon[d]
                             /\ coupon'[d].status = coupon[d].status
                             /\ coupon'[d].count = coupon[d].count
    BY <1>0, <1>1, <1>2, RowsDiffer DEF IInv, Tables, Exists
  <1>6. UsedStays'
    BY <1>2, <1>5 DEF IInv, UsedStays
  <1>7. CodesRemembered'
    <2> SUFFICES ASSUME NEW d \in CouponIds, Exists(d)' PROVE d \in holders'[coupon'[d].code]
      BY DEF CodesRemembered
    <2>1. CASE d = c
      BY <1>1, <1>2, <1>3, <2>1 DEF IInv, Tables
    <2>2. CASE d # c
      <3>1. coupon'[d] = coupon[d] /\ Exists(d)
        BY <1>5, <2>2
      <3>2. coupon[d].code \in Codes
        BY <3>1, ExistsIsRow DEF IInv, Coupon
      <3>3. QED
        BY <1>3, <3>1, <3>2 DEF IInv, CodesRemembered
    <2>3. QED
      BY <2>1, <2>2
  <1>8. QED
    BY <1>4, <1>6, <1>7

(* remove(): it disables a coupon only if it had been used.                *)
LEMMA RemoveCountStep ==
    ASSUME IInv, NEW r \in Requests, NEW c \in CouponIds, RemoveCount(r, c)
    PROVE  Tables' /\ UsedStays' /\ CodesRemembered'
  <1> DEFINE x == [coupon |-> c, used |-> usages[c] # {}]
  <1>1. removal' = [removal EXCEPT ![r] = x] /\ UNCHANGED <<coupon, usages, checkout, holders>>
    BY DEF RemoveCount
  <1>2. x \in Removal /\ x.coupon = c /\ (x.used => usages[c] # {})
    BY DEF Removal
  <1> HIDE DEF x
  <1>3. Tables'
    BY <1>1, <1>2 DEF IInv, Tables
  <1>4. UsedStays'
    <2>1. \A d \in CouponIds : Exists(d)' <=> Exists(d)
      BY <1>1 DEF Exists
    <2>2. \A s \in Requests : removal'[s] # None /\ removal'[s].used => usages[removal'[s].coupon] # {}
      BY <1>1, <1>2 DEF IInv, UsedStays, Tables
    <2>3. QED
      BY <1>1, <2>1, <2>2 DEF IInv, UsedStays
  <1>5. CodesRemembered'
    BY <1>1 DEF IInv, CodesRemembered, Exists
  <1>6. QED
    BY <1>3, <1>4, <1>5

LEMMA RemoveWriteStep ==
    ASSUME IInv, NEW r \in Requests, RemoveWrite(r)
    PROVE  Tables' /\ UsedStays' /\ CodesRemembered'
  <1> DEFINE c == removal[r].coupon
             row == [coupon[c] EXCEPT !.status = "DISABLED"]
  <1>1. c \in CouponIds /\ (removal[r].used => usages[c] # {})
    BY DEF IInv, Tables, UsedStays, RemoveWrite, Removal
  <1>2. /\ UNCHANGED <<usages, checkout, holders>> /\ removal' = [removal EXCEPT ![r] = None]
        /\ \/ UNCHANGED coupon
           \/ /\ removal[r].used /\ Exists(c)
              /\ coupon' = [coupon EXCEPT ![c] = row]
           \/ /\ usages[c] = {} /\ Exists(c)
              /\ coupon' = [coupon EXCEPT ![c] = Deleted]
    BY DEF RemoveWrite
  <1>3. Exists(c) => row \in Coupon /\ row.code = coupon[c].code /\ row.count = coupon[c].count
    BY <1>1, ExistsIsRow, Rewritten DEF IInv
  <1> HIDE DEF c, row
  <1>4. Tables'
    BY <1>1, <1>2, <1>3 DEF IInv, Tables
  <1>5. \A d \in CouponIds :
          \/ coupon'[d] = coupon[d] /\ (Exists(d)' <=> Exists(d))
          \/ /\ d = c /\ removal[r].used /\ Exists(d) /\ Exists(d)'
             /\ coupon'[d].code = coupon[d].code /\ coupon'[d].count = coupon[d].count
          \/ d = c /\ usages[c] = {} /\ ~Exists(d)'
    BY <1>1, <1>2, <1>3, RowsDiffer DEF IInv, Tables, Exists
  <1>6. UsedStays'
    <2>1. \A s \in Requests : removal'[s] # None => removal'[s] = removal[s] /\ removal[s] # None
      BY <1>2 DEF IInv, Tables
    <2>2. \A d \in CouponIds : usages'[d] # {} => Exists(d)'
      BY <1>2, <1>5 DEF IInv, UsedStays
    <2>3. \A d \in CouponIds : Exists(d)' /\ coupon'[d].status = "DISABLED" => usages'[d] # {}
      BY <1>1, <1>2, <1>5 DEF IInv, UsedStays
    <2>4. \A d \in CouponIds : Exists(d)' /\ usages'[d] = {} => coupon'[d].count = 0
      BY <1>2, <1>5 DEF IInv, UsedStays
    <2>5. \A s \in Requests : removal'[s] # None /\ removal'[s].used => usages'[removal'[s].coupon] # {}
      BY <1>2, <2>1 DEF IInv, UsedStays
    <2>6. QED
      BY <2>2, <2>3, <2>4, <2>5 DEF UsedStays
  <1>7. CodesRemembered'
    BY <1>2, <1>5 DEF IInv, CodesRemembered
  <1>8. QED
    BY <1>4, <1>6, <1>7

LEMMA PassStep ==
    ASSUME IInv, NEW c \in CouponIds, Pass(c)
    PROVE  Tables' /\ UsedStays' /\ CodesRemembered'
  <1> DEFINE w == IF coupon[c].window = "early" THEN "open" ELSE "over"
             row == [coupon[c] EXCEPT !.window = w]
  <1>1. /\ UNCHANGED <<usages, checkout, removal, holders>> /\ Exists(c)
        /\ coupon' = [coupon EXCEPT ![c] = row]
    BY DEF Pass
  <1>2. w \in Windows
    BY DEF Windows
  <1> HIDE DEF w
  <1>3. /\ row \in Coupon /\ row.status = coupon[c].status
        /\ row.code = coupon[c].code /\ row.count = coupon[c].count
    BY <1>1, <1>2, ExistsIsRow, Rewritten DEF IInv
  <1> HIDE DEF row
  <1>4. Tables'
    BY <1>1, <1>3 DEF IInv, Tables
  <1>5. \A d \in CouponIds : /\ Exists(d)' <=> Exists(d)
                             /\ coupon'[d].status = coupon[d].status
                             /\ coupon'[d].code = coupon[d].code
                             /\ coupon'[d].count = coupon[d].count
    BY <1>1, <1>3, RowsDiffer DEF IInv, Tables, Exists
  <1>6. UsedStays'
    BY <1>1, <1>5 DEF IInv, UsedStays
  <1>7. CodesRemembered'
    BY <1>1, <1>5 DEF IInv, CodesRemembered
  <1>8. QED
    BY <1>4, <1>6, <1>7

(* The use and its count are written together.                             *)
LEMMA RecordStep ==
    ASSUME IInv, NEW o \in Orders, Record(o)
    PROVE  Tables' /\ UsedStays' /\ CodesRemembered'
  <1> DEFINE c == checkout[o].credited
             row == [coupon[c] EXCEPT !.count = coupon[c].count + 1]
  <1>1. c \in CouponIds
    BY DEF IInv, Knows, Tables, Record
  <1>2. /\ UNCHANGED <<removal, holders>> /\ DOMAIN checkout' = DOMAIN checkout
        /\ \/ UNCHANGED <<usages, coupon>>
           \/ /\ Exists(c) /\ usages' = [usages EXCEPT ![c] = usages[c] \cup {o}]
              /\ coupon' = [coupon EXCEPT ![c] = row]
    BY DEF Record
  <1>3. Exists(c) => row \in Coupon /\ row.status = coupon[c].status /\ row.code = coupon[c].code
    BY <1>1, ExistsIsRow, Rewritten DEF IInv
  <1> HIDE DEF c, row
  <1>4. Tables'
    BY <1>1, <1>2, <1>3 DEF IInv, Tables
  <1>5. \A d \in CouponIds : /\ Exists(d)' <=> Exists(d)
                             /\ coupon'[d].status = coupon[d].status
                             /\ coupon'[d].code = coupon[d].code
                             /\ usages[d] \subseteq usages'[d]
                             /\ usages'[d] # {} => usages[d] # {} \/ Exists(d)
                             /\ usages'[d] = {} => coupon'[d] = coupon[d]
    BY <1>1, <1>2, <1>3, RowsDiffer DEF IInv, Tables, Exists
  <1>6. UsedStays'
    <2>1. \A s \in Requests : removal[s] # None => removal[s].coupon \in CouponIds
      BY DEF IInv, Tables, Removal
    <2>2. QED
      BY <1>2, <1>5, <2>1 DEF IInv, UsedStays
  <1>7. CodesRemembered'
    BY <1>2, <1>5 DEF IInv, CodesRemembered
  <1>8. QED
    BY <1>4, <1>6, <1>7

-----------------------------------------------------------------------------
(* What clients know.                                                      *)

(* Nobody has learnt anything new: codes are remembered and nobody's use   *)
(* was entered but that of o.                                              *)
LEMMA KnowsOn ==
    ASSUME NEW o, NEW q, Knows(o, q),
           \A k \in Codes : holders[k] \subseteq holders'[k],
           \A c \in CouponIds : o \in usages'[c] => o \in usages[c]
    PROVE  Knows(o, q)'
  BY DEF Knows, Reached

LEMMA NotYetUsed ==
    ASSUME NEW o, NEW q, Knows(o, q), q.pc \notin Reached, NEW n,
           DOMAIN n = DOMAIN Start, n.pc \notin Reached, n.pc = "start" \/ n.code \in Codes
    PROVE  Knows(o, n)
  BY DEF Knows, Reached

LEMMA StartFields ==
    ASSUME NEW o, NEW q, Knows(o, q), q.pc \notin Reached
    PROVE  Knows(o, Start)
  BY NotYetUsed DEF Start, Reached

(* WithCode(k) finds only coupons that have had k.                         *)
LEMMA FoundHeld ==
    ASSUME CodesRemembered, NEW k, NEW c \in WithCode(k)
    PROVE  c \in CouponIds /\ c \in holders[k]
  BY DEF CodesRemembered, WithCode

LEMMA KnowsStep ==
    ASSUME IInv, [Next]_vars, NEW o \in Orders
    PROVE  Knows(o, checkout[o])'
  <1> DEFINE q == checkout[o]
  <1>0. Knows(o, q)
    BY DEF IInv
  <1>a. Tables /\ CodesRemembered
    BY DEF IInv
  <1>1. ASSUME Quiet, Knows(o, checkout'[o]) PROVE Knows(o, checkout[o])'
    BY <1>1 DEF Quiet, Knows, Reached
  <1>2. ASSUME UNCHANGED checkout, UNCHANGED usages,
               \A k \in Codes : holders[k] \subseteq holders'[k]
        PROVE  Knows(o, checkout[o])'
    <2>1. Knows(o, q)'
      BY <1>0, <1>2 DEF Knows, Reached
    <2>2. QED
      BY <2>1
  <1>3. ASSUME NEW k \in Codes, NEW c \in CouponIds, UNCHANGED <<checkout, usages>>,
               holders' = [holders EXCEPT ![k] = holders[k] \cup {c}]
        PROVE  Knows(o, checkout[o])'
    BY <1>a, <1>2, <1>3, Remembering
  <1>4. ASSUME NEW p \in Orders, NEW k \in Codes, NEW x \in Carts, Validate(p, k, x)
        PROVE  Knows(o, checkout'[o])
    <2>1. CASE p # o
      BY <1>0, <1>4, <2>1 DEF Validate, Admit
    <2>2. CASE p = o
      <3>1. q = Start
        BY <1>4, <2>2 DEF Validate
      <3>2. PICK c \in WithCode(k) : Admit(o, k, x, c)
        BY <1>4, <2>2 DEF Validate
      <3> DEFINE pc == IF coupon[c].perUser = None THEN "reread" ELSE "peruser"
                 per == coupon[c].perUser
                 n == [Start EXCEPT !.pc = pc, !.code = k, !.cart = x, !.validated = c, !.perUser = per]
      <3>3. checkout'[o] = n
        BY <1>a, <3>2 DEF Admit, Tables
      <3>4. pc \notin Reached /\ Start.pc \notin Reached
        BY DEF Reached, Start
      <3> HIDE DEF pc, per
      <3>5. DOMAIN n = DOMAIN Start /\ n.pc = pc /\ n.code = k
        BY DEF Start
      <3> HIDE DEF n, q
      <3>6. Knows(o, n)
        BY <1>0, <3>1, <3>4, <3>5, NotYetUsed
      <3>7. QED
        BY <3>3, <3>6
    <2>3. QED
      BY <2>1, <2>2
  <1>5. ASSUME NEW p \in Orders, p # o, NEW n, Step(p, n) PROVE Knows(o, checkout'[o])
    BY <1>0, <1>5 DEF Step
  <1>6. ASSUME NEW n, Step(o, n), Knows(o, n) PROVE Knows(o, checkout'[o])
    <2>1. checkout'[o] = n
      BY <1>a, <1>6 DEF Step, Tables
    <2>2. QED
      BY <1>6, <2>1
  <1>7. ASSUME NEW p \in Orders, CountPerUser(p) PROVE Knows(o, checkout'[o])
    <2>1. CASE p # o
      BY <1>5, <1>7, <2>1 DEF CountPerUser
    <2>2. CASE p = o
      <3> DEFINE n == [q EXCEPT !.pc = "reread", !.perUser = None]
      <3>1. q.pc = "peruser" /\ (Step(o, n) \/ Step(o, Start))
        BY <1>7, <2>2 DEF CountPerUser
      <3>2. DOMAIN n = DOMAIN Start /\ n.pc = "reread" /\ n.code = q.code /\ q.code \in Codes
        BY <1>0, <3>1 DEF Knows, Start
      <3> HIDE DEF n, q
      <3>3. Knows(o, n) /\ Knows(o, Start)
        BY <1>0, <3>1, <3>2, NotYetUsed, StartFields DEF Reached
      <3>4. QED
        BY <1>6, <3>1, <3>3
    <2>3. QED
      BY <2>1, <2>2
  <1>8. ASSUME NEW p \in Orders, Grant(p) PROVE Knows(o, checkout'[o])
    <2>1. CASE p # o
      BY <1>5, <1>8, <2>1 DEF Grant
    <2>2. CASE p = o
      <3>1. q.pc = "reread"
        BY <1>8, <2>2 DEF Grant
      <3>2. CASE Step(o, Start)
        BY <1>0, <1>6, <3>1, <3>2, StartFields DEF Reached
      <3>3. CASE ~Step(o, Start)
        <4>1. PICK c \in WithCode(q.code) :
                Step(o, [q EXCEPT !.pc = "granted", !.coupon = c, !.offer = coupon[c].offer,
                                  !.discount = Discount(coupon[c].offer, q.cart)])
          BY <1>8, <2>2, <3>3 DEF Grant
        <4> DEFINE f == coupon[c].offer
                   d == Discount(coupon[c].offer, q.cart)
                   n == [q EXCEPT !.pc = "granted", !.coupon = c, !.offer = f, !.discount = d]
        <4>2. c \in holders[q.code]
          BY <1>a, <4>1, FoundHeld
        <4>3. Step(o, n)
          BY <4>1
        <4> HIDE DEF f, d
        <4>4. DOMAIN n = DOMAIN Start /\ n.pc = "granted" /\ n.coupon = c /\ n.code = q.code
          BY <1>0 DEF Knows, Start
        <4> HIDE DEF n
        <4>5. Knows(o, n)
          BY <1>0, <3>1, <4>2, <4>4 DEF Knows, Reached
        <4>6. QED
          BY <1>6, <4>3, <4>5
      <3>4. QED
        BY <3>2, <3>3
    <2>3. QED
      BY <2>1, <2>2
  <1>9. ASSUME NEW p \in Orders, RecordFind(p) PROVE Knows(o, checkout'[o])
    <2>1. CASE p # o
      BY <1>5, <1>9, <2>1 DEF RecordFind
    <2>2. CASE p = o
      <3>1. q.pc \in {"granted", "done"}
        BY <1>9, <2>2 DEF RecordFind
      <3>2. ASSUME NEW pc \in {"record", "done"}, NEW c, pc = "record" => c \in holders[q.code]
            PROVE  Knows(o, Reported(q, pc, c))
        <4> DEFINE n == Reported(q, pc, c)
        <4>1. /\ DOMAIN n = DOMAIN Start /\ n.pc = pc /\ n.credited = c
              /\ n.coupon = q.coupon /\ n.code = q.code
          BY <1>0 DEF Knows, Start, Reported
        <4> HIDE DEF n
        <4>2. Knows(o, n)
          BY <1>0, <3>1, <3>2, <4>1 DEF Knows, Reached
        <4>3. QED
          BY <4>2 DEF n
      <3>3. CASE Step(o, Reported(q, "done", None))
        BY <1>6, <3>2, <3>3
      <3>4. ASSUME NEW c \in WithCode(q.code), Step(o, Reported(q, "record", c))
            PROVE  Knows(o, checkout'[o])
        <4>1. c \in holders[q.code]
          BY <1>a, FoundHeld
        <4>2. QED
          BY <1>6, <3>2, <3>4, <4>1
      <3>5. QED
        BY <1>9, <2>2, <3>3, <3>4 DEF RecordFind
    <2>3. QED
      BY <2>1, <2>2
  <1>10. ASSUME NEW p \in Orders, Record(p) PROVE Knows(o, checkout[o])'
    <2>1. UNCHANGED holders
      BY <1>10 DEF Record
    <2>2. CASE p # o
      <3>1. checkout'[o] = q
        BY <1>10, <2>2 DEF Record
      <3>2. \A c \in CouponIds : o \in usages'[c] => o \in usages[c]
        BY <1>a, <1>10, <2>2 DEF Record, Tables
      <3>3. QED
        BY <1>0, <2>1, <3>1, <3>2 DEF Knows, Reached
    <2>3. CASE p = o
      <3> DEFINE n == [q EXCEPT !.pc = "done"]
      <3>1. q.pc = "record" /\ checkout'[o] = n
        BY <1>a, <1>10, <2>3 DEF Record, Tables
      <3>2. DOMAIN n = DOMAIN Start /\ n.pc = "done" /\ n.coupon = q.coupon /\ n.code = q.code
        BY <1>0 DEF Knows, Start
      <3>3. \A c \in CouponIds : o \in usages'[c] => o \in usages[c] \/ c = q.credited
        BY <1>a, <1>10, <2>3 DEF Record, Tables
      <3> HIDE DEF n
      <3>4. QED
        BY <1>0, <2>1, <3>1, <3>2, <3>3 DEF Knows, Reached
    <2>4. QED
      BY <2>2, <2>3
  <1>11. CASE UNCHANGED <<checkout, usages, holders>>
    BY <1>2, <1>11
  <1> HIDE DEF q
  <1>12. CASE UNCHANGED vars
    BY <1>11, <1>12 DEF vars
  <1>13. ASSUME NEW c \in CouponIds, NEW k \in Codes, NEW f \in Offers, NEW w \in Windows,
                NEW l \in Asked, NEW m \in Asked, Update(c, k, f, w, l, m) \/ Create(c, k, f, w, l, m)
         PROVE  Knows(o, checkout[o])'
    BY <1>3, <1>13 DEF Update, Create
  <1>14. ASSUME \/ \E c \in CouponIds : Pass(c) \/ \E r \in Requests : RemoveCount(r, c)
                \/ \E r \in Requests : RemoveWrite(r)
         PROVE  UNCHANGED <<checkout, usages, holders>>
    BY <1>14 DEF Pass, RemoveCount, RemoveWrite
  <1>15. QED
    BY <1>1, <1>4, <1>7, <1>8, <1>9, <1>10, <1>11, <1>12, <1>13, <1>14, QuietSteps DEF Next

(* A step of a client that is quiet leaves the rest as it is.              *)
LEMMA QuietKeeps ==
    ASSUME IInv, Quiet
    PROVE  Tables' /\ UsedStays' /\ CodesRemembered'
  BY DEF Quiet, IInv, Tables, UsedStays, CodesRemembered, Exists

(* Every step keeps the invariant.                                         *)
LEMMA InvStep == IInv /\ [Next]_vars => IInv'
  <1> SUFFICES ASSUME IInv, [Next]_vars PROVE IInv'
    OBVIOUS
  <1>1. Tables' /\ UsedStays' /\ CodesRemembered'
    <2>1. CASE UNCHANGED vars
      BY <2>1, QuietKeeps DEF vars, Quiet
    <2>2. CASE Next
      BY <2>2, CreateStep, UpdateStep, RemoveCountStep, RemoveWriteStep, PassStep, RecordStep,
         QuietSteps, QuietKeeps DEF Next
    <2>3. QED
      BY <2>1, <2>2
  <1>2. ASSUME NEW o \in Orders PROVE Knows(o, checkout[o])'
    BY KnowsStep
  <1>3. QED
    BY <1>1, <1>2 DEF IInv

(* The invariant: what is on the books and what clients know.              *)
THEOREM Invariance == Spec => []IInv
  BY Initially, InvStep, PTL DEF Spec

(* The discount of an order is credited to the coupon that gave it, unless *)
(* its code has been another coupon's (coupons.service.ts:519).            *)
THEOREM CreditGoesToTheGrant == Spec => []CreditedAsGranted
  <1>1. IInv => CreditedAsGranted
    <2> SUFFICES ASSUME IInv, NEW o \in Orders, NEW c \in CouponIds,
                        o \in usages[c], OneHolder(checkout[o].code)
                 PROVE  checkout[o].coupon = c
      BY DEF CreditedAsGranted
    <2> DEFINE k == checkout[o].code
    <2>1. k \in Codes /\ c \in holders[k] /\ checkout[o].coupon \in holders[k]
      BY DEF IInv, Knows, Reached
    <2>2. IsFiniteSet(holders[k]) /\ Cardinality(holders[k]) <= 1
      BY <2>1 DEF IInv, Tables, OneHolder
    <2>3. QED
      BY <2>1, <2>2, OnlyOne
  <1>2. QED
    BY Invariance, <1>1, PTL

-----------------------------------------------------------------------------
(* The refinement.                                                         *)

Books  == [d \in CouponIds |-> LedgerStatus(d)]
Counts == [d \in CouponIds |-> IF Exists(d) THEN coupon[d].count ELSE 0]

LEMMA BooksAreFunctions ==
    /\ Books = [d \in CouponIds |-> Books[d]] /\ Books' = [d \in CouponIds |-> Books'[d]]
    /\ Counts = [d \in CouponIds |-> Counts[d]] /\ Counts' = [d \in CouponIds |-> Counts'[d]]
  BY DEF Books, Counts

LEMMA LedgerInitially == Init => Ledger!LedgerInit
  <1> SUFFICES ASSUME Init PROVE Ledger!LedgerInit
    OBVIOUS
  <1>1. \A c \in CouponIds : coupon[c] = None
    BY DEF Init
  <1>2. \A c \in CouponIds : LedgerStatus(c) = "none" /\ ~Exists(c)
    BY <1>1 DEF LedgerStatus, Exists
  <1>3. usages = [c \in CouponIds |-> {}]
    BY DEF Init
  <1>4. QED
    BY <1>2, <1>3 DEF Ledger!LedgerInit

(* Nothing happens to the ledger when every coupon keeps its status there, *)
(* its uses and its count.                                                 *)
LEMMA LedgerStutters ==
    ASSUME UNCHANGED usages,
           \A c \in CouponIds : Books'[c] = Books[c] /\ Counts'[c] = Counts[c]
    PROVE  UNCHANGED Ledger!ledger
  BY DEF Ledger!ledger, Books, Counts

LEMMA QuietStutters ==
    ASSUME UNCHANGED <<coupon, usages>> PROVE UNCHANGED Ledger!ledger
  BY DEF Ledger!ledger, LedgerStatus, Exists

(* A row that is rewritten with its status and count.                      *)
LEMMA RewriteStutters ==
    ASSUME IInv, NEW c \in CouponIds, Exists(c), UNCHANGED usages, NEW row \in Coupon,
           row.status = coupon[c].status, row.count = coupon[c].count,
           coupon' = [coupon EXCEPT ![c] = row]
    PROVE  UNCHANGED Ledger!ledger
  <1>1. coupon[c] \in Coupon /\ coupon'[c] = row
    BY ExistsIsRow DEF IInv, Tables
  <1>2. \A d \in CouponIds : d # c => coupon'[d] = coupon[d]
    BY DEF IInv, Tables
  <1>3. \A d \in CouponIds : Books'[d] = Books[d] /\ Counts'[d] = Counts[d]
    BY <1>1, <1>2, RowsDiffer DEF Books, Counts, LedgerStatus, Exists
  <1>4. QED
    BY <1>3, LedgerStutters

LEMMA LedgerStep ==
    ASSUME IInv, [Next]_vars PROVE [Ledger!LedgerNext]_Ledger!ledger
  <1>0. Tables
    BY DEF IInv
  <1>1. ASSUME NEW c \in CouponIds, NEW k \in Codes, NEW f \in Offers, NEW w \in Windows,
               NEW l \in Asked, NEW m \in Asked, Create(c, k, f, w, l, m)
        PROVE  Ledger!Open(c)
    <2> DEFINE row == [code |-> k, offer |-> f, window |-> w, status |-> "ACTIVE",
                       limit |-> l, perUser |-> m, count |-> 0]
    <2>1. row \in Coupon /\ row.status = "ACTIVE" /\ row.count = 0
      BY Rows
    <2>2. coupon[c] = None /\ coupon' = [coupon EXCEPT ![c] = row] /\ UNCHANGED usages
      BY <1>1 DEF Create
    <2> HIDE DEF row
    <2>3. coupon'[c] = row /\ \A d \in CouponIds : d # c => coupon'[d] = coupon[d]
      BY <1>0, <2>2 DEF Tables
    <2>4. /\ Books[c] = "none" /\ Books'[c] = "open"
          /\ \A d \in CouponIds : /\ d # c => Books'[d] = Books[d]
                                  /\ Counts'[d] = Counts[d]
      BY <2>1, <2>2, <2>3, RowsDiffer DEF Books, Counts, LedgerStatus, Exists
    <2>5. Books' = [Books EXCEPT ![c] = "open"] /\ UNCHANGED Counts
      BY <2>4, BooksAreFunctions
    <2>6. QED
      BY <2>2, <2>4, <2>5 DEF Ledger!Open, Books, Counts
  <1>2. ASSUME NEW c \in CouponIds, NEW k \in Codes, NEW f \in Offers, NEW w \in Windows,
               NEW l \in Asked, NEW m \in Asked, Update(c, k, f, w, l, m)
        PROVE  UNCHANGED Ledger!ledger
    <2> DEFINE row == [code |-> k, offer |-> f, window |-> w, status |-> coupon[c].status,
                       limit |-> l, perUser |-> m, count |-> coupon[c].count]
    <2>1. Exists(c) /\ UNCHANGED usages /\ coupon' = [coupon EXCEPT ![c] = row]
      BY <1>2 DEF Update
    <2>2. row \in Coupon /\ row.status = coupon[c].status /\ row.count = coupon[c].count
      BY <1>0, <2>1, ExistsIsRow, Rows
    <2> HIDE DEF row
    <2>3. QED
      BY <2>1, <2>2, RewriteStutters
  <1>3. ASSUME NEW c \in CouponIds, Pass(c) PROVE UNCHANGED Ledger!ledger
    <2> DEFINE w == IF coupon[c].window = "early" THEN "open" ELSE "over"
               row == [coupon[c] EXCEPT !.window = w]
    <2>1. Exists(c) /\ UNCHANGED usages /\ coupon' = [coupon EXCEPT ![c] = row]
      BY <1>3 DEF Pass
    <2>2. w \in Windows
      BY DEF Windows
    <2> HIDE DEF w
    <2>3. row \in Coupon /\ row.status = coupon[c].status /\ row.count = coupon[c].count
      BY <1>0, <2>1, <2>2, ExistsIsRow, Rewritten
    <2> HIDE DEF row
    <2>4. QED
      BY <2>1, <2>3, RewriteStutters
  <1>4. ASSUME NEW r \in Requests, RemoveWrite(r) PROVE [Ledger!LedgerNext]_Ledger!ledger
    <2>0. removal[r].coupon \in CouponIds
      BY <1>4 DEF IInv, Tables, RemoveWrite, Removal
    <2>a. PICK c \in CouponIds : c = removal[r].coupon
      BY <2>0
    <2> DEFINE row == [coupon[c] EXCEPT !.status = "DISABLED"]
    <2>1. c \in CouponIds /\ (removal[r].used => usages[c] # {})
      BY <1>4, <2>a DEF IInv, UsedStays, RemoveWrite
    <2>2. /\ UNCHANGED usages
          /\ \/ UNCHANGED coupon
             \/ /\ removal[r].used /\ Exists(c)
                /\ coupon' = [coupon EXCEPT ![c] = row]
             \/ /\ usages[c] = {} /\ Exists(c)
                /\ coupon' = [coupon EXCEPT ![c] = Deleted]
      BY <1>4, <2>a DEF RemoveWrite
    <2>3. Exists(c) => /\ coupon[c] \in Coupon /\ coupon[c].status \in Statuses
                       /\ row \in Coupon /\ row.status = "DISABLED" /\ row.count = coupon[c].count
      BY <1>0, <2>1, ExistsIsRow, Rewritten DEF Coupon
    <2> HIDE DEF row
    <2>4. CASE UNCHANGED coupon
      BY <2>2, <2>4, QuietStutters
    <2>5. CASE removal[r].used /\ Exists(c) /\ coupon' = [coupon EXCEPT ![c] = row]
      <3>1. CASE coupon[c].status = "DISABLED"
        BY <2>1, <2>2, <2>3, <2>5, <3>1, RewriteStutters
      <3>2. CASE coupon[c].status = "ACTIVE"
        <4>1. coupon'[c] = row /\ \A d \in CouponIds : d # c => coupon'[d] = coupon[d]
          BY <1>0, <2>1, <2>5 DEF Tables
        <4>2. /\ Books[c] = "open" /\ Books'[c] = "closed"
              /\ \A d \in CouponIds : /\ d # c => Books'[d] = Books[d]
                                      /\ Counts'[d] = Counts[d]
          BY <2>3, <2>5, <3>2, <4>1, RowsDiffer DEF Books, Counts, LedgerStatus, Exists
        <4>3. /\ Books' = [Books EXCEPT ![c] = "closed"]
              /\ UNCHANGED Counts
          BY <4>2, BooksAreFunctions
        <4>4. Ledger!Close(c)
          BY <2>1, <2>2, <2>5, <4>2, <4>3 DEF Ledger!Close, Books, Counts
        <4>5. QED
          BY <2>1, <4>4 DEF Ledger!LedgerNext
      <3>3. QED
        BY <2>3, <2>5, <3>1, <3>2 DEF Statuses
    <2>6. CASE usages[c] = {} /\ Exists(c) /\ coupon' = [coupon EXCEPT ![c] = Deleted]
      <3>1. coupon[c].status = "ACTIVE" /\ coupon[c].count = 0
        BY <2>1, <2>3, <2>6 DEF IInv, UsedStays, Statuses
      <3>2. coupon'[c] = Deleted /\ \A d \in CouponIds : d # c => coupon'[d] = coupon[d]
        BY <1>0, <2>1, <2>6 DEF Tables
      <3>3. /\ Books[c] = "open" /\ Books'[c] = "gone"
            /\ \A d \in CouponIds : /\ d # c => Books'[d] = Books[d]
                                    /\ Counts'[d] = Counts[d]
        BY <2>3, <2>6, <3>1, <3>2, RowsDiffer DEF Books, Counts, LedgerStatus, Exists
      <3>4. /\ Books' = [Books EXCEPT ![c] = "gone"]
            /\ UNCHANGED Counts
        BY <3>3, BooksAreFunctions
      <3>5. Ledger!Withdraw(c)
        BY <2>1, <2>2, <2>6, <3>3, <3>4 DEF Ledger!Withdraw, Books, Counts
      <3>6. QED
        BY <2>1, <3>5 DEF Ledger!LedgerNext
    <2>7. QED
      BY <2>2, <2>4, <2>5, <2>6
  <1>5. ASSUME NEW o \in Orders, Record(o) PROVE [Ledger!LedgerNext]_Ledger!ledger
    <2>0. checkout[o].credited \in CouponIds
      BY <1>5 DEF IInv, Knows, Tables, Record
    <2>1. PICK c \in CouponIds : c = checkout[o].credited
      BY <2>0
    <2> DEFINE row == [coupon[c] EXCEPT !.count = coupon[c].count + 1]
    <2>2. \/ UNCHANGED <<coupon, usages>>
          \/ /\ Exists(c) /\ o \notin usages[c] /\ usages' = [usages EXCEPT ![c] = usages[c] \cup {o}]
             /\ coupon' = [coupon EXCEPT ![c] = row]
      BY <1>5, <2>1 DEF Record
    <2>3. Exists(c) => /\ coupon[c] \in Coupon /\ coupon[c].status \in Statuses
                       /\ row \in Coupon /\ row.status = coupon[c].status
                       /\ row.count = coupon[c].count + 1
      BY <1>0, <2>1, ExistsIsRow, Rewritten DEF Coupon
    <2> HIDE DEF row
    <2>4. CASE UNCHANGED <<coupon, usages>>
      BY <2>4, QuietStutters
    <2>5. CASE /\ Exists(c) /\ o \notin usages[c] /\ usages' = [usages EXCEPT ![c] = usages[c] \cup {o}]
               /\ coupon' = [coupon EXCEPT ![c] = row]
      <3>1. coupon'[c] = row /\ \A d \in CouponIds : d # c => coupon'[d] = coupon[d]
        BY <1>0, <2>1, <2>5 DEF Tables
      <3>2. /\ Books[c] \in {"open", "closed"} /\ Counts'[c] = Counts[c] + 1
            /\ \A d \in CouponIds : /\ Books'[d] = Books[d]
                                    /\ d # c => Counts'[d] = Counts[d]
        BY <2>3, <2>5, <3>1, RowsDiffer DEF Books, Counts, LedgerStatus, Exists, Statuses
      <3>3. /\ Counts'
                 = [Counts EXCEPT ![c] = Counts[c] + 1]
            /\ UNCHANGED Books
        BY <3>2, BooksAreFunctions
      <3>4. Ledger!Enter(c, o)
        BY <2>1, <2>5, <3>2, <3>3 DEF Ledger!Enter, Books, Counts
      <3>5. QED
        BY <2>1, <3>4 DEF Ledger!LedgerNext
    <2>6. QED
      BY <2>2, <2>4, <2>5
  <1>6. ASSUME \/ \E r \in Requests, c \in CouponIds : RemoveCount(r, c)
               \/ UNCHANGED vars \/ Quiet
        PROVE  UNCHANGED Ledger!ledger
    BY <1>6, QuietStutters DEF RemoveCount, vars, Quiet
  <1>7. QED
    BY <1>1, <1>2, <1>3, <1>4, <1>5, <1>6, QuietSteps DEF Next, Ledger!LedgerNext

(* The bookkeeping of the coupons implements the ledger: however requests  *)
(* interleave, a use is entered and counted once, in one step, and a       *)
(* coupon with uses is never deleted (coupons.service.ts:519, :322).       *)
THEOREM Refinement == Spec => ImplementsLedger
  <1>1. IInv /\ [Next]_vars => [Ledger!LedgerNext]_Ledger!ledger
    BY LedgerStep
  <1>2. QED
    BY Invariance, LedgerInitially, <1>1, PTL DEF Spec, ImplementsLedger, Ledger!LedgerSpec

-----------------------------------------------------------------------------
(* Steps of the client of order o that keep the coupon it validated: what  *)
(* becomes of its state, q before and n after.                             *)
Unpriced(q) == q.offer = None
PricedAs(q, n) == n.offer = q.offer /\ n.cart = q.cart /\ n.discount = q.discount

Continues(q, n) ==
    /\ q.pc # "start" /\ n.pc # "start" /\ n.validated = q.validated /\ n.code = q.code
    /\ n.pc \in {"peruser", "reread"} => q.pc = "peruser"
    /\ \/ PricedAs(q, n)
       \/ Unpriced(n) /\ n.pc \in Reached
       \/ /\ q.pc = "reread" /\ n.cart = q.cart
          /\ n.offer \in Offers /\ n.discount = Discount(n.offer, n.cart)

Others(o) == \A p \in Orders : p # o => checkout'[p] = checkout[p]

(* What one client does, but for the check of a limit.                     *)
LEMMA ClientSteps ==
    ASSUME IInv, NEW o \in Orders, CountPerUser(o) \/ Grant(o) \/ RecordFind(o) \/ Record(o)
    PROVE  Others(o) /\ (checkout'[o] = Start \/ Continues(checkout[o], checkout'[o]))
  <1> DEFINE q == checkout[o]
  <1>a. Tables /\ Knows(o, q) /\ DOMAIN q = DOMAIN Start
    BY DEF IInv, Knows
  <1>1. ASSUME NEW n, Step(o, n) PROVE Others(o) /\ checkout'[o] = n
    BY <1>a, <1>1 DEF Step, Tables, Others
  <1>2. CASE CountPerUser(o)
    <2> DEFINE n == [q EXCEPT !.pc = "reread", !.perUser = None]
    <2>1. q.pc = "peruser" /\ (Step(o, n) \/ Step(o, Start))
      BY <1>2 DEF CountPerUser
    <2>2. Continues(q, n)
      BY <1>a, <2>1 DEF Continues, Start, PricedAs
    <2> HIDE DEF n
    <2>3. QED
      BY <1>1, <2>1, <2>2
  <1>3. CASE Grant(o)
    <2>1. q.pc = "reread"
      BY <1>3 DEF Grant
    <2>2. CASE Step(o, Start)
      BY <1>1, <2>2
    <2>3. CASE ~Step(o, Start)
      <3>1. PICK c \in WithCode(q.code) :
              Step(o, [q EXCEPT !.pc = "granted", !.coupon = c, !.offer = coupon[c].offer,
                                !.discount = Discount(coupon[c].offer, q.cart)])
        BY <1>3, <2>3 DEF Grant
      <3> DEFINE f == coupon[c].offer
                 d == Discount(coupon[c].offer, q.cart)
                 n == [q EXCEPT !.pc = "granted", !.coupon = c, !.offer = f, !.discount = d]
      <3>2. Step(o, n)
        BY <3>1
      <3>3. f \in Offers
        BY <1>a, ExistsIsRow DEF WithCode, Coupon
      <3>4. d = Discount(f, q.cart)
        OBVIOUS
      <3> HIDE DEF f, d
      <3>5. /\ n.pc = "granted" /\ n.validated = q.validated /\ n.code = q.code
            /\ n.cart = q.cart /\ n.offer = f /\ n.discount = d
        BY <1>a DEF Start
      <3> HIDE DEF n
      <3>6. Continues(q, n)
        BY <2>1, <3>3, <3>4, <3>5 DEF Continues
      <3>7. QED
        BY <1>1, <3>2, <3>6
    <2>4. QED
      BY <2>2, <2>3
  <1>4. CASE RecordFind(o)
    <2>1. q.pc \in {"granted", "done"}
      BY <1>4 DEF RecordFind
    <2>2. ASSUME NEW pc \in {"record", "done"}, NEW c PROVE Continues(q, Reported(q, pc, c))
      <3> DEFINE n == Reported(q, pc, c)
      <3>1. n.pc = pc /\ n.validated = q.validated /\ n.code = q.code /\ n.offer = None
        BY <1>a DEF Start, Reported
      <3> HIDE DEF n
      <3>2. Continues(q, n)
        BY <2>1, <3>1 DEF Continues, Unpriced, Reached
      <3>3. QED
        BY <3>2 DEF n
    <2>3. CASE Step(o, Reported(q, "done", None))
      BY <1>1, <2>2, <2>3
    <2>4. ASSUME NEW c \in WithCode(q.code), Step(o, Reported(q, "record", c))
          PROVE  Others(o) /\ Continues(q, checkout'[o])
      BY <1>1, <2>2, <2>4
    <2>5. QED
      BY <1>4, <2>3, <2>4 DEF RecordFind
  <1>5. CASE Record(o)
    <2> DEFINE n == [q EXCEPT !.pc = "done"]
    <2>1. q.pc = "record" /\ checkout' = [checkout EXCEPT ![o] = n]
      BY <1>5 DEF Record
    <2>2. Continues(q, n)
      BY <1>a, <2>1 DEF Continues, Start, PricedAs
    <2> HIDE DEF n
    <2>3. QED
      BY <1>a, <2>1, <2>2 DEF Tables, Others
  <1>6. QED
    BY <1>2, <1>3, <1>4, <1>5

(* The check of a limit, by the client of o.                               *)
LEMMA AdmitStep ==
    ASSUME IInv, NEW o \in Orders, NEW k \in Codes, NEW x \in Carts, NEW c \in CouponIds,
           Admit(o, k, x, c)
    PROVE  /\ Others(o) /\ UNCHANGED <<coupon, usages, removal, edits, holders, cut>>
           /\ checkout'[o].pc \in {"peruser", "reread"} /\ checkout'[o].code = k
           /\ checkout'[o].cart = x /\ checkout'[o].validated = c /\ checkout'[o].offer = None
           /\ peak' = [peak EXCEPT ![c] = Max({peak[c], Cardinality(Outstanding(c)) + 1})]
  <1> DEFINE pc == IF coupon[c].perUser = None THEN "reread" ELSE "peruser"
             per == coupon[c].perUser
             n == [Start EXCEPT !.pc = pc, !.code = k, !.cart = x, !.validated = c, !.perUser = per]
  <1>1. checkout' = [checkout EXCEPT ![o] = n]
    BY DEF Admit
  <1>2. pc \in {"peruser", "reread"}
    OBVIOUS
  <1> HIDE DEF pc, per
  <1>3. n.pc = pc /\ n.code = k /\ n.cart = x /\ n.validated = c /\ n.offer = None
    BY DEF Start
  <1> HIDE DEF n
  <1>4. checkout'[o] = n /\ Others(o)
    BY <1>1 DEF IInv, Tables, Others
  <1>5. QED
    BY <1>2, <1>3, <1>4 DEF Admit

(* Everything else is an administrator's step, or the time that passes.    *)
Administers ==
    \/ \E c \in CouponIds :
          \/ \E k \in Codes, f \in Offers, w \in Windows, l \in Asked, m \in Asked :
                Create(c, k, f, w, l, m) \/ Update(c, k, f, w, l, m)
          \/ \E r \in Requests : RemoveCount(r, c)
          \/ Pass(c)
    \/ \E r \in Requests : RemoveWrite(r)

(* A step of an administrator leaves the clients alone.                    *)
LEMMA AdminSteps ==
    /\ Administers => UNCHANGED <<checkout, usages, peak>>
    /\ [Next]_vars => \/ Administers \/ UNCHANGED vars
                      \/ \E o \in Orders :
                            \/ \E k \in Codes, x \in Carts : Validate(o, k, x)
                            \/ CountPerUser(o) \/ Grant(o) \/ RecordFind(o) \/ Record(o)
  <1>1. Administers => UNCHANGED <<checkout, usages, peak>>
    <2>1. ASSUME NEW c \in CouponIds, NEW k \in Codes, NEW f \in Offers, NEW w \in Windows,
                 NEW l \in Asked, NEW m \in Asked, Update(c, k, f, w, l, m) \/ Create(c, k, f, w, l, m)
          PROVE  UNCHANGED <<checkout, usages, peak>>
      BY <2>1 DEF Update, Create
    <2>2. ASSUME NEW c \in CouponIds, Pass(c) \/ \E r \in Requests : RemoveCount(r, c)
          PROVE  UNCHANGED <<checkout, usages, peak>>
      BY <2>2 DEF Pass, RemoveCount
    <2>3. ASSUME NEW r \in Requests, RemoveWrite(r)
          PROVE  UNCHANGED <<checkout, usages, peak>>
      BY <2>3 DEF RemoveWrite
    <2>4. QED
      BY <2>1, <2>2, <2>3 DEF Administers
  <1>2. QED
    BY <1>1 DEF Administers, Next

-----------------------------------------------------------------------------
(* Discounts.                                                              *)

Priced(q) ==
    /\ q.pc \in {"peruser", "reread"} => q.cart \in Carts /\ q.offer = None
    /\ q.offer # None =>
          q.offer \in Offers /\ q.cart \in Carts /\ q.discount = Discount(q.offer, q.cart)

(* A client that has not started has been granted no discount.             *)
LEMMA StartPriced == Priced(Start)
  BY DEF Priced, Start

(* A client that goes on keeps the discount it was granted.                *)
LEMMA ContinuesPriced ==
    ASSUME NEW q, NEW n, Priced(q), Continues(q, n)
    PROVE  Priced(n)
  BY DEF Priced, Continues, PricedAs, Unpriced, Reached

(* Every step keeps the discounts within the prices.                       *)
LEMMA PricedStep ==
    ASSUME IInv, [Next]_vars, \A o \in Orders : Priced(checkout[o]), NEW p \in Orders
    PROVE  Priced(checkout'[p])
  <1>1. ASSUME NEW o \in Orders, Others(o), Priced(checkout'[o]) PROVE Priced(checkout'[p])
    BY <1>1 DEF Others
  <1>2. ASSUME NEW o \in Orders, CountPerUser(o) \/ Grant(o) \/ RecordFind(o) \/ Record(o)
        PROVE  Priced(checkout'[p])
    BY <1>1, <1>2, ClientSteps, StartPriced, ContinuesPriced
  <1>3. ASSUME NEW o \in Orders, NEW k \in Codes, NEW x \in Carts, Validate(o, k, x)
        PROVE  Priced(checkout'[p])
    <2>1. PICK c \in WithCode(k) : Admit(o, k, x, c)
      BY <1>3 DEF Validate
    <2>2. c \in CouponIds
      BY DEF WithCode
    <2>4. /\ Others(o) /\ checkout'[o].cart = x /\ checkout'[o].offer = None
      BY <2>1, <2>2, AdmitStep
    <2>5. Priced(checkout'[o])
      BY <2>4 DEF Priced
    <2>3. QED
      BY <1>1, <2>4, <2>5
  <1>4. CASE UNCHANGED checkout
    BY <1>4
  <1>5. QED
    BY <1>2, <1>3, <1>4, AdminSteps DEF vars

(* The larger of two numbers.                                              *)
LEMMA MaxOfTwo ==
    ASSUME NEW a \in Int, NEW b \in Int
    PROVE  Max({a, b}) \in Int /\ Max({a, b}) >= a /\ Max({a, b}) >= b /\ Max({a, b}) \in {a, b}
  <1> DEFINE m == IF a >= b THEN a ELSE b
  <1>1. m \in {a, b} /\ \A y \in {a, b} : m >= y
    OBVIOUS
  <1>2. Max({a, b}) \in {a, b} /\ \A y \in {a, b} : Max({a, b}) >= y
    BY <1>1 DEF Max
  <1>3. QED
    BY <1>2

(* The largest of three.                                                   *)
LEMMA MaxOfThree ==
    ASSUME NEW a \in Int, NEW b \in Int, NEW c \in Int
    PROVE  Max({a, b, c}) \in Int /\ a <= Max({a, b, c}) /\ b <= Max({a, b, c}) /\ c <= Max({a, b, c})
  <1>1. \E x \in {a, b, c} : \A y \in {a, b, c} : x >= y
    OBVIOUS
  <1>2. Max({a, b, c}) \in {a, b, c} /\ \A y \in {a, b, c} : Max({a, b, c}) >= y
    BY <1>1 DEF Max
  <1>3. QED
    BY <1>2

(* The eligible part of the goods costs no more than those that are wanted *)
(* in a positive quantity.                                                 *)
LEMMA PartOfGoods ==
    ASSUME NEW items \in [Products -> Int], NEW S \in SUBSET Products
    PROVE  /\ Listed(S, items) \in Int /\ Listed(Products, Wanted(items)) \in Int
           /\ Listed(S, items) <= Listed(Products, Wanted(items))
  <1> DEFINE f == [x \in Products |-> PriceOf[x] * items[x]]
             w == Wanted(items)
             g == [x \in Products |-> PriceOf[x] * w[x]]
  <1>1. \A x \in Products : /\ w[x] \in Nat /\ items[x] \in Int /\ items[x] <= w[x]
                            /\ PriceOf[x] \in Nat
    <2> TAKE x \in Products
    <2> DEFINE n == items[x]
               z == 0
    <2>1. w[x] = Max({z, n}) /\ z \in Int /\ n \in Int
      BY DEF Wanted
    <2> HIDE DEF n, w, z
    <2>2. Max({z, n}) \in Int /\ Max({z, n}) >= z /\ Max({z, n}) >= n
      BY <2>1, MaxOfTwo
    <2>3. QED
      BY <2>1, <2>2, CouponsAssumption DEF n, z
  <1>2. \A x \in Products : f[x] \in Int /\ g[x] \in Nat /\ f[x] <= g[x]
    <2> TAKE x \in Products
    <2> DEFINE a == PriceOf[x]
               b == items[x]
               d == w[x]
    <2>1. a \in Nat /\ b \in Int /\ d \in Nat /\ b <= d
      BY <1>1
    <2>2. f[x] = a * b /\ g[x] = a * d
      OBVIOUS
    <2> HIDE DEF a, b, d, f, g
    <2>3. a * b \in Int /\ a * d \in Nat /\ a * b <= a * d
      BY <2>1
    <2>4. QED
      BY <2>2, <2>3
  <1>3. Listed(S, items) = SumFunctionOnSet(f, S)
        /\ Listed(Products, Wanted(items)) = SumFunctionOnSet(g, Products)
    BY DEF Listed
  <1> HIDE DEF f, g
  <1>4. IsFiniteSet(Products) /\ IsFiniteSet(S)
    BY CouponsAssumption, FS_Subset
  <1>5. /\ SumFunctionOnSet(f, S) \in Int /\ SumFunctionOnSet(g, S) \in Int
        /\ SumFunctionOnSet(g, Products) \in Int
    BY <1>2, <1>4, SumType
  <1>6. SumFunctionOnSet(f, S) <= SumFunctionOnSet(g, S)
    BY <1>2, <1>4, SumMonotone
  <1>7. SumFunctionOnSet(g, S) <= SumFunctionOnSet(g, Products)
    BY <1>2, <1>4, SumGrows
  <1>8. QED
    BY <1>3, <1>5, <1>6, <1>7

(* What a percentage counts is at most the goods.                          *)
LEMMA EligibleGoods ==
    ASSUME NEW f \in Offers, NEW x \in Carts
    PROVE  /\ Discountable(f, x) \in Int /\ Goods(x) \in Nat
           /\ Discountable(f, x) <= Goods(x)
  <1>1. /\ x.subtotal \in Int /\ x.items \in {None} \cup [Products -> Int]
        /\ f.scope \in {None} \cup SUBSET Products
    BY CouponsAssumption
  <1> DEFINE s == x.subtotal
             b == IF x.items = None THEN 0 ELSE Listed(Products, Wanted(x.items))
             z == 0
  <1>2. b \in Int
    BY <1>1, PartOfGoods
  <1>3. Goods(x) = Max({z, s, b}) /\ z \in Int
    BY DEF Goods
  <1>4. s \in Int
    BY <1>1
  <1>5. Discountable(f, x) = s \/ (Discountable(f, x) \in Int /\ Discountable(f, x) <= b)
    BY <1>1, PartOfGoods DEF Discountable
  <1> HIDE DEF s, b, z
  <1>6. Goods(x) \in Int /\ z <= Goods(x) /\ s <= Goods(x) /\ b <= Goods(x)
    <2>1. z \in Int
      BY <1>3
    <2>2. /\ Max({z, s, b}) \in Int
          /\ z <= Max({z, s, b}) /\ s <= Max({z, s, b}) /\ b <= Max({z, s, b})
      BY <1>2, <1>4, <2>1, MaxOfThree
    <2>3. QED
      BY <1>3, <2>2
  <1>7. QED
    BY <1>2, <1>4, <1>5, <1>6 DEF z

(* A discount on goods is at most the subtotal that was sent, or, for a    *)
(* percentage, that or the list price of the goods.                        *)
THEOREM DiscountsAreCapped == Spec => []DiscountWithinTotal
  <1> DEFINE PInv == \A o \in Orders : Priced(checkout[o])
  <1>1. Init => PInv
    BY StartPriced DEF Init
  <1>2. IInv /\ PInv /\ [Next]_vars => PInv'
    BY PricedStep
  <1>3. PInv => DiscountWithinTotal
    <2> SUFFICES ASSUME PInv, NEW o \in Orders, checkout[o].offer # None
                 PROVE  LET q == checkout[o]
                        IN  /\ q.offer.type = "FIXED_AMOUNT" => q.discount <= 100 * q.cart.subtotal
                            /\ q.offer.type = "PERCENTAGE" /\ q.offer.value <= 100
                                  => q.discount <= 100 * Goods(q.cart)
      BY DEF DiscountWithinTotal
    <2> DEFINE f == checkout[o].offer
               x == checkout[o].cart
    <2>1. f \in Offers /\ x \in Carts /\ checkout[o].discount = Discount(f, x)
      BY DEF Priced
    <2>2. f.value \in Nat /\ x.subtotal \in Int
      BY <2>1, CouponsAssumption
    <2>3. ASSUME f.type = "FIXED_AMOUNT" PROVE checkout[o].discount <= 100 * x.subtotal
      <3>1. Discount(f, x) = 100 * (IF f.value > x.subtotal THEN x.subtotal ELSE f.value)
        BY <2>3 DEF Discount
      <3> HIDE DEF f, x
      <3>2. QED
        BY <2>1, <2>2, <3>1
    <2>4. ASSUME f.type = "PERCENTAGE", f.value <= 100 PROVE checkout[o].discount <= 100 * Goods(x)
      <3> DEFINE v == f.value
                 a == Discountable(f, x)
                 b == Goods(x)
      <3>1. Discount(f, x) = v * a
        BY <2>4 DEF Discount
      <3>2. v \in Nat /\ v <= 100 /\ a \in Int /\ b \in Nat /\ a <= b
        BY <2>1, <2>2, <2>4, EligibleGoods
      <3> HIDE DEF v, a, b
      <3>3. v * a <= v * b /\ v * b <= 100 * b /\ v * a \in Int /\ v * b \in Int
        BY <3>2
      <3>4. Discount(f, x) <= 100 * b
        BY <3>1, <3>2, <3>3
      <3>5. QED
        BY <2>1, <3>4 DEF b
    <2>5. QED
      BY <2>3, <2>4
  <1>4. QED
    BY Invariance, <1>1, <1>2, <1>3, PTL DEF Spec

-----------------------------------------------------------------------------
(* What a client that validated a coupon knows of it: it is there or was,  *)
(* and it has held the client's code.                                      *)
Holds(q) ==
    /\ q.pc # "start" => q.validated # None
    /\ q.validated # None =>
          /\ q.validated \in CouponIds /\ coupon[q.validated] # None
          /\ q.code \in Codes /\ q.validated \in holders[q.code]

HoldersCounted ==
    /\ peak \in [CouponIds -> Nat]
    /\ \A c \in CouponIds : Cardinality(Outstanding(c)) <= peak[c]

OvershootInv ==
    /\ \A o \in Orders : Holds(checkout[o])
    /\ HoldersCounted
    /\ OvershootBounded

(* A client that has not started holds no coupon.                          *)
LEMMA StartHolds == Holds(Start) /\ Start.validated = None
  BY DEF Holds, Start

(* Clients that hold a coupon are finitely many.                           *)
LEMMA OutstandingFinite ==
    \A c \in CouponIds : IsFiniteSet(Outstanding(c)) /\ Cardinality(Outstanding(c)) \in Nat
  <1>1. ASSUME NEW c \in CouponIds PROVE IsFiniteSet(Outstanding(c))
    BY CouponsAssumption, FS_Subset DEF Outstanding
  <1>2. QED
    BY <1>1, FS_CardinalityType

(* And so they are after a step.                                           *)
LEMMA OutstandingFiniteAfter ==
    (\A c \in CouponIds : IsFiniteSet(Outstanding(c)) /\ Cardinality(Outstanding(c)) \in Nat)'
  BY OutstandingFinite, PTL

(* A code remembers who has had it, and a coupon whose codes are its own   *)
(* now had them to itself before.                                          *)
LEMMA CodesGrow ==
    ASSUME IInv, [Next]_vars
    PROVE  /\ \A k \in Codes : holders[k] \subseteq holders'[k]
           /\ \A c \in CouponIds : HadOwnCodes(c)' => HadOwnCodes(c)
  <1>a. Tables /\ Tables'
    BY InvStep DEF IInv
  <1>1. \A k \in Codes : holders[k] \subseteq holders'[k]
    <2>1. ASSUME NEW k \in Codes, NEW c \in CouponIds,
                 holders' = [holders EXCEPT ![k] = holders[k] \cup {c}]
          PROVE  \A j \in Codes : holders[j] \subseteq holders'[j]
      BY <1>a, <2>1, Remembering
    <2>2. ASSUME NEW c \in CouponIds, NEW k \in Codes, NEW f \in Offers, NEW w \in Windows,
                 NEW l \in Asked, NEW m \in Asked, Update(c, k, f, w, l, m) \/ Create(c, k, f, w, l, m)
          PROVE  holders' = [holders EXCEPT ![k] = holders[k] \cup {c}]
      BY <2>2 DEF Update, Create
    <2>3. ASSUME NEW c \in CouponIds, Pass(c) \/ \E r \in Requests : RemoveCount(r, c)
          PROVE  UNCHANGED holders
      BY <2>3 DEF Pass, RemoveCount
    <2>4. ASSUME NEW r \in Requests, RemoveWrite(r)
          PROVE  UNCHANGED holders
      BY <2>4 DEF RemoveWrite
    <2>5. ASSUME NEW o \in Orders,
                 \/ \E k \in Codes, x \in Carts : Validate(o, k, x)
                 \/ CountPerUser(o) \/ Grant(o) \/ RecordFind(o) \/ Record(o)
          PROVE  UNCHANGED holders
      BY <2>5, QuietSteps DEF Quiet, Record
    <2>6. QED
      BY <2>1, <2>2, <2>3, <2>4, <2>5 DEF Next, vars
  <1>2. ASSUME NEW c \in CouponIds, HadOwnCodes(c)', NEW k \in Codes, c \in holders[k]
        PROVE  OneHolder(k)
    <2>1. Cardinality(holders'[k]) <= 1
      BY <1>1, <1>2 DEF HadOwnCodes, OneHolder
    <2>2. IsFiniteSet(holders'[k]) /\ holders[k] \subseteq holders'[k]
      BY <1>a, <1>1 DEF Tables
    <2>3. Cardinality(holders[k]) <= Cardinality(holders'[k])
          /\ Cardinality(holders[k]) \in Nat /\ Cardinality(holders'[k]) \in Nat
      BY <2>2, FS_Subset, FS_CardinalityType
    <2>4. QED
      BY <2>1, <2>3 DEF OneHolder
  <1>3. QED
    BY <1>1, <1>2 DEF HadOwnCodes

(* The steps, one by one: the clients that hold a coupon.                  *)
LEMMA FewerHold ==
    ASSUME NEW c \in CouponIds, Outstanding(c)' \subseteq Outstanding(c)
    PROVE  Cardinality(Outstanding(c)') <= Cardinality(Outstanding(c))
  BY OutstandingFinite, FS_Subset

(* One client more holds the coupon.                                       *)
LEMMA OneMoreHolds ==
    ASSUME NEW c \in CouponIds, NEW o, Outstanding(c)' \subseteq Outstanding(c) \cup {o}
    PROVE  Cardinality(Outstanding(c)') <= Cardinality(Outstanding(c)) + 1
  <1>1. IsFiniteSet(Outstanding(c)) /\ Cardinality(Outstanding(c)) \in Nat
    BY OutstandingFinite
  <1>2. IsFiniteSet(Outstanding(c) \cup {o})
        /\ Cardinality(Outstanding(c) \cup {o}) <= Cardinality(Outstanding(c)) + 1
    <2> DEFINE S == Outstanding(c)
    <2>1. IsFiniteSet(S) /\ Cardinality(S) \in Nat
      BY <1>1
    <2> HIDE DEF S
    <2>2. IsFiniteSet(S \cup {o}) /\ Cardinality(S \cup {o}) <= Cardinality(S) + 1
      <3>1. /\ IsFiniteSet(S \cup {o})
            /\ Cardinality(S \cup {o}) = IF o \in S THEN Cardinality(S) ELSE Cardinality(S) + 1
        BY <2>1, FS_AddElement
      <3>2. QED
        BY <2>1, <3>1
    <2>3. QED
      BY <2>2 DEF S
  <1>3. Cardinality(Outstanding(c)') <= Cardinality(Outstanding(c) \cup {o})
        /\ Cardinality(Outstanding(c)') \in Nat /\ Cardinality(Outstanding(c) \cup {o}) \in Nat
    BY <1>2, FS_Subset, FS_CardinalityType
  <1>4. QED
    BY <1>1, <1>2, <1>3

(* One client of the coupon has let go of it.                              *)
LEMMA OneLessHolds ==
    ASSUME NEW c \in CouponIds, NEW o \in Outstanding(c), Outstanding(c)' \subseteq Outstanding(c) \ {o}
    PROVE  Cardinality(Outstanding(c)') + 1 <= Cardinality(Outstanding(c))
  <1>1. IsFiniteSet(Outstanding(c)) /\ Cardinality(Outstanding(c)) \in Nat
    BY OutstandingFinite
  <1>2. IsFiniteSet(Outstanding(c) \ {o})
        /\ Cardinality(Outstanding(c) \ {o}) = Cardinality(Outstanding(c)) - 1
    BY <1>1, FS_RemoveElement
  <1>3. Cardinality(Outstanding(c)') <= Cardinality(Outstanding(c) \ {o})
        /\ Cardinality(Outstanding(c)') \in Nat
    BY <1>2, FS_Subset, FS_CardinalityType
  <1>4. QED
    BY <1>1, <1>2, <1>3

(* A coupon within its bound, stated of numbers: its count, its limit, how *)
(* many clients hold it and the most that have.                            *)
Within(count, hold, limit, most) == count + hold < limit + Max({1, most})

(* The peak or one client, whichever is more, is what the bound allows.    *)
LEMMA PeakOrOne ==
    ASSUME NEW m \in Nat
    PROVE  Max({1, m}) \in Int /\ Max({1, m}) >= 1 /\ Max({1, m}) >= m
  <1>1. 1 \in Int /\ m \in Int
    OBVIOUS
  <1>2. QED
    BY <1>1, MaxOfTwo

(* Fewer holders, of as many usages, stay within the bound.                *)
LEMMA WithinShrinks ==
    ASSUME NEW n \in Nat, NEW h \in Nat, NEW h1 \in Nat, NEW l \in Nat, NEW m \in Nat,
           h1 <= h, Within(n, h, l, m)
    PROVE  Within(n, h1, l, m)
  <1> DEFINE x == Max({1, m})
  <1>1. x \in Int /\ x >= 1 /\ x >= m
    BY PeakOrOne
  <1> HIDE DEF x
  <1>2. Within(n, h, l, m) <=> n + h < l + x
    BY DEF Within, x
  <1>3. QED
    BY <1>1, <1>2 DEF Within, x

(* A holder that becomes a usage leaves their number as it was.            *)
LEMMA WithinMoves ==
    ASSUME NEW n \in Nat, NEW h \in Nat, NEW h1 \in Nat, NEW l \in Nat, NEW m \in Nat,
           h1 + 1 <= h, Within(n, h, l, m)
    PROVE  Within(n + 1, h1, l, m)
  <1> DEFINE x == Max({1, m})
  <1>1. x \in Int /\ x >= 1 /\ x >= m
    BY PeakOrOne
  <1> HIDE DEF x
  <1>2. Within(n, h, l, m) <=> n + h < l + x
    BY DEF Within, x
  <1>3. QED
    BY <1>1, <1>2 DEF Within, x

(* A count below its limit is within the bound, whatever holds the coupon. *)
LEMMA WithinBelow ==
    ASSUME NEW n \in Nat, NEW h \in Nat, NEW l \in Nat, NEW m \in Nat, n < l, h <= m
    PROVE  Within(n, h, l, m)
  <1> DEFINE x == Max({1, m})
  <1>1. x \in Int /\ x >= 1 /\ x >= m
    BY PeakOrOne
  <1> HIDE DEF x
  <1>2. Within(n, h, l, m) <=> n + h < l + x
    BY DEF Within, x
  <1>3. QED
    BY <1>1, <1>2 DEF Within, x

-----------------------------------------------------------------------------
(* A coupon that was created is there, or deleted.                         *)
LEMMA CouponsStay ==
    ASSUME IInv, [Next]_vars, NEW c \in CouponIds, coupon[c] # None
    PROVE  coupon'[c] # None
  <1>a. Tables
    BY DEF IInv
  <1>1. ASSUME NEW d \in CouponIds, NEW row, row # None, coupon' = [coupon EXCEPT ![d] = row]
        PROVE  coupon'[c] # None
    BY <1>a, <1>1 DEF Tables
  <1>2. ASSUME NEW d \in CouponIds, NEW k \in Codes, NEW f \in Offers, NEW w \in Windows,
               NEW l \in Asked, NEW m \in Asked, Create(d, k, f, w, l, m)
        PROVE  coupon'[c] # None
    <2> DEFINE row == [code |-> k, offer |-> f, window |-> w, status |-> "ACTIVE",
                       limit |-> l, perUser |-> m, count |-> 0]
    <2>1. coupon' = [coupon EXCEPT ![d] = row]
      BY <1>2 DEF Create
    <2>2. row \in Coupon
      BY Rows
    <2> HIDE DEF row
    <2>3. QED
      BY <1>1, <2>1, <2>2, RowsDiffer
  <1>3. ASSUME NEW d \in CouponIds, NEW k \in Codes, NEW f \in Offers, NEW w \in Windows,
               NEW l \in Asked, NEW m \in Asked, Update(d, k, f, w, l, m)
        PROVE  coupon'[c] # None
    <2> DEFINE row == [code |-> k, offer |-> f, window |-> w, status |-> coupon[d].status,
                       limit |-> l, perUser |-> m, count |-> coupon[d].count]
    <2>1. coupon' = [coupon EXCEPT ![d] = row] /\ coupon[d] \in Coupon
      BY <1>a, <1>3, ExistsIsRow DEF Update
    <2>2. row \in Coupon
      BY <2>1, Rows
    <2> HIDE DEF row
    <2>3. QED
      BY <1>1, <2>1, <2>2, RowsDiffer
  <1>4. ASSUME NEW d \in CouponIds, Pass(d)
        PROVE  coupon'[c] # None
    <2> DEFINE w == IF coupon[d].window = "early" THEN "open" ELSE "over"
               row == [coupon[d] EXCEPT !.window = w]
    <2>1. coupon' = [coupon EXCEPT ![d] = row] /\ coupon[d] \in Coupon
      BY <1>a, <1>4, ExistsIsRow DEF Pass
    <2>2. w \in Windows
      BY DEF Windows
    <2> HIDE DEF w
    <2>3. row \in Coupon
      BY <2>1, <2>2, Rewritten
    <2> HIDE DEF row
    <2>4. QED
      BY <1>1, <2>1, <2>3, RowsDiffer
  <1>5. ASSUME NEW r \in Requests, RemoveWrite(r)
        PROVE  coupon'[c] # None
    <2> DEFINE d == removal[r].coupon
               row == [coupon[d] EXCEPT !.status = "DISABLED"]
    <2>1. d \in CouponIds
      BY <1>a, <1>5 DEF Tables, RemoveWrite, Removal
    <2>2. \/ UNCHANGED coupon
          \/ coupon' = [coupon EXCEPT ![d] = Deleted]
          \/ coupon' = [coupon EXCEPT ![d] = row] /\ Exists(d)
      BY <1>5 DEF RemoveWrite
    <2>3. Exists(d) => row \in Coupon
      BY <1>a, <2>1, ExistsIsRow, Rewritten
    <2> HIDE DEF row
    <2>4. QED
      BY <1>1, <2>1, <2>2, <2>3, RowsDiffer
  <1>6. ASSUME NEW o \in Orders, Record(o)
        PROVE  coupon'[c] # None
    <2> DEFINE d == checkout[o].credited
               row == [coupon[d] EXCEPT !.count = coupon[d].count + 1]
    <2>1. \/ UNCHANGED coupon
          \/ coupon' = [coupon EXCEPT ![d] = row] /\ Exists(d)
      BY <1>6 DEF Record
    <2>2. d \in CouponIds
      BY <1>a, <1>6 DEF IInv, Knows, Tables, Record
    <2>3. Exists(d) => row \in Coupon
      BY <1>a, <2>2, ExistsIsRow, Rewritten
    <2> HIDE DEF row
    <2>4. QED
      BY <1>1, <2>1, <2>2, <2>3, RowsDiffer
  <1>7. CASE UNCHANGED coupon
    BY <1>7
  <1>8. ASSUME NEW o \in Orders,
               \/ \E k \in Codes, x \in Carts : Validate(o, k, x)
               \/ CountPerUser(o) \/ Grant(o) \/ RecordFind(o)
        PROVE  UNCHANGED coupon
    BY <1>8, QuietSteps DEF Quiet
  <1>9. QED
    BY <1>2, <1>3, <1>4, <1>5, <1>6, <1>7, <1>8 DEF Next, vars, RemoveCount

(* What a client knows of the coupon it holds stays so.                    *)
LEMMA HoldsStep ==
    ASSUME IInv, [Next]_vars, \A o \in Orders : Holds(checkout[o]), NEW p \in Orders
    PROVE  Holds(checkout[p])'
  <1>a. CodesRemembered
    BY DEF IInv
  <1>1. Holds(checkout'[p])
    <2>1. ASSUME NEW o \in Orders, Others(o), Holds(checkout'[o]) PROVE Holds(checkout'[p])
      BY <2>1 DEF Others
    <2>2. ASSUME NEW o \in Orders, CountPerUser(o) \/ Grant(o) \/ RecordFind(o) \/ Record(o)
          PROVE  Holds(checkout'[p])
      <3>1. Holds(checkout'[o])
        <4>1. ASSUME Continues(checkout[o], checkout'[o]) PROVE Holds(checkout'[o])
          BY <4>1 DEF Continues, Holds
        <4>2. QED
          BY <2>2, <4>1, ClientSteps, StartHolds
      <3>2. QED
        BY <2>1, <2>2, <3>1, ClientSteps
    <2>3. ASSUME NEW o \in Orders, NEW k \in Codes, NEW x \in Carts, Validate(o, k, x)
          PROVE  Holds(checkout'[p])
      <3>1. PICK c \in WithCode(k) : Admit(o, k, x, c)
        BY <2>3 DEF Validate
      <3>2. c \in CouponIds /\ c \in holders[k] /\ coupon[c] # None
        BY <1>a, FoundHeld DEF WithCode, Exists
      <3>3. Others(o) /\ checkout'[o].validated = c /\ checkout'[o].code = k
        BY <3>1, <3>2, AdmitStep
      <3>4. c # None
        BY <3>2, CouponsAssumption
      <3>5. Holds(checkout'[o])
        BY <3>2, <3>3, <3>4 DEF Holds
      <3>6. QED
        BY <2>1, <3>3, <3>5
    <2>4. CASE UNCHANGED checkout
      BY <2>4
    <2>5. QED
      BY <2>2, <2>3, <2>4, AdminSteps DEF vars
  <1>2. \A c \in CouponIds : coupon[c] # None => coupon'[c] # None
    BY CouponsStay
  <1>3. \A k \in Codes : holders[k] \subseteq holders'[k]
    BY CodesGrow
  <1>4. QED
    BY <1>1, <1>2, <1>3 DEF Holds

(* The clients that hold a coupon grow by the check of its limit only.     *)
LEMMA HoldersMove ==
    ASSUME IInv, NEW o \in Orders, CountPerUser(o) \/ Grant(o) \/ RecordFind(o) \/ Record(o),
           NEW c \in CouponIds
    PROVE  Outstanding(c)' \subseteq Outstanding(c)
  <1>1. Others(o) /\ (checkout'[o] = Start \/ Continues(checkout[o], checkout'[o]))
    BY ClientSteps
  <1>2. \A p \in Orders : checkout'[p].validated = c => checkout[p].validated = c
    BY <1>1, StartHolds, CouponsAssumption DEF Others, Continues
  <1>3. usages[c] \subseteq usages'[c]
    BY QuietSteps DEF Quiet, Record, IInv, Tables
  <1>4. QED
    BY <1>2, <1>3 DEF Outstanding

(* The check of a limit adds at most its own client to the holders.        *)
LEMMA HoldersAdmit ==
    ASSUME IInv, NEW o \in Orders, NEW k \in Codes, NEW x \in Carts, NEW d \in CouponIds,
           Admit(o, k, x, d), checkout[o] = Start, NEW c \in CouponIds
    PROVE  /\ Outstanding(c)' \subseteq Outstanding(c) \cup {o}
           /\ c # d => Outstanding(c)' \subseteq Outstanding(c)
  <1>1. Others(o) /\ checkout'[o].validated = d /\ UNCHANGED usages
    BY AdmitStep
  <1>2. QED
    BY <1>1 DEF Others, Outstanding

(* Every step keeps the holders counted.                                   *)
LEMMA HoldersCountedStep ==
    ASSUME IInv, [Next]_vars, HoldersCounted
    PROVE  HoldersCounted'
  <1>a. /\ \A c \in CouponIds : /\ Cardinality(Outstanding(c)) \in Nat /\ peak[c] \in Nat
                                /\ Cardinality(Outstanding(c)) <= peak[c]
        /\ peak \in [CouponIds -> Nat]
    BY OutstandingFinite DEF HoldersCounted
  <1>b. \A c \in CouponIds : Cardinality(Outstanding(c)') \in Nat
    BY OutstandingFiniteAfter
  <1>1. ASSUME UNCHANGED peak, \A c \in CouponIds : Outstanding(c)' \subseteq Outstanding(c)
        PROVE  HoldersCounted'
    <2>1. ASSUME NEW c \in CouponIds
          PROVE  peak'[c] \in Nat /\ Cardinality(Outstanding(c)') <= peak'[c]
      <3>1. Cardinality(Outstanding(c)') <= Cardinality(Outstanding(c))
        BY <1>1, FewerHold
      <3>2. QED
        BY <1>a, <1>b, <1>1, <3>1
    <2>2. QED
      BY <1>a, <1>1, <2>1 DEF HoldersCounted
  <1>2. ASSUME NEW o \in Orders, CountPerUser(o) \/ Grant(o) \/ RecordFind(o) \/ Record(o)
        PROVE  HoldersCounted'
    <2>1. UNCHANGED peak
      BY <1>2 DEF CountPerUser, Grant, RecordFind, Record, Step
    <2>2. QED
      BY <1>1, <1>2, <2>1, HoldersMove
  <1>3. ASSUME NEW o \in Orders, NEW k \in Codes, NEW x \in Carts, Validate(o, k, x)
        PROVE  HoldersCounted'
    <2>1. PICK d \in WithCode(k) : Admit(o, k, x, d)
      BY <1>3 DEF Validate
    <2>2. d \in CouponIds /\ checkout[o] = Start
      BY <1>3 DEF WithCode, Validate
    <2> DEFINE n == Cardinality(Outstanding(d)) + 1
    <2>3. peak' = [peak EXCEPT ![d] = Max({peak[d], n})]
      BY <2>1, <2>2, AdmitStep
    <2>4. peak[d] \in Int /\ n \in Int
      BY <1>a, <2>2
    <2> HIDE DEF n
    <2>5. Max({peak[d], n}) \in Int /\ Max({peak[d], n}) >= peak[d] /\ Max({peak[d], n}) >= n
      BY <2>4, MaxOfTwo
    <2>6. ASSUME NEW c \in CouponIds
          PROVE  peak'[c] \in Nat /\ Cardinality(Outstanding(c)') <= peak'[c]
      <3>1. CASE c # d
        <4>1. Cardinality(Outstanding(c)') <= Cardinality(Outstanding(c))
          BY <2>1, <2>2, <3>1, HoldersAdmit, FewerHold
        <4>2. peak'[c] = peak[c]
          BY <1>a, <2>3, <3>1
        <4>3. QED
          BY <1>a, <1>b, <4>1, <4>2
      <3>2. CASE c = d
        <4>1. Cardinality(Outstanding(c)') <= Cardinality(Outstanding(c)) + 1
          BY <2>1, <2>2, HoldersAdmit, OneMoreHolds
        <4>2. peak'[c] = Max({peak[d], n})
          BY <1>a, <2>3, <3>2
        <4>3. n = Cardinality(Outstanding(c)) + 1
          BY <3>2 DEF n
        <4>4. QED
          BY <1>a, <1>b, <2>2, <2>5, <4>1, <4>2, <4>3
      <3>3. QED
        BY <3>1, <3>2
    <2>7. QED
      BY <1>a, <2>3, <2>6 DEF HoldersCounted
  <1>4. CASE UNCHANGED <<checkout, usages, peak>>
    BY <1>1, <1>4 DEF Outstanding
  <1>5. QED
    BY <1>2, <1>3, <1>4, AdminSteps DEF vars

-----------------------------------------------------------------------------
(* What a step may do to a coupon: keep its count, its limit and its peak, *)
(* with no new client that holds it; or put its count below its limit.     *)
Settled(c) ==
    /\ Exists(c) /\ coupon'[c].count = coupon[c].count /\ coupon'[c].limit = coupon[c].limit
    /\ Outstanding(c)' \subseteq Outstanding(c) /\ peak'[c] = peak[c]

Below(c) == coupon'[c].count < coupon'[c].limit

Bound(c) == Within(coupon[c].count, Cardinality(Outstanding(c)), coupon[c].limit, peak[c])

Limited(c) == Exists(c) /\ coupon[c].limit # None /\ c \notin cut /\ HadOwnCodes(c)

(* A step of an administrator, and the time that passes.                   *)
LEMMA LimitsMove ==
    ASSUME IInv, [Next]_vars, Administers \/ UNCHANGED vars, NEW c \in CouponIds,
           Exists(c)', coupon'[c].limit # None, c \notin cut'
    PROVE  /\ c \notin cut
           /\ Settled(c) \/ Below(c)
  <1>a. Tables /\ \A d \in CouponIds : Exists(d) => coupon[d] \in Coupon
    BY ExistsIsRow DEF IInv
  <1>0. UNCHANGED <<checkout, usages, peak>>
    BY AdminSteps DEF vars
  <1>b. Outstanding(c)' \subseteq Outstanding(c) /\ peak'[c] = peak[c]
    BY <1>0 DEF Outstanding
  <1>1. ASSUME NEW d \in CouponIds, NEW row, coupon' = [coupon EXCEPT ![d] = row], d # c
        PROVE  Settled(c)
    <2>1. coupon'[c] = coupon[c]
      BY <1>a, <1>1 DEF Tables
    <2>2. Exists(c)
      BY <2>1 DEF Exists
    <2>3. QED
      BY <1>b, <2>1, <2>2 DEF Settled
  <1>2. ASSUME NEW row \in Coupon, coupon' = [coupon EXCEPT ![c] = row], Exists(c),
               row.count = coupon[c].count, row.limit = coupon[c].limit
        PROVE  Settled(c)
    BY <1>a, <1>b, <1>2 DEF Tables, Settled
  <1>3. ASSUME UNCHANGED coupon PROVE Settled(c)
    <2>1. Exists(c)
      BY <1>3 DEF Exists
    <2>2. QED
      BY <1>b, <1>3, <2>1 DEF Settled
  <1>4. ASSUME NEW d \in CouponIds, NEW k \in Codes, NEW f \in Offers, NEW w \in Windows,
               NEW l \in Asked, NEW m \in Asked, Create(d, k, f, w, l, m)
        PROVE  c \notin cut /\ (Settled(c) \/ Below(c))
    <2> DEFINE row == [code |-> k, offer |-> f, window |-> w, status |-> "ACTIVE",
                       limit |-> l, perUser |-> m, count |-> 0]
    <2>1. coupon' = [coupon EXCEPT ![d] = row] /\ cut' = cut
      BY <1>4 DEF Create
    <2>2. row.count = 0 /\ row.limit = l
      OBVIOUS
    <2> HIDE DEF row
    <2>3. CASE d = c
      <3>1. coupon'[c].count = 0 /\ coupon'[c].limit = l
        BY <1>a, <2>1, <2>2, <2>3 DEF Tables
      <3>2. l \in Nat /\ l > 0
        BY <3>1, CouponsAssumption DEF Asked
      <3>3. QED
        BY <2>1, <3>1, <3>2 DEF Below
    <2>4. QED
      BY <1>1, <2>1, <2>3
  <1>5. ASSUME NEW d \in CouponIds, NEW k \in Codes, NEW f \in Offers, NEW w \in Windows,
               NEW l \in Asked, NEW m \in Asked, Update(d, k, f, w, l, m)
        PROVE  c \notin cut /\ (Settled(c) \/ Below(c))
    <2> DEFINE row == [code |-> k, offer |-> f, window |-> w, status |-> coupon[d].status,
                       limit |-> l, perUser |-> m, count |-> coupon[d].count]
    <2>1. /\ coupon' = [coupon EXCEPT ![d] = row] /\ Exists(d) /\ coupon[d] \in Coupon
          /\ cut' = IF l \notin {None, coupon[d].limit} /\ l <= coupon[d].count THEN cut \cup {d} ELSE cut
      BY <1>a, <1>5 DEF Update
    <2>2. row.count = coupon[d].count /\ row \in Coupon /\ row.limit = l
      BY <2>1, Rows
    <2> HIDE DEF row
    <2>3. CASE d = c /\ l = coupon[d].limit
      BY <1>2, <2>1, <2>2, <2>3
    <2>4. CASE d = c /\ l # coupon[d].limit
      <3>1. coupon'[c].count = coupon[c].count /\ coupon'[c].limit = l
        BY <1>a, <2>1, <2>2, <2>4 DEF Tables
      <3>2. l # None /\ ~(l <= coupon[c].count) /\ cut' = cut
        BY <2>1, <2>4, <3>1
      <3>3. l \in Nat /\ coupon[c].count \in Nat
        BY <2>1, <2>4, <3>2, CouponsAssumption DEF Asked, Coupon
      <3>4. QED
        BY <3>1, <3>2, <3>3 DEF Below
    <2>5. CASE d # c
      BY <1>1, <2>1, <2>5
    <2>6. QED
      BY <2>3, <2>4, <2>5
  <1>6. ASSUME NEW d \in CouponIds, Pass(d)
        PROVE  c \notin cut /\ Settled(c)
    <2> DEFINE w == IF coupon[d].window = "early" THEN "open" ELSE "over"
               row == [coupon[d] EXCEPT !.window = w]
    <2>1. coupon' = [coupon EXCEPT ![d] = row] /\ Exists(d) /\ cut' = cut
      BY <1>6 DEF Pass
    <2>2. w \in Windows
      BY DEF Windows
    <2> HIDE DEF w
    <2>3. row \in Coupon /\ row.count = coupon[d].count /\ row.limit = coupon[d].limit
      BY <1>a, <2>1, <2>2 DEF Coupon
    <2> HIDE DEF row
    <2>4. QED
      BY <1>1, <1>2, <2>1, <2>3
  <1>7. ASSUME NEW r \in Requests, RemoveWrite(r)
        PROVE  c \notin cut /\ Settled(c)
    <2> DEFINE d == removal[r].coupon
               row == [coupon[d] EXCEPT !.status = "DISABLED"]
    <2>1. d \in CouponIds /\ cut' = cut
      BY <1>a, <1>7 DEF Tables, RemoveWrite, Removal
    <2>2. \/ UNCHANGED coupon
          \/ coupon' = [coupon EXCEPT ![d] = Deleted]
          \/ coupon' = [coupon EXCEPT ![d] = row] /\ Exists(d)
      BY <1>7 DEF RemoveWrite
    <2>3. Exists(d) => row \in Coupon /\ row.count = coupon[d].count /\ row.limit = coupon[d].limit
      BY <1>a, <2>1 DEF Coupon, Statuses
    <2> HIDE DEF d, row
    <2>4. CASE coupon' = [coupon EXCEPT ![d] = Deleted]
      <3>1. d # c
        BY <1>a, <2>1, <2>4 DEF Tables, Exists
      <3>2. QED
        BY <1>1, <2>1, <2>4, <3>1
    <2>5. QED
      BY <1>1, <1>2, <1>3, <2>1, <2>2, <2>3, <2>4
  <1>8. ASSUME UNCHANGED <<coupon, cut>> PROVE c \notin cut /\ Settled(c)
    BY <1>3, <1>8
  <1>9. QED
    BY <1>4, <1>5, <1>6, <1>7, <1>8 DEF Administers, RemoveCount, vars

(* A use is entered for the coupon that its client holds, when the codes   *)
(* of the coupon are its own.                                              *)
LEMMA RecordsOwn ==
    ASSUME IInv, \A o \in Orders : Holds(checkout[o]), NEW o \in Orders, Record(o),
           NEW c \in CouponIds, HadOwnCodes(c), Exists(c)'
    PROVE  \/ Settled(c)
           \/ /\ Exists(c) /\ o \in Outstanding(c)
              /\ Outstanding(c)' \subseteq Outstanding(c) \ {o} /\ peak'[c] = peak[c]
              /\ coupon'[c].count = coupon[c].count + 1 /\ coupon'[c].limit = coupon[c].limit
  <1> DEFINE d == checkout[o].credited
             row == [coupon[d] EXCEPT !.count = coupon[d].count + 1]
  <1>a. Tables /\ Knows(o, checkout[o]) /\ checkout[o].pc = "record" /\ d \in CouponIds
    BY DEF IInv, Record, Knows, Tables
  <1>b. Outstanding(c)' \subseteq Outstanding(c) /\ peak'[c] = peak[c]
    BY HoldersMove DEF Record
  <1>1. \/ UNCHANGED <<coupon, usages>>
        \/ /\ Exists(d) /\ o \notin usages[d] /\ usages' = [usages EXCEPT ![d] = usages[d] \cup {o}]
           /\ coupon' = [coupon EXCEPT ![d] = row]
    BY DEF Record
  <1>2. Exists(d) => row.count = coupon[d].count + 1 /\ row.limit = coupon[d].limit
    BY <1>a, ExistsIsRow DEF Coupon
  <1> HIDE DEF row
  <1>3. CASE UNCHANGED coupon
    <2>1. Exists(c)
      BY <1>3 DEF Exists
    <2>2. QED
      BY <1>b, <1>3, <2>1 DEF Settled
  <1>4. CASE /\ Exists(d) /\ o \notin usages[d] /\ usages' = [usages EXCEPT ![d] = usages[d] \cup {o}]
             /\ coupon' = [coupon EXCEPT ![d] = row]
    <2>1. CASE d # c
      <3>1. coupon'[c] = coupon[c]
        BY <1>a, <1>4, <2>1 DEF Tables
      <3>2. Exists(c)
        BY <3>1 DEF Exists
      <3>3. QED
        BY <1>b, <3>1, <3>2 DEF Settled
    <2>2. CASE d = c
      <3> DEFINE k == checkout[o].code
      <3>1. k \in Codes /\ c \in holders[k]
        BY <1>a, <2>2 DEF Knows
      <3>2. checkout[o].validated \in holders[k]
        BY <1>a DEF Holds
      <3>3. IsFiniteSet(holders[k]) /\ Cardinality(holders[k]) <= 1
        BY <1>a, <3>1 DEF Tables, HadOwnCodes, OneHolder
      <3>4. checkout[o].validated = c
        BY <3>1, <3>2, <3>3, OnlyOne
      <3>5. o \in Outstanding(c) /\ o \notin Outstanding(c)'
        BY <1>a, <1>4, <2>2, <3>4 DEF Outstanding, Tables
      <3>6. coupon'[c] = row
        BY <1>a, <1>4, <2>2 DEF Tables
      <3>7. QED
        BY <1>b, <1>2, <1>4, <2>2, <3>5, <3>6
    <2>3. QED
      BY <2>1, <2>2
  <1>5. QED
    BY <1>1, <1>3, <1>4

(* The bound holds after a step.                                           *)
LEMMA BoundStep ==
    ASSUME IInv, [Next]_vars, OvershootInv, HoldersCounted', NEW c \in CouponIds, Limited(c)'
    PROVE  Bound(c)'
  <1>a. /\ Tables /\ Tables' /\ HadOwnCodes(c)
        /\ Exists(c)' /\ coupon'[c].limit # None /\ c \notin cut'
    BY InvStep, CodesGrow DEF IInv, Limited
  <1> DEFINE n1 == coupon'[c].count
             h1 == Cardinality(Outstanding(c)')
             l1 == coupon'[c].limit
             m1 == peak'[c]
             n == coupon[c].count
             h == Cardinality(Outstanding(c))
             l == coupon[c].limit
             m == peak[c]
  <1>1. n1 \in Nat /\ h1 \in Nat /\ l1 \in Nat /\ m1 \in Nat /\ h1 <= m1
    <2>1. coupon'[c] \in Coupon
      BY <1>a, RowsDiffer DEF Tables, Exists
    <2>2. QED
      BY <1>a, <2>1, OutstandingFiniteAfter DEF Coupon, HoldersCounted
  <1>2. Exists(c) => n \in Nat /\ h \in Nat /\ l \in Nat \cup {None} /\ m \in Nat /\ h <= m
    BY <1>a, ExistsIsRow, OutstandingFinite DEF Coupon, HoldersCounted, OvershootInv
  <1>3. ASSUME Exists(c), l # None, c \notin cut PROVE Within(n, h, l, m)
    BY <1>a, <1>3 DEF OvershootInv, OvershootBounded, Within
  <1>g. Within(n1, h1, l1, m1) => Bound(c)'
    BY DEF Bound, Within
  <1>4. CASE Below(c)
    <2>1. n1 < l1
      BY <1>4 DEF Below
    <2> HIDE DEF n1, h1, l1, m1
    <2>2. Within(n1, h1, l1, m1)
      BY <1>1, <2>1, WithinBelow
    <2>3. QED
      BY <1>g, <2>2
  <1>5. CASE Settled(c) /\ c \notin cut
    <2>1. Exists(c) /\ n1 = n /\ l1 = l /\ m1 = m
      BY <1>5 DEF Settled
    <2>2. h1 <= h
      BY <1>5, FewerHold DEF Settled
    <2>3. l # None
      BY <1>a, <2>1
    <2>4. Within(n, h, l, m)
      BY <1>3, <1>5, <2>1, <2>3
    <2> HIDE DEF n, h, l, m, n1, h1, l1, m1
    <2>5. Within(n1, h1, l1, m1)
      BY <1>1, <1>2, <2>1, <2>2, <2>4, WithinShrinks
    <2>6. QED
      BY <1>g, <2>5
  <1>6. ASSUME NEW o \in Orders, Exists(c), c \notin cut, o \in Outstanding(c),
               Outstanding(c)' \subseteq Outstanding(c) \ {o}, m1 = m, n1 = n + 1, l1 = l
        PROVE  Bound(c)'
    <2>1. h1 + 1 <= h
      BY <1>6, OneLessHolds
    <2>2. Within(n, h, l, m)
      BY <1>a, <1>3, <1>6
    <2> HIDE DEF n, h, l, m, n1, h1, l1, m1
    <2>3. Within(n1, h1, l1, m1)
      BY <1>1, <1>2, <1>6, <2>1, <2>2, WithinMoves
    <2>4. QED
      BY <1>g, <2>3
  <1>7. CASE Administers \/ UNCHANGED vars
    BY <1>a, <1>4, <1>5, <1>7, LimitsMove
  <1>8. ASSUME NEW o \in Orders, CountPerUser(o) \/ Grant(o) \/ RecordFind(o)
        PROVE  Bound(c)'
    <2>1. UNCHANGED <<coupon, peak, cut>>
      BY <1>8 DEF CountPerUser, Grant, RecordFind, Step
    <2>2. Exists(c)
      BY <1>a, <2>1 DEF Exists
    <2>3. Settled(c) /\ c \notin cut
      BY <1>8, <1>a, <2>1, <2>2, HoldersMove DEF Settled
    <2>4. QED
      BY <1>5, <2>3
  <1>9. ASSUME NEW o \in Orders, NEW k \in Codes, NEW x \in Carts, Validate(o, k, x)
        PROVE  Bound(c)'
    <2>1. PICK d \in WithCode(k) : Usable(d) /\ Admit(o, k, x, d)
      BY <1>9 DEF Validate
    <2>2. d \in CouponIds /\ checkout[o] = Start
      BY <1>9 DEF WithCode, Validate
    <2>3. UNCHANGED <<coupon, cut>> /\ \A e \in CouponIds : e # d => peak'[e] = peak[e]
      <3>1. peak \in [CouponIds -> Nat]
        BY DEF OvershootInv, HoldersCounted
      <3>2. /\ UNCHANGED <<coupon, cut>>
            /\ peak' = [peak EXCEPT ![d] = Max({peak[d], Cardinality(Outstanding(d)) + 1})]
        BY <2>1, <2>2, AdmitStep
      <3>3. QED
        BY <3>1, <3>2
    <2>4. Exists(c)
      BY <1>a, <2>3 DEF Exists
    <2>5. CASE d = c
      <3>1. Below(c)
        BY <1>a, <2>1, <2>3, <2>5 DEF Usable, Below
      <3>2. QED
        BY <1>4, <3>1
    <2>6. CASE d # c
      <3>1. Settled(c)
        BY <2>1, <2>2, <2>3, <2>4, <2>6, HoldersAdmit DEF Settled
      <3>2. QED
        BY <1>5, <1>a, <2>3, <3>1
    <2>7. QED
      BY <2>5, <2>6
  <1>10. ASSUME NEW o \in Orders, Record(o)
         PROVE  Bound(c)'
    <2>1. c \notin cut
      BY <1>a, <1>10 DEF Record
    <2>2. QED
      BY <1>a, <1>5, <1>6, <1>10, <2>1, RecordsOwn DEF OvershootInv
  <1>11. QED
    BY <1>7, <1>8, <1>9, <1>10, AdminSteps

(* How far a limit can be overshot: at most by the clients that held the   *)
(* coupon at once (coupons.service.ts:519), and by none that came later.   *)
THEOREM OvershootIsBounded == Spec => []OvershootBounded
  <1>1. OvershootBounded <=> \A c \in CouponIds : Limited(c) => Bound(c)
    BY DEF OvershootBounded, Limited, Bound, Within
  <1>2. Init => OvershootInv
    <2> SUFFICES ASSUME Init PROVE OvershootInv
      OBVIOUS
    <2>1. \A o \in Orders : Holds(checkout[o])
      BY StartHolds DEF Init
    <2>2. \A c \in CouponIds : Outstanding(c) = {}
      BY StartHolds, CouponsAssumption DEF Init, Outstanding
    <2>3. HoldersCounted
      BY <2>2, FS_EmptySet DEF Init, HoldersCounted
    <2>4. OvershootBounded
      BY DEF Init, OvershootBounded, Exists
    <2>5. QED
      BY <2>1, <2>3, <2>4 DEF OvershootInv
  <1>3. IInv /\ OvershootInv /\ [Next]_vars => OvershootInv'
    <2> SUFFICES ASSUME IInv, OvershootInv, [Next]_vars PROVE OvershootInv'
      OBVIOUS
    <2>1. (\A o \in Orders : Holds(checkout[o]))'
      BY HoldsStep DEF OvershootInv
    <2>2. HoldersCounted'
      BY HoldersCountedStep DEF OvershootInv
    <2>3. \A c \in CouponIds : Limited(c)' => Bound(c)'
      BY <2>2, BoundStep
    <2>4. OvershootBounded'
      BY <2>3 DEF OvershootBounded, Limited, Bound, Within
    <2>5. QED
      BY <2>1, <2>2, <2>4 DEF OvershootInv
  <1>4. OvershootInv => OvershootBounded
    BY DEF OvershootInv
  <1>5. QED
    BY Invariance, <1>2, <1>3, <1>4, PTL DEF Spec

-----------------------------------------------------------------------------
(* The sum over the reviews depends on the reviews of the product alone.   *)
LEMMA AggregateSame ==
    ASSUME ReviewsAssumption, NEW x, NEW y, NEW p, \A o \in Orders : x[o][p] = y[o][p]
    PROVE  Aggregate(x, p) = Aggregate(y, p)
  <1> DEFINE f == [o \in Orders |-> x[o][p]]
             g == [o \in Orders |-> y[o][p]]
  <1>1. f = g
    OBVIOUS
  <1>2. Rated(x, p) = Rated(y, p)
    BY DEF Rated
  <1>3. /\ Aggregate(x, p) = [sum |-> SumFunctionOnSet(f, Rated(x, p)), count |-> Cardinality(Rated(x, p))]
        /\ Aggregate(y, p) = [sum |-> SumFunctionOnSet(g, Rated(y, p)), count |-> Cardinality(Rated(y, p))]
    BY DEF Aggregate
  <1> HIDE DEF f, g
  <1>4. QED
    BY <1>1, <1>2, <1>3

LEMMA AggregateType ==
    ASSUME ReviewsAssumption, NEW x \in [Orders -> [Products -> Ratings \cup {None}]], NEW p \in Products
    PROVE  Aggregate(x, p) \in Stats
  <1> DEFINE f == [o \in Orders |-> x[o][p]]
             S == Rated(x, p)
  <1>1. S \in SUBSET Orders /\ \A o \in S : f[o] \in Ratings
    BY DEF Rated
  <1>0. Aggregate(x, p) = [sum |-> SumFunctionOnSet(f, S), count |-> Cardinality(S)]
    BY DEF Aggregate
  <1> HIDE DEF f, S
  <1>2. IsFiniteSet(S) /\ Cardinality(S) \in Nat
    BY <1>1, FS_Subset, FS_CardinalityType DEF ReviewsAssumption
  <1>3. \A o \in S : f[o] \in Nat /\ f[o] \in Int
    <2>1. \A i \in Ratings : i \in Nat /\ i \in Int
      BY DEF ReviewsAssumption
    <2>2. QED
      BY <1>1, <2>1
  <1>6. SumFunctionOnSet(f, S) \in Int
    BY <1>2, <1>3, SumType
  <1>7. 0 <= SumFunctionOnSet(f, S)
    BY <1>2, <1>3, SumGrows
  <1>8. SumFunctionOnSet(f, S) \in Nat
    BY <1>6, <1>7
  <1>9. QED
    BY <1>0, <1>2, <1>8 DEF Stats

-----------------------------------------------------------------------------
(* A rating computed from the reviews as they will be, unless behind; and  *)
(* the same for the rating of the product.                                 *)
AddedUpRight ==
    \A r \in Requests :
        call[r].pc = "added" /\ r \notin behind =>
            call[r].stats = Aggregate(After(call[r]), call[r].product)

(* ReviewsTypeOK but for the pages.                                        *)
RowsTyped ==
    /\ users \subseteq Users /\ delivered \subseteq Orders
    /\ review \in [Orders -> [Products -> Ratings \cup {None}]]
    /\ stats \in [Products -> Stats]
    /\ call \in [Requests -> Call]
    /\ ops \in Nat
    /\ behind \subseteq Requests /\ stale \subseteq Products

ReviewsInv ==
    /\ RowsTyped
    /\ \A r \in Requests : call[r].pc # "idle" => call[r].order \in Orders /\ call[r].product \in Products
    /\ AddedUpRight
    /\ RatingIsOfReviews

LEMMA AfterIs ==
    ASSUME ReviewsAssumption, RowsTyped, NEW q \in Call, q.order \in Orders, q.product \in Products
    PROVE  /\ After(q) \in [Orders -> [Products -> Ratings \cup {None}]]
           /\ \A o \in Orders, p \in Products :
                 After(q)[o][p] = IF o = q.order /\ p = q.product THEN q.rating ELSE review[o][p]
  BY DEF After, RowsTyped, Call

(* The reviews with the change that q is about to make.                    *)
Put(x, q) == [x EXCEPT ![q.order] = [x[q.order] EXCEPT ![q.product] = q.rating]]

(* What the reviews of other products become is nothing to who has added   *)
(* up.                                                                     *)
LEMMA StillAddedUp ==
    ASSUME ReviewsAssumption, NEW q \in Call, q.order \in Orders, q.product \in Products,
           NEW x \in [Orders -> [Products -> Ratings \cup {None}]],
           NEW y \in [Orders -> [Products -> Ratings \cup {None}]],
           \A o \in Orders : x[o][q.product] = y[o][q.product]
    PROVE  Aggregate(Put(x, q), q.product) = Aggregate(Put(y, q), q.product)
  <1>1. \A o \in Orders : Put(x, q)[o][q.product] = Put(y, q)[o][q.product]
    BY DEF Call, Put
  <1>2. QED
    BY <1>1, AggregateSame

(* A step that changes no review and no rating, and whose request r has    *)
(* not added up.                                                           *)
LEMMA QuietReview ==
    ASSUME ReviewsAssumption, ReviewsInv, NEW r \in Requests, NEW q \in Call, Goto(r, q),
           q.pc # "idle" => q.order \in Orders /\ q.product \in Products,
           q.pc = "added" => q.stats = Aggregate(After(q), q.product),
           users' \in SUBSET Users, delivered' \in SUBSET Orders, ops' \in Nat,
           UNCHANGED <<review, stats, stale>>, behind \ {r} \subseteq behind', behind' \subseteq behind
    PROVE  ReviewsInv'
  <1>1. call' = [call EXCEPT ![r] = q] /\ call \in [Requests -> Call]
    BY DEF Goto, ReviewsInv, RowsTyped
  <1>2. RowsTyped'
    BY <1>1 DEF ReviewsInv, RowsTyped
  <1>3. \A s \in Requests : call'[s].pc # "idle" => call'[s].order \in Orders /\ call'[s].product \in Products
    BY <1>1 DEF ReviewsInv
  <1>4. ASSUME NEW s \in Requests, call'[s].pc = "added", s \notin behind'
        PROVE  call'[s].stats = Aggregate(After(call[s]), call[s].product)'
    <2>1. CASE s = r
      <3>1. call'[s] = q /\ q.stats = Aggregate(After(q), q.product)
        BY <1>1, <1>4, <2>1
      <3>2. Aggregate(After(q), q.product)' = Aggregate(After(q), q.product)
        BY DEF Aggregate, Rated, After
      <3>3. Aggregate(After(call[s]), call[s].product)' = Aggregate(After(q), q.product)'
        BY <3>1
      <3>4. QED
        BY <3>1, <3>2, <3>3
    <2>2. CASE s # r
      <3>1. call'[s] = call[s]
        BY <1>1, <2>2
      <3>2. call[s].stats = Aggregate(After(call[s]), call[s].product)
        BY <1>4, <2>2, <3>1 DEF ReviewsInv, AddedUpRight
      <3>3. Aggregate(After(call[s]), call[s].product)' = Aggregate(After(call[s]), call[s].product)
        BY <3>1 DEF Aggregate, Rated, After
      <3>4. QED
        BY <3>1, <3>2, <3>3
    <2>3. QED
      BY <2>1, <2>2
  <1>5. AddedUpRight'
    BY <1>4 DEF AddedUpRight
  <1>6. RatingIsOfReviews'
    BY DEF ReviewsInv, RatingIsOfReviews, ProductReviewStats, Aggregate, Rated
  <1>7. QED
    BY <1>2, <1>3, <1>5, <1>6 DEF ReviewsInv

-----------------------------------------------------------------------------
LEMMA IdleIsCall == Idle \in Call
  BY DEF Idle, Call, ReviewStage, Stats

LEMMA WriteKeeps ==
    ASSUME ReviewsAssumption, ReviewsInv, NEW r \in Requests, Write(r)
    PROVE  ReviewsInv'
  <1> DEFINE q == call[r]
             a == [q EXCEPT !.pc = "written"]
  <1>1. q \in Call /\ q.pc # "idle" /\ q.order \in Orders /\ q.product \in Products
    BY DEF Write, ReviewsInv, RowsTyped
  <1>2. Goto(r, a) \/ Goto(r, Idle)
    BY DEF Write, Goto
  <1>3. UNCHANGED <<users, delivered, review, stats, ops, behind, stale>>
    BY DEF Write
  <1>4. a \in Call /\ a.pc = "written" /\ a.order = q.order /\ a.product = q.product
    BY <1>1 DEF Call, ReviewStage
  <1>5. Idle \in Call /\ Idle.pc = "idle"
    BY IdleIsCall DEF Idle
  <1>6. users \in SUBSET Users /\ delivered \in SUBSET Orders /\ ops \in Nat
    BY DEF ReviewsInv, RowsTyped
  <1> HIDE DEF a, q
  <1>7. CASE Goto(r, a)
    BY <1>1, <1>3, <1>4, <1>6, <1>7, QuietReview
  <1>8. CASE Goto(r, Idle)
    BY <1>3, <1>5, <1>6, <1>8, QuietReview
  <1>9. QED
    BY <1>2, <1>7, <1>8

LEMMA AddUpKeeps ==
    ASSUME ReviewsAssumption, ReviewsInv, NEW r \in Requests, AddUp(r)
    PROVE  ReviewsInv'
  <1> DEFINE q == call[r]
             sum == Aggregate(After(q), q.product)
             a == [q EXCEPT !.pc = "added", !.stats = sum]
  <1>1. q \in Call /\ q.pc # "idle" /\ q.order \in Orders /\ q.product \in Products
    BY DEF AddUp, ReviewsInv, RowsTyped
  <1>2. Goto(r, a) /\ UNCHANGED <<users, delivered, review, stats, ops, behind, stale>>
    BY DEF AddUp
  <1>3. sum \in Stats
    <2>1. After(q) \in [Orders -> [Products -> Ratings \cup {None}]]
      BY <1>1, AfterIs DEF ReviewsInv
    <2> DEFINE x == After(q)
    <2> HIDE DEF x
    <2>2. Aggregate(x, q.product) \in Stats
      BY <1>1, <2>1, AggregateType DEF x
    <2>3. QED
      BY <2>2 DEF x
  <1>4. After(a) = After(q)
    <2>1. a.order = q.order /\ a.product = q.product /\ a.rating = q.rating
      BY <1>1 DEF Call
    <2>2. QED
      BY <2>1 DEF After
  <1> HIDE DEF sum
  <1>5. a \in Call /\ a.pc = "added" /\ a.order = q.order /\ a.product = q.product /\ a.stats = sum
    BY <1>1, <1>3 DEF Call, ReviewStage
  <1>6. a.stats = Aggregate(After(a), a.product)
    BY <1>4, <1>5 DEF sum
  <1>7. users \in SUBSET Users /\ delivered \in SUBSET Orders /\ ops \in Nat
    BY DEF ReviewsInv, RowsTyped
  <1> HIDE DEF a, q
  <1>8. QED
    BY <1>1, <1>2, <1>5, <1>6, <1>7, QuietReview

LEMMA RollbackKeeps ==
    ASSUME ReviewsAssumption, ReviewsInv, NEW r \in Requests, Rollback(r)
    PROVE  ReviewsInv'
  <1>1. users \in SUBSET Users /\ delivered \in SUBSET Orders /\ ops \in Nat
    BY DEF ReviewsInv, RowsTyped
  <1>2. Idle \in Call /\ Idle.pc = "idle"
    BY IdleIsCall DEF Idle
  <1>3. /\ Goto(r, Idle) /\ behind' = behind \ {r}
        /\ UNCHANGED <<users, delivered, review, stats, ops, stale>>
    BY DEF Rollback
  <1>4. QED
    BY <1>1, <1>2, <1>3, QuietReview

LEMMA ReadKeeps ==
    ASSUME ReviewsAssumption, ReviewsInv, NEW r \in Requests, NEW o \in Orders, NEW p \in Products,
           \/ \E u \in Users, i \in Ratings : CreateRead(r, u, o, p, i)
           \/ \E i \in Ratings : ChangeRead(r, o, p, "update", i)
           \/ ChangeRead(r, o, p, "remove", None)
    PROVE  ReviewsInv'
  <1>1. PICK i \in Ratings \cup {None}, pc \in {"create", "update", "remove"} :
           /\ Goto(r, [Idle EXCEPT !.pc = pc, !.order = o, !.product = p, !.rating = i])
           /\ UNCHANGED <<users, delivered, review, stats, behind, stale>>
           /\ ops' = ops + 1
    BY DEF CreateRead, ChangeRead, Begin
  <1> DEFINE a == [Idle EXCEPT !.pc = pc, !.order = o, !.product = p, !.rating = i]
  <1>2. Idle \in Call
    BY IdleIsCall
  <1>3. a \in Call /\ a.pc = pc /\ a.order = o /\ a.product = p
    BY <1>2 DEF Call, ReviewStage
  <1>4. users \in SUBSET Users /\ delivered \in SUBSET Orders /\ ops + 1 \in Nat
    BY DEF ReviewsInv, RowsTyped
  <1>5. Goto(r, a)
    BY <1>1
  <1> HIDE DEF a
  <1>6. QED
    BY <1>1, <1>3, <1>4, <1>5, QuietReview

(* The commit: the rating of the product is that of its reviews if nobody  *)
(* was ahead, and whoever added up for the same product is behind now.     *)
LEMMA CommitKeeps ==
    ASSUME ReviewsAssumption, ReviewsInv, NEW r \in Requests, Commit(r)
    PROVE  ReviewsInv'
  <1> DEFINE q == call[r]
  <1>1. q \in Call /\ q.pc = "added" /\ q.order \in Orders /\ q.product \in Products
    BY DEF Commit, ReviewsInv, RowsTyped
  <1>2. /\ review' = After(q) /\ stats' = [stats EXCEPT ![q.product] = q.stats]
        /\ stale' = IF r \in behind THEN stale \cup {q.product} ELSE stale \ {q.product}
        /\ behind' = (behind \cup AddedUp({q.product})) \ {r}
        /\ call' = [call EXCEPT ![r] = Idle]
        /\ UNCHANGED <<users, delivered, ops>>
    BY DEF Commit, Goto
  <1>3. r \notin behind => q.stats = Aggregate(After(q), q.product)
    BY <1>1 DEF ReviewsInv, AddedUpRight
  <1>4. /\ After(q) \in [Orders -> [Products -> Ratings \cup {None}]]
        /\ \A o \in Orders, p \in Products :
              After(q)[o][p] = IF o = q.order /\ p = q.product THEN q.rating ELSE review[o][p]
    BY <1>1, AfterIs DEF ReviewsInv
  <1> HIDE DEF q
  <1>5. \A o \in Orders, p \in Products : p # q.product => review'[o][p] = review[o][p]
    BY <1>2, <1>4
  <1>6. RowsTyped'
    <2>1. q.stats \in Stats
      BY <1>1 DEF Call
    <2>2. stats' \in [Products -> Stats]
      BY <1>2, <2>1 DEF ReviewsInv, RowsTyped
    <2>3. call' \in [Requests -> Call]
      BY <1>2, IdleIsCall DEF ReviewsInv, RowsTyped
    <2>4. behind' \subseteq Requests /\ stale' \subseteq Products
      BY <1>1, <1>2 DEF AddedUp, ReviewsInv, RowsTyped
    <2>5. QED
      BY <1>2, <1>4, <2>2, <2>3, <2>4 DEF ReviewsInv, RowsTyped
  <1>7. ASSUME NEW s \in Requests, s # r
        PROVE  call'[s] = call[s] /\ call[s] \in Call
    BY <1>2, <1>7 DEF ReviewsInv, RowsTyped
  <1>8. call'[r].pc = "idle"
    BY <1>2 DEF ReviewsInv, RowsTyped, Idle
  <1>9. \A s \in Requests : call'[s].pc # "idle" => call'[s].order \in Orders /\ call'[s].product \in Products
    BY <1>7, <1>8 DEF ReviewsInv
  <1>10. AddedUpRight'
    <2> SUFFICES ASSUME NEW s \in Requests, call'[s].pc = "added", s \notin behind'
                 PROVE  call'[s].stats = Aggregate(After(call[s]), call[s].product)'
      BY DEF AddedUpRight
    <2> DEFINE a == call[s]
    <2>1. s # r /\ a \in Call /\ call'[s] = a
      BY <1>7, <1>8
    <2>2. a.pc = "added" /\ a.order \in Orders /\ a.product \in Products
      BY <2>1 DEF ReviewsInv
    <2>3. s \notin behind /\ a.product # q.product
      BY <1>2, <2>1, <2>2 DEF AddedUp
    <2>4. a.stats = Aggregate(After(a), a.product)
      BY <2>2, <2>3 DEF ReviewsInv, AddedUpRight
    <2>5. \A o \in Orders : review'[o][a.product] = review[o][a.product]
      BY <1>5, <2>2, <2>3
    <2>6. Aggregate(After(call[s]), call[s].product)' = Aggregate(After(a), a.product)
      <3> DEFINE x == Put(review, a)
                 y == Put(review', a)
      <3>1. /\ review \in [Orders -> [Products -> Ratings \cup {None}]]
            /\ review' \in [Orders -> [Products -> Ratings \cup {None}]]
        BY <1>6 DEF ReviewsInv, RowsTyped
      <3>2. Aggregate(After(call[s]), call[s].product)' = Aggregate(y, a.product)
        BY <2>1 DEF Aggregate, Rated, After, Put
      <3>3. Aggregate(After(a), a.product) = Aggregate(x, a.product)
        BY DEF After, Put
      <3>4. \A o \in Orders : review[o][a.product] = review'[o][a.product]
        BY <2>5
      <3> HIDE DEF a
      <3>5. Aggregate(x, a.product) = Aggregate(y, a.product)
        BY <2>1, <2>2, <3>1, <3>4, StillAddedUp
      <3> HIDE DEF x, y
      <3>6. QED
        BY <3>2, <3>3, <3>5 DEF a
    <2>7. QED
      BY <2>1, <2>4, <2>6
  <1>11. RatingIsOfReviews'
    <2> SUFFICES ASSUME NEW p \in Products, p \notin stale'
                 PROVE  stats'[p] = Aggregate(review', p)
      BY DEF RatingIsOfReviews, ProductReviewStats, Aggregate, Rated
    <2>1. CASE p = q.product
      <3>1. r \notin behind
        BY <1>2, <2>1
      <3>2. stats'[p] = q.stats
        BY <1>2, <2>1 DEF ReviewsInv, RowsTyped
      <3>3. QED
        BY <1>2, <1>3, <2>1, <3>1, <3>2
    <2>2. CASE p # q.product
      <3>1. stats'[p] = stats[p] /\ p \notin stale
        BY <1>2, <2>2 DEF ReviewsInv, RowsTyped
      <3>2. stats[p] = Aggregate(review, p)
        BY <3>1 DEF ReviewsInv, RatingIsOfReviews, ProductReviewStats
      <3>3. \A o \in Orders : review[o][p] = review'[o][p]
        BY <1>5, <2>2
      <3>4. Aggregate(review, p) = Aggregate(review', p)
        BY <3>3, AggregateSame
      <3>5. QED
        BY <3>1, <3>2, <3>4
    <2>3. QED
      BY <2>1, <2>2
  <1>12. QED
    BY <1>6, <1>9, <1>10, <1>11 DEF ReviewsInv

(* A user is deleted: the products reviewed by the user are stale, and     *)
(* whoever added up for one of them is behind.                             *)
LEMMA DeleteKeeps ==
    ASSUME ReviewsAssumption, ReviewsInv, NEW u \in Users, DeleteUser(u)
    PROVE  ReviewsInv'
  <1> DEFINE gone == {p \in Products : \E o \in ByUser(u) : review[o][p] # None}
  <1>1. /\ users' = users \ {u} /\ stale' = stale \cup gone /\ behind' = behind \cup AddedUp(gone)
        /\ review' = [o \in Orders |-> IF o \in ByUser(u) THEN [p \in Products |-> None] ELSE review[o]]
        /\ UNCHANGED <<delivered, stats, call, ops>>
    BY DEF DeleteUser
  <1>2. \A p \in Products \ gone, o \in Orders : review'[o][p] = review[o][p]
    BY <1>1
  <1>3. gone \subseteq Products
    OBVIOUS
  <1> HIDE DEF gone
  <1>4. RowsTyped'
    BY <1>1, <1>3 DEF AddedUp, ReviewsInv, RowsTyped
  <1>5. AddedUpRight'
    <2> SUFFICES ASSUME NEW s \in Requests, call'[s].pc = "added", s \notin behind'
                 PROVE  call'[s].stats = Aggregate(After(call[s]), call[s].product)'
      BY DEF AddedUpRight
    <2> DEFINE a == call[s]
    <2>1. /\ a \in Call /\ call'[s] = a /\ a.pc = "added"
          /\ a.order \in Orders /\ a.product \in Products
      BY <1>1 DEF ReviewsInv, RowsTyped
    <2>2. s \notin behind /\ a.product \notin gone
      BY <1>1, <2>1 DEF AddedUp
    <2>3. a.stats = Aggregate(After(a), a.product)
      BY <2>1, <2>2 DEF ReviewsInv, AddedUpRight
    <2> DEFINE x == Put(review, a)
               y == Put(review', a)
    <2>4. /\ review \in [Orders -> [Products -> Ratings \cup {None}]]
          /\ review' \in [Orders -> [Products -> Ratings \cup {None}]]
      BY <1>4 DEF ReviewsInv, RowsTyped
    <2>5. Aggregate(After(call[s]), call[s].product)' = Aggregate(y, a.product)
      BY <2>1 DEF Aggregate, Rated, After, Put
    <2>6. Aggregate(After(a), a.product) = Aggregate(x, a.product)
      BY DEF After, Put
    <2>7. \A o \in Orders : review[o][a.product] = review'[o][a.product]
      BY <1>2, <2>1, <2>2
    <2> HIDE DEF a
    <2>8. Aggregate(x, a.product) = Aggregate(y, a.product)
      BY <2>1, <2>4, <2>7, StillAddedUp
    <2> HIDE DEF x, y
    <2>9. QED
      BY <2>1, <2>3, <2>5, <2>6, <2>8
  <1>6. RatingIsOfReviews'
    <2> SUFFICES ASSUME NEW p \in Products, p \notin stale'
                 PROVE  stats'[p] = Aggregate(review', p)
      BY DEF RatingIsOfReviews, ProductReviewStats, Aggregate, Rated
    <2>1. p \notin stale /\ p \notin gone /\ stats'[p] = stats[p]
      BY <1>1
    <2>2. stats[p] = Aggregate(review, p)
      BY <2>1 DEF ReviewsInv, RatingIsOfReviews, ProductReviewStats
    <2>3. \A o \in Orders : review[o][p] = review'[o][p]
      BY <1>2, <2>1
    <2>4. Aggregate(review, p) = Aggregate(review', p)
      BY <2>3, AggregateSame
    <2>5. QED
      BY <2>1, <2>2, <2>4
  <1>7. QED
    BY <1>1, <1>4, <1>5, <1>6 DEF ReviewsInv

LEMMA StaysRated ==
    ASSUME ReviewsInv, RowsTyped', UNCHANGED <<review, stats, call, behind, stale>>
    PROVE  ReviewsInv'
  BY DEF ReviewsInv, AddedUpRight, RatingIsOfReviews, ProductReviewStats, Aggregate, Rated, After

LEMMA ReviewsHold ==
    ASSUME ReviewsAssumption
    PROVE  ReviewsSpec => []ReviewsInv
  <1>1. ReviewsInit => ReviewsInv
    <2> SUFFICES ASSUME ReviewsInit PROVE ReviewsInv
      OBVIOUS
    <2>1. RowsTyped /\ \A r \in Requests : call[r].pc = "idle"
      BY IdleIsCall DEF ReviewsInit, RowsTyped, Stats, Idle
    <2>2. ASSUME NEW p \in Products PROVE stats[p] = ProductReviewStats(p)
      <3>1. Rated(review, p) = {}
        BY DEF ReviewsInit, Rated
      <3> DEFINE f == [o \in Orders |-> review[o][p]]
      <3>2. ProductReviewStats(p) = [sum |-> SumFunctionOnSet(f, {}), count |-> Cardinality({})]
        BY <3>1 DEF ProductReviewStats, Aggregate
      <3> HIDE DEF f
      <3>3. QED
        BY <3>2, SumEmpty, FS_EmptySet DEF ReviewsInit
    <2>3. QED
      BY <2>1, <2>2 DEF ReviewsInv, AddedUpRight, RatingIsOfReviews
  <1>2. ReviewsInv /\ [ReviewsNext]_reviewsVars => ReviewsInv'
    <2> SUFFICES ASSUME ReviewsInv, [ReviewsNext]_reviewsVars PROVE ReviewsInv'
      OBVIOUS
    <2>1. ASSUME NEW o \in Orders, SetDelivered(o) PROVE ReviewsInv'
      <3>1. RowsTyped' /\ UNCHANGED <<review, stats, call, behind, stale>>
        BY <2>1 DEF SetDelivered, ReviewsInv, RowsTyped
      <3>2. QED
        BY <3>1, StaysRated
    <2>2. CASE UNCHANGED storedVars
      BY <2>2, StaysRated DEF storedVars, ReviewsInv, RowsTyped
    <2>3. CASE ReviewsStep
      BY <2>1, <2>3, DeleteKeeps, WriteKeeps, AddUpKeeps, CommitKeeps, RollbackKeeps, ReadKeeps
      DEF ReviewsStep
    <2>4. QED
      BY <2>2, <2>3 DEF ReviewsNext, reviewsVars, ListOrders, ListOffers, ClosePage, Shows
  <1>3. QED
    BY <1>1, <1>2, PTL DEF ReviewsSpec

(* The rating that a product shows is that of its reviews, unless the last *)
(* change of one of them was added up before another was committed, or a   *)
(* user was deleted with a review of it.                                   *)
THEOREM RatingsAreOfReviews ==
    ReviewsAssumption => (ReviewsSpec => []RatingIsOfReviews)
  <1> SUFFICES ASSUME ReviewsAssumption PROVE ReviewsSpec => []RatingIsOfReviews
    OBVIOUS
  <1>1. ReviewsInv => RatingIsOfReviews
    BY DEF ReviewsInv
  <1>2. QED
    BY <1>1, ReviewsHold, PTL

(* What a list of offers is made from: as long as nothing has changed, the *)
(* orders that were read are the delivered ones, and what is offered has   *)
(* no review.                                                              *)
PageRight(u) ==
    LET g == page[u]
    IN  /\ g \in Page
        /\ g.pc = "orders" /\ u \in users => \A o \in ByUser(u), p \in Products :
              <<o, p>> \notin g.since => (o \in g.orders <=> o \in delivered)
        /\ g.pc = "orders" /\ u \in users => g.orders \subseteq ByUser(u)
        /\ g.pc = "offers" /\ u \in users => \A o \in Orders, p \in Products :
              <<o, p>> \notin g.since =>
                  /\ <<o, p>> \in g.offers => CanReview(u, o, p)
                  /\ CanReview(u, o, p) /\ <<o, p>> \notin g.offers =>
                        \E other \in ByUser(u) \ {o} :
                            review[other][p] # None \/ <<other, p>> \in g.since

PagesRight == page \in [Readers -> Page] /\ \A u \in Readers : PageRight(u)

(* Users are deleted, never created; the reviews of the others stay.       *)
LEMMA OthersDeleted ==
    ASSUME ReviewsAssumption, ReviewsStep, NEW u \in Users, u \in users'
    PROVE  u \in users /\ ByUser(u)' = ByUser(u)
  <1>1. users' \subseteq users
    BY DEF ReviewsStep, SetDelivered, DeleteUser, Write, AddUp, Commit, Rollback, CreateRead, ChangeRead
  <1>2. QED
    BY <1>1 DEF ByUser

(* What the list was made from is overtaken only by what is in since.      *)
LEMMA PageOvertaken ==
    ASSUME ReviewsAssumption, PagesRight, ReviewsStep, Overtakes, NEW u \in Readers
    PROVE  PageRight(u)' /\ page'[u] \in Page
  <1> DEFINE g == page[u]
             late == {x \in Orders \X Products :
                         \/ (x[1] \in delivered) # (x[1] \in delivered')
                         \/ g.pc = "offers" /\ review'[x[1]][x[2]] # review[x[1]][x[2]]}
             h == IF g = Closed THEN Closed ELSE [g EXCEPT !.since = g.since \cup late]
  <1>1. page'[u] = h
    BY DEF Overtakes
  <1>2. g \in Page /\ u \in Users
    BY DEF PagesRight, PageRight, ReviewsAssumption
  <1>3. late \subseteq Orders \X Products
    OBVIOUS
  <1>4. \A o \in Orders, p \in Products : <<o, p>> \notin late =>
           /\ o \in delivered <=> o \in delivered'
           /\ g.pc = "offers" => review'[o][p] = review[o][p]
    OBVIOUS
  <1> HIDE DEF late
  <1>5. CASE g = Closed
    <2>1. h = Closed /\ Closed \in Page /\ Closed.pc = "closed"
      BY <1>5 DEF Closed, Page
    <2>2. QED
      BY <1>1, <2>1 DEF PageRight
  <1>6. CASE g # Closed
    <2>1. /\ h \in Page /\ h.pc = g.pc /\ h.orders = g.orders /\ h.offers = g.offers
          /\ h.since = g.since \cup late
      BY <1>2, <1>3, <1>6 DEF Page
    <2> HIDE DEF h
    <2>2. u \in users' => u \in users /\ ByUser(u)' = ByUser(u) /\ ByUser(u) \subseteq Orders
      BY <1>2, OthersDeleted DEF ByUser
    <2>3. PageRight(u)
      BY DEF PagesRight
    <2>4. ASSUME u \in users', h.pc = "orders"
          PROVE  /\ \A o \in ByUser(u)', p \in Products :
                       <<o, p>> \notin h.since => (o \in h.orders <=> o \in delivered')
                 /\ h.orders \subseteq ByUser(u)'
      BY <1>4, <2>1, <2>2, <2>3, <2>4 DEF PageRight
    <2>5. ASSUME u \in users', h.pc = "offers", NEW o \in Orders, NEW p \in Products, <<o, p>> \notin h.since
          PROVE  /\ <<o, p>> \in h.offers => CanReview(u, o, p)'
                 /\ CanReview(u, o, p)' /\ <<o, p>> \notin h.offers =>
                       \E other \in ByUser(u)' \ {o} :
                           review'[other][p] # None \/ <<other, p>> \in h.since
      <3>1. CanReview(u, o, p)' <=> CanReview(u, o, p)
        BY <1>4, <2>1, <2>2, <2>5 DEF CanReview
      <3>2. \A other \in Orders : <<other, p>> \notin h.since => review'[other][p] = review[other][p]
        BY <1>4, <2>1, <2>5
      <3>3. /\ <<o, p>> \in g.offers => CanReview(u, o, p)
            /\ CanReview(u, o, p) /\ <<o, p>> \notin g.offers =>
                  \E other \in ByUser(u) \ {o} :
                      review[other][p] # None \/ <<other, p>> \in g.since
        BY <2>1, <2>2, <2>3, <2>5 DEF PageRight
      <3>4. QED
        BY <2>1, <2>2, <2>5, <3>1, <3>2, <3>3
    <2>6. QED
      BY <1>1, <2>1, <2>4, <2>5 DEF PageRight
  <1>7. QED
    BY <1>5, <1>6

(* The two queries.                                                        *)
LEMMA PageListed ==
    ASSUME ReviewsAssumption, PagesRight, delivered \subseteq Orders, NEW u \in Readers,
           ListOrders(u) \/ ListOffers(u) \/ ClosePage(u)
    PROVE  PageRight(u)' /\ page'[u] \in Page
  <1> DEFINE g == page[u]
  <1>1. /\ g \in Page /\ PageRight(u) /\ page \in [Readers -> Page] /\ UNCHANGED storedVars
        /\ ByUser(u) \subseteq Orders
    BY DEF PagesRight, PageRight, ListOrders, ListOffers, ClosePage, Shows, ByUser
  <1>2. UNCHANGED <<users, delivered, review>>
    BY <1>1 DEF storedVars
  <1>3. CASE ClosePage(u)
    BY <1>1, <1>3 DEF ClosePage, Shows, PageRight, Closed, Page
  <1>4. CASE ListOrders(u)
    <2> DEFINE read == ByUser(u) \cap delivered
               h == [Closed EXCEPT !.pc = "orders", !.orders = read]
    <2>1. page'[u] = h
      BY <1>1, <1>4 DEF ListOrders, Shows
    <2>2. read \in SUBSET Orders
      BY <1>1
    <2> HIDE DEF read
    <2>3. h \in Page /\ h.pc = "orders" /\ h.orders = read
      BY <2>2 DEF Closed, Page
    <2> HIDE DEF h
    <2>4. QED
      BY <1>2, <2>1, <2>3 DEF PageRight, read, ByUser
  <1>5. CASE ListOffers(u)
    <2> DEFINE offered == {x \in g.orders \X Products :
                  x[2] \in ItemsOf[x[1]] /\ \A o \in ByUser(u) : review[o][x[2]] = None}
               h == [g EXCEPT !.pc = "offers", !.offers = offered]
    <2>1. page'[u] = h /\ g.pc = "orders"
      BY <1>1, <1>5 DEF ListOffers, Shows
    <2>2. offered \in SUBSET (Orders \X Products)
      BY <1>1 DEF Page
    <2>3. \A o, p : <<o, p>> \in offered <=>
             /\ o \in g.orders /\ p \in Products /\ p \in ItemsOf[o]
             /\ \A a \in ByUser(u) : review[a][p] = None
      OBVIOUS
    <2> HIDE DEF offered
    <2>4. h \in Page /\ h.pc = "offers" /\ h.offers = offered /\ h.since = g.since
      BY <1>1, <2>2 DEF Page
    <2> HIDE DEF h
    <2>5. ASSUME u \in users, NEW o \in Orders, NEW p \in Products, <<o, p>> \notin g.since
          PROVE  /\ <<o, p>> \in offered => CanReview(u, o, p)
                 /\ CanReview(u, o, p) /\ <<o, p>> \notin offered =>
                       \E other \in ByUser(u) \ {o} : review[other][p] # None
      <3>1. g.orders \subseteq ByUser(u) /\ (o \in ByUser(u) => (o \in g.orders <=> o \in delivered))
        BY <1>1, <2>1, <2>5 DEF PageRight
      <3>2. QED
        BY <2>3, <2>5, <3>1 DEF CanReview
    <2>6. QED
      BY <1>2, <2>1, <2>4, <2>5 DEF PageRight, CanReview, ByUser
  <1>6. QED
    BY <1>3, <1>4, <1>5

(* What a user is offered to review can be reviewed, unless its order or   *)
(* its review has changed since the queries, for any number of orders,     *)
(* users and requests (reviews.service.ts:653).                            *)
THEOREM OffersCanBeReviewed ==
    ReviewsAssumption => (ReviewsSpec => []OffersAreOpen)
  <1> SUFFICES ASSUME ReviewsAssumption PROVE ReviewsSpec => []OffersAreOpen
    OBVIOUS
  <1>1. ReviewsInit => PagesRight
    BY DEF ReviewsInit, PagesRight, PageRight, Closed, Page
  <1>2. ReviewsInv /\ PagesRight /\ [ReviewsNext]_reviewsVars => PagesRight'
    <2> SUFFICES ASSUME ReviewsInv, PagesRight, [ReviewsNext]_reviewsVars PROVE PagesRight'
      OBVIOUS
    <2>1. delivered \subseteq Orders /\ page \in [Readers -> Page]
      BY DEF ReviewsInv, RowsTyped, PagesRight
    <2>2. CASE ReviewsStep /\ Overtakes
      BY <2>2, PageOvertaken DEF PagesRight, Overtakes
    <2>3. ASSUME NEW u \in Readers, ListOrders(u) \/ ListOffers(u) \/ ClosePage(u)
          PROVE  PagesRight'
      <3>1. PageRight(u)' /\ page'[u] \in Page
        BY <2>1, <2>3, PageListed
      <3>2. PICK h : page' = [page EXCEPT ![u] = h] /\ UNCHANGED storedVars
        BY <2>3 DEF ListOrders, ListOffers, ClosePage, Shows
      <3>3. page' \in [Readers -> Page]
        BY <2>1, <3>1, <3>2
      <3>4. ASSUME NEW v \in Readers, v # u PROVE PageRight(v)'
        <4>1. page'[v] = page[v] /\ UNCHANGED <<users, delivered, review>>
          BY <2>1, <3>2, <3>4 DEF storedVars
        <4>2. QED
          BY <4>1 DEF PagesRight, PageRight, CanReview, ByUser
      <3>5. QED
        BY <3>1, <3>3, <3>4 DEF PagesRight
    <2>4. CASE UNCHANGED reviewsVars
      BY <2>4 DEF reviewsVars, storedVars, PagesRight, PageRight, CanReview, ByUser
    <2>5. QED
      BY <2>2, <2>3, <2>4 DEF ReviewsNext
  <1>3. PagesRight => OffersAreOpen
    BY DEF PagesRight, PageRight, OffersAreOpen
  <1>4. QED
    BY <1>1, <1>2, <1>3, ReviewsHold, PTL DEF ReviewsSpec

-----------------------------------------------------------------------------
(* A profile of somebody who has bought nothing: worth little, and nothing *)
(* at all when the user has gone.                                          *)
Harmless(p) == p.ltv \in 0 .. 500 /\ p.risk \in 0 .. 10 /\ (p.risk <= 5 \/ p.ltv = 0)

(* How far a calculation has come.                                         *)
OfNonBuyer(t) ==
    /\ t.step \in {"churn", "metrics", "store"} => t.profile.ltv = 50 * t.habit.engagement
    /\ t.step \in {"metrics", "store"} => t.profile.risk = t.habit.inactivity

ProfilingInv ==
    /\ task \in [Runs -> [Users -> Task]]
    /\ DOMAIN profile = Users
    /\ \A c \in Runs, u \in Users : OfNonBuyer(task[c][u])
    /\ \A u \in Users : profile[u] # None => Harmless(profile[u])
    /\ CustomersAreNeverCounted

LEMMA HabitsAreHarmless ==
    ASSUME ProfilingAssumption, NEW h \in Habits \cup {NoActivity}
    PROVE  /\ h.engagement \in 0 .. 10 /\ h.inactivity \in 0 .. 10 /\ h.sensitive \in BOOLEAN
           /\ 50 * h.engagement <= 500 /\ (h.inactivity <= 5 \/ 50 * h.engagement = 0)
  <1>1. CASE h \in Habits
    <2>1. h \in Habit
      BY <1>1 DEF ProfilingAssumption
    <2>2. h.engagement \in 0 .. 10 /\ h.inactivity \in 0 .. 5 /\ h.sensitive \in BOOLEAN
      BY <2>1 DEF Habit
    <2>3. QED
      BY <2>2
  <1>2. CASE h = NoActivity
    BY <1>2 DEF NoActivity
  <1>3. QED
    BY <1>1, <1>2

LEMMA NoTaskIsTask == NoTask \in Task /\ OfNonBuyer(NoTask) /\ NoProfile \in Profile
  BY DEF NoTask, NoProfile, Task, ToRead, Profile, OfNonBuyer

(* One calculation goes on.                                                *)
LEMMA CalculationKeeps ==
    ASSUME ProfilingAssumption, ProfilingInv, NEW c \in Runs, NEW u \in Users,
           NEW t \in Task, OfNonBuyer(t), Calculation(c, u, t)
    PROVE  ProfilingInv'
  <1>1. task' = [task EXCEPT ![c] = [task[c] EXCEPT ![u] = t]] /\ UNCHANGED <<profile, segments>>
    BY DEF Calculation
  <1>2. task' \in [Runs -> [Users -> Task]]
    BY <1>1 DEF ProfilingInv
  <1>3. \A d \in Runs, v \in Users : task'[d][v] = t \/ task'[d][v] = task[d][v]
    BY <1>1 DEF ProfilingInv
  <1>4. \A d \in Runs, v \in Users : OfNonBuyer(task[d][v])'
    BY <1>3 DEF ProfilingInv, OfNonBuyer
  <1>5. QED
    BY <1>1, <1>2, <1>4 DEF ProfilingInv, CustomersAreNeverCounted

LEMMA CalculateKeeps ==
    ASSUME ProfilingAssumption, ProfilingInv, NEW c \in Runs, NEW u \in Users, Calculate(c, u)
    PROVE  ProfilingInv'
  <1> DEFINE t == task[c][u]
             thrown == [NoTask EXCEPT !.step = "thrown"]
  <1>1. t \in Task /\ OfNonBuyer(t)
    BY DEF ProfilingInv
  <1>2. t.habit \in Habits \cup {NoActivity} /\ t.profile \in Profile
    BY <1>1 DEF Task
  <1>3. thrown \in Task /\ OfNonBuyer(thrown)
    <2>1. thrown \in Task /\ thrown.step = "thrown"
      BY NoTaskIsTask DEF Task, ToRead
    <2>2. QED
      BY <2>1 DEF OfNonBuyer
  <1>4. /\ t.habit.engagement \in 0 .. 10 /\ t.habit.inactivity \in 0 .. 10
        /\ t.habit.sensitive \in BOOLEAN
        /\ 50 * t.habit.engagement <= 500
        /\ t.habit.inactivity <= 5 \/ 50 * t.habit.engagement = 0
    BY <1>2, HabitsAreHarmless
  <1> HIDE DEF thrown
  <1>5. ASSUME BehavioralSegment(c, u) PROVE ProfilingInv'
    <2> DEFINE p == [NoProfile EXCEPT !.engagement = t.habit.engagement, !.sensitive = t.habit.sensitive]
               next == [t EXCEPT !.step = "value", !.profile = p]
    <2>1. Calculation(c, u, thrown) \/ Calculation(c, u, next)
      BY <1>5 DEF BehavioralSegment, ReadPurchases, thrown
    <2>2. p \in Profile
      BY <1>4, NoTaskIsTask DEF Profile
    <2> HIDE DEF p
    <2>3. next \in Task /\ next.step = "value"
      BY <1>1, <2>2 DEF Task, ToRead
    <2>4. OfNonBuyer(next)
      BY <2>3 DEF OfNonBuyer
    <2> HIDE DEF next, t
    <2>5. QED
      BY <1>3, <2>1, <2>3, <2>4, CalculationKeeps
  <1>6. ASSUME PredictLifetimeValue(c, u) PROVE ProfilingInv'
    <2> DEFINE p == [t.profile EXCEPT !.ltv = 50 * t.habit.engagement]
               next == [t EXCEPT !.step = "churn", !.profile = p]
    <2>1. Calculation(c, u, thrown) \/ Calculation(c, u, next)
      BY <1>6 DEF PredictLifetimeValue, ReadPurchases, Throws, thrown
    <2>2. p \in Profile /\ p.ltv = 50 * t.habit.engagement
      BY <1>2, <1>4 DEF Profile
    <2> HIDE DEF p
    <2>3. next \in Task /\ next.step = "churn" /\ next.habit = t.habit /\ next.profile = p
      BY <1>1, <2>2 DEF Task, ToRead
    <2>4. OfNonBuyer(next)
      BY <2>2, <2>3 DEF OfNonBuyer
    <2> HIDE DEF next, t
    <2>5. QED
      BY <1>3, <2>1, <2>3, <2>4, CalculationKeeps
  <1>7. ASSUME AssessChurnRisk(c, u) PROVE ProfilingInv'
    <2> DEFINE p == [t.profile EXCEPT !.risk = t.habit.inactivity]
               next == [t EXCEPT !.step = "metrics", !.profile = p]
    <2>1. t.step = "churn" /\ (Calculation(c, u, thrown) \/ Calculation(c, u, next))
      BY <1>7 DEF AssessChurnRisk, ReadPurchases, thrown
    <2>2. p \in Profile /\ p.risk = t.habit.inactivity /\ p.ltv = 50 * t.habit.engagement
      BY <1>1, <1>2, <1>4, <2>1 DEF Profile, OfNonBuyer
    <2> HIDE DEF p
    <2>3. next \in Task /\ next.step = "metrics" /\ next.habit = t.habit /\ next.profile = p
      BY <1>1, <2>2 DEF Task, ToRead
    <2>4. OfNonBuyer(next)
      BY <2>2, <2>3 DEF OfNonBuyer
    <2> HIDE DEF next, t
    <2>5. QED
      BY <1>3, <2>1, <2>3, <2>4, CalculationKeeps
  <1>8. ASSUME CalculatePurchaseMetrics(c, u) PROVE ProfilingInv'
    <2> DEFINE f == IF Purchases(u) = {} THEN 0 ELSE 1
               p == [t.profile EXCEPT !.frequency = f]
               next == [t EXCEPT !.step = "store", !.profile = p]
    <2>0. f \in 0 .. 1
      OBVIOUS
    <2>1. t.step = "metrics" /\ (Calculation(c, u, thrown) \/ Calculation(c, u, next))
      BY <1>8 DEF CalculatePurchaseMetrics, ReadPurchases, thrown
    <2> HIDE DEF f
    <2>2. p \in Profile /\ p.risk = t.habit.inactivity /\ p.ltv = 50 * t.habit.engagement
      BY <1>1, <1>2, <1>4, <2>0, <2>1 DEF Profile, OfNonBuyer
    <2> HIDE DEF p
    <2>3. next \in Task /\ next.step = "store" /\ next.habit = t.habit /\ next.profile = p
      BY <1>1, <2>2 DEF Task, ToRead
    <2>4. OfNonBuyer(next)
      BY <2>2, <2>3 DEF OfNonBuyer
    <2> HIDE DEF next, t
    <2>5. QED
      BY <1>3, <2>1, <2>3, <2>4, CalculationKeeps
  <1>9. ASSUME Store(c, u) \/ Fail(c, u) PROVE ProfilingInv'
    <2>1. /\ task' = [task EXCEPT ![c] = [task[c] EXCEPT ![u] = NoTask]] /\ UNCHANGED segments
          /\ \/ t.step = "store" /\ profile' = [profile EXCEPT ![u] = t.profile]
             \/ UNCHANGED profile
      BY <1>9 DEF Store, Fail
    <2>2. t.step = "store" => Harmless(t.profile)
      BY <1>1, <1>4 DEF OfNonBuyer, Harmless
    <2> HIDE DEF t
    <2>3. DOMAIN profile' = Users /\ \A v \in Users : profile'[v] # None => Harmless(profile'[v])
      BY <2>1, <2>2 DEF ProfilingInv
    <2>4. task' \in [Runs -> [Users -> Task]]
      BY <2>1, NoTaskIsTask DEF ProfilingInv
    <2>5. \A d \in Runs, v \in Users : task'[d][v] = NoTask \/ task'[d][v] = task[d][v]
      BY <2>1 DEF ProfilingInv
    <2>6. \A d \in Runs, v \in Users : OfNonBuyer(task[d][v])'
      BY <2>5, NoTaskIsTask DEF ProfilingInv, OfNonBuyer
    <2>7. \A v \in Users : profile'[v] # None => Harmless(profile[v])'
      BY <2>3 DEF Harmless
    <2>8. QED
      BY <2>1, <2>3, <2>4, <2>6, <2>7 DEF ProfilingInv, CustomersAreNeverCounted
  <1>10. QED
    BY <1>5, <1>6, <1>7, <1>8, <1>9 DEF Calculate

LEMMA NextBatchKeeps ==
    ASSUME ProfilingAssumption, ProfilingInv, NEW c \in Runs, NextBatch(c)
    PROVE  ProfilingInv'
  <1>1. PICK batch \in SUBSET todo[c] : \E habit \in [batch -> Habits \cup {NoActivity}] :
           task' = [task EXCEPT ![c] = [u \in Users |->
                      IF u \in batch THEN [NoTask EXCEPT !.step = "segment", !.habit = habit[u]]
                      ELSE task[c][u]]]
    BY DEF NextBatch
  <1>0. PICK habit \in [batch -> Habits \cup {NoActivity}] :
           task' = [task EXCEPT ![c] = [u \in Users |->
                      IF u \in batch THEN [NoTask EXCEPT !.step = "segment", !.habit = habit[u]]
                      ELSE task[c][u]]]
    BY <1>1
  <1>2. UNCHANGED <<profile, segments>>
    BY DEF NextBatch
  <1> DEFINE row == [u \in Users |->
                      IF u \in batch THEN [NoTask EXCEPT !.step = "segment", !.habit = habit[u]]
                      ELSE task[c][u]]
  <1>3. ASSUME NEW u \in Users PROVE row[u] \in Task /\ OfNonBuyer(row[u])
    <2>1. CASE u \in batch
      <3> DEFINE a == [NoTask EXCEPT !.step = "segment", !.habit = habit[u]]
      <3>1. a \in Task /\ a.step = "segment"
        BY <2>1, NoTaskIsTask DEF Task, ToRead
      <3>2. OfNonBuyer(a)
        BY <3>1 DEF OfNonBuyer
      <3>3. QED
        BY <2>1, <3>1, <3>2
    <2>2. CASE u \notin batch
      BY <2>2 DEF ProfilingInv
    <2>3. QED
      BY <2>1, <2>2
  <1>4. row \in [Users -> Task] /\ task' = [task EXCEPT ![c] = row]
    BY <1>0, <1>3
  <1> HIDE DEF row
  <1>5. task' \in [Runs -> [Users -> Task]]
    BY <1>4 DEF ProfilingInv
  <1>6. \A d \in Runs, u \in Users : task'[d][u] = row[u] \/ task'[d][u] = task[d][u]
    BY <1>4 DEF ProfilingInv
  <1>7. \A d \in Runs, u \in Users : OfNonBuyer(task[d][u])'
    BY <1>3, <1>6 DEF ProfilingInv, OfNonBuyer
  <1>8. QED
    BY <1>2, <1>5, <1>7 DEF ProfilingInv, CustomersAreNeverCounted

(* Nobody is counted among the customers.                                  *)
LEMMA UpdateSegmentsKeeps ==
    ASSUME ProfilingAssumption, ProfilingInv, NEW c \in Runs, UpdateUserSegments(c)
    PROVE  ProfilingInv'
  <1> DEFINE counted(s) == {u \in Users : profile[u] # None /\ Matches(profile[u], s)}
  <1>1. segments' = [s \in SegmentIds |-> Cardinality(counted(s))] /\ UNCHANGED <<profile, task>>
    BY DEF UpdateUserSegments
  <1>2. counted("high-value-customers") = {} /\ counted("at-risk-customers") = {}
    <2> SUFFICES ASSUME NEW u \in Users, profile[u] # None
                 PROVE  /\ ~Matches(profile[u], "high-value-customers")
                        /\ ~Matches(profile[u], "at-risk-customers")
      OBVIOUS
    <2>1. Harmless(profile[u])
      BY DEF ProfilingInv
    <2>2. ~Matches(profile[u], "high-value-customers")
      BY <2>1 DEF Harmless, Matches
    <2>3. ~Matches(profile[u], "at-risk-customers")
      BY <2>1 DEF Harmless, Matches
    <2>4. QED
      BY <2>2, <2>3
  <1> HIDE DEF counted
  <1>3. CustomersAreNeverCounted'
    BY <1>1, <1>2, FS_EmptySet DEF CustomersAreNeverCounted, SegmentIds
  <1>4. QED
    BY <1>1, <1>3 DEF ProfilingInv, OfNonBuyer, Harmless

LEMMA BlankSlate ==
    ASSUME task' = [c \in Runs |-> [u \in Users |-> NoTask]],
           profile' = [u \in Users |-> None], segments' = None
    PROVE  ProfilingInv'
  <1>1. \A c \in Runs, u \in Users : task'[c][u] = NoTask
    OBVIOUS
  <1>2. \A c \in Runs, u \in Users : OfNonBuyer(task[c][u])'
    BY <1>1, NoTaskIsTask DEF OfNonBuyer
  <1>3. task' \in [Runs -> [Users -> Task]]
    BY NoTaskIsTask
  <1>4. QED
    BY <1>2, <1>3 DEF ProfilingInv, CustomersAreNeverCounted

(* Who has bought something is never in a customer segment.                *)
THEOREM CustomersAreNoSegment ==
    ProfilingAssumption => (ProfilingSpec => []CustomersAreNeverCounted)
  <1> SUFFICES ASSUME ProfilingAssumption PROVE ProfilingSpec => []CustomersAreNeverCounted
    OBVIOUS
  <1>1. ReviewsInit /\ ProfilingInit => ProfilingInv
    <2> SUFFICES ASSUME ProfilingInit PROVE ProfilingInv
      OBVIOUS
    <2>1. \A c \in Runs, u \in Users : task[c][u] = NoTask
      BY DEF ProfilingInit
    <2>2. task \in [Runs -> [Users -> Task]]
      BY NoTaskIsTask DEF ProfilingInit
    <2>3. QED
      BY <2>1, <2>2, NoTaskIsTask DEF ProfilingInit, ProfilingInv, CustomersAreNeverCounted
  <1>2. ProfilingInv /\ [ProfilingNext]_<<reviewsVars, profilingVars>> => ProfilingInv'
    <2> SUFFICES ASSUME ProfilingInv, [ProfilingNext]_<<reviewsVars, profilingVars>>
                 PROVE  ProfilingInv'
      OBVIOUS
    <2>1. CASE UNCHANGED profilingVars
      BY <2>1 DEF profilingVars, ProfilingInv, OfNonBuyer, Harmless, CustomersAreNeverCounted
    <2>2. CASE Restart
      BY <2>2, BlankSlate DEF Restart
    <2>3. ASSUME NEW c \in Runs, StartRun(c) PROVE ProfilingInv'
      BY <2>3 DEF StartRun, ProfilingInv, OfNonBuyer, Harmless, CustomersAreNeverCounted
    <2>4. CASE ProfilingStep
      BY <2>2, <2>3, <2>4, NextBatchKeeps, UpdateSegmentsKeeps, CalculateKeeps DEF ProfilingStep
    <2>5. QED
      BY <2>1, <2>4 DEF ProfilingNext
  <1>3. ProfilingInv => CustomersAreNeverCounted
    BY DEF ProfilingInv
  <1>4. QED
    BY <1>1, <1>2, <1>3, PTL DEF ProfilingSpec

-----------------------------------------------------------------------------
(* Ranks count through a finite set of numbers.                            *)
LEMMA RanksCount ==
    ASSUME NEW I \in SUBSET Nat, IsFiniteSet(I)
    PROVE  /\ Cardinality(I) \in Nat
           /\ \A i \in I : Rank(I, i) \in 1 .. Cardinality(I)
           /\ \A i, k \in I : Rank(I, i) = Rank(I, k) => i = k
           /\ \A n \in 1 .. Cardinality(I) : \E i \in I : Rank(I, i) = n
  <1> DEFINE upto(i) == {j \in I : j <= i}
             f == [i \in I |-> Rank(I, i)]
  <1>0. Cardinality(I) \in Nat
    BY FS_CardinalityType
  <1>1. ASSUME NEW i \in I
        PROVE  /\ IsFiniteSet(upto(i)) /\ i \in upto(i)
               /\ Rank(I, i) = Cardinality(upto(i))
    <2>1. upto(i) \in SUBSET I
      OBVIOUS
    <2>2. IsFiniteSet(upto(i))
      BY <2>1, FS_Subset
    <2>3. QED
      BY <2>2 DEF Rank
  <1>2. ASSUME NEW i \in I
        PROVE  Rank(I, i) \in 1 .. Cardinality(I)
    <2>1. upto(i) \in SUBSET I
      OBVIOUS
    <2> HIDE DEF upto
    <2>2. /\ Cardinality(upto(i)) \in Nat /\ Cardinality(upto(i)) # 0
          /\ Cardinality(upto(i)) <= Cardinality(I)
      BY <1>1, <2>1, FS_Subset, FS_EmptySet, FS_CardinalityType
    <2>3. QED
      BY <1>0, <1>1, <2>2
  <1>3. ASSUME NEW i \in I, NEW k \in I, i < k
        PROVE  Rank(I, i) # Rank(I, k)
    <2>0. i \in Nat /\ k \in Nat
      OBVIOUS
    <2>1. upto(i) \in SUBSET upto(k) /\ k \notin upto(i)
      <3>1. \A j \in I : j \in Nat
        OBVIOUS
      <3>2. \A j \in I : j <= i => j <= k
        BY <1>3, <2>0, <3>1
      <3>3. ~(k <= i)
        BY <1>3, <2>0
      <3>4. QED
        BY <3>2, <3>3
    <2> HIDE DEF upto
    <2>2. Cardinality(upto(i)) # Cardinality(upto(k))
      BY <1>1, <2>1, FS_Subset
    <2>3. QED
      BY <1>1, <2>2
  <1>4. \A i, k \in I : Rank(I, i) = Rank(I, k) => i = k
    <2>1. \A i, k \in I : i < k \/ k < i \/ i = k
      OBVIOUS
    <2>2. QED
      BY <1>3, <2>1
  <1>5. f \in Injection(I, 1 .. Cardinality(I))
    BY <1>2, <1>4 DEF Injection, IsInjective
  <1>6. IsFiniteSet(1 .. Cardinality(I)) /\ Cardinality(1 .. Cardinality(I)) = Cardinality(I)
    BY <1>0, FS_Interval
  <1> DEFINE T == 1 .. Cardinality(I)
  <1> HIDE DEF f, T
  <1>7. f \in Surjection(I, T)
    <2>1. f \in Injection(I, T) /\ IsFiniteSet(T) /\ Cardinality(I) = Cardinality(T)
      BY <1>5, <1>6 DEF T
    <2>2. QED
      BY <2>1, FS_Injection
  <1>8. \A n \in T : \E i \in I : Rank(I, i) = n
    BY <1>7 DEF Surjection, f
  <1>9. QED
    BY <1>0, <1>2, <1>4, <1>8 DEF T

(* What a filter keeps: the elements that are in S and no others, each     *)
(* once if it came once.                                                   *)
LEMMA KeptIs ==
    ASSUME NEW m \in Nat, NEW s, DOMAIN s = 1 .. m, NEW S
    PROVE  /\ \E n \in 0 .. m : Kept(s, S) \in [1 .. n -> S]
           /\ Range(Kept(s, S)) = Range(s) \cap S
           /\ (\A i, j \in 1 .. m : s[i] = s[j] /\ s[i] \in S => i = j) => IsInjective(Kept(s, S))
  <1> DEFINE I == {i \in DOMAIN s : s[i] \in S}
             c == Cardinality(I)
             at(n) == CHOOSE i \in I : Rank(I, i) = n
             t == [n \in 1 .. c |-> s[at(n)]]
  <1>1. Kept(s, S) = t
    BY DEF Kept
  <1>2. I \in SUBSET Nat /\ IsFiniteSet(I) /\ c <= m
    <2>1. I \in SUBSET (1 .. m)
      OBVIOUS
    <2>2. IsFiniteSet(1 .. m) /\ Cardinality(1 .. m) = m
      BY FS_Interval
    <2> HIDE DEF I
    <2>3. IsFiniteSet(I) /\ Cardinality(I) <= Cardinality(1 .. m)
      BY <2>1, <2>2, FS_Subset
    <2>4. QED
      BY <2>1, <2>2, <2>3
  <1>3. I \subseteq 1 .. m /\ \A i \in 1 .. m : i \in I <=> s[i] \in S
    OBVIOUS
  <1> HIDE DEF I
  <1>4. /\ c \in Nat
        /\ \A i \in I : Rank(I, i) \in 1 .. c
        /\ \A i, k \in I : Rank(I, i) = Rank(I, k) => i = k
        /\ \A n \in 1 .. c : \E i \in I : Rank(I, i) = n
    BY <1>2, RanksCount
  <1> HIDE DEF c
  <1>5. ASSUME NEW n \in 1 .. c PROVE at(n) \in I /\ Rank(I, at(n)) = n
    BY <1>4
  <1>6. ASSUME NEW i \in I PROVE at(Rank(I, i)) = i
    BY <1>4
  <1> HIDE DEF at
  <1>7. /\ DOMAIN t = 1 .. c /\ \A n \in 1 .. c : t[n] = s[at(n)]
        /\ t \in [1 .. c -> S]
    BY <1>3, <1>5
  <1> HIDE DEF t
  <1>8. Range(t) = Range(s) \cap S
    <2>1. ASSUME NEW x \in Range(t) PROVE x \in Range(s) \cap S
      BY <1>3, <1>5, <1>7 DEF Range
    <2>2. ASSUME NEW x \in Range(s) \cap S PROVE x \in Range(t)
      <3>1. PICK i \in 1 .. m : s[i] = x
        BY DEF Range
      <3>2. i \in I
        BY <1>3, <3>1
      <3>3. Rank(I, i) \in 1 .. c /\ t[Rank(I, i)] = x
        BY <1>4, <1>6, <1>7, <3>1, <3>2
      <3>4. QED
        BY <1>7, <3>3 DEF Range
    <2>3. QED
      BY <2>1, <2>2
  <1>9. ASSUME \A i, j \in 1 .. m : s[i] = s[j] /\ s[i] \in S => i = j
        PROVE  IsInjective(t)
    <2>1. ASSUME NEW n \in 1 .. c, NEW k \in 1 .. c, t[n] = t[k] PROVE n = k
      <3>1. /\ at(n) \in 1 .. m /\ at(k) \in 1 .. m
            /\ s[at(n)] = s[at(k)] /\ s[at(n)] \in S
        BY <1>3, <1>5, <1>7, <2>1
      <3>2. at(n) = at(k)
        BY <1>9, <3>1
      <3>3. QED
        BY <1>5, <3>2
    <2>2. QED
      BY <1>7, <2>1 DEF IsInjective
  <1>10. QED
    BY <1>1, <1>2, <1>4, <1>7, <1>8, <1>9

-----------------------------------------------------------------------------
(* An answer: as many products as were asked for, or fewer.                *)
LEMMA AnswerIs ==
    ASSUME RecommendAssumption, NEW n \in 0 .. Limit, NEW s \in [1 .. n -> Products]
    PROVE  s \in Answers
  BY DEF Answers

LEMMA NothingIsAnswer ==
    ASSUME RecommendAssumption
    PROVE  <<>> \in Answers
  <1>1. 0 \in 0 .. Limit
    BY DEF RecommendAssumption
  <1>2. <<>> \in [1 .. 0 -> Products]
    OBVIOUS
  <1>3. QED
    BY <1>1, <1>2, AnswerIs

(* What orderBy and take leave of S.                                       *)
Taken(S) == IF Cardinality(S) < Limit THEN Cardinality(S) ELSE Limit

LEMMA TakenAre ==
    ASSUME RecommendAssumption, NEW S \in SUBSET Products, NEW s \in Injection(1 .. Taken(S), S)
    PROVE  /\ s \in Answers
           /\ IsInjective(s) /\ Range(s) \subseteq S
           /\ s = <<>> => S = {}
  <1>1. IsFiniteSet(S) /\ Cardinality(S) \in Nat /\ (Cardinality(S) = 0 => S = {})
    BY FS_Subset, FS_CardinalityType, FS_EmptySet DEF RecommendAssumption
  <1>2. Taken(S) \in 0 .. Limit /\ (Taken(S) = 0 => S = {})
    BY <1>1 DEF Taken, RecommendAssumption
  <1> HIDE DEF Taken
  <1>3. s \in [1 .. Taken(S) -> S] /\ IsInjective(s)
    BY DEF Injection
  <1>4. s \in [1 .. Taken(S) -> Products]
    BY <1>3
  <1>5. s \in Answers
    BY <1>2, <1>4, AnswerIs
  <1>6. Range(s) \subseteq S
    BY <1>3 DEF Range
  <1>7. ASSUME s = <<>> PROVE S = {}
    <2>1. DOMAIN s = 1 .. Taken(S)
      BY <1>3
    <2>2. 1 .. Taken(S) = {}
      BY <1>7, <2>1
    <2>3. QED
      BY <1>2, <2>2
  <1>8. QED
    BY <1>3, <1>5, <1>6, <1>7

(* A filtered answer is one.                                               *)
LEMMA KeptAnswer ==
    ASSUME RecommendAssumption, NEW s \in Answers, NEW S
    PROVE  /\ Kept(s, S) \in Answers
           /\ Range(Kept(s, S)) = Range(s) \cap S
           /\ IsInjective(s) => IsInjective(Kept(s, S))
  <1>1. PICK m \in 0 .. Limit : s \in [1 .. m -> Products]
    BY DEF Answers
  <1>2. m \in Nat /\ DOMAIN s = 1 .. m /\ Range(s) \subseteq Products
    BY <1>1 DEF RecommendAssumption, Range
  <1>3. /\ \E n \in 0 .. m : Kept(s, S) \in [1 .. n -> S]
        /\ Range(Kept(s, S)) = Range(s) \cap S
        /\ (\A i, j \in 1 .. m : s[i] = s[j] /\ s[i] \in S => i = j) => IsInjective(Kept(s, S))
    BY <1>2, KeptIs
  <1>4. PICK n \in 0 .. m : Kept(s, S) \in [1 .. n -> S]
    BY <1>3
  <1>5. n \in 0 .. Limit
    BY <1>4 DEF RecommendAssumption
  <1>6. Kept(s, S) \in [1 .. n -> Products]
    BY <1>2, <1>3, <1>4 DEF Range
  <1>7. IsInjective(s) => IsInjective(Kept(s, S))
    BY <1>2, <1>3 DEF IsInjective
  <1>8. QED
    BY <1>3, <1>5, <1>6, <1>7, AnswerIs

(* The history, each product once.                                         *)
LEMMA OnceIs ==
    ASSUME RecommendAssumption, NEW s \in Answers
    PROVE  /\ Once(s) \in Answers
           /\ Range(Once(s)) \subseteq Range(s)
           /\ IsInjective(Once(s))
  <1>1. PICK m \in 0 .. Limit : s \in [1 .. m -> Products]
    BY DEF Answers
  <1> DEFINE u == [i \in DOMAIN s |-> IF \E j \in 1 .. i - 1 : s[j] = s[i] THEN None ELSE s[i]]
  <1>2. m \in Nat /\ DOMAIN u = 1 .. m /\ Once(s) = Kept(u, Products)
    BY <1>1 DEF RecommendAssumption, Once
  <1>3. ASSUME NEW i \in 1 .. m, u[i] \in Products
        PROVE  u[i] = s[i] /\ \A j \in 1 .. i - 1 : s[j] # s[i]
    BY <1>1, <1>3 DEF RecommendAssumption
  <1> HIDE DEF u
  <1>4. ASSUME NEW i \in 1 .. m, NEW j \in 1 .. m, u[i] = u[j], u[i] \in Products
        PROVE  i = j
    <2>1. s[i] = s[j] /\ (\A k \in 1 .. i - 1 : s[k] # s[i]) /\ (\A k \in 1 .. j - 1 : s[k] # s[j])
      BY <1>3, <1>4
    <2>2. ~(i < j) /\ ~(j < i)
      BY <1>2, <2>1
    <2>3. QED
      BY <1>2, <2>2
  <1>5. /\ \E n \in 0 .. m : Kept(u, Products) \in [1 .. n -> Products]
        /\ Range(Kept(u, Products)) = Range(u) \cap Products
        /\ IsInjective(Kept(u, Products))
    BY <1>2, <1>4, KeptIs
  <1>6. PICK n \in 0 .. m : Kept(u, Products) \in [1 .. n -> Products]
    BY <1>5
  <1>7. n \in 0 .. Limit
    BY <1>6 DEF RecommendAssumption
  <1>8. Range(u) \cap Products \subseteq Range(s)
    BY <1>1, <1>2, <1>3 DEF Range
  <1>9. QED
    BY <1>2, <1>5, <1>6, <1>7, <1>8, AnswerIs

-----------------------------------------------------------------------------
(* The kinds of list on whose way a read lies.                             *)
Route(pc, kind) ==
    /\ pc \in Reads \cup {"answered"} /\ kind \in Kinds
    /\ pc = "similar" => kind \in Related
    /\ pc \in {"orders", "group"} => kind = "together"
    /\ pc = "active" => kind \in {"trending", "personal"}
    /\ pc = "best" => kind \in {"trending", "personal", "best"}
    /\ pc = "top" => kind \in {"trending", "personal", "best", "top"}
    /\ pc = "details" => kind \in {"together", "trending", "personal", "best"}
    /\ pc = "recent" => kind = "recent"
    /\ pc = "new" => kind = "new"

FallsBack(k) == k.kind \in Related \cup {"trending", "personal", "best"}

(* What a request in flight has picked and answered.                       *)
Honest(q) ==
    /\ Route(q.pc, q.key.kind)
    /\ q.pc \notin {"details", "answered"} => q.picked = <<>>
    /\ q.pc = "details" => q.picked # <<>>
    /\ IsInjective(q.picked) /\ Range(q.picked) \subseteq Products \ {q.key.subject}
    /\ q.pc # "answered" => q.kept \subseteq open
    /\ q.pc = "answered" =>
          /\ IsInjective(q.list)
          /\ Range(q.list) \subseteq (open \cup q.gone) \ {q.key.subject}
          /\ q.list = <<>> /\ FallsBack(q.key) =>
                IF q.picked # <<>>
                  THEN Range(q.picked) \cap q.kept \cap In(q.key.category) = {}
                  ELSE LastResort(q.key) \cap q.kept = {}

RecommendInv ==
    /\ RecommendTypeOK
    /\ \A r \in Requests : ask[r] # NoRequest => Honest(ask[r])
    /\ ListsOpenProducts

LEMMA KeyIs ==
    ASSUME RecommendAssumption, NEW k \in Keys
    PROVE  /\ k.kind \in Kinds
           /\ k.kind \in Related => k.subject \in Products
           /\ k.kind \notin Related => k.subject \notin Products
  BY DEF RecommendAssumption, Keys, Kinds, Related, Visitor, Ranked

(* A request goes on.                                                      *)
LEMMA GoKeeps ==
    ASSUME RecommendAssumption, RecommendInv, NEW r \in Requests, NEW q \in Request, Honest(q), Go(r, q)
    PROVE  RecommendInv'
  <1>1. /\ ask' = [ask EXCEPT ![r] = q]
        /\ UNCHANGED <<open, placed, cancelled, active, viewed, cache, moves, hidden>>
    BY DEF Go, shopVars
  <1>2. RecommendTypeOK'
    BY <1>1 DEF RecommendInv, RecommendTypeOK
  <1>3. ASSUME NEW s \in Requests, ask'[s] # NoRequest PROVE Honest(ask[s])'
    <2>1. CASE s = r
      <3>1. ask'[s] = q
        BY <1>1, <2>1 DEF RecommendInv, RecommendTypeOK
      <3>2. Honest(q)'
        BY <1>1 DEF Honest, In, LastResort
      <3>3. QED
        BY <3>1, <3>2 DEF Honest
    <2>2. CASE s # r
      <3>1. ask'[s] = ask[s]
        BY <1>1, <2>2 DEF RecommendInv, RecommendTypeOK
      <3>2. Honest(ask[s])
        BY <1>3, <3>1 DEF RecommendInv
      <3>3. QED
        BY <1>1, <3>1, <3>2 DEF Honest
    <2>3. QED
      BY <2>1, <2>2
  <1>4. ListsOpenProducts'
    BY <1>1 DEF RecommendInv, ListsOpenProducts
  <1>5. QED
    BY <1>2, <1>3, <1>4 DEF RecommendInv

(* An answer that holds only what is open now.                             *)
LEMMA ReplyKeeps ==
    ASSUME RecommendAssumption, RecommendInv, NEW r \in Requests, NEW q \in Request, Honest(q),
           q.pc # "answered", NEW s \in Answers, Reply(r, q, s),
           IsInjective(s), Range(s) \subseteq open \ {q.key.subject},
           s = <<>> /\ FallsBack(q.key) =>
                IF q.picked # <<>>
                  THEN Range(q.picked) \cap open \cap In(q.key.category) = {}
                  ELSE LastResort(q.key) \cap open = {}
    PROVE  RecommendInv'
  <1> DEFINE a == [q EXCEPT !.pc = "answered", !.among = {}, !.list = s]
  <1>1. /\ a \in Request /\ a.pc = "answered" /\ a.list = s /\ a.key = q.key
        /\ a.picked = q.picked /\ a.kept = q.kept /\ a.gone = q.gone
    BY DEF Request
  <1>2. Go(r, a)
    BY DEF Reply
  <1> HIDE DEF a
  <1>3. q.kept \subseteq open /\ Route("answered", q.key.kind)
    BY DEF Honest, Route
  <1>4. Honest(a)
    BY <1>1, <1>3 DEF Honest
  <1>5. QED
    BY <1>1, <1>2, <1>4, GoKeeps

(* A request that has picked s for its details, or nothing and tries pc.   *)
LEMMA PickKeeps ==
    ASSUME RecommendAssumption, RecommendInv, NEW r \in Requests, NEW q \in Request, Honest(q),
           q.pc \notin {"details", "answered"},
           NEW s \in Answers, IsInjective(s), Range(s) \subseteq Products \ {q.key.subject},
           NEW pc \in Reads, s = <<>> => pc # "details" /\ Route(pc, q.key.kind),
           Route("details", q.key.kind),
           Go(r, [q EXCEPT !.pc = IF s = <<>> THEN pc ELSE "details", !.picked = s])
    PROVE  RecommendInv'
  <1> DEFINE a == [q EXCEPT !.pc = IF s = <<>> THEN pc ELSE "details", !.picked = s]
  <1>1. /\ a \in Request /\ a.pc = (IF s = <<>> THEN pc ELSE "details") /\ a.key = q.key
        /\ a.picked = s /\ a.kept = q.kept
    BY DEF Request, Reads
  <1>2. Go(r, a)
    OBVIOUS
  <1> HIDE DEF a
  <1>3. q.kept \subseteq open
    BY DEF Honest
  <1>4. Honest(a)
    <2>1. CASE s = <<>>
      BY <1>1, <1>3, <2>1 DEF Honest, Reads
    <2>2. CASE s # <<>>
      BY <1>1, <1>3, <2>2 DEF Honest
    <2>3. QED
      BY <2>1, <2>2
  <1>5. QED
    BY <1>1, <1>2, <1>4, GoKeeps

-----------------------------------------------------------------------------
(* A request that is reading.                                              *)
LEMMA ReadingIs ==
    ASSUME RecommendAssumption, RecommendInv, NEW r \in Requests, ask[r].pc \in Reads
    PROVE  ask[r] \in Request /\ Honest(ask[r])
  BY DEF RecommendInv, RecommendTypeOK, NoRequest, Reads

LEMMA OpenAreProducts ==
    ASSUME RecommendAssumption, RecommendInv
    PROVE  open \subseteq Products
  BY DEF RecommendInv, RecommendTypeOK

LEMMA ReadSimilarKeeps ==
    ASSUME RecommendAssumption, RecommendInv, NEW r \in Requests, ReadSimilar(r)
    PROVE  RecommendInv'
  <1> DEFINE q == ask[r]
             S == open \cap Alike(q.key.subject)
  <1>1. q \in Request /\ Honest(q) /\ q.pc = "similar"
    BY ReadingIs DEF ReadSimilar, Reading, Reads
  <1>2. PICK s \in Injection(1 .. Taken(S), S) : Reply(r, q, s)
    BY DEF ReadSimilar, Firsts, Taken
  <1>3. S \in SUBSET Products /\ S \subseteq open \ {q.key.subject}
    BY OpenAreProducts DEF Alike
  <1>4. q.key.kind \in Related /\ q.picked = <<>>
    BY <1>1 DEF Honest, Route
  <1>5. S = {} => LastResort(q.key) \cap open = {}
    BY <1>4 DEF LastResort
  <1> HIDE DEF q, S
  <1>6. s \in Answers /\ IsInjective(s) /\ Range(s) \subseteq S /\ (s = <<>> => S = {})
    BY <1>3, TakenAre
  <1>7. QED
    BY <1>1, <1>2, <1>3, <1>4, <1>5, <1>6, ReplyKeeps

LEMMA ReadTopKeeps ==
    ASSUME RecommendAssumption, RecommendInv, NEW r \in Requests, ReadTop(r)
    PROVE  RecommendInv'
  <1> DEFINE q == ask[r]
             S == open \cap In(q.key.category) \cap TopRated
  <1>1. q \in Request /\ Honest(q) /\ q.pc = "top"
    BY ReadingIs DEF ReadTop, Reading, Reads
  <1>2. PICK s \in Injection(1 .. Taken(S), S) : Reply(r, q, s)
    BY DEF ReadTop, Firsts, Taken
  <1>3. q.key.kind \notin Related /\ q.picked = <<>> /\ q.key \in Keys
    BY <1>1 DEF Honest, Route, Related, Request
  <1>4. S \in SUBSET Products /\ S \subseteq open \ {q.key.subject}
    BY <1>3, OpenAreProducts, KeyIs
  <1>5. S = {} => LastResort(q.key) \cap open = {}
    BY <1>3 DEF LastResort
  <1> HIDE DEF q, S
  <1>6. s \in Answers /\ IsInjective(s) /\ Range(s) \subseteq S /\ (s = <<>> => S = {})
    BY <1>4, TakenAre
  <1>7. QED
    BY <1>1, <1>2, <1>3, <1>4, <1>5, <1>6, ReplyKeeps

LEMMA ReadNewKeeps ==
    ASSUME RecommendAssumption, RecommendInv, NEW r \in Requests, ReadNew(r)
    PROVE  RecommendInv'
  <1> DEFINE q == ask[r]
             S == open \cap In(q.key.category)
  <1>1. q \in Request /\ Honest(q) /\ q.pc = "new"
    BY ReadingIs DEF ReadNew, Reading, Reads
  <1>2. PICK s \in Injection(1 .. Taken(S), S) : Reply(r, q, s)
    BY DEF ReadNew, Firsts, Taken
  <1>3. q.key.kind \notin Related /\ ~FallsBack(q.key) /\ q.key \in Keys
    BY <1>1 DEF Honest, Route, FallsBack, Related, Request
  <1>4. S \in SUBSET Products /\ S \subseteq open \ {q.key.subject}
    BY <1>3, OpenAreProducts, KeyIs
  <1> HIDE DEF q, S
  <1>5. s \in Answers /\ IsInjective(s) /\ Range(s) \subseteq S
    BY <1>4, TakenAre
  <1>6. QED
    BY <1>1, <1>2, <1>3, <1>4, <1>5, ReplyKeeps

(* The latest of the history.                                              *)
LEMMA LatestAre ==
    ASSUME RecommendAssumption, RecommendInv, NEW n,
           n = IF Len(viewed) < Limit THEN Len(viewed) ELSE Limit
    PROVE  SubSeq(viewed, 1, n) \in Answers
  <1>1. viewed \in Seq(Products) /\ Len(viewed) \in Nat /\ Limit \in Nat
    BY DEF RecommendInv, RecommendTypeOK, RecommendAssumption
  <1>2. n \in 0 .. Limit /\ n \in 0 .. Len(viewed)
    BY <1>1
  <1>3. SubSeq(viewed, 1, n) \in [1 .. n -> Products]
    <2>1. \A i \in 1 .. n : viewed[i] \in Products
      BY <1>1, <1>2
    <2>2. n \in Int /\ 1 \in Int /\ (1 <= n => n - 1 + 1 = n) /\ (~(1 <= n) => n = 0)
      BY <1>2
    <2> DEFINE s == SubSeq(viewed, 1, n)
    <2>3. s \in Seq(Products) /\ Len(s) = n
      BY <2>1, <2>2, SubSeqProperties
    <2> HIDE DEF s
    <2>4. s \in [1 .. Len(s) -> Products]
      BY <2>3
    <2>5. QED
      BY <2>3, <2>4 DEF s
  <1>4. QED
    BY <1>2, <1>3, AnswerIs

LEMMA ReadRecentKeeps ==
    ASSUME RecommendAssumption, RecommendInv, NEW r \in Requests, ReadRecent(r)
    PROVE  RecommendInv'
  <1> DEFINE q == ask[r]
             latest == SubSeq(viewed, 1, IF Len(viewed) < Limit THEN Len(viewed) ELSE Limit)
             s == Once(Kept(latest, open))
  <1>1. q \in Request /\ Honest(q) /\ q.pc = "recent"
    BY ReadingIs DEF ReadRecent, Reading, Reads
  <1>2. Reply(r, q, s)
    BY DEF ReadRecent
  <1>3. q.key.kind \notin Related /\ ~FallsBack(q.key) /\ q.key \in Keys
    BY <1>1 DEF Honest, Route, FallsBack, Related, Request
  <1>4. latest \in Answers
    BY LatestAre
  <1> HIDE DEF latest
  <1>5. Kept(latest, open) \in Answers /\ Range(Kept(latest, open)) \subseteq open
    BY <1>4, KeptAnswer
  <1>6. s \in Answers /\ IsInjective(s) /\ Range(s) \subseteq open
    BY <1>5, OnceIs
  <1>7. open \subseteq open \ {q.key.subject}
    BY <1>3, OpenAreProducts, KeyIs
  <1> HIDE DEF q, s
  <1>8. QED
    BY <1>1, <1>2, <1>3, <1>6, <1>7, ReplyKeeps

LEMMA ReadDetailsKeeps ==
    ASSUME RecommendAssumption, RecommendInv, NEW r \in Requests, ReadDetails(r)
    PROVE  RecommendInv'
  <1> DEFINE q == ask[r]
             S == open \cap In(q.key.category)
             s == Kept(q.picked, S)
  <1>1. q \in Request /\ Honest(q) /\ q.pc = "details"
    BY ReadingIs DEF ReadDetails, Reading, Reads
  <1>2. Reply(r, q, s)
    BY DEF ReadDetails
  <1>3. /\ q.picked \in Answers /\ q.picked # <<>> /\ IsInjective(q.picked)
        /\ Range(q.picked) \subseteq Products \ {q.key.subject}
    BY <1>1 DEF Honest, Request
  <1>4. s \in Answers /\ Range(s) = Range(q.picked) \cap S /\ IsInjective(s)
    BY <1>3, KeptAnswer
  <1>5. Range(s) \subseteq open \ {q.key.subject}
    BY <1>3, <1>4
  <1>6. s = <<>> => Range(q.picked) \cap open \cap In(q.key.category) = {}
    <2>1. s = <<>> => Range(s) = {}
      BY DEF Range
    <2>2. QED
      BY <2>1, <1>4
  <1> HIDE DEF q, s
  <1>7. QED
    BY <1>1, <1>2, <1>3, <1>4, <1>5, <1>6, ReplyKeeps

LEMMA ReadOrdersKeeps ==
    ASSUME RecommendAssumption, RecommendInv, NEW r \in Requests, ReadOrders(r)
    PROVE  RecommendInv'
  <1> DEFINE q == ask[r]
             with == With(q.key.subject)
             a == [q EXCEPT !.pc = IF with = {} THEN "similar" ELSE "group", !.among = with]
  <1>1. q \in Request /\ Honest(q) /\ q.pc = "orders"
    BY ReadingIs DEF ReadOrders, Reading, Reads
  <1>2. Go(r, a)
    BY DEF ReadOrders
  <1>3. with \in SUBSET Orders
    BY DEF With, RecommendInv, RecommendTypeOK
  <1> HIDE DEF with
  <1>4. /\ a \in Request /\ a.pc \in {"similar", "group"} /\ a.key = q.key
        /\ a.picked = q.picked /\ a.kept = q.kept
    BY <1>1, <1>3 DEF Request, Reads
  <1> HIDE DEF a, q
  <1>5. Honest(a)
    BY <1>1, <1>4 DEF Honest, Route, Related, Reads
  <1>6. QED
    BY <1>2, <1>4, <1>5, GoKeeps

LEMMA ReadGroupKeeps ==
    ASSUME RecommendAssumption, RecommendInv, NEW r \in Requests, ReadGroup(r)
    PROVE  RecommendInv'
  <1> DEFINE q == ask[r]
             S == open \cap Beside(q.key.subject, q.among)
  <1>1. q \in Request /\ Honest(q) /\ q.pc = "group"
    BY ReadingIs DEF ReadGroup, Reading, Reads
  <1>2. PICK s \in Injection(1 .. Taken(S), S) :
            Go(r, [q EXCEPT !.pc = IF s = <<>> THEN "similar" ELSE "details", !.picked = s])
    BY DEF ReadGroup, Firsts, Taken
  <1>3. S \in SUBSET Products /\ S \subseteq Products \ {q.key.subject}
    BY OpenAreProducts DEF Beside
  <1>4. Route("similar", q.key.kind) /\ Route("details", q.key.kind) /\ "similar" \in Reads
    BY <1>1 DEF Honest, Route, Related, Reads
  <1> HIDE DEF q, S
  <1>5. s \in Answers /\ IsInjective(s) /\ Range(s) \subseteq Products \ {q.key.subject}
    BY <1>3, TakenAre
  <1>6. QED
    BY <1>1, <1>2, <1>4, <1>5, PickKeeps

LEMMA ReadActiveKeeps ==
    ASSUME RecommendAssumption, RecommendInv, NEW r \in Requests, ReadActive(r)
    PROVE  RecommendInv'
  <1> DEFINE q == ask[r]
             S == {p \in Products : active[p] > 0}
  <1>1. q \in Request /\ Honest(q) /\ q.pc = "active"
    BY ReadingIs DEF ReadActive, Reading, Reads
  <1>2. PICK s \in Injection(1 .. Taken(S), S) :
            Go(r, [q EXCEPT !.pc = IF s = <<>> THEN "best" ELSE "details", !.picked = s])
    BY DEF ReadActive, Firsts, Taken
  <1>3. q.key.kind \notin Related /\ q.key \in Keys
    BY <1>1 DEF Honest, Route, Related, Request
  <1>4. S \in SUBSET Products /\ S \subseteq Products \ {q.key.subject}
    BY <1>3, KeyIs
  <1>5. Route("best", q.key.kind) /\ Route("details", q.key.kind) /\ "best" \in Reads
    BY <1>1 DEF Honest, Route, Related, Reads
  <1> HIDE DEF q, S
  <1>6. s \in Answers /\ IsInjective(s) /\ Range(s) \subseteq Products \ {q.key.subject}
    BY <1>4, TakenAre
  <1>7. QED
    BY <1>1, <1>2, <1>5, <1>6, PickKeeps

LEMMA ReadBestKeeps ==
    ASSUME RecommendAssumption, RecommendInv, NEW r \in Requests, ReadBest(r)
    PROVE  RecommendInv'
  <1> DEFINE q == ask[r]
             S == {p \in open \cap In(q.key.category) : Sold(p) >= 2}
  <1>1. q \in Request /\ Honest(q) /\ q.pc = "best"
    BY ReadingIs DEF ReadBest, Reading, Reads
  <1>2. PICK s \in Injection(1 .. Taken(S), S) :
            Go(r, [q EXCEPT !.pc = IF s = <<>> THEN "top" ELSE "details", !.picked = s])
    BY DEF ReadBest, Firsts, Taken
  <1>3. q.key.kind \notin Related /\ q.key \in Keys
    BY <1>1 DEF Honest, Route, Related, Request
  <1>4. S \in SUBSET Products /\ S \subseteq Products \ {q.key.subject}
    BY <1>3, OpenAreProducts, KeyIs
  <1>5. Route("top", q.key.kind) /\ Route("details", q.key.kind) /\ "top" \in Reads
    BY <1>1 DEF Honest, Route, Related, Reads
  <1> HIDE DEF q, S
  <1>6. s \in Answers /\ IsInjective(s) /\ Range(s) \subseteq Products \ {q.key.subject}
    BY <1>4, TakenAre
  <1>7. QED
    BY <1>1, <1>2, <1>5, <1>6, PickKeeps

-----------------------------------------------------------------------------
LEMMA AskKeeps ==
    ASSUME RecommendAssumption, RecommendInv, NEW r \in Requests, NEW k \in Questions, Ask(r, k)
    PROVE  RecommendInv'
  <1> DEFINE a == [NoRequest EXCEPT !.pc = First[k.kind], !.key = k, !.kept = open]
  <1>1. k \in Keys /\ k.kind \in Kinds
    BY KeyIs DEF RecommendAssumption
  <1>2. First[k.kind] \in Reads /\ Route(First[k.kind], k.kind) /\ First[k.kind] # "details"
    BY <1>1 DEF First, Personal, Route, Reads, Kinds, Related, Visitor, Ranked
  <1>3. Go(r, a)
    BY DEF Ask, Go, shopVars
  <1>4. /\ a \in Request /\ a.pc = First[k.kind] /\ a.key = k /\ a.picked = <<>>
        /\ a.kept = open
    BY <1>1, <1>2, NothingIsAnswer, OpenAreProducts DEF NoRequest, Request
  <1> HIDE DEF a
  <1>5. IsInjective(<<>>) /\ Range(<<>>) = {}
    BY DEF IsInjective, Range
  <1>6. a.pc \notin {"details", "answered"}
    BY <1>2, <1>4 DEF Reads
  <1>7. Honest(a)
    BY <1>2, <1>4, <1>5, <1>6 DEF Honest
  <1>8. QED
    BY <1>3, <1>4, <1>7, GoKeeps

LEMMA KeepKeeps ==
    ASSUME RecommendAssumption, RecommendInv, NEW r \in Requests, Keep(r)
    PROVE  RecommendInv'
  <1> DEFINE q == ask[r]
  <1>1. q \in Request /\ Honest(q) /\ q.pc = "answered"
    BY DEF Keep, RecommendInv, RecommendTypeOK, NoRequest
  <1>2. /\ ask' = [ask EXCEPT ![r] = NoRequest]
        /\ cache' = [cache EXCEPT ![q.key] = q.list]
        /\ hidden' = [hidden EXCEPT ![q.key] = q.gone]
        /\ UNCHANGED <<open, placed, cancelled, active, viewed, moves>>
    BY DEF Keep, shopVars
  <1>3. q.list \in Answers /\ q.gone \in SUBSET Products
    BY <1>1 DEF Request
  <1>4. /\ IsInjective(q.list)
        /\ Range(q.list) \subseteq (open \cup q.gone) \ {q.key.subject}
    BY <1>1 DEF Honest
  <1> HIDE DEF q
  <1>5. RecommendTypeOK'
    BY <1>2, <1>3 DEF RecommendInv, RecommendTypeOK
  <1>6. ASSUME NEW s \in Requests, ask'[s] # NoRequest PROVE Honest(ask[s])'
    <2>1. ask'[s] = ask[s]
      BY <1>2, <1>6 DEF RecommendInv, RecommendTypeOK
    <2>2. Honest(ask[s])
      BY <1>6, <2>1 DEF RecommendInv
    <2>3. QED
      BY <1>2, <2>1, <2>2 DEF Honest
  <1>7. ListsOpenProducts'
    BY <1>2, <1>4 DEF RecommendInv, RecommendTypeOK, ListsOpenProducts
  <1>8. QED
    BY <1>5, <1>6, <1>7 DEF RecommendInv

(* Hiding a product: whoever is reading no longer counts on it, and who    *)
(* has read is excused.                                                    *)
LEMMA HideKeeps ==
    ASSUME RecommendAssumption, RecommendInv, NEW p \in Products, Hide(p)
    PROVE  RecommendInv'
  <1>1. /\ open' = open \ {p} /\ moves' \in 0 .. MaxMoves
        /\ UNCHANGED <<placed, cancelled, active, viewed, cache>>
        /\ hidden' = [k \in Questions |-> IF cache[k] = None THEN {} ELSE hidden[k] \cup {p}]
    BY DEF Hide, Move, RecommendInv, RecommendTypeOK, RecommendAssumption
  <1>2. ASSUME NEW r \in Requests
        PROVE  ask'[r] = IF ask[r] = NoRequest THEN ask[r]
                         ELSE IF ask[r].pc = "answered" THEN [ask[r] EXCEPT !.gone = @ \cup {p}]
                         ELSE [ask[r] EXCEPT !.kept = @ \ {p}]
    BY DEF Hide
  <1>3. DOMAIN ask' = Requests /\ ask' = [r \in Requests |-> ask'[r]]
    BY DEF Hide
  <1>4. ASSUME NEW r \in Requests, ask[r] # NoRequest
        PROVE  ask'[r] \in Request /\ Honest(ask[r])'
    <2>1. ask[r] \in Request /\ Honest(ask[r])
      BY <1>4 DEF RecommendInv, RecommendTypeOK
    <2>2. CASE ask[r].pc = "answered"
      <3> DEFINE q == ask[r]
                 a == [q EXCEPT !.gone = q.gone \cup {p}]
      <3>1. ask'[r] = a
        BY <1>2, <1>4, <2>2
      <3>2. /\ a \in Request /\ a.pc = q.pc /\ a.key = q.key /\ a.picked = q.picked
            /\ a.kept = q.kept /\ a.list = q.list /\ a.gone = q.gone \cup {p}
        BY <2>1 DEF Request
      <3> HIDE DEF a
      <3>3. (open \cup q.gone) \ {q.key.subject} \subseteq (open' \cup a.gone) \ {q.key.subject}
        BY <1>1, <3>2
      <3>4. Honest(ask[r])'
        BY <2>1, <2>2, <3>1, <3>2, <3>3 DEF Honest
      <3>5. QED
        BY <3>1, <3>2, <3>4
    <2>3. CASE ask[r].pc # "answered"
      <3> DEFINE q == ask[r]
                 a == [q EXCEPT !.kept = q.kept \ {p}]
      <3>1. ask'[r] = a
        BY <1>2, <1>4, <2>3
      <3>2. /\ a \in Request /\ a.pc = q.pc /\ a.key = q.key /\ a.picked = q.picked
            /\ a.kept = q.kept \ {p}
        BY <2>1 DEF Request
      <3> HIDE DEF a
      <3>3. a.kept \subseteq open'
        BY <1>1, <2>1, <2>3, <3>2 DEF Honest
      <3>4. Honest(ask[r])'
        BY <2>1, <2>3, <3>1, <3>2, <3>3 DEF Honest
      <3>5. QED
        BY <3>1, <3>2, <3>4
    <2>4. QED
      BY <2>2, <2>3
  <1>5. \A r \in Requests : ask[r] = NoRequest => ask'[r] = NoRequest
    BY <1>2
  <1>6. ask' \in [Requests -> Request \cup {NoRequest}]
    BY <1>3, <1>4, <1>5
  <1>7. hidden' \in [Questions -> SUBSET Products]
    BY <1>1 DEF RecommendInv, RecommendTypeOK
  <1>8. RecommendTypeOK'
    BY <1>1, <1>6, <1>7 DEF RecommendInv, RecommendTypeOK
  <1>9. ListsOpenProducts'
    BY <1>1 DEF RecommendInv, ListsOpenProducts
  <1>10. QED
    BY <1>4, <1>5, <1>8, <1>9 DEF RecommendInv

(* The steps that change neither a request nor an answer.                  *)
LEMMA ShopKeeps ==
    ASSUME RecommendAssumption, RecommendInv, RecommendTypeOK',
           open \subseteq open', UNCHANGED <<ask, cache, hidden>>
    PROVE  RecommendInv'
  <1>1. ASSUME NEW r \in Requests, ask'[r] # NoRequest PROVE Honest(ask[r])'
    BY <1>1 DEF RecommendInv, Honest
  <1>2. ListsOpenProducts'
    BY DEF RecommendInv, ListsOpenProducts
  <1>3. QED
    BY <1>1, <1>2 DEF RecommendInv

LEMMA RestKeeps ==
    ASSUME RecommendAssumption, RecommendInv,
           \/ \E p \in Products : Show(p) \/ View(p)
           \/ \E o \in Orders : Place(o) \/ Cancel(o)
           \/ \E k \in Questions : Expire(k)
    PROVE  RecommendInv'
  <1>1. ASSUME NEW p \in Products, Show(p) PROVE RecommendInv'
    <2>1. RecommendTypeOK' /\ open \subseteq open' /\ UNCHANGED <<ask, cache, hidden>>
      BY <1>1 DEF Show, Move, RecommendInv, RecommendTypeOK, RecommendAssumption
    <2>2. QED
      BY <2>1, ShopKeeps
  <1>2. ASSUME NEW p \in Products, View(p) PROVE RecommendInv'
    <2>1. viewed' \in Seq(Products)
      BY <1>2 DEF View, RecommendInv, RecommendTypeOK
    <2>2. RecommendTypeOK' /\ open \subseteq open' /\ UNCHANGED <<ask, cache, hidden>>
      BY <1>2, <2>1 DEF View, Move, RecommendInv, RecommendTypeOK, RecommendAssumption
    <2>3. QED
      BY <2>2, ShopKeeps
  <1>3. ASSUME NEW o \in Orders, Place(o) \/ Cancel(o) PROVE RecommendInv'
    <2>1. RecommendTypeOK' /\ open \subseteq open' /\ UNCHANGED <<ask, cache, hidden>>
      BY <1>3 DEF Place, Cancel, Move, RecommendInv, RecommendTypeOK, RecommendAssumption
    <2>2. QED
      BY <2>1, ShopKeeps
  <1>4. ASSUME NEW k \in Questions, Expire(k) PROVE RecommendInv'
    <2>1. /\ cache' = [cache EXCEPT ![k] = None] /\ hidden' = [hidden EXCEPT ![k] = {}]
          /\ UNCHANGED <<open, placed, cancelled, active, viewed, ask, moves>>
      BY <1>4 DEF Expire, shopVars
    <2>2. RecommendTypeOK'
      BY <2>1 DEF RecommendInv, RecommendTypeOK
    <2>3. ASSUME NEW r \in Requests, ask'[r] # NoRequest PROVE Honest(ask[r])'
      BY <2>1, <2>3 DEF RecommendInv, Honest
    <2>4. ListsOpenProducts'
      BY <2>1 DEF RecommendInv, RecommendTypeOK, ListsOpenProducts
    <2>5. QED
      BY <2>2, <2>3, <2>4 DEF RecommendInv
  <1>5. QED
    BY <1>1, <1>2, <1>3, <1>4

-----------------------------------------------------------------------------
LEMMA RecommendHolds ==
    ASSUME RecommendAssumption
    PROVE  RecommendSpec => []RecommendInv
  <1>1. RecommendInit => RecommendInv
    <2> SUFFICES ASSUME RecommendInit PROVE RecommendInv
      OBVIOUS
    <2>1. RecommendTypeOK
      BY DEF RecommendInit, RecommendTypeOK, RecommendAssumption
    <2>2. \A r \in Requests : ask[r] = NoRequest
      BY DEF RecommendInit
    <2>3. ListsOpenProducts
      BY DEF RecommendInit, ListsOpenProducts
    <2>4. QED
      BY <2>1, <2>2, <2>3 DEF RecommendInv
  <1>2. RecommendInv /\ [RecommendNext]_recommendVars => RecommendInv'
    <2> SUFFICES ASSUME RecommendInv, [RecommendNext]_recommendVars PROVE RecommendInv'
      OBVIOUS
    <2>1. ASSUME NEW r \in Requests, Read(r) PROVE RecommendInv'
      BY <2>1, ReadSimilarKeeps, ReadOrdersKeeps, ReadGroupKeeps, ReadActiveKeeps, ReadBestKeeps,
         ReadDetailsKeeps, ReadTopKeeps, ReadNewKeeps, ReadRecentKeeps DEF Read
    <2>2. CASE UNCHANGED recommendVars
      BY <2>2, ShopKeeps DEF recommendVars, RecommendInv, RecommendTypeOK
    <2>3. CASE RecommendNext
      BY <2>1, <2>3, KeepKeeps, AskKeeps, HideKeeps, RestKeeps DEF RecommendNext
    <2>4. QED
      BY <2>2, <2>3
  <1>3. QED
    BY <1>1, <1>2, PTL DEF RecommendSpec

(* Whatever is answered, from the cache or not, lists a product at most    *)
(* once, never the one it is about, and only products that are open or     *)
(* were hidden after the last read of the answer.                          *)
THEOREM AnswersAreOpen ==
    RecommendAssumption => (RecommendSpec => []ListsOpenProducts)
  <1> SUFFICES ASSUME RecommendAssumption PROVE RecommendSpec => []ListsOpenProducts
    OBVIOUS
  <1>1. RecommendInv => ListsOpenProducts
    BY DEF RecommendInv
  <1>2. QED
    BY <1>1, RecommendHolds, PTL

(* A list that may fall back is empty only when nothing of what it had     *)
(* picked, or nothing at the end of the chain, stayed open meanwhile.      *)
THEOREM EmptyIsExcused ==
    RecommendAssumption => (RecommendSpec => []EmptyOnlyIfNothingStayed)
  <1> SUFFICES ASSUME RecommendAssumption PROVE RecommendSpec => []EmptyOnlyIfNothingStayed
    OBVIOUS
  <1>1. RecommendInv => EmptyOnlyIfNothingStayed
    <2> SUFFICES ASSUME RecommendInv, NEW r \in Requests,
                        ask[r].pc = "answered" /\ ask[r].list = <<>>,
                        ask[r].key.kind \in Related \cup {"trending", "personal", "best"}
                 PROVE  LET q == ask[r]
                        IN  IF q.picked # <<>>
                              THEN Range(q.picked) \cap q.kept \cap In(q.key.category) = {}
                              ELSE LastResort(q.key) \cap q.kept = {}
      BY DEF EmptyOnlyIfNothingStayed
    <2>1. ask[r] # NoRequest
      BY DEF NoRequest
    <2>2. Honest(ask[r])
      BY <2>1 DEF RecommendInv
    <2>3. QED
      BY <2>2 DEF Honest, FallsBack
  <1>2. QED
    BY <1>1, RecommendHolds, PTL

-----------------------------------------------------------------------------
(* A sum of ones.                                                          *)
LEMMA SumOnes ==
    ASSUME NEW S, IsFiniteSet(S), NEW f, \A x \in S : f[x] = 1
    PROVE  SumFunctionOnSet(f, S) = Cardinality(S)
  <1> DEFINE B == {s \in SUBSET S : SumFunctionOnSet(f, s) # Cardinality(s)}
  <1> SUFFICES ASSUME B # {} PROVE FALSE
    OBVIOUS
  <1>0. B \in SUBSET SUBSET S
    OBVIOUS
  <1> HIDE DEF B
  <1>1. PICK s \in B : \A t \in SUBSET s : t \in B => t = s
    BY <1>0, Smallest
  <1> USE DEF B
  <1>2. IsFiniteSet(s) /\ s # {}
    <2>1. IsFiniteSet(s)
      BY FS_Subset
    <2>2. SumFunctionOnSet(f, {}) = Cardinality({})
      BY SumEmpty, FS_EmptySet
    <2>3. QED
      BY <2>1, <2>2
  <1>3. Pick(s) \in s /\ SumFunctionOnSet(f, s) = f[Pick(s)] + SumFunctionOnSet(f, s \ {Pick(s)})
    BY <1>2, SumPicks
  <1>4. SumFunctionOnSet(f, s \ {Pick(s)}) = Cardinality(s \ {Pick(s)}) /\ f[Pick(s)] = 1
    BY <1>1, <1>3
  <1>5. Cardinality(s \ {Pick(s)}) = Cardinality(s) - 1 /\ Cardinality(s) \in Nat
    BY <1>2, <1>3, FS_RemoveElement, FS_CardinalityType
  <1>6. QED
    BY <1>3, <1>4, <1>5

(* A series of single activities.                                          *)
Singles == Seq({1})

LEMMA SinglesCount ==
    ASSUME NEW s \in Singles
    PROVE  /\ Len(s) \in Nat /\ DOMAIN s = 1 .. Len(s) /\ \A i \in 1 .. Len(s) : s[i] = 1
           /\ Count(s) = Len(s) /\ Squares(s) = Len(s)
  <1>1. Len(s) \in Nat /\ DOMAIN s = 1 .. Len(s) /\ \A i \in 1 .. Len(s) : s[i] = 1
    BY DEF Singles
  <1> DEFINE f == [i \in DOMAIN s |-> s[i] * s[i]]
  <1>2. DOMAIN f = 1 .. Len(s) /\ \A i \in 1 .. Len(s) : f[i] = 1
    BY <1>1
  <1>3. IsFiniteSet(1 .. Len(s)) /\ Cardinality(1 .. Len(s)) = Len(s)
    BY <1>1, FS_Interval
  <1>4. Count(s) = SumFunctionOnSet(s, 1 .. Len(s))
    BY <1>1 DEF Count, SumFunction
  <1>5. Squares(s) = SumFunctionOnSet(f, 1 .. Len(s))
    BY <1>2 DEF Squares, SumFunction
  <1> HIDE DEF f
  <1>6. SumFunctionOnSet(s, 1 .. Len(s)) = Len(s) /\ SumFunctionOnSet(f, 1 .. Len(s)) = Len(s)
    BY <1>1, <1>2, <1>3, SumOnes
  <1>7. QED
    BY <1>1, <1>4, <1>5, <1>6

LEMMA SinglesSplit ==
    ASSUME NEW s \in Singles, NEW n \in Nat
    PROVE  /\ Latest(s, n) \in Singles /\ Len(Latest(s, n)) = (IF Len(s) > n THEN n ELSE Len(s))
           /\ Before(s, n) \in Singles /\ Len(Before(s, n)) = (IF Len(s) > n THEN Len(s) - n ELSE 0)
  <1>1. Len(s) \in Nat /\ \A i \in 1 .. Len(s) : s[i] = 1
    BY SinglesCount
  <1> DEFINE a == IF Len(s) > n THEN Len(s) - n + 1 ELSE 1
             b == IF Len(s) > n THEN Len(s) - n ELSE 0
  <1>2. a \in Int /\ b \in Int /\ Len(s) \in Int /\ 1 \in Int
    BY <1>1
  <1>3. (\A i \in a .. Len(s) : s[i] \in {1}) /\ (\A i \in 1 .. b : s[i] \in {1})
    BY <1>1
  <1>4. /\ SubSeq(s, a, Len(s)) \in Seq({1})
        /\ Len(SubSeq(s, a, Len(s))) = IF a <= Len(s) THEN Len(s) - a + 1 ELSE 0
    BY <1>2, <1>3, SubSeqProperties
  <1>5. SubSeq(s, 1, b) \in Seq({1}) /\ Len(SubSeq(s, 1, b)) = IF 1 <= b THEN b - 1 + 1 ELSE 0
    BY <1>2, <1>3, SubSeqProperties
  <1>6. Latest(s, n) = SubSeq(s, a, Len(s)) /\ Before(s, n) = SubSeq(s, 1, b)
    BY DEF Latest, Before
  <1>7. CASE Len(s) > n
    BY <1>1, <1>4, <1>5, <1>6, <1>7 DEF Singles
  <1>8. CASE ~(Len(s) > n)
    <2>1. a = 1 /\ b = 0
      BY <1>8
    <2> HIDE DEF a, b
    <2>2. Len(SubSeq(s, a, Len(s))) = Len(s) /\ Len(SubSeq(s, 1, b)) = 0
      BY <1>1, <1>4, <1>5, <2>1
    <2>3. QED
      BY <1>4, <1>5, <1>6, <1>8, <2>2 DEF Singles
  <1>9. QED
    BY <1>7, <1>8

LEMMA RootOfNothing ==
    ASSUME NEW b \in Nat \ {0}
    PROVE  Root(0, b) = 0
  <1> DEFINE P(k) == k * k * b <= 10000 * 0 /\ (k + 1) * (k + 1) * b > 10000 * 0
  <1>1. 0 \in 0 .. 1000 /\ P(0)
    OBVIOUS
  <1>2. ASSUME NEW k \in 0 .. 1000, k # 0 PROVE ~P(k)
    <2>1. k * k \in Nat \ {0}
      BY <1>2
    <2> DEFINE m == k * k
    <2> HIDE DEF m
    <2>2. m \in Nat \ {0} => m * b > 0
      OBVIOUS
    <2>3. QED
      BY <2>1, <2>2 DEF m
  <1>3. Root(0, b) = CHOOSE k \in 0 .. 1000 : P(k)
    BY DEF Root
  <1> HIDE DEF P
  <1>4. QED
    BY <1>1, <1>2, <1>3

(* Nothing rises, falls or varies in single activities.                    *)
LEMMA MetricsFlat ==
    ASSUME NEW r \in Singles, NEW h \in Singles
    PROVE  Metrics(r, h) = [slope |-> 0, volatility |-> 0]
  <1> DEFINE n == Len(r)
             m == Len(h)
  <1>1. n \in Nat /\ m \in Nat /\ Count(r) = n /\ Squares(r) = n /\ Count(h) = m
    BY SinglesCount
  <1>2. CASE n < 2 \/ m < 2
    BY <1>2 DEF Metrics
  <1>3. CASE ~(n < 2 \/ m < 2)
    <2>1. Metrics(r, h) = [slope |-> (100 * (n * m - m * n)) \div (n * m * m),
                           volatility |-> Root(n * n - n * n, n * n)]
      BY <1>1, <1>3 DEF Metrics
    <2> HIDE DEF n, m
    <2>2. n * n \in Nat \ {0} /\ n * m \in Nat \ {0}
      BY <1>1, <1>3
    <2> DEFINE q == n * m
    <2>3. q \in Nat \ {0}
      BY <2>2
    <2>4. n * m * m = q * m /\ n * m - m * n = 0 /\ n * n - n * n = 0
      BY <1>1
    <2> HIDE DEF q
    <2>5. q * m \in Nat \ {0}
      BY <1>1, <1>3, <2>3
    <2> DEFINE d == q * m
    <2> HIDE DEF d
    <2>6. d \in Nat \ {0} => (100 * 0) \div d = 0
      OBVIOUS
    <2>7. Root(n * n - n * n, n * n) = 0
      BY <2>2, <2>4, RootOfNothing
    <2>8. (100 * (n * m - m * n)) \div (n * m * m) = 0
      BY <2>4, <2>5, <2>6 DEF d
    <2>9. QED
      BY <2>1, <2>7, <2>8
  <1>4. QED
    BY <1>2, <1>3

LEMMA TypeFlat ==
    ASSUME TrendsAssumption, NEW s \in Singles
    PROVE  TrendType(s) = "stable"
  <1>1. \A n \in {Short, Mid, Long} : Latest(s, n) \in Singles
    BY SinglesSplit DEF TrendsAssumption
  <1>2. /\ Metrics(Latest(s, Short), Latest(s, Mid)) = [slope |-> 0, volatility |-> 0]
        /\ Metrics(Latest(s, Mid), Latest(s, Long)) = [slope |-> 0, volatility |-> 0]
        /\ Metrics(Latest(s, Long), s) = [slope |-> 0, volatility |-> 0]
    BY <1>1, MetricsFlat
  <1>3. QED
    BY <1>2 DEF TrendType

LEMMA ChangeFlat ==
    ASSUME NEW s \in Singles
    PROVE  Change(s) = 0
  <1> DEFINE recent == Latest(s, 3)
             older == Latest(Before(s, 3), 3)
             n == Len(older)
  <1>1. Len(s) \in Nat /\ Before(s, 3) \in Singles /\ recent \in Singles /\ older \in Singles
    BY SinglesCount, SinglesSplit
  <1>2. CASE Len(s) <= 3
    BY <1>2 DEF Change
  <1>3. CASE Len(s) > 3
    <2>1. Len(recent) = 3 /\ Len(Before(s, 3)) = Len(s) - 3
      BY <1>1, <1>3, SinglesSplit
    <2>2. n \in Nat \ {0}
      BY <1>1, <1>3, <2>1, SinglesSplit
    <2>3. Count(recent) = 3 /\ Count(older) = n
      BY <1>1, <2>1, SinglesCount
    <2>4. Change(s) = (100 * (3 * n - n * 3)) \div (n * 3)
      BY <1>1, <1>3, <2>3 DEF Change
    <2> HIDE DEF n
    <2>5. QED
      BY <2>2, <2>4
  <1>4. QED
    BY <1>1, <1>2, <1>3

LEMMA MaxOfOnes ==
    ASSUME NEW s \in Singles, s # <<>>
    PROVE  Max(Range(s)) = 1
  <1>1. Len(s) \in Nat /\ DOMAIN s = 1 .. Len(s) /\ \A i \in 1 .. Len(s) : s[i] = 1
    BY SinglesCount
  <1>2. Len(s) # 0
    BY EmptySeq DEF Singles
  <1>3. Range(s) = {1}
    BY <1>1, <1>2 DEF Range
  <1>4. QED
    BY <1>3 DEF Max

LEMMA SpikeEarly ==
    ASSUME TrendsAssumption, NEW s \in Singles
    PROVE  Spike(s) <=> Len(s) \in 1 .. Mid
  <1> DEFINE recent == Latest(s, Mid)
             older == Latest(Before(s, Mid), Mid)
  <1>0. Mid \in Nat \ {0} /\ Len(s) \in Nat
    BY SinglesCount DEF TrendsAssumption
  <1>1. /\ Before(s, Mid) \in Singles /\ recent \in Singles /\ older \in Singles
        /\ Len(recent) = (IF Len(s) > Mid THEN Mid ELSE Len(s))
        /\ Len(Before(s, Mid)) = (IF Len(s) > Mid THEN Len(s) - Mid ELSE 0)
    BY <1>0, SinglesSplit
  <1>2. Len(older) = (IF Len(Before(s, Mid)) > Mid THEN Mid ELSE Len(Before(s, Mid)))
    BY <1>0, <1>1, SinglesSplit
  <1>3. Spike(s) <=> s # <<>> /\ (older = <<>> \/ 2 * Max(Range(recent)) > 3 * Max(Range(older)))
    BY DEF Spike
  <1> HIDE DEF recent, older
  <1>a. s = <<>> <=> Len(s) = 0
    BY EmptySeq DEF Singles
  <1>4. CASE Len(s) <= Mid
    <2>1. Len(older) = 0
      BY <1>0, <1>1, <1>2, <1>4
    <2>2. older = <<>>
      BY <1>1, <2>1, EmptySeq DEF Singles
    <2>3. Spike(s) <=> s # <<>>
      BY <1>3, <2>2
    <2>4. QED
      BY <1>0, <1>a, <1>4, <2>3
  <1>5. CASE Len(s) > Mid
    <2>1. Len(recent) # 0 /\ Len(older) # 0
      BY <1>0, <1>1, <1>2, <1>5
    <2>2. recent # <<>> /\ older # <<>>
      BY <2>1, EmptySeq
    <2>3. Max(Range(recent)) = 1 /\ Max(Range(older)) = 1
      BY <1>1, <2>2, MaxOfOnes
    <2>4. Spike(s) <=> s # <<>> /\ 2 > 3
      BY <1>3, <2>2, <2>3
    <2>5. QED
      BY <1>0, <1>5, <2>4
  <1>6. QED
    BY <1>0, <1>4, <1>5

(* What the job finds of single activities.                                *)
LEMMA TrendFlat ==
    ASSUME TrendsAssumption, NEW s \in Singles
    PROVE  /\ TrendOf(s).type = "stable" /\ TrendOf(s).direction = "stable" /\ ~TrendOf(s).sure
           /\ TrendOf(s).spike <=> TrendOf(s).entries \in 1 .. Mid
  <1>1. /\ TrendOf(s).type = TrendType(s) /\ TrendOf(s).direction = Direction(s)
        /\ TrendOf(s).sure = Sure(s) /\ TrendOf(s).spike = Spike(s)
        /\ TrendOf(s).entries = Len(s)
    BY DEF TrendOf
  <1>2. Direction(s) = "stable" /\ ~Sure(s)
    BY ChangeFlat DEF Direction, Sure
  <1>3. TrendType(s) = "stable" /\ (Spike(s) <=> Len(s) \in 1 .. Mid)
    BY TypeFlat, SpikeEarly
  <1>4. QED
    BY <1>1, <1>2, <1>3

-----------------------------------------------------------------------------
(* A function to the naturals is highest somewhere.                        *)
LEMMA Highest ==
    ASSUME NEW S, IsFiniteSet(S), S # {}, NEW t \in [S -> Nat]
    PROVE  \E a \in S : \A b \in S : t[b] <= t[a]
  <1> DEFINE Top(s) == \E a \in s : \A b \in s : t[b] <= t[a]
             B == {s \in SUBSET S : s # {} /\ ~Top(s)}
  <1> SUFFICES ASSUME B # {} PROVE FALSE
    OBVIOUS
  <1>0. B \in SUBSET SUBSET S
    OBVIOUS
  <1> HIDE DEF B
  <1>1. PICK s \in B : \A u \in SUBSET s : u \in B => u = s
    BY <1>0, Smallest
  <1>2. s \in SUBSET S /\ s # {} /\ ~Top(s)
    BY DEF B
  <1>3. PICK x \in s : TRUE
    BY <1>2
  <1>4. s \ {x} = {} \/ Top(s \ {x})
    <2>1. s \ {x} \in SUBSET s /\ s \ {x} # s /\ s \ {x} \in SUBSET S
      BY <1>2, <1>3
    <2>2. s \ {x} \notin B
      BY <1>1, <2>1
    <2> HIDE DEF Top
    <2>3. QED
      BY <2>1, <2>2 DEF B
  <1>5. \A b \in s : t[b] \in Nat
    BY <1>2
  <1>6. CASE s \ {x} = {}
    <2>1. \A b \in s : t[b] <= t[x]
      BY <1>3, <1>5, <1>6
    <2>2. QED
      BY <1>2, <1>3, <2>1
  <1>7. CASE Top(s \ {x})
    <2>1. PICK m \in s \ {x} : \A b \in s \ {x} : t[b] <= t[m]
      BY <1>7
    <2>2. CASE t[x] <= t[m]
      <3>1. \A b \in s : t[b] <= t[m]
        BY <2>1, <2>2
      <3>2. QED
        BY <1>2, <2>1, <3>1
    <2>3. CASE ~(t[x] <= t[m])
      <3>1. \A b \in s : t[b] <= t[x]
        BY <1>3, <1>5, <2>1, <2>3
      <3>2. QED
        BY <1>2, <1>3, <3>1
    <2>4. QED
      BY <2>2, <2>3
  <1>8. QED
    BY <1>4, <1>6, <1>7

LEMMA BinsCount ==
    ASSUME NEW n \in Nat \ {0}
    PROVE  IsFiniteSet(1 .. n) /\ Cardinality(1 .. n) = n /\ 1 .. n # {}
  <1>1. n \in Int /\ 1 \in Int /\ ~(1 > n) /\ n - 1 + 1 = n /\ 1 \in 1 .. n
    OBVIOUS
  <1>2. IsFiniteSet(1 .. n) /\ Cardinality(1 .. n) = IF 1 > n THEN 0 ELSE n - 1 + 1
    BY <1>1, FS_Interval
  <1>3. QED
    BY <1>1, <1>2

(* Fewer activities than bins: one bin is empty, and the season is certain. *)
LEMMA FewAreCertain ==
    ASSUME TrendsAssumption, NEW s \in Seasons, NEW t \in [1 .. Bins[s] -> Nat],
           SumFunction(t) \in 1 .. Bins[s] - 1
    PROVE  Confidence(t, s) = 100
  <1> DEFINE N == Bins[s]
             S == 1 .. N
  <1>1. N \in Nat \ {0} /\ Threshold[s] \in 1 .. 99
    BY DEF TrendsAssumption
  <1>2. IsFiniteSet(S) /\ Cardinality(S) = N /\ S # {}
    BY <1>1, BinsCount
  <1>3. t \in [S -> Nat] /\ t \in [S -> Int] /\ DOMAIN t = S /\ SumFunction(t) \in 1 .. N - 1
    OBVIOUS
  <1> HIDE DEF N, S
  <1>4. PICK z \in S : t[z] = 0
    <2> SUFFICES ASSUME \A z \in S : t[z] # 0 PROVE FALSE
      OBVIOUS
    <2> DEFINE one == [x \in S |-> 1]
    <2>0. \A x \in S : t[x] \in Nat \ {0}
      BY <1>3
    <2>1. one \in [S -> Int] /\ (\A x \in S : one[x] = 1) /\ \A x \in S : one[x] <= t[x]
      BY <2>0
    <2> HIDE DEF one
    <2>2. SumFunction(one) = N
      BY <1>2, <2>1, SumAll, SumOnes
    <2>3. SumFunction(one) <= SumFunction(t)
      BY <1>2, <1>3, <2>1, WholeSumMonotone
    <2>4. QED
      BY <1>1, <1>3, <2>2, <2>3
  <1>5. PICK a \in S : \A b \in S : t[b] <= t[a]
    BY <1>2, <1>3, Highest
  <1>6. t[a] \in Nat \ {0}
    <2>1. CASE t[a] = 0
      <3>0. \A x \in S : t[x] \in Nat /\ t[x] <= 0
        BY <1>3, <1>5, <2>1
      <3>1. \A x \in S : t[x] = 0
        BY <3>0
      <3>2. SumFunction(t) = 0
        BY <1>2, <1>3, <3>1, WholeSumZero
      <3>3. QED
        BY <1>3, <3>2
    <2>2. QED
      BY <1>3, <2>1
  <1> DEFINE V == {t[b] : b \in DOMAIN t}
  <1>7. t[a] \in V /\ (\A y \in V : y \in Nat /\ t[a] >= y)
    BY <1>3, <1>5
  <1>8. 0 \in V
    BY <1>3, <1>4
  <1> HIDE DEF V
  <1>9. Max(V) = t[a]
    BY <1>6, <1>7 DEF Max
  <1>10. Min(V) = 0
    BY <1>7, <1>8 DEF Min
  <1> DEFINE h == t[a]
  <1>11. h \in Nat \ {0} /\ h = t[a]
    BY <1>6
  <1> HIDE DEF h
  <1>12. (100 * (h - 0)) \div h = 100
    BY <1>11
  <1>13. Confidence(t, s) = (IF 100 > Threshold[s] THEN 100 ELSE 0)
    BY <1>6, <1>9, <1>10, <1>11, <1>12 DEF Confidence, V
  <1>14. 100 > Threshold[s]
    <2>1. \A x \in 1 .. 99 : 100 > x
      OBVIOUS
    <2>2. QED
      BY <1>1, <2>1
  <1>15. QED
    BY <1>13, <1>14

-----------------------------------------------------------------------------
(* The part of FewActivities on one product, and on one season of it.      *)
SaidOf(p) ==
    p \notin batched /\ trend[p] # Unknown =>
        /\ trend[p].type = "stable" /\ trend[p].direction = "stable"
        /\ ~trend[p].sure
        /\ trend[p].spike <=> trend[p].entries \in 1 .. Mid

SeasonOf(p, s) == basis[p][s] \in 1 .. Bins[s] - 1 => season[p][s] = 100

LEMMA FewByParts ==
    FewActivities <=> \A p \in Tracked : SaidOf(p) /\ \A s \in Seasons : SeasonOf(p, s)
  <1>1. \A p \in Tracked : trend[p] # Unknown => (p \notin Predictions <=> ~trend[p].sure)
    BY DEF Predictions
  <1>2. QED
    BY <1>1 DEF FewActivities, SaidOf, SeasonOf

(* The inductive invariant: what FewActivities says, that a product        *)
(* without batches has a series of ones, and what the tallies are.         *)
TrendsInv ==
    /\ DOMAIN series = Tracked /\ DOMAIN tally = Tracked /\ DOMAIN trend = Tracked
    /\ DOMAIN season = Tracked /\ DOMAIN basis = Tracked
    /\ \A p \in Tracked : p \notin batched => series[p] \in Singles
    /\ \A p \in Tracked, s \in Seasons : tally[p][s] \in [1 .. Bins[s] -> Nat]
    /\ \A p \in Tracked : SaidOf(p)
    /\ \A p \in Tracked, s \in Seasons : SeasonOf(p, s)

LEMMA TrendsInitInv == TrendsInit => TrendsInv
  <1> SUFFICES ASSUME TrendsInit PROVE TrendsInv
    OBVIOUS
  <1> USE DEF TrendsInit
  <1>1. /\ DOMAIN series = Tracked /\ DOMAIN tally = Tracked /\ DOMAIN trend = Tracked
        /\ DOMAIN season = Tracked /\ DOMAIN basis = Tracked
    OBVIOUS
  <1>2. \A p \in Tracked : series[p] \in Singles
    <2>1. <<>> \in Seq({1})
      OBVIOUS
    <2>2. QED
      BY <2>1 DEF Singles
  <1>3. ASSUME NEW p \in Tracked, NEW s \in Seasons
        PROVE  tally[p][s] \in [1 .. Bins[s] -> Nat]
    <2>1. tally[p] = NoTally
      OBVIOUS
    <2>2. NoTally[s] = [b \in 1 .. Bins[s] |-> 0]
      BY DEF NoTally
    <2>3. QED
      BY <2>1, <2>2
  <1>4. \A p \in Tracked : SaidOf(p)
    BY DEF SaidOf
  <1>5. ASSUME NEW p \in Tracked, NEW s \in Seasons PROVE SeasonOf(p, s)
    <2>1. basis[p][s] = 0
      OBVIOUS
    <2>2. QED
      BY <2>1 DEF SeasonOf
  <1>6. QED
    BY <1>1, <1>2, <1>3, <1>4, <1>5 DEF TrendsInv

LEMMA TrackInv ==
    ASSUME TrendsAssumption, TrendsInv, NEW p \in Tracked, NEW n \in Batches, Track(p, n)
    PROVE  TrendsInv'
  <1>0. n \in Nat \ {0}
    BY DEF TrendsAssumption
  <1>1. /\ \/ series' = [series EXCEPT ![p] = Append(@, n)] /\ (n = 1 \/ p \in batched')
           \/ series' = [series EXCEPT ![p] = [@ EXCEPT ![Len(@)] = @ + n]] /\ p \in batched'
        /\ batched \subseteq batched'
        /\ trend' = trend /\ season' = season /\ basis' = basis
    BY <1>0 DEF Track, Stamp, Enters, AddToLast, Several
  <1>2. PICK bin \in Days : tally' = [tally EXCEPT ![p] = [s \in Seasons |->
              [tally[p][s] EXCEPT ![bin[s]] = @ + n]]]
    BY DEF Track
  <1>3. batched \subseteq batched'
    BY <1>1
  <1>4. /\ DOMAIN series' = Tracked /\ DOMAIN tally' = Tracked /\ DOMAIN trend' = Tracked
        /\ DOMAIN season' = Tracked /\ DOMAIN basis' = Tracked
    BY <1>1, <1>2 DEF TrendsInv
  <1>5. ASSUME NEW q \in Tracked, q \notin batched' PROVE series'[q] \in Singles
    <2>1. series[q] \in Seq({1})
      BY <1>3, <1>5 DEF TrendsInv, Singles
    <2>2. CASE q = p
      <3>1. n = 1 /\ series' = [series EXCEPT ![p] = Append(@, n)]
        BY <1>0, <1>1, <1>5, <2>2
      <3>2. series'[q] = Append(series[q], 1)
        BY <2>2, <3>1 DEF TrendsInv
      <3>3. QED
        BY <2>1, <3>2 DEF Singles
    <2>3. CASE q # p
      BY <1>1, <2>1, <2>3 DEF TrendsInv, Singles
    <2>4. QED
      BY <2>2, <2>3
  <1>6. ASSUME NEW q \in Tracked, NEW s \in Seasons
        PROVE  tally'[q][s] \in [1 .. Bins[s] -> Nat]
    <2>1. tally[q][s] \in [1 .. Bins[s] -> Nat]
      BY DEF TrendsInv
    <2>2. CASE q = p
      <3>1. tally'[q] = [s_1 \in Seasons |-> [tally[p][s_1] EXCEPT ![bin[s_1]] = @ + n]]
        BY <1>2, <2>2 DEF TrendsInv
      <3>2. tally'[q][s] = [tally[q][s] EXCEPT ![bin[s]] = @ + n]
        BY <2>2, <3>1
      <3> DEFINE B == 1 .. Bins[s]
                 f == tally[q][s]
                 g == tally'[q][s]
                 c == bin[s]
      <3>3. f \in [B -> Nat] /\ g = [f EXCEPT ![c] = @ + n]
        BY <2>1, <3>2
      <3> HIDE DEF B, f, g, c
      <3>4. g = [x \in B |-> IF x = c THEN f[x] + n ELSE f[x]]
        BY <3>3
      <3>5. \A x \in B : f[x] \in Nat /\ f[x] + n \in Nat
        BY <1>0, <3>3
      <3>6. g \in [B -> Nat]
        BY <3>4, <3>5
      <3>7. QED
        BY <3>6 DEF B, g
    <2>3. CASE q # p
      <3>1. tally'[q] = tally[q]
        BY <1>2, <2>3 DEF TrendsInv
      <3>2. QED
        BY <2>1, <3>1
    <2>4. QED
      BY <2>2, <2>3
  <1>7. ASSUME NEW q \in Tracked PROVE SaidOf(q)'
    BY <1>1, <1>3 DEF TrendsInv, SaidOf
  <1>8. ASSUME NEW q \in Tracked, NEW s \in Seasons PROVE SeasonOf(q, s)'
    BY <1>1 DEF TrendsInv, SeasonOf
  <1>9. QED
    BY <1>4, <1>5, <1>6, <1>7, <1>8 DEF TrendsInv

LEMMA ForgetInv ==
    ASSUME TrendsInv, NEW p \in Tracked, Forget(p)
    PROVE  TrendsInv'
  <1>1. /\ series[p] # <<>> /\ series' = [series EXCEPT ![p] = Tail(@)]
        /\ tally' = tally /\ batched' = batched
        /\ trend' = trend /\ season' = season /\ basis' = basis
    BY DEF Forget
  <1>2. DOMAIN series' = Tracked
    BY <1>1 DEF TrendsInv
  <1>3. ASSUME NEW q \in Tracked, q \notin batched' PROVE series'[q] \in Singles
    <2>1. series[q] \in Seq({1})
      BY <1>1, <1>3 DEF TrendsInv, Singles
    <2>2. CASE q = p
      <3>1. series'[q] = Tail(series[q]) /\ series[q] # <<>>
        BY <1>1, <2>2 DEF TrendsInv
      <3>2. QED
        BY <2>1, <3>1 DEF Singles
    <2>3. CASE q # p
      BY <1>1, <2>1, <2>3 DEF TrendsInv, Singles
    <2>4. QED
      BY <2>2, <2>3
  <1>4. QED
    BY <1>1, <1>2, <1>3 DEF TrendsInv, SaidOf, SeasonOf

LEMMA ForgetYearInv ==
    ASSUME TrendsInv, NEW p \in Tracked, ForgetYear(p)
    PROVE  TrendsInv'
  <1>1. /\ tally' = [tally EXCEPT ![p] = NoTally]
        /\ series' = series /\ batched' = batched
        /\ trend' = trend /\ season' = season /\ basis' = basis
    BY DEF ForgetYear
  <1>2. DOMAIN tally' = Tracked
    BY <1>1 DEF TrendsInv
  <1>3. ASSUME NEW q \in Tracked, NEW s \in Seasons
        PROVE  tally'[q][s] \in [1 .. Bins[s] -> Nat]
    <2>1. tally'[q] = tally[q] \/ tally'[q] = NoTally
      BY <1>1 DEF TrendsInv
    <2>2. NoTally[s] = [b \in 1 .. Bins[s] |-> 0]
      BY DEF NoTally
    <2>3. tally[q][s] \in [1 .. Bins[s] -> Nat]
      BY DEF TrendsInv
    <2>4. QED
      BY <2>1, <2>2, <2>3
  <1>4. QED
    BY <1>1, <1>2, <1>3 DEF TrendsInv, SaidOf, SeasonOf

LEMMA AnalyzeTrendInv ==
    ASSUME TrendsAssumption, TrendsInv, NEW p \in Tracked, AnalyzeProductTrend(p)
    PROVE  TrendsInv'
  <1>1. /\ trend' = [trend EXCEPT ![p] = TrendOf(series[p])]
        /\ series' = series /\ tally' = tally /\ batched' = batched
        /\ season' = season /\ basis' = basis
    BY DEF AnalyzeProductTrend
  <1>2. DOMAIN trend' = Tracked
    BY <1>1 DEF TrendsInv
  <1>3. ASSUME NEW q \in Tracked PROVE SaidOf(q)'
    <2>1. CASE q = p
      <3>1. trend'[q] = TrendOf(series[q])
        BY <1>1, <2>1 DEF TrendsInv
      <3>2. CASE q \in batched
        BY <1>1, <3>2 DEF SaidOf
      <3>3. CASE q \notin batched
        <4>1. series[q] \in Singles
          BY <3>3 DEF TrendsInv
        <4>2. /\ TrendOf(series[q]).type = "stable" /\ TrendOf(series[q]).direction = "stable"
              /\ ~TrendOf(series[q]).sure
              /\ TrendOf(series[q]).spike <=> TrendOf(series[q]).entries \in 1 .. Mid
          BY <4>1, TrendFlat
        <4>3. QED
          BY <3>1, <4>2 DEF SaidOf
      <3>4. QED
        BY <3>2, <3>3
    <2>2. CASE q # p
      <3>1. trend'[q] = trend[q]
        BY <1>1, <2>2 DEF TrendsInv
      <3>2. QED
        BY <1>1, <3>1 DEF TrendsInv, SaidOf
    <2>3. QED
      BY <2>1, <2>2
  <1>4. QED
    BY <1>1, <1>2, <1>3 DEF TrendsInv, SeasonOf

LEMMA AnalyzeSeasonInv ==
    ASSUME TrendsAssumption, TrendsInv, NEW p \in Tracked, AnalyzeSeasonalPattern(p)
    PROVE  TrendsInv'
  <1> DEFINE found == {s \in Seasons : Confidence(tally[p][s], s) > 30}
  <1>1. /\ season' = [season EXCEPT ![p] = [s \in Seasons |->
              IF s \in found THEN Confidence(tally[p][s], s) ELSE season[p][s]]]
        /\ basis' = [basis EXCEPT ![p] = [s \in Seasons |->
              IF s \in found THEN Activities(p, s) ELSE basis[p][s]]]
        /\ series' = series /\ tally' = tally /\ batched' = batched /\ trend' = trend
    BY DEF AnalyzeSeasonalPattern
  <1> HIDE DEF found
  <1>2. DOMAIN season' = Tracked /\ DOMAIN basis' = Tracked
    BY <1>1 DEF TrendsInv
  <1>3. ASSUME NEW q \in Tracked, NEW s \in Seasons PROVE SeasonOf(q, s)'
    <2>0. SeasonOf(q, s)
      BY DEF TrendsInv
    <2>1. CASE q # p
      <3>1. season'[q] = season[q] /\ basis'[q] = basis[q]
        BY <1>1, <2>1 DEF TrendsInv
      <3>2. QED
        BY <2>0, <3>1 DEF SeasonOf
    <2>2. CASE q = p /\ s \notin found
      <3>1. season'[q][s] = season[q][s] /\ basis'[q][s] = basis[q][s]
        BY <1>1, <2>2 DEF TrendsInv
      <3>2. QED
        BY <2>0, <3>1 DEF SeasonOf
    <2>3. CASE q = p /\ s \in found
      <3>1. season'[q][s] = Confidence(tally[q][s], s) /\ basis'[q][s] = Activities(q, s)
        BY <1>1, <2>3 DEF TrendsInv
      <3>2. tally[q][s] \in [1 .. Bins[s] -> Nat]
        BY DEF TrendsInv
      <3>3. Activities(q, s) \in 1 .. Bins[s] - 1 => Confidence(tally[q][s], s) = 100
        BY <3>2, FewAreCertain DEF Activities
      <3>4. QED
        BY <3>1, <3>3 DEF SeasonOf
    <2>4. QED
      BY <2>1, <2>2, <2>3
  <1>4. QED
    BY <1>1, <1>2, <1>3 DEF TrendsInv, SaidOf

LEMMA TrendsNextInv ==
    ASSUME TrendsAssumption, TrendsInv, [TrendsNext]_trendsVars
    PROVE  TrendsInv'
  <1>1. CASE UNCHANGED <<series, tally, trend, season, batched, basis>>
    BY <1>1 DEF TrendsInv, SaidOf, SeasonOf
  <1>2. CASE Detect \/ DetectSeasons \/ Finish \/ UNCHANGED trendsVars
    BY <1>1, <1>2 DEF Detect, DetectSeasons, Finish, trendsVars
  <1>3. ASSUME NEW p \in Tracked, Forget(p) PROVE TrendsInv'
    BY <1>3, ForgetInv
  <1>4. ASSUME NEW p \in Tracked, ForgetYear(p) PROVE TrendsInv'
    BY <1>4, ForgetYearInv
  <1>5. ASSUME NEW p \in Tracked, AnalyzeProductTrend(p) PROVE TrendsInv'
    BY <1>5, AnalyzeTrendInv
  <1>6. ASSUME NEW p \in Tracked, AnalyzeSeasonalPattern(p) PROVE TrendsInv'
    BY <1>6, AnalyzeSeasonInv
  <1>7. ASSUME NEW p \in Tracked, NEW n \in Batches, Track(p, n) PROVE TrendsInv'
    BY <1>7, TrackInv
  <1>8. QED
    BY <1>2, <1>3, <1>4, <1>5, <1>6, <1>7 DEF TrendsNext

(* What few activities come to (detectTrends, analyzeProductTrend and      *)
(* detectWeeklyPattern of MLTrendDetectionService): for any products, any  *)
(* lengths of the three windows, any seasons with at least one bin and any *)
(* threshold below full confidence, a product that was never tracked       *)
(* twice by one request is stable and predicted to remain so however often *)
(* it is seen, and a season told from fewer activities than it has bins    *)
(* is told with full confidence.                                           *)
THEOREM FewActivitiesTellLittle == TrendsAssumption => (TrendsSpec => []FewActivities)
  <1> SUFFICES ASSUME TrendsAssumption PROVE TrendsSpec => []FewActivities
    OBVIOUS
  <1>1. TrendsInit => TrendsInv
    BY TrendsInitInv
  <1>2. TrendsInv /\ [TrendsNext]_trendsVars => TrendsInv'
    BY TrendsNextInv
  <1>3. TrendsInv => FewActivities
    BY FewByParts DEF TrendsInv
  <1>4. QED
    BY <1>1, <1>2, <1>3, PTL DEF TrendsSpec
=============================================================================
