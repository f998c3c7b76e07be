------------------------------ MODULE Coupons -------------------------------
(***************************************************************************)
(* CouponsService (src/modules/coupons/coupons.service.ts).                *)
(*                                                                         *)
(* A shopper's client applies a code to a cart, places the order, and then *)
(* reports the use of the code in a request of its own (record-usage).     *)
(* The request that applies reads the coupon twice, by its code; the one   *)
(* that reports it reads it once more, by its code, and checks no limit.   *)
(* In between an administrator may rename, disable or delete the coupon    *)
(* and give its code to another one.                                       *)
(***************************************************************************)
EXTENDS Integers, FiniteSets, FiniteSetsExt, Functions

CONSTANTS
    CouponIds,  \* ids of coupons; never used twice
    Codes,      \* codes
    Offers,     \* what a coupon can be worth: [type, value, scope, minimum]
    Products,   \* products, among which a scope chooses
    PriceOf,    \* PriceOf[x] is the list price of product x
    Carts,      \* what the client may send of its cart: [subtotal, items]
    Orders,     \* the orders that clients check out
    BuyerOf,    \* BuyerOf[o] is the user who places o
    Users,      \* ids of users
    Requests,   \* administrators' requests in flight together
    MaxLimit,   \* bound: the largest limit asked for
    MaxEdits,   \* bound: operations that create or change coupons
    None,       \* SQL NULL, an absent field, nothing held
    Deleted     \* a coupon that was deleted

Types    == {"PERCENTAGE", "FIXED_AMOUNT", "FREE_SHIPPING"}
Windows  == {"early", "open", "over"}   \* startDate and endDate against the clock
Statuses == {"ACTIVE", "DISABLED"}
Asked    == {None} \cup 1 .. MaxLimit

ASSUME CouponsAssumption ==
    /\ Offers \subseteq [type : Types, value : Nat, scope : {None} \cup SUBSET Products,
                   minimum : Nat \cup {None}]
    /\ PriceOf \in [Products -> Nat]
    /\ Carts \subseteq [subtotal : Int, items : {None} \cup [Products -> Int]]
    /\ BuyerOf \in [Orders -> Users] /\ IsFiniteSet(Orders) /\ IsFiniteSet(Products)
    /\ MaxLimit \in Nat /\ MaxEdits \in Nat
    /\ None \notin Users \cup Codes \cup CouponIds \cup Int
    /\ None # Deleted

Coupon == [code : Codes, offer : Offers, window : Windows, status : Statuses,
           limit : Nat \cup {None}, perUser : Nat \cup {None}, count : Nat]

ASSUME RowsAssumption == None \notin Coupon /\ Deleted \notin Coupon

VARIABLES
    coupon,     \* coupon[c]: the row of coupons, None or Deleted
    usages,     \* usages[c]: the orders with a row of coupon_usages for c
    checkout,   \* checkout[o]: how far the client of order o has come
    removal,    \* removal[r]: the coupon r found unused or used, and is about to remove
    edits,      \* operations counted against MaxEdits
    holders,    \* history: holders[k], the coupons that have had the code k
    peak,       \* history: peak[c], the most clients that have held c at once
    cut         \* history: coupons whose limit was set to no more than was used

vars == <<coupon, usages, checkout, removal, edits, holders, peak, cut>>

(* pc "peruser": validate() is about to count the user's uses; "reread":   *)
(* validated; "granted": the client has its discount; "record": the coupon *)
(* to be credited is found; "done": the client has reported the use.       *)
Stage == {"start", "peruser", "reread", "granted", "record", "done"}
Checkout == [pc : Stage, code : Codes \cup {None}, cart : Carts \cup {None},
             validated : CouponIds \cup {None},     \* the coupon of the first read
             coupon : CouponIds \cup {None},        \* that of the second read
             credited : CouponIds \cup {None},      \* that of the report
             perUser : Nat \cup {None},             \* its limit per user, as read
             offer : Offers \cup {None},            \* what it was worth then
             discount : Nat]                        \* in hundredths
Removal == [coupon : CouponIds, used : BOOLEAN]

Start == [pc |-> "start", code |-> None, cart |-> None, validated |-> None, coupon |-> None,
          credited |-> None, perUser |-> None, offer |-> None, discount |-> 0]

(* The code k, or every code of c, has never been another coupon's        *)
OneHolder(k)   == Cardinality(holders[k]) <= 1
HadOwnCodes(c) == \A k \in Codes : c \in holders[k] => OneHolder(k)

Exists(c) == coupon[c] \notin {None, Deleted}
WithCode(k) == {c \in CouponIds : Exists(c) /\ coupon[c].code = k}

EditAllowed == edits < MaxEdits /\ edits' = edits + 1

-----------------------------------------------------------------------------
(* What a coupon takes off a cart, in hundredths of the currency unit.     *)
(* The client sends the subtotal, and the quantities of its products or    *)
(* not; they are numbers of any sign, and not compared.  Only a percentage *)
(* looks at the products and categories of the coupon (scope; None: no     *)
(* restriction), and only when the quantities were sent: it then counts    *)
(* list prices.                                                            *)

Listed(S, items) == SumFunctionOnSet([x \in Products |-> PriceOf[x] * items[x]], S)

Discountable(f, cart) ==
    IF cart.items # None /\ f.scope # None THEN Listed(f.scope, cart.items) ELSE cart.subtotal

(* Mutant: a fixed amount is not capped.                                   *)
DiscountUncapped(f, cart) ==
    IF f.type = "PERCENTAGE" THEN f.value * Discountable(f, cart) ELSE 100 * f.value

Discount(f, cart) ==
    CASE f.type = "PERCENTAGE"    -> f.value * Discountable(f, cart)
      [] f.type = "FIXED_AMOUNT"  -> 100 * (IF f.value > cart.subtotal THEN cart.subtotal ELSE f.value)
      [] f.type = "FREE_SHIPPING" -> 100 * f.value

-----------------------------------------------------------------------------
(* Administrators.  The code is looked up before the transaction that      *)
(* writes it, and it is unique in the table: with either refusal nothing   *)
(* happens, so that the two are one step.                                  *)

CodeFree(k, c) == WithCode(k) \subseteq {c}

Create(c, k, f, w, l, m) ==
    /\ coupon[c] = None /\ CodeFree(k, c)
    /\ EditAllowed
    /\ coupon' = [coupon EXCEPT ![c] = [code |-> k, offer |-> f, window |-> w, status |-> "ACTIVE",
                                        limit |-> l, perUser |-> m, count |-> 0]]
    /\ holders' = [holders EXCEPT ![k] = holders[k] \cup {c}]
    /\ UNCHANGED <<usages, checkout, removal, peak, cut>>

(* A field that is not sent keeps its value; null takes a limit away.      *)
Update(c, k, f, w, l, m) ==
    /\ Exists(c) /\ CodeFree(k, c)
    /\ EditAllowed
    /\ coupon' = [coupon EXCEPT ![c] =
          [code |-> k, offer |-> f, window |-> w, status |-> coupon[c].status,
           limit |-> l, perUser |-> m, count |-> coupon[c].count]]
    /\ holders' = [holders EXCEPT ![k] = holders[k] \cup {c}]
    /\ cut' = IF l \notin {None, coupon[c].limit} /\ l <= coupon[c].count THEN cut \cup {c} ELSE cut
    /\ UNCHANGED <<usages, checkout, removal, peak>>

(* remove counts the uses, then disables the coupon or deletes it.         *)
RemoveCount(r, c) ==
    /\ removal[r] = None /\ Exists(c)
    /\ EditAllowed
    /\ removal' = [removal EXCEPT ![r] = [coupon |-> c, used |-> usages[c] # {}]]
    /\ UNCHANGED <<coupon, usages, checkout, holders, peak, cut>>

(* Mutant: the foreign key of coupon_usages deletes the uses with the      *)
(* coupon.                                                                 *)
RemoveCascading(r) ==
    LET c == removal[r].coupon
    IN  /\ removal[r] # None
        /\ removal' = [removal EXCEPT ![r] = None]
        /\ coupon' = IF ~Exists(c) THEN coupon
                     ELSE IF removal[r].used
                       THEN [coupon EXCEPT ![c] = [coupon[c] EXCEPT !.status = "DISABLED"]]
                       ELSE [coupon EXCEPT ![c] = Deleted]
        /\ usages' = IF removal[r].used THEN usages ELSE [usages EXCEPT ![c] = {}]
        /\ UNCHANGED <<checkout, edits, holders, peak, cut>>

(* The delete fails when a use has come in since they were counted.        *)
RemoveWrite(r) ==
    LET c == removal[r].coupon
    IN  /\ removal[r] # None
        /\ removal' = [removal EXCEPT ![r] = None]
        /\ coupon' = IF ~Exists(c) THEN coupon
                     ELSE IF removal[r].used
                       THEN [coupon EXCEPT ![c] = [coupon[c] EXCEPT !.status = "DISABLED"]]
                     ELSE IF usages[c] = {} THEN [coupon EXCEPT ![c] = Deleted]
                     ELSE coupon
        /\ UNCHANGED <<usages, checkout, edits, holders, peak, cut>>

(* The dates of a coupon are reached.                                      *)
Pass(c) ==
    /\ Exists(c) /\ coupon[c].window # "over"
    /\ coupon' = [coupon EXCEPT ![c] = [coupon[c] EXCEPT
          !.window = IF coupon[c].window = "early" THEN "open" ELSE "over"]]
    /\ UNCHANGED <<usages, checkout, removal, edits, holders, peak, cut>>

-----------------------------------------------------------------------------
(* applyCoupon: validate(), then the coupon is read again by its code.     *)

Step(o, q) ==
    /\ checkout' = [checkout EXCEPT ![o] = q]
    /\ UNCHANGED <<coupon, usages, removal, edits, holders, peak, cut>>

Usable(c) ==
    /\ coupon[c].status = "ACTIVE"
    /\ coupon[c].window = "open"
    /\ coupon[c].limit # None => coupon[c].count < coupon[c].limit

(* Clients that have passed the check of coupon c's limit and have not     *)
(* reported their use                                                      *)
Outstanding(c) == {o \in Orders : o \notin usages[c] /\ checkout[o].validated = c}

Admit(o, k, x, c) ==
    /\ checkout' = [checkout EXCEPT ![o] =
          [Start EXCEPT !.pc = IF coupon[c].perUser = None THEN "reread" ELSE "peruser",
                        !.code = k, !.cart = x, !.validated = c, !.perUser = coupon[c].perUser]]
    /\ peak' = [peak EXCEPT ![c] = Max({peak[c], Cardinality(Outstanding(c)) + 1})]
    /\ UNCHANGED <<coupon, usages, removal, edits, holders, cut>>

(* Mutant: the last use is granted once too often.                         *)
ValidateOffByOne(o, k, x) ==
    /\ checkout[o] = Start
    /\ \E c \in WithCode(k) :
          /\ coupon[c].status = "ACTIVE" /\ coupon[c].window = "open"
          /\ coupon[c].limit # None => coupon[c].count <= coupon[c].limit
          /\ Admit(o, k, x, c)

Validate(o, k, x) ==
    /\ checkout[o] = Start
    /\ \E c \in WithCode(k) : Usable(c) /\ Admit(o, k, x, c)

UsesBy(c, u) == {o \in usages[c] : BuyerOf[o] = u}

CountPerUser(o) ==
    LET q == checkout[o]
    IN  /\ q.pc = "peruser"
        /\ Step(o, IF Cardinality(UsesBy(q.validated, BuyerOf[o])) < q.perUser
                     THEN [q EXCEPT !.pc = "reread", !.perUser = None] ELSE Start)

(* What is read again is not validated again; a cart below the minimum     *)
(* purchase is refused.                                                    *)
Enough(c, cart) ==
    coupon[c].offer.minimum # None => coupon[c].offer.minimum <= cart.subtotal

Grant(o) ==
    LET q == checkout[o]
    IN  /\ q.pc = "reread"
        /\ \/ /\ \A c \in WithCode(q.code) : ~Enough(c, q.cart)
              /\ Step(o, Start)
           \/ \E c \in WithCode(q.code) :
                 /\ Enough(c, q.cart)
                 /\ Step(o, [q EXCEPT !.pc = "granted", !.coupon = c,
                             !.offer = coupon[c].offer,
                             !.discount = Discount(coupon[c].offer, q.cart)])

-----------------------------------------------------------------------------
(* recordCouponUsage: the coupon is found by its code, then one            *)
(* transaction inserts the use, unique for coupon and order, and counts    *)
(* it.  Whatever fails is logged and the client is told that it succeeded; *)
(* a client that gets no answer reports again.                             *)

(* The report carries the code; cart and offer matter no more              *)
Reported(q, pc, c) ==
    [q EXCEPT !.pc = pc, !.credited = c, !.cart = None, !.offer = None, !.discount = 0]

RecordFind(o) ==
    LET q == checkout[o]
    IN  /\ q.pc \in {"granted", "done"}
        /\ \/ WithCode(q.code) = {} /\ Step(o, Reported(q, "done", None))
           \/ \E c \in WithCode(q.code) : Step(o, Reported(q, "record", c))

(* Mutant: the use is credited to whatever coupon of the buyer comes first *)
RecordOther(o) ==
    /\ checkout[o].pc = "record"
    /\ checkout' = [checkout EXCEPT ![o] = [checkout[o] EXCEPT !.pc = "done"]]
    /\ \E c \in CouponIds :
          /\ Exists(c) /\ o \notin usages[c]
          /\ usages' = [usages EXCEPT ![c] = usages[c] \cup {o}]
          /\ coupon' = [coupon EXCEPT ![c] = [coupon[c] EXCEPT !.count = coupon[c].count + 1]]
    /\ UNCHANGED <<removal, edits, holders, peak, cut>>

Record(o) ==
    LET c == checkout[o].credited
    IN  /\ checkout[o].pc = "record"
        /\ checkout' = [checkout EXCEPT ![o] = [checkout[o] EXCEPT !.pc = "done"]]
        /\ IF Exists(c) /\ o \notin usages[c]
             THEN /\ usages' = [usages EXCEPT ![c] = usages[c] \cup {o}]
                  /\ coupon' = [coupon EXCEPT ![c] = [coupon[c] EXCEPT !.count = coupon[c].count + 1]]
             ELSE UNCHANGED <<usages, coupon>>
        /\ UNCHANGED <<removal, edits, holders, peak, cut>>

Init ==
    /\ coupon = [c \in CouponIds |-> None]
    /\ usages = [c \in CouponIds |-> {}]
    /\ checkout = [o \in Orders |-> Start]
    /\ removal = [r \in Requests |-> None]
    /\ edits = 0
    /\ holders = [k \in Codes |-> {}]
    /\ peak = [c \in CouponIds |-> 0]
    /\ cut = {}

Next ==
    \/ \E c \in CouponIds :
          \/ \E k \in Codes, f \in Offers, w \in Windows, l \in Asked, m \in Asked :
                Create(c, k, f, w, l, m) \/ Update(c, k, f, w, l, m)
          \/ \E r \in Requests : RemoveCount(r, c)
          \/ Pass(c)
    \/ \E r \in Requests : RemoveWrite(r)
    \/ \E o \in Orders :
          \/ \E k \in Codes, x \in Carts : Validate(o, k, x)
          \/ CountPerUser(o) \/ Grant(o) \/ RecordFind(o) \/ Record(o)

Spec == Init /\ [][Next]_vars

-----------------------------------------------------------------------------
TypeOK ==
    /\ coupon \in [CouponIds -> Coupon \cup {None, Deleted}]
    /\ usages \in [CouponIds -> SUBSET Orders]
    /\ checkout \in [Orders -> Checkout]
    /\ removal \in [Requests -> Removal \cup {None}]
    /\ edits \in Nat
    /\ holders \in [Codes -> SUBSET CouponIds]
    /\ peak \in [CouponIds -> Nat]
    /\ cut \subseteq CouponIds

(* The bookkeeping implements UsageLedger: a use is entered and counted    *)
(* once, in one step, however often the client reports it, and a coupon    *)
(* with uses is never deleted, though remove() counts them beforehand.     *)
LedgerStatus(c) ==
    IF coupon[c] = None THEN "none"
    ELSE IF coupon[c] = Deleted THEN "gone"
    ELSE IF coupon[c].status = "ACTIVE" THEN "open" ELSE "closed"

Ledger == INSTANCE UsageLedger WITH
    Offers  <- CouponIds,
    Uses    <- Orders,
    status  <- [c \in CouponIds |-> LedgerStatus(c)],
    entered <- usages,
    counted <- [c \in CouponIds |-> IF Exists(c) THEN coupon[c].count ELSE 0]

ImplementsLedger == Ledger!LedgerSpec

(* The discount of an order is credited to the coupon that gave it, unless *)
(* its code has belonged to more than one coupon: both are looked up by    *)
(* code, in requests that may be far apart.                                *)
CreditedAsGranted ==
    \A o \in Orders, c \in CouponIds :
        o \in usages[c] /\ OneHolder(checkout[o].code) => checkout[o].coupon = c

(* How far the limit of a coupon can be overshot.  It is checked when a    *)
(* code is applied and not when a use is reported: all the clients that    *)
(* held the coupon at once may have been granted the last use; but none is *)
(* granted it later.  Excepted are coupons whose limit was lowered to what *)
(* was used already, and codes that changed hands.                         *)
OvershootBounded ==
    \A c \in CouponIds :
        Exists(c) /\ coupon[c].limit # None /\ c \notin cut /\ HadOwnCodes(c) =>
            coupon[c].count + Cardinality(Outstanding(c)) < coupon[c].limit + Max({1, peak[c]})

(* How much a discount can be.  A fixed amount takes off no more than the  *)
(* subtotal the client sent.  A percentage of at most a hundred takes off  *)
(* no more than the subtotal or, where it counts the goods sent along, no  *)
(* more than the list price of those whose quantity is positive: nothing   *)
(* caps it by the subtotal, which may be less.                             *)
Wanted(items) == [x \in Products |-> Max({0, items[x]})]
Goods(cart) ==
    Max({0, cart.subtotal, IF cart.items = None THEN 0 ELSE Listed(Products, Wanted(cart.items))})

DiscountWithinTotal ==
    \A o \in Orders :
        LET q == checkout[o]
        IN  q.offer # None =>
              /\ q.offer.type = "FIXED_AMOUNT" => q.discount <= 100 * q.cart.subtotal
              /\ q.offer.type = "PERCENTAGE" /\ q.offer.value <= 100
                    => q.discount <= 100 * Goods(q.cart)
=============================================================================
