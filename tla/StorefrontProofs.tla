-------------------------- MODULE StorefrontProofs --------------------------
(***************************************************************************)
(* Proofs about Storefront, and about Restocking, the shop with its        *)
(* inventory service, for any catalogue, any number of customers, requests,*)
(* service calls and cron instances, and any bounds.                       *)
(*                                                                         *)
(* The inductive invariant adds to the types what a request in flight      *)
(* still knows when it acts: its order exists and was open when read       *)
(* (RequestsKnowOrders), the cart lines it found are gone or still of the  *)
(* sku they were found for (CallsKnowLines), and no quantity that is kept  *)
(* or about to be written is zero or less (QuantitiesPositive).            *)
(*                                                                         *)
(* On it rest three counts, each a sum over the orders or the requests     *)
(* that one step changes in one term (Sums): of the units sold from a row  *)
(* (StockInv), of the units put back and logged (ReturnsInv), and, with    *)
(* the inventory service open, of the units logged for a row (LedgerInv).  *)
(***************************************************************************)
EXTENDS Restocking, Sums, TLAPS

(* update() and cancel() act on an order they read as open.                *)
RequestsKnowOrders ==
    \A r \in Requests :
        LET q == req[r]
        IN  /\ q.pc # "idle" =>
                  /\ q.order \in OrderIds /\ orders[q.order] # None
                  /\ q.seen \in OrderStatus \ Terminal /\ q.new \in OrderStatus
            /\ q.pc = "log" => q.sku \in Skus

(* updateCartItem and mergeAnonymousCart act on lines they found: an id is *)
(* never given to another line.                                            *)
CallsKnowLines ==
    \A c \in CartCalls :
        LET q == cart[c]
        IN  /\ q.pc = "update" => q.line \in LineIds
            /\ q.pc = "merge" =>
                  /\ q.user \in Users
                  /\ \A k \in Skus : q.found[k] # None =>
                        /\ lines[q.found[k]] # None
                        /\ IsLine(q.found[k]) => lines[q.found[k]].sku = k

QuantitiesPositive ==
    /\ \A l \in LineIds : IsLine(l) => lines[l].quantity > 0
    /\ \A c \in CartCalls : cart[c].pc = "update" => cart[c].want > 0
    /\ \A i \in Crons : \A s \in todo[i] : s.quantity > 0

IInv ==
    /\ TypeOK
    /\ RequestsKnowOrders
    /\ CallsKnowLines
    /\ QuantitiesPositive

-----------------------------------------------------------------------------
(* Lemmas about the operators of the tables                                *)

(* findUnique returns a row of the sku when there is one.                  *)
LEMMA RowFound ==
  ASSUME NEW k \in Skus, HasRow(k)
  PROVE  RowOf(k) \in Products /\ IsRowOf(RowOf(k), k)
  BY DEF HasRow, RowsOf, RowOf

(* Every sku belongs to a product.                                         *)
LEMMA ProductOfSku == \A k \in Skus : ProductOf(k) \in Products
  BY SkuAssumption DEF ProductOf, Skus

(* The row addToCart creates is a row, and no other row changes.           *)
LEMMA WithRowType ==
  ASSUME TablesOK, NEW k \in Skus
  PROVE  WithRow(k) \in [Products -> Row \cup {None}]
  <1>1. NewRow(k, mirror[k], 0) \in Row
    BY DEF NewRow, Row, VariantIn, TablesOK
  <1> QED
    BY <1>1, ProductOfSku DEF WithRow, TablesOK

(* An order takes a natural number of units from a row.                    *)
LEMMA UnitsFromType ==
  ASSUME TablesOK, NEW items \in [Skus -> Nat], NEW p \in Products, inventory[p] # None
  PROVE  UnitsFrom(items, p) \in Nat
  BY SkuAssumption DEF UnitsFrom, TablesOK, Skus, Row

(* Selling keeps the rows well typed.                                      *)
LEMMA SoldType ==
  ASSUME TablesOK, NEW items \in [Skus -> Nat]
  PROVE  Sold(items) \in [Products -> Row \cup {None}]
  <1>1. ASSUME NEW p \in Products, inventory[p] # None
        PROVE  [inventory[p] EXCEPT !.stock = @ - UnitsFrom(items, p),
                                    !.reserved = @ - UnitsFrom(items, p)] \in Row
    <2> DEFINE n == UnitsFrom(items, p)
               row == inventory[p]
    <2>1. n \in Int /\ row \in Row
      BY <1>1, UnitsFromType DEF TablesOK
    <2> HIDE DEF n, row
    <2>2. row.stock - n \in Int /\ row.reserved - n \in Int
      BY <2>1 DEF Row
    <2>3. [row EXCEPT !.stock = row.stock - n, !.reserved = row.reserved - n] \in Row
      BY <2>1, <2>2 DEF Row
    <2> QED
      BY <2>3 DEF n, row
  <1> QED
    BY <1>1 DEF Sold

(* Units times items are units.                                            *)
LEMMA ItemsType ==
  ASSUME NEW q \in [Skus -> 0..MaxQty], NEW n \in 1..MaxEntries
  PROVE  [k \in Skus |-> n * q[k]] \in [Skus -> Nat]
  <1>1. \A k \in Skus : n * q[k] \in Nat
    <2> TAKE k \in Skus
    <2> DEFINE m == q[k]
    <2>1. m \in Nat /\ n \in Nat
      BY OrdersAssumption
    <2> HIDE DEF m
    <2>2. n * m \in Nat
      BY <2>1
    <2> QED
      BY <2>2 DEF m
  <1> QED
    BY <1>1

-----------------------------------------------------------------------------
(* The invariant holds before anything is sold.                            *)
THEOREM InitIInv == Init => IInv
  <1> SUFFICES ASSUME Init PROVE IInv
    OBVIOUS
  <1>1. TablesOK
    <2>1. inventory \in [Products -> Row \cup {None}]
      <3>1. \A p \in Stocked : NewRow(p, InitStock[p], 0) \in Row
        BY StorefrontAssumption, SkuAssumption DEF NewRow, Row, VariantIn, Stocked
      <3> QED
        BY <3>1 DEF Init
    <2>2. mirror \in [Skus -> Int]
      BY StorefrontAssumption DEF Init
    <2> QED
      BY <2>1, <2>2 DEF Init, TablesOK, OrdersInit, CartsInit
  <1>2. OrdersTypeOK
    BY DEF Init, OrdersInit, OrdersTypeOK, Idle, Request, Stage, OrderStatus
  <1>3. CartsTypeOK
    BY DEF Init, CartsInit, CartsTypeOK, NoCall, CartCall
  <1>4. CleanupTypeOK
    BY DEF Init, CleanupInit, CleanupTypeOK
  <1>5. RequestsKnowOrders
    BY DEF Init, OrdersInit, Idle, RequestsKnowOrders
  <1>6. CallsKnowLines
    BY DEF Init, CartsInit, NoCall, CallsKnowLines
  <1>7. QuantitiesPositive
    BY DEF Init, CartsInit, CleanupInit, NoCall, QuantitiesPositive, IsLine
  <1> QED
    BY <1>1, <1>2, <1>3, <1>4, <1>5, <1>6, <1>7 DEF IInv, TypeOK

-----------------------------------------------------------------------------
(* An order request keeps every table and request well typed.              *)
LEMMA OrdersTypes ==
  IInv /\ OrdersNext /\ UNCHANGED <<cart, cleanupVars>> => TypeOK'
  <1> SUFFICES ASSUME IInv, OrdersNext, UNCHANGED <<cart, cleanupVars>>
               PROVE  TypeOK'
    OBVIOUS
  <1>a. TablesOK /\ OrdersTypeOK /\ CartsTypeOK /\ CleanupTypeOK /\ RequestsKnowOrders
    BY DEF IInv, TypeOK
  <1>b. CartsTypeOK' /\ CleanupTypeOK'
    BY <1>a DEF CartsTypeOK, CleanupTypeOK, cleanupVars
  <1>1. CASE \E o \in OrderIds, u \in Users \cup {None}, q \in [Skus -> 0..MaxQty],
               n \in 1..MaxEntries, s \in CreateStatuses : CreateOrder(o, u, q, n, s)
    <2>1. PICK o \in OrderIds, u \in Users \cup {None}, q \in [Skus -> 0..MaxQty],
               n \in 1..MaxEntries, s \in CreateStatuses : CreateOrder(o, u, q, n, s)
      BY <1>1
    <2> DEFINE items == [k \in Skus |-> n * q[k]]
    <2>2. items \in [Skus -> Nat]
      BY ItemsType
    <2>3. /\ orders' = [orders EXCEPT ![o] = [owner |-> u, status |-> s, items |-> items]]
          /\ inventory' = Sold(items)
          /\ lines' = [l \in LineIds |-> IF l \in OrderedLines(u, items) THEN Deleted
                                         ELSE lines[l]]
          /\ timeline' = [timeline EXCEPT ![o] = <<"PENDING">>]
          /\ UNCHANGED <<mirror, req, returned, voids, cancels>>
      BY <2>1 DEF CreateOrder
    <2> HIDE DEF items
    <2>4. TablesOK'
      BY <1>a, <2>2, <2>3, SoldType, OrdersAssumption DEF TablesOK, Order
    <2>5. <<"PENDING">> \in Seq(OrderStatus)
      BY DEF OrderStatus
    <2>6. OrdersTypeOK'
      BY <1>a, <2>3, <2>5 DEF OrdersTypeOK
    <2> QED
      BY <1>b, <2>4, <2>6 DEF TypeOK
  <1>2. ASSUME NEW r \in Requests, OrdersStep(r)
        PROVE  TypeOK'
    <2> DEFINE q == req[r]
    <2>a. q \in Request
      BY <1>a DEF OrdersTypeOK
    <2>1. ASSUME NEW o \in OrderIds, NEW s \in UpdateStatuses, UpdateRead(r, o, s)
          PROVE  TypeOK'
      <3>1. orders[o].status \in OrderStatus /\ s \in OrderStatus
        BY <1>a, <2>1, OrdersAssumption DEF UpdateRead, Open, TablesOK, Order
      <3>2. [Idle EXCEPT !.pc = "write", !.order = o, !.seen = orders[o].status,
                         !.new = s] \in Request
        BY <3>1 DEF Idle, Request, Stage
      <3>3. OrdersTypeOK'
        BY <1>a, <2>1, <3>2 DEF UpdateRead, OrdersTypeOK
      <3> QED
        BY <1>a, <1>b, <2>1, <3>3 DEF UpdateRead, TypeOK, TablesOK, tables
    <2>2. CASE UpdateWrite(r)
      <3>1. q.order \in OrderIds /\ orders[q.order] \in Order /\ q.new \in OrderStatus
        BY <1>a, <2>2 DEF UpdateWrite, RequestsKnowOrders, TablesOK
      <3>2. TablesOK'
        BY <1>a, <2>2, <3>1 DEF UpdateWrite, TablesOK, Order
      <3>3. AfterWrite(q) \in Request
        <4>1. Idle \in Request
          BY DEF Idle, Request, Stage
        <4>2. SkusIn(q.order) \subseteq Skus
          BY DEF SkusIn
        <4> QED
          BY <2>a, <4>1, <4>2 DEF AfterWrite, Request, Stage
      <3>4. voids' \in [OrderIds -> Nat]
        BY <1>a, <2>2, <3>1 DEF UpdateWrite, OrdersTypeOK
      <3>5. OrdersTypeOK'
        BY <1>a, <2>2, <3>3, <3>4 DEF UpdateWrite, OrdersTypeOK
      <3> QED
        BY <1>b, <3>2, <3>5 DEF TypeOK
    <2>3. CASE RestoreItem(r)
      <3>1. PICK k \in q.pending :
              /\ mirror' = [mirror EXCEPT ![k] = @ + orders[q.order].items[k]]
              /\ req' = [req EXCEPT ![r] = [q EXCEPT !.pc = "log", !.sku = k]]
        BY <2>3 DEF RestoreItem
      <3>2. k \in Skus /\ orders[q.order] \in Order
        BY <1>a, <2>a, <2>3 DEF RestoreItem, RequestsKnowOrders, TablesOK, Request
      <3>3. mirror[k] + orders[q.order].items[k] \in Int
        BY <1>a, <3>2 DEF Order, TablesOK
      <3>4. TablesOK'
        <4>1. mirror' \in [Skus -> Int]
          BY <1>a, <3>1, <3>3 DEF TablesOK
        <4> QED
          BY <1>a, <2>3, <4>1 DEF RestoreItem, TablesOK
      <3>5. [q EXCEPT !.pc = "log", !.sku = k] \in Request
        BY <2>a, <3>2 DEF Request, Stage
      <3>6. OrdersTypeOK'
        BY <1>a, <2>3, <3>1, <3>5 DEF RestoreItem, OrdersTypeOK
      <3> QED
        BY <1>b, <3>4, <3>6 DEF TypeOK
    <2>4. CASE LogReturn(r)
      <3>1. q.order \in OrderIds /\ orders[q.order] \in Order /\ q.sku \in Skus
        BY <1>a, <2>4 DEF LogReturn, RequestsKnowOrders, TablesOK
      <3>2. orders[q.order].items[q.sku] \in Nat
        BY <3>1 DEF Order
      <3>3. returned' \in [OrderIds -> [Skus -> Nat]]
        BY <1>a, <2>4, <3>1, <3>2 DEF LogReturn, OrdersTypeOK
      <3>4. [q EXCEPT !.pc = IF q.pending \ {q.sku} = {} THEN "timeline" ELSE "restore",
                      !.pending = q.pending \ {q.sku}, !.sku = None] \in Request
        BY <2>a DEF Request, Stage
      <3>5. OrdersTypeOK'
        BY <1>a, <2>4, <3>3, <3>4 DEF LogReturn, OrdersTypeOK
      <3> QED
        BY <1>a, <1>b, <2>4, <3>5 DEF LogReturn, TypeOK, TablesOK, tables
    <2>5. CASE AddTimelineEntry(r)
      <3>1. q.order \in OrderIds /\ q.new \in OrderStatus
        BY <1>a, <2>5 DEF AddTimelineEntry, RequestsKnowOrders
      <3>2. timeline' \in [OrderIds -> Seq(OrderStatus)]
        BY <1>a, <2>5, <3>1 DEF AddTimelineEntry, OrdersTypeOK
      <3>3. Idle \in Request
        BY DEF Idle, Request, Stage
      <3>4. OrdersTypeOK'
        BY <1>a, <2>5, <3>2, <3>3 DEF AddTimelineEntry, OrdersTypeOK
      <3> QED
        BY <1>a, <1>b, <2>5, <3>4 DEF AddTimelineEntry, TypeOK, TablesOK, tables
    <2>6. ASSUME NEW o \in OrderIds, CancelRead(r, o)
          PROVE  TypeOK'
      <3>1. orders[o].status \in OrderStatus
        BY <1>a, <2>6 DEF CancelRead, Open, TablesOK, Order
      <3>2. [Idle EXCEPT !.pc = "cancel", !.order = o, !.seen = orders[o].status,
                         !.new = "CANCELLED"] \in Request
        BY <3>1 DEF Idle, Request, Stage, OrderStatus
      <3>3. OrdersTypeOK'
        BY <1>a, <2>6, <3>2 DEF CancelRead, OrdersTypeOK
      <3> QED
        BY <1>a, <1>b, <2>6, <3>3 DEF CancelRead, TypeOK, TablesOK, tables
    <2>7. CASE CancelCommit(r)
      <3>1. q.order \in OrderIds /\ orders[q.order] \in Order
        BY <1>a, <2>7 DEF CancelCommit, RequestsKnowOrders, TablesOK
      <3>2. \A k \in Skus : orders[q.order].items[k] \in Nat
        BY <3>1 DEF Order
      <3>3. TablesOK'
        <4>1. mirror' \in [Skus -> Int]
          BY <1>a, <2>7, <3>2 DEF CancelCommit, TablesOK
        <4>2. orders' \in [OrderIds -> Order \cup {None}]
          BY <1>a, <2>7, <3>1 DEF CancelCommit, TablesOK, Order, OrderStatus
        <4> QED
          BY <1>a, <2>7, <4>1, <4>2 DEF CancelCommit, TablesOK
      <3>4. returned' \in [OrderIds -> [Skus -> Nat]]
        BY <1>a, <2>7, <3>1, <3>2 DEF CancelCommit, OrdersTypeOK
      <3>5. timeline' \in [OrderIds -> Seq(OrderStatus)]
        BY <1>a, <2>7, <3>1 DEF CancelCommit, OrdersTypeOK, OrderStatus
      <3>6. Idle \in Request
        BY DEF Idle, Request, Stage
      <3>7. OrdersTypeOK'
        BY <1>a, <2>7, <3>1, <3>4, <3>5, <3>6 DEF CancelCommit, OrdersTypeOK
      <3> QED
        BY <1>b, <3>3, <3>7 DEF TypeOK
    <2>8. CASE Abandon(r)
      <3>1. Idle \in Request
        BY DEF Idle, Request, Stage
      <3>2. OrdersTypeOK'
        BY <1>a, <2>8, <3>1 DEF Abandon, OrdersTypeOK
      <3> QED
        BY <1>a, <1>b, <2>8, <3>2 DEF Abandon, TypeOK, TablesOK, tables
    <2> QED
      BY <1>2, <2>1, <2>2, <2>3, <2>4, <2>5, <2>6, <2>7, <2>8 DEF OrdersStep
  <1> QED
    BY <1>1, <1>2 DEF OrdersNext

(* What a merge does to one line: it is left alone, it is a new line of    *)
(* the user for some sku, or it takes the quantity the merge had computed  *)
(* for the sku it was found for.                                           *)
LEMMA MergeLines ==
  ASSUME IInv, NEW c \in CartCalls, MergeCommit(c)
  PROVE  /\ lines' \in [LineIds -> Line \cup {None, Deleted}]
         /\ \A l \in LineIds :
               \/ lines'[l] = lines[l]
               \/ /\ lines[l] = None
                  /\ lines'[l] \in Line /\ lines'[l].quantity > 0
               \/ /\ lines[l] \in Line /\ lines'[l] \in Line
                  /\ \E k \in Skus : /\ cart[c].found[k] = l /\ cart[c].write[k] > 0
                                     /\ lines'[l] = [lines[l] EXCEPT !.quantity = cart[c].write[k]]
  <1> DEFINE q == cart[c]
             added == {k \in Skus : q.write[k] > 0 /\ q.found[k] = None}
             Known(l) == \/ lines'[l] = lines[l]
                         \/ /\ lines[l] = None
                            /\ lines'[l] \in Line /\ lines'[l].quantity > 0
                         \/ /\ lines[l] \in Line /\ lines'[l] \in Line
                            /\ \E k \in Skus : /\ q.found[k] = l /\ q.write[k] > 0
                                               /\ lines'[l] = [lines[l] EXCEPT !.quantity = q.write[k]]
  <1>1. TablesOK /\ q \in CartCall
    BY DEF IInv, TypeOK, CartsTypeOK
  <1>2. q.pc = "merge" /\ q.user \in Users
    BY DEF MergeCommit, IInv, CallsKnowLines
  <1>3. CASE ~Mergeable(q)
    BY <1>1, <1>3 DEF MergeCommit, TablesOK
  <1>4. CASE Mergeable(q)
    <2>1. PICK fresh \in [added -> {l \in LineIds : lines[l] = None}] :
            lines' = [l \in LineIds |->
                        IF \E k \in added : fresh[k] = l
                        THEN LET k == CHOOSE k \in added : fresh[k] = l
                             IN  [user |-> q.user, sku |-> k, quantity |-> q.write[k],
                                  expires |-> "none"]
                        ELSE IF \E k \in Skus : q.write[k] > 0 /\ q.found[k] = l
                        THEN LET k == CHOOSE k \in Skus : q.write[k] > 0 /\ q.found[k] = l
                             IN  [lines[l] EXCEPT !.quantity = q.write[k]]
                        ELSE lines[l]]
      BY <1>4 DEF MergeCommit
    <2>2. ASSUME NEW l \in LineIds
          PROVE  Known(l) /\ lines'[l] \in Line \cup {None, Deleted}
      <3>1. CASE \E k \in added : fresh[k] = l
        <4> DEFINE k == CHOOSE k \in added : fresh[k] = l
        <4>1. k \in added /\ fresh[k] = l
          BY <3>1
        <4>2. lines'[l] = [user |-> q.user, sku |-> k, quantity |-> q.write[k], expires |-> "none"]
          BY <2>1, <3>1
        <4> HIDE DEF k
        <4>3. q.write[k] \in Int /\ q.write[k] > 0 /\ k \in Skus
          BY <1>1, <4>1 DEF CartCall
        <4>4. lines'[l] \in Line /\ lines'[l].quantity > 0
          BY <1>2, <4>2, <4>3 DEF Line, Expiry
        <4> QED
          BY <4>1, <4>4
      <3>2. CASE /\ ~\E k \in added : fresh[k] = l
                 /\ \E k \in Skus : q.write[k] > 0 /\ q.found[k] = l
        <4> DEFINE k == CHOOSE k \in Skus : q.write[k] > 0 /\ q.found[k] = l
        <4>1. k \in Skus /\ q.write[k] > 0 /\ q.found[k] = l
          BY <3>2
        <4>2. lines'[l] = [lines[l] EXCEPT !.quantity = q.write[k]]
          BY <2>1, <3>2
        <4> HIDE DEF k
        <4>3. q.write[k] \in Int
          BY <1>1, <4>1 DEF CartCall
        <4>4. lines[l] \in Line
          BY <1>1, <1>4, <4>1, SkuAssumption DEF Mergeable, IsLine, TablesOK
        <4>5. lines'[l] \in Line
          BY <4>2, <4>3, <4>4 DEF Line
        <4> QED
          BY <4>1, <4>2, <4>4, <4>5
      <3>3. CASE /\ ~\E k \in added : fresh[k] = l
                 /\ ~\E k \in Skus : q.write[k] > 0 /\ q.found[k] = l
        BY <1>1, <2>1, <3>3 DEF TablesOK
      <3> QED
        BY <3>1, <3>2, <3>3
    <2> QED
      BY <2>1, <2>2
  <1> QED
    BY <1>3, <1>4

(* A cart request keeps every table and call well typed.                   *)
LEMMA CartsTypes ==
  IInv /\ CartsNext /\ UNCHANGED <<orderVars, cleanupVars>> => TypeOK'
  <1> SUFFICES ASSUME IInv, CartsNext, UNCHANGED <<orderVars, cleanupVars>>
               PROVE  TypeOK'
    OBVIOUS
  <1>a. TablesOK /\ OrdersTypeOK /\ CartsTypeOK /\ CleanupTypeOK /\ CallsKnowLines
    BY DEF IInv, TypeOK
  <1>b. OrdersTypeOK' /\ CleanupTypeOK'
    BY <1>a DEF OrdersTypeOK, CleanupTypeOK, orderVars, cleanupVars
  <1>c. NoCall \in CartCall
    BY DEF NoCall, CartCall
  <1>d. \A l \in LineIds : IsLine(l) => lines[l] \in Line
    BY <1>a DEF IsLine, TablesOK
  <1>1. ASSUME NEW u \in Users, NEW k \in Skus, NEW n \in 1..MaxLineQty, AddToCart(u, k, n)
        PROVE  TypeOK'
    <2>1. inventory' \in [Products -> Row \cup {None}]
      BY <1>a, <1>1, WithRowType DEF AddToCart, Put
    <2>2. n \in Int
      BY CartsAssumption
    <2>3. lines' \in [LineIds -> Line \cup {None, Deleted}]
      <3>1. CASE Matching(u, k) # {}
        <4>1. PICK l \in Matching(u, k) :
                lines' = [lines EXCEPT ![l] = [lines[l] EXCEPT !.quantity = lines[l].quantity + n,
                                                               !.expires = "held"]]
          BY <1>1, <3>1 DEF AddToCart, Put
        <4>2. l \in LineIds /\ lines[l] \in Line
          BY <1>d DEF Matching, LinesFor, LinesOf
        <4>3. [lines[l] EXCEPT !.quantity = lines[l].quantity + n, !.expires = "held"] \in Line
          <5> DEFINE m == lines[l].quantity + n
          <5>1. m \in Int
            BY <2>2, <4>2 DEF Line
          <5> HIDE DEF m
          <5>2. [lines[l] EXCEPT !.quantity = m, !.expires = "held"] \in Line
            BY <4>2, <5>1 DEF Line, Expiry
          <5> QED
            BY <5>2 DEF m
        <4> QED
          BY <1>a, <4>1, <4>2, <4>3 DEF TablesOK
      <3>2. CASE Matching(u, k) = {}
        <4>1. PICK l \in LineIds : lines' = [lines EXCEPT ![l] =
                       [user |-> u, sku |-> k, quantity |-> n, expires |-> "held"]]
          BY <1>1, <3>2 DEF AddToCart, Put
        <4>2. [user |-> u, sku |-> k, quantity |-> n, expires |-> "held"] \in Line
          BY <2>2 DEF Line, Expiry
        <4> QED
          BY <1>a, <4>1, <4>2 DEF TablesOK
      <3> QED
        BY <3>1, <3>2
    <2> QED
      BY <1>a, <1>b, <1>1, <2>1, <2>3 DEF AddToCart, Put, TypeOK, TablesOK, CartsTypeOK
  <1>2. ASSUME NEW c \in CartCalls, NEW l \in LineIds, NEW n \in 1..MaxLineQty,
               UpdateItemRead(c, l, n)
        PROVE  TypeOK'
    <2>1. n \in Nat /\ lines[l] \in Line
      BY <1>d, <1>2, CartsAssumption DEF UpdateItemRead
    <2>2. [NoCall EXCEPT !.pc = "update", !.user = lines[l].user, !.line = l,
                         !.seen = lines[l].quantity, !.stock = mirror[lines[l].sku],
                         !.want = n] \in CartCall
      <3>1. /\ lines[l].user \in Users /\ lines[l].quantity \in Int
            /\ mirror[lines[l].sku] \in Int
        BY <1>a, <2>1 DEF Line, TablesOK
      <3> QED
        BY <1>c, <2>1, <3>1 DEF CartCall
    <2>3. CartsTypeOK'
      BY <1>a, <1>2, <2>2 DEF UpdateItemRead, CartsTypeOK
    <2> QED
      BY <1>a, <1>b, <1>2, <2>3 DEF UpdateItemRead, TypeOK, TablesOK, tables
  <1>3. ASSUME NEW c \in CartCalls, UpdateItemCommit(c)
        PROVE  TypeOK'
    <2>1. CartsTypeOK'
      BY <1>a, <1>c, <1>3 DEF UpdateItemCommit, CartsTypeOK
    <2>2. cart[c] \in CartCall /\ cart[c].line \in LineIds
      BY <1>a, <1>3 DEF UpdateItemCommit, CartsTypeOK, CallsKnowLines
    <2>3. cart[c].want \in Int
      BY <2>2 DEF CartCall
    <2>4. lines' \in [LineIds -> Line \cup {None, Deleted}]
      BY <1>a, <1>d, <1>3, <2>2, <2>3 DEF UpdateItemCommit, TablesOK, Line
    <2> QED
      BY <1>a, <1>b, <1>3, <2>1, <2>4 DEF UpdateItemCommit, TypeOK, TablesOK
  <1>4. ASSUME NEW l \in LineIds, RemoveItem(l)
        PROVE  TypeOK'
    BY <1>a, <1>b, <1>4 DEF RemoveItem, TypeOK, TablesOK, CartsTypeOK
  <1>5. ASSUME NEW u \in Users, ClearCart(u)
        PROVE  TypeOK'
    BY <1>a, <1>b, <1>5 DEF ClearCart, TypeOK, TablesOK, CartsTypeOK
  <1>6. ASSUME NEW c \in CartCalls, NEW u \in Users, NEW n \in [Skus -> 0..MaxLineQty],
               MergeRead(c, u, n)
        PROVE  TypeOK'
    <2> DEFINE write(found) ==
          [k \in Skus |-> IF Merged(n, k) <= 0 THEN 0
                          ELSE Merged(n, k) + (IF found[k] = None THEN 0
                                               ELSE lines[found[k]].quantity)]
    <2>1. PICK found \in [Skus -> LineIds \cup {None}] :
            /\ \A k \in Skus : IF Merged(n, k) > 0 THEN found[k] \in FoundLines(u, k)
                                                 ELSE found[k] = None
            /\ cart' = [cart EXCEPT ![c] = [NoCall EXCEPT !.pc = "merge", !.user = u,
                           !.found = found, !.write = write(found)]]
      BY <1>6 DEF MergeRead
    <2>2. \A k \in Skus : found[k] # None => found[k] \in LineIds /\ lines[found[k]] \in Line
      BY <1>d, <2>1 DEF FoundLines, LinesFor, LinesOf
    <2>3. \A k \in Skus : Merged(n, k) \in Int
      BY <1>a, CartsAssumption DEF Merged, TablesOK
    <2>4. write(found) \in [Skus -> Int]
      BY <2>2, <2>3 DEF Line
    <2> HIDE DEF write
    <2>5. [NoCall EXCEPT !.pc = "merge", !.user = u, !.found = found,
                         !.write = write(found)] \in CartCall
      <3> DEFINE w == write(found)
      <3> HIDE DEF w
      <3>1. [NoCall EXCEPT !.pc = "merge", !.user = u, !.found = found, !.write = w] \in CartCall
        BY <1>c, <2>4 DEF CartCall, w
      <3> QED
        BY <3>1 DEF w
    <2>6. CartsTypeOK'
      BY <1>a, <2>1, <2>5 DEF CartsTypeOK
    <2> QED
      BY <1>a, <1>b, <1>6, <2>6 DEF MergeRead, TypeOK, TablesOK, tables
  <1>7. ASSUME NEW c \in CartCalls, MergeCommit(c)
        PROVE  TypeOK'
    <2>1. CartsTypeOK'
      BY <1>a, <1>c, <1>7 DEF MergeCommit, CartsTypeOK
    <2>2. lines' \in [LineIds -> Line \cup {None, Deleted}]
      BY <1>7, MergeLines DEF IInv
    <2> QED
      BY <1>a, <1>b, <1>7, <2>1, <2>2 DEF MergeCommit, TypeOK, TablesOK
  <1>8. ASSUME NEW c \in CartCalls, AbandonCartCall(c)
        PROVE  TypeOK'
    BY <1>a, <1>b, <1>c, <1>8 DEF AbandonCartCall, TypeOK, TablesOK, CartsTypeOK, tables
  <1>9. ASSUME NEW l \in LineIds, Expire(l)
        PROVE  TypeOK'
    <2>1. lines[l] \in Line
      BY <1>d, <1>9 DEF Expire
    <2>2. lines' \in [LineIds -> Line \cup {None, Deleted}]
      BY <1>a, <1>9, <2>1 DEF Expire, TablesOK, Line, Expiry
    <2> QED
      BY <1>a, <1>b, <1>9, <2>2 DEF Expire, TypeOK, TablesOK, CartsTypeOK
  <1> QED
    BY <1>1, <1>2, <1>3, <1>4, <1>5, <1>6, <1>7, <1>8, <1>9 DEF CartsNext

(* A cleanup run keeps every table and snapshot well typed.                *)
LEMMA CleanupTypes ==
  IInv /\ CleanupNext /\ UNCHANGED <<orderVars, cart>> => TypeOK'
  <1> SUFFICES ASSUME IInv, CleanupNext, UNCHANGED <<orderVars, cart>>
               PROVE  TypeOK'
    OBVIOUS
  <1>a. TablesOK /\ OrdersTypeOK /\ CartsTypeOK /\ CleanupTypeOK
    BY DEF IInv, TypeOK
  <1>b. OrdersTypeOK' /\ CartsTypeOK'
    BY <1>a DEF OrdersTypeOK, CartsTypeOK, orderVars
  <1>1. ASSUME NEW i \in Crons, StartCleanup(i)
        PROVE  TypeOK'
    <2>1. \A l \in ExpiredLines : l \in LineIds /\ lines[l] \in Line
      BY <1>a DEF ExpiredLines, IsLine, TablesOK
    <2>2. \A l \in ExpiredLines :
            [line |-> l, sku |-> lines[l].sku, quantity |-> lines[l].quantity] \in Snapshot
      BY <2>1 DEF Line, Snapshot
    <2>3. CleanupTypeOK'
      BY <1>a, <1>1, <2>2 DEF StartCleanup, CleanupTypeOK
    <2> QED
      BY <1>a, <1>b, <1>1, <2>3 DEF StartCleanup, TypeOK, TablesOK, tables
  <1>2. ASSUME NEW i \in Crons, NEW s \in todo[i], ReleaseExpired(i, s)
        PROVE  TypeOK'
    <2>1. s \in Snapshot
      BY <1>a DEF CleanupTypeOK
    <2>2. s.line \in LineIds /\ lines[s.line] \in Line
      BY <1>a, <1>2, <2>1 DEF ReleaseExpired, Releasable, IsLine, TablesOK, Snapshot
    <2>3. RowOf(s.sku) \in Products /\ inventory[RowOf(s.sku)] \in Row
      BY <1>a, <1>2, <2>1, RowFound DEF ReleaseExpired, Releasable, IsRowOf, TablesOK, Snapshot
    <2>4. lines' \in [LineIds -> Line \cup {None, Deleted}]
      BY <1>a, <1>2, <2>2 DEF ReleaseExpired, TablesOK, Line, Expiry
    <2>5. inventory' \in [Products -> Row \cup {None}]
      <3> DEFINE row == inventory[RowOf(s.sku)]
                 n == row.reserved - s.quantity
      <3>1. n \in Int
        BY <2>1, <2>3 DEF Row, Snapshot
      <3>2. inventory' = [inventory EXCEPT ![RowOf(s.sku)] = [row EXCEPT !.reserved = n]]
        BY <1>2 DEF ReleaseExpired
      <3> HIDE DEF n
      <3>3. [row EXCEPT !.reserved = n] \in Row
        BY <2>3, <3>1 DEF Row
      <3> QED
        BY <1>a, <2>3, <3>2, <3>3 DEF TablesOK
    <2>6. CleanupTypeOK'
      BY <1>a, <1>2 DEF ReleaseExpired, CleanupTypeOK
    <2> QED
      BY <1>a, <1>b, <1>2, <2>4, <2>5, <2>6 DEF ReleaseExpired, TypeOK, TablesOK
  <1>3. ASSUME NEW i \in Crons, NEW s \in todo[i], CleanupFails(i, s)
        PROVE  TypeOK'
    BY <1>a, <1>b, <1>3 DEF CleanupFails, TypeOK, TablesOK, CleanupTypeOK, tables
  <1>4. ASSUME NEW i \in Crons, CleanupStops(i)
        PROVE  TypeOK'
    BY <1>a, <1>b, <1>4 DEF CleanupStops, TypeOK, TablesOK, CleanupTypeOK, tables
  <1> QED
    BY <1>1, <1>2, <1>3, <1>4 DEF CleanupNext, CleanupRun

(* Every step keeps the tables, the requests in flight and the cleanup's   *)
(* snapshots well typed.                                                   *)
LEMMA TypeStep == IInv /\ [Next]_vars => TypeOK'
  <1> SUFFICES ASSUME IInv, [Next]_vars PROVE TypeOK'
    OBVIOUS
  <1>1. CASE OrdersNext /\ UNCHANGED <<cart, cleanupVars>>
    BY <1>1, OrdersTypes
  <1>2. CASE CartsNext /\ UNCHANGED <<orderVars, cleanupVars>>
    BY <1>2, CartsTypes
  <1>3. CASE CleanupNext /\ UNCHANGED <<orderVars, cart>>
    BY <1>3, CleanupTypes
  <1>4. CASE UNCHANGED vars
    BY <1>4 DEF vars, tables, orderVars, cleanupVars, IInv, TypeOK, TablesOK, OrdersTypeOK,
                CartsTypeOK, CleanupTypeOK
  <1> QED
    BY <1>1, <1>2, <1>3, <1>4 DEF Next

-----------------------------------------------------------------------------
(* What a step may do to an order: it stays, with its items, and changes   *)
(* status only by the write of an update() or cancel() that is about it.   *)
LEMMA OrderMoves ==
  IInv /\ [Next]_vars =>
    \A o \in OrderIds : orders[o] # None =>
        /\ orders'[o] # None
        /\ orders'[o].items = orders[o].items
        /\ orders'[o].status # orders[o].status =>
              \E r \in Requests : req[r].order = o /\ req[r].pc \in {"write", "cancel"}
  <1> SUFFICES ASSUME IInv, [Next]_vars, NEW o \in OrderIds, orders[o] # None
               PROVE  /\ orders'[o] # None
                      /\ orders'[o].items = orders[o].items
                      /\ orders'[o].status # orders[o].status =>
                            \E r \in Requests : req[r].order = o /\ req[r].pc \in {"write", "cancel"}
    OBVIOUS
  <1>a. TablesOK /\ orders[o] \in Order
    BY DEF IInv, TypeOK, TablesOK
  <1>1. ASSUME NEW p \in OrderIds, NEW u, NEW q, NEW n, NEW s, CreateOrder(p, u, q, n, s)
        PROVE  orders'[o] = orders[o]
    BY <1>a, <1>1 DEF CreateOrder, TablesOK
  <1>2. ASSUME NEW t \in OrderStatus, orders'[o] = [orders[o] EXCEPT !.status = t]
        PROVE  orders'[o] # None /\ orders'[o].items = orders[o].items
    <2>1. orders'[o] \in Order
      BY <1>a, <1>2 DEF Order
    <2> QED
      BY <1>a, <1>2, <2>1, OrderAssumption DEF Order
  <1>3. CASE \E r \in Requests : UpdateWrite(r)
    <2>1. PICK r \in Requests : UpdateWrite(r)
      BY <1>3
    <2>2. CASE req[r].order = o
      <3>1. orders'[o] = [orders[o] EXCEPT !.status = req[r].new]
        BY <1>a, <2>1, <2>2 DEF UpdateWrite, TablesOK
      <3>2. req[r].new \in OrderStatus
        BY <2>1 DEF UpdateWrite, IInv, RequestsKnowOrders
      <3> QED
        BY <1>2, <2>1, <2>2, <3>1, <3>2 DEF UpdateWrite
    <2>3. CASE req[r].order # o
      BY <1>a, <2>1, <2>3 DEF UpdateWrite, TablesOK
    <2> QED
      BY <2>2, <2>3
  <1>4. CASE \E r \in Requests : CancelCommit(r)
    <2>1. PICK r \in Requests : CancelCommit(r)
      BY <1>4
    <2>2. CASE req[r].order = o
      <3>1. orders'[o] = [orders[o] EXCEPT !.status = "CANCELLED"]
        BY <1>a, <2>1, <2>2 DEF CancelCommit, TablesOK
      <3>2. "CANCELLED" \in OrderStatus
        BY DEF OrderStatus
      <3> QED
        BY <1>2, <2>1, <2>2, <3>1, <3>2 DEF CancelCommit
    <2>3. CASE req[r].order # o
      BY <1>a, <2>1, <2>3 DEF CancelCommit, TablesOK
    <2> QED
      BY <2>2, <2>3
  <1>5. CASE \E p \in OrderIds, u \in Users \cup {None}, q \in [Skus -> 0..MaxQty],
                n \in 1..MaxEntries, s \in CreateStatuses : CreateOrder(p, u, q, n, s)
    BY <1>1, <1>5
  <1>6. CASE UNCHANGED orders
    BY <1>6
  <1> QED
    BY <1>3, <1>4, <1>5, <1>6
       DEF Next, OrdersNext, OrdersStep, CartsNext, CleanupNext, CleanupRun, vars, tables,
           UpdateRead, RestoreItem, LogReturn, AddTimelineEntry, CancelRead, Abandon,
           AddToCart, Put, UpdateItemRead, UpdateItemCommit, RemoveItem, ClearCart, MergeRead,
           MergeCommit, AbandonCartCall, Expire, StartCleanup, ReleaseExpired, CleanupFails,
           CleanupStops

(* A request keeps knowing its order: no step removes an order, and what   *)
(* the request read stays what it read.                                    *)
LEMMA RequestsStep == IInv /\ [Next]_vars => RequestsKnowOrders'
  <1> SUFFICES ASSUME IInv, [Next]_vars PROVE RequestsKnowOrders'
    OBVIOUS
  <1> DEFINE Knows(q) ==
        /\ q.pc # "idle" =>
              /\ q.order \in OrderIds /\ orders[q.order] # None
              /\ q.seen \in OrderStatus \ Terminal /\ q.new \in OrderStatus
        /\ q.pc = "log" => q.sku \in Skus
  <1>a. req \in [Requests -> Request] /\ TablesOK
    BY DEF IInv, TypeOK, OrdersTypeOK
  <1>b. \A r \in Requests : Knows(req[r])
    BY DEF IInv, RequestsKnowOrders
  <1>d. Knows(Idle)
    BY DEF Idle
  <1>1. ASSUME NEW r \in Requests, OrdersStep(r)
        PROVE  /\ \A i \in Requests \ {r} : req'[i] = req[i]
               /\ Knows(req'[r])
    <2>1. ASSUME NEW o \in OrderIds, NEW s \in UpdateStatuses, UpdateRead(r, o, s)
          PROVE  Knows(req'[r])
      <3>1. /\ orders[o] # None /\ orders[o].status \in OrderStatus \ Terminal
            /\ s \in OrderStatus
        BY <1>a, <2>1, OrdersAssumption DEF UpdateRead, Open, TablesOK, Order
      <3> QED
        BY <1>a, <2>1, <3>1 DEF UpdateRead, Idle
    <2>2. CASE UpdateWrite(r)
      <3>1. req'[r] = AfterWrite(req[r])
        BY <1>a, <2>2 DEF UpdateWrite
      <3> QED
        BY <1>a, <1>b, <1>d, <2>2, <3>1 DEF UpdateWrite, AfterWrite, Request
    <2>3. CASE RestoreItem(r)
      <3>1. PICK k \in req[r].pending : req'[r] = [req[r] EXCEPT !.pc = "log", !.sku = k]
        BY <1>a, <2>3 DEF RestoreItem
      <3>2. k \in Skus
        BY <1>a DEF Request
      <3> QED
        BY <1>a, <1>b, <2>3, <3>1, <3>2 DEF RestoreItem, Request
    <2>4. CASE LogReturn(r)
      BY <1>a, <1>b, <2>4 DEF LogReturn, Request
    <2>5. CASE AddTimelineEntry(r)
      BY <1>a, <1>d, <2>5 DEF AddTimelineEntry
    <2>6. ASSUME NEW o \in OrderIds, CancelRead(r, o)
          PROVE  Knows(req'[r])
      <3>1. orders[o] # None /\ orders[o].status \in OrderStatus \ Terminal
        BY <1>a, <2>6 DEF CancelRead, Open, TablesOK, Order
      <3> QED
        BY <1>a, <2>6, <3>1 DEF CancelRead, Idle, OrderStatus
    <2>7. CASE CancelCommit(r)
      BY <1>a, <1>d, <2>7 DEF CancelCommit
    <2>8. CASE Abandon(r)
      BY <1>a, <1>d, <2>8 DEF Abandon
    <2>9. \A i \in Requests \ {r} : req'[i] = req[i]
      BY <1>1, <1>a DEF OrdersStep, UpdateRead, UpdateWrite, RestoreItem, LogReturn,
         AddTimelineEntry, CancelRead, CancelCommit, Abandon
    <2> QED
      BY <1>1, <2>1, <2>2, <2>3, <2>4, <2>5, <2>6, <2>7, <2>8, <2>9 DEF OrdersStep
  <1>2. CASE \E r \in Requests : OrdersStep(r)
    <2>1. PICK r \in Requests : OrdersStep(r)
      BY <1>2
    <2> HIDE DEF Knows
    <2>2. \A i \in Requests : Knows(req'[i])
      BY <1>1, <1>b, <2>1
    <2> USE DEF Knows
    <2>3. \A i \in Requests : req'[i].pc # "idle" => orders'[req'[i].order] # None
      BY <2>2, OrderMoves
    <2> QED
      BY <2>2, <2>3 DEF RequestsKnowOrders
  <1>3. CASE UNCHANGED req
    BY <1>3, <1>b, OrderMoves DEF RequestsKnowOrders
  <1> QED
    BY <1>2, <1>3
       DEF Next, OrdersNext, CreateOrder, vars, orderVars

-----------------------------------------------------------------------------
(* What a step may do to a cart line: delete it for good, insert it with   *)
(* an id never used, or write it, keeping its sku.  Its quantity stays     *)
(* positive, and falls only by the commit of an update of it or of a merge *)
(* whose sum is out of date.                                               *)
Lowers(l) ==
    \E c \in CartCalls :
        /\ cart'[c] = NoCall
        /\ \/ cart[c].pc = "update" /\ cart[c].line = l
           \/ /\ cart[c].pc = "merge"
              /\ cart[c].found[lines[l].sku] = l
              /\ cart[c].write[lines[l].sku] < lines[l].quantity

Moved(l) ==
    \/ lines'[l] = lines[l]
    \/ lines[l] # None /\ lines'[l] = Deleted
    \/ lines[l] = None /\ lines'[l] \in Line /\ lines'[l].quantity > 0
    \/ /\ lines[l] \in Line /\ lines'[l] \in Line
       /\ lines'[l].sku = lines[l].sku /\ lines'[l].quantity > 0
       /\ lines'[l].quantity >= lines[l].quantity \/ Lowers(l)

(* Every step does to a cart line one of the things Moved lists: it keeps, *)
(* deletes, inserts, raises or, in two handlers only, lowers it.           *)
LEMMA LineMoves == IInv /\ [Next]_vars => \A l \in LineIds : Moved(l)
  <1> SUFFICES ASSUME IInv, [Next]_vars, NEW l \in LineIds PROVE Moved(l)
    OBVIOUS
  <1>a. /\ TablesOK /\ TablesOK' /\ CartsTypeOK
        /\ CallsKnowLines /\ QuantitiesPositive
    BY TypeStep DEF IInv, TypeOK
  <1>b. ASSUME IsLine(l)
        PROVE  /\ lines[l] \in Line /\ lines[l] # None
               /\ lines[l].quantity \in Int /\ lines[l].quantity > 0
    BY <1>a, <1>b DEF IsLine, TablesOK, QuantitiesPositive, Line
  <1>1. ASSUME NEW o, NEW u, NEW q, NEW n, NEW s, CreateOrder(o, u, q, n, s)
        PROVE  Moved(l)
    <2> DEFINE items == [k \in Skus |-> n * q[k]]
    <2>1. lines'[l] = IF l \in OrderedLines(u, items) THEN Deleted ELSE lines[l]
      BY <1>1 DEF CreateOrder
    <2>2. l \in OrderedLines(u, items) => IsLine(l)
      BY DEF OrderedLines, LinesOf
    <2> QED
      BY <1>b, <2>1, <2>2 DEF Moved
  <1>2. ASSUME NEW u \in Users, NEW k \in Skus, NEW n \in 1..MaxLineQty, AddToCart(u, k, n)
        PROVE  Moved(l)
    <2>1. n \in Int /\ n > 0
      BY CartsAssumption
    <2>2. CASE Matching(u, k) # {}
      <3>1. PICK m \in Matching(u, k) :
              lines' = [lines EXCEPT ![m] = [lines[m] EXCEPT !.quantity = lines[m].quantity + n,
                                                             !.expires = "held"]]
        BY <1>2, <2>2 DEF AddToCart, Put
      <3>2. m \in LineIds /\ IsLine(m)
        BY DEF Matching, LinesFor, LinesOf
      <3>3. CASE m = l
        <4>1. lines'[l] = [lines[l] EXCEPT !.quantity = lines[l].quantity + n, !.expires = "held"]
          BY <1>a, <3>1, <3>3 DEF TablesOK
        <4> DEFINE j == lines[l].quantity + n
        <4>2. j \in Int /\ j >= lines[l].quantity /\ j > 0
          BY <1>b, <2>1, <3>2, <3>3
        <4> HIDE DEF j
        <4>3. lines'[l] = [lines[l] EXCEPT !.quantity = j, !.expires = "held"]
          BY <4>1 DEF j
        <4>4. /\ lines'[l] \in Line /\ lines'[l].quantity = j
              /\ lines'[l].sku = lines[l].sku
          BY <1>b, <3>2, <3>3, <4>2, <4>3 DEF Line, Expiry
        <4> QED
          BY <1>b, <3>2, <3>3, <4>2, <4>4 DEF Moved
      <3>4. CASE m # l
        BY <1>a, <3>1, <3>4 DEF TablesOK, Moved
      <3> QED
        BY <3>3, <3>4
    <2>3. CASE Matching(u, k) = {}
      <3>1. PICK m \in LineIds :
              /\ lines[m] = None
              /\ lines' = [lines EXCEPT ![m] =
                      [user |-> u, sku |-> k, quantity |-> n, expires |-> "held"]]
        BY <1>2, <2>3 DEF AddToCart, Put
      <3>2. [user |-> u, sku |-> k, quantity |-> n, expires |-> "held"] \in Line
        BY <2>1 DEF Line, Expiry
      <3> QED
        BY <1>a, <2>1, <3>1, <3>2 DEF TablesOK, Moved
    <2> QED
      BY <2>2, <2>3
  <1>3. ASSUME NEW c \in CartCalls, UpdateItemCommit(c)
        PROVE  Moved(l)
    <2> DEFINE n == cart[c].want
    <2>1. n \in Int /\ n > 0 /\ cart'[c] = NoCall
      BY <1>a, <1>3 DEF UpdateItemCommit, CartsTypeOK, CartCall, QuantitiesPositive
    <2>2. CASE lines' = [lines EXCEPT ![l].quantity = n] /\ IsLine(l) /\ cart[c].line = l
      <3> HIDE DEF n
      <3>1. lines'[l] = [lines[l] EXCEPT !.quantity = n]
        BY <1>a, <2>2 DEF TablesOK
      <3>2. lines'[l] \in Line /\ lines'[l].sku = lines[l].sku /\ lines'[l].quantity = n
        BY <1>b, <2>1, <2>2, <3>1 DEF Line
      <3>3. Lowers(l)
        BY <1>3, <2>1, <2>2 DEF UpdateItemCommit, Lowers
      <3> QED
        BY <1>b, <2>1, <2>2, <3>2, <3>3 DEF Moved
    <2>3. CASE lines'[l] = lines[l]
      BY <2>3 DEF Moved
    <2> QED
      BY <1>a, <1>3, <2>2, <2>3 DEF UpdateItemCommit, TablesOK, CallsKnowLines
  <1>4. ASSUME NEW m \in LineIds, RemoveItem(m)
        PROVE  Moved(l)
    BY <1>a, <1>b, <1>4 DEF RemoveItem, TablesOK, Moved
  <1>5. ASSUME NEW u \in Users, ClearCart(u)
        PROVE  Moved(l)
    BY <1>a, <1>b, <1>5 DEF ClearCart, LinesOf, TablesOK, Moved
  <1>6. ASSUME NEW c \in CartCalls, MergeCommit(c)
        PROVE  Moved(l)
    <2>1. cart'[c] = NoCall /\ cart[c].pc = "merge"
      BY <1>a, <1>6 DEF MergeCommit, CartsTypeOK
    <2>2. CASE \/ lines'[l] = lines[l]
               \/ lines[l] = None /\ lines'[l] \in Line /\ lines'[l].quantity > 0
      BY <2>2 DEF Moved
    <2>3. CASE /\ lines[l] \in Line /\ lines'[l] \in Line
               /\ \E k \in Skus : /\ cart[c].found[k] = l /\ cart[c].write[k] > 0
                                  /\ lines'[l] = [lines[l] EXCEPT !.quantity = cart[c].write[k]]
      <3>1. PICK k \in Skus : /\ cart[c].found[k] = l /\ cart[c].write[k] > 0
                              /\ lines'[l] = [lines[l] EXCEPT !.quantity = cart[c].write[k]]
        BY <2>3
      <3>2. IsLine(l) /\ lines[l].sku = k
        BY <1>a, <2>1, <2>3, <3>1, SkuAssumption, LineAssumption DEF CallsKnowLines, IsLine
      <3>3. cart[c].write[k] \in Int /\ lines[l].quantity \in Int
        BY <1>a, <2>3 DEF CartsTypeOK, CartCall, Line
      <3>4. lines'[l].sku = k /\ lines'[l].quantity = cart[c].write[k]
        BY <2>3, <3>1, <3>2 DEF Line
      <3>5. lines'[l].quantity >= lines[l].quantity \/ Lowers(l)
        BY <2>1, <3>1, <3>2, <3>3, <3>4 DEF Lowers
      <3> QED
        BY <2>3, <3>1, <3>2, <3>4, <3>5 DEF Moved
    <2> QED
      BY <1>6, <2>2, <2>3, MergeLines
  <1>7. ASSUME NEW m \in LineIds, IsLine(m), NEW e \in Expiry,
               lines' = [lines EXCEPT ![m].expires = e]
        PROVE  Moved(l)
    <2>1. CASE m = l
      <3>1. lines'[l] = [lines[l] EXCEPT !.expires = e]
        BY <1>a, <1>7, <2>1 DEF TablesOK
      <3>2. /\ lines'[l] \in Line
            /\ lines'[l].sku = lines[l].sku /\ lines'[l].quantity = lines[l].quantity
        BY <1>b, <1>7, <2>1, <3>1 DEF Line
      <3> QED
        BY <1>b, <1>7, <2>1, <3>2 DEF Moved
    <2>2. CASE m # l
      BY <1>a, <1>7, <2>2 DEF TablesOK, Moved
    <2> QED
      BY <2>1, <2>2
  <1>8. ASSUME NEW m \in LineIds, Expire(m)
        PROVE  Moved(l)
    BY <1>7, <1>8 DEF Expire, Expiry
  <1>9. ASSUME NEW i \in Crons, NEW s \in todo[i], ReleaseExpired(i, s)
        PROVE  Moved(l)
    <2>1. s.line \in LineIds
      BY DEF IInv, TypeOK, CleanupTypeOK, Snapshot
    <2> QED
      BY <1>7, <1>9, <2>1 DEF ReleaseExpired, Releasable, Expiry
  <1>10. CASE UNCHANGED lines
    BY <1>10 DEF Moved
  <1>11. CASE OrdersNext
    BY <1>1, <1>10, <1>11
       DEF OrdersNext, OrdersStep, UpdateRead, UpdateWrite, RestoreItem, LogReturn,
           AddTimelineEntry, CancelRead, CancelCommit, Abandon, tables
  <1>12. CASE CartsNext
    BY <1>2, <1>3, <1>4, <1>5, <1>6, <1>8, <1>10, <1>12
       DEF CartsNext, UpdateItemRead, MergeRead, AbandonCartCall, tables
  <1>13. CASE CleanupNext
    BY <1>9, <1>10, <1>13
       DEF CleanupNext, CleanupRun, StartCleanup, CleanupFails, CleanupStops, tables
  <1> QED
    BY <1>10, <1>11, <1>12, <1>13 DEF Next, vars, tables

(* A cart call keeps knowing the lines it found: their ids are not reused. *)
LEMMA CallsStep == IInv /\ [Next]_vars => CallsKnowLines'
  <1> SUFFICES ASSUME IInv, [Next]_vars PROVE CallsKnowLines'
    OBVIOUS
  <1> DEFINE Knows(q) ==
        /\ q.pc = "update" => q.line \in LineIds
        /\ q.pc = "merge" =>
              /\ q.user \in Users
              /\ \A k \in Skus : q.found[k] # None =>
                    /\ lines[q.found[k]] # None
                    /\ IsLine(q.found[k]) => lines[q.found[k]].sku = k
  <1>a. TablesOK /\ cart \in [CartCalls -> CartCall]
    BY DEF IInv, TypeOK, CartsTypeOK
  <1>b. \A c \in CartCalls : Knows(cart[c])
    BY DEF IInv, CallsKnowLines
  <1>c. Knows(NoCall)
    BY DEF NoCall
  <1>d. \A l \in LineIds : lines[l] # None =>
            lines'[l] # None /\ (IsLine(l)' => IsLine(l) /\ lines'[l].sku = lines[l].sku)
    BY LineMoves, LineAssumption, SkuAssumption DEF Moved, IsLine
  <1>1. ASSUME NEW c \in CartCalls, NEW l \in LineIds, NEW n \in 1..MaxLineQty,
               UpdateItemRead(c, l, n)
        PROVE  \A d \in CartCalls : Knows(cart'[d])
    <2>1. Knows(cart'[c])
      BY <1>a, <1>1 DEF UpdateItemRead, NoCall
    <2> HIDE DEF Knows
    <2> QED
      BY <1>a, <1>b, <1>1, <2>1 DEF UpdateItemRead
  <1>2. ASSUME NEW c \in CartCalls, NEW u \in Users, NEW n \in [Skus -> 0..MaxLineQty],
               MergeRead(c, u, n)
        PROVE  \A d \in CartCalls : Knows(cart'[d])
    <2>1. PICK found \in [Skus -> LineIds \cup {None}] :
            /\ \A k \in Skus : IF Merged(n, k) > 0 THEN found[k] \in FoundLines(u, k)
                                                 ELSE found[k] = None
            /\ \E w : cart' = [cart EXCEPT ![c] = [NoCall EXCEPT !.pc = "merge", !.user = u,
                                                  !.found = found, !.write = w]]
      BY <1>2 DEF MergeRead
    <2>2. \A k \in Skus : found[k] # None => IsLine(found[k]) /\ lines[found[k]].sku = k
      BY <2>1 DEF FoundLines, LinesFor, LinesOf
    <2>3. cart'[c].pc = "merge" /\ cart'[c].user = u /\ cart'[c].found = found
      BY <1>a, <2>1 DEF NoCall
    <2>4. Knows(cart'[c])
      BY <2>2, <2>3 DEF IsLine
    <2> HIDE DEF Knows
    <2> QED
      BY <1>a, <1>b, <2>1, <2>4
  <1>3. ASSUME NEW c \in CartCalls, cart' = [cart EXCEPT ![c] = NoCall]
        PROVE  \A d \in CartCalls : Knows(cart'[d])
    <2> HIDE DEF Knows
    <2> QED
      BY <1>a, <1>b, <1>c, <1>3
  <1>4. ASSUME UNCHANGED cart
        PROVE  \A d \in CartCalls : Knows(cart'[d])
    <2> HIDE DEF Knows
    <2> QED
      BY <1>b, <1>4
  <1>5. \A d \in CartCalls : Knows(cart'[d])
    <2> HIDE DEF Knows
    <2>1. CASE \E c \in CartCalls, l \in LineIds, n \in 1..MaxLineQty : UpdateItemRead(c, l, n)
      BY <1>1, <2>1
    <2>2. CASE \E c \in CartCalls, u \in Users, n \in [Skus -> 0..MaxLineQty] : MergeRead(c, u, n)
      BY <1>2, <2>2
    <2>3. CASE \E c \in CartCalls : cart' = [cart EXCEPT ![c] = NoCall]
      BY <1>3, <2>3
    <2>4. CASE UNCHANGED cart
      BY <1>4, <2>4
    <2> QED
      BY <2>1, <2>2, <2>3, <2>4
         DEF Next, CartsNext, AddToCart, Put, UpdateItemCommit, RemoveItem, ClearCart, MergeCommit,
             AbandonCartCall, Expire, vars
  <1>6. \A d \in CartCalls : cart'[d] \in CartCall
    BY TypeStep DEF TypeOK, CartsTypeOK
  <1> QED
    BY <1>5, <1>6, <1>d DEF CallsKnowLines, CartCall

(* Quantities stay positive: a cart line is never written with less than   *)
(* one unit, and a cleanup run never releases less than one.               *)
LEMMA PositiveStep == IInv /\ [Next]_vars => QuantitiesPositive'
  <1> SUFFICES ASSUME IInv, [Next]_vars PROVE QuantitiesPositive'
    OBVIOUS
  <1>a. TablesOK /\ CartsTypeOK /\ CleanupTypeOK /\ QuantitiesPositive
    BY DEF IInv, TypeOK
  <1>1. \A l \in LineIds : IsLine(l)' => lines'[l].quantity > 0
    <2> SUFFICES ASSUME NEW l \in LineIds, IsLine(l)' PROVE lines'[l].quantity > 0
      OBVIOUS
    <2>1. Moved(l)
      BY LineMoves
    <2> QED
      BY <1>a, <2>1 DEF Moved, QuantitiesPositive, IsLine
  <1>2. \A c \in CartCalls : cart'[c].pc = "update" => cart'[c].want > 0
    <2>1. ASSUME NEW c \in CartCalls, NEW l \in LineIds, NEW n \in 1..MaxLineQty,
                 UpdateItemRead(c, l, n)
          PROVE  \A d \in CartCalls : cart'[d].pc = "update" => cart'[d].want > 0
      <3>1. cart'[c].want > 0
        BY <1>a, <2>1, CartsAssumption DEF UpdateItemRead, NoCall, CartsTypeOK
      <3> QED
        BY <1>a, <2>1, <3>1 DEF UpdateItemRead, CartsTypeOK, QuantitiesPositive
    <2>2. ASSUME NEW c \in CartCalls, NEW q, q.pc # "update", cart' = [cart EXCEPT ![c] = q]
          PROVE  \A d \in CartCalls : cart'[d].pc = "update" => cart'[d].want > 0
      BY <1>a, <2>2 DEF CartsTypeOK, QuantitiesPositive
    <2>3. CASE UNCHANGED cart
      BY <1>a, <2>3 DEF QuantitiesPositive
    <2>4. ASSUME NEW c \in CartCalls, NEW u \in Users, NEW n \in [Skus -> 0..MaxLineQty],
                 MergeRead(c, u, n)
          PROVE  \E q : q.pc # "update" /\ cart' = [cart EXCEPT ![c] = q]
      <3>1. PICK f, w : cart' = [cart EXCEPT ![c] = [NoCall EXCEPT !.pc = "merge", !.user = u,
                                                    !.found = f, !.write = w]]
        BY <2>4 DEF MergeRead
      <3>2. [NoCall EXCEPT !.pc = "merge", !.user = u, !.found = f, !.write = w].pc = "merge"
        BY DEF NoCall
      <3> QED
        BY <3>1, <3>2
    <2>5. NoCall.pc # "update"
      BY DEF NoCall
    <2> QED
      BY <2>1, <2>2, <2>3, <2>4, <2>5
         DEF Next, CartsNext, AddToCart, Put, UpdateItemCommit, RemoveItem, ClearCart, MergeCommit,
             AbandonCartCall, Expire, vars
  <1>3. \A i \in Crons : \A s \in todo'[i] : s.quantity > 0
    <2>1. ASSUME NEW i \in Crons, StartCleanup(i)
          PROVE  \A j \in Crons : \A s \in todo'[j] : s.quantity > 0
      <3>1. \A s \in todo'[i] : s.quantity > 0
        BY <1>a, <2>1 DEF StartCleanup, ExpiredLines, QuantitiesPositive, CleanupTypeOK
      <3> QED
        BY <1>a, <2>1, <3>1 DEF StartCleanup, QuantitiesPositive, CleanupTypeOK
    <2>2. ASSUME NEW i \in Crons, NEW t \in SUBSET todo[i], todo' = [todo EXCEPT ![i] = t]
          PROVE  \A j \in Crons : \A s \in todo'[j] : s.quantity > 0
      BY <1>a, <2>2 DEF QuantitiesPositive, CleanupTypeOK
    <2>3. CASE UNCHANGED todo
      BY <1>a, <2>3 DEF QuantitiesPositive
    <2> QED
      BY <2>1, <2>2, <2>3
         DEF Next, CleanupNext, CleanupRun, ReleaseExpired, CleanupFails, CleanupStops,
             cleanupVars, vars
  <1> QED
    BY <1>1, <1>2, <1>3 DEF QuantitiesPositive

-----------------------------------------------------------------------------
(* The invariant holds in every reachable state.                           *)
THEOREM Invariance == Spec => []IInv
  <1>1. IInv /\ [Next]_vars => IInv'
    BY TypeStep, RequestsStep, CallsStep, PositiveStep DEF IInv
  <1> QED
    BY InitIInv, <1>1, PTL DEF Spec

(* Type correctness of the shop's tables, of the requests in flight and of *)
(* the cleanup's snapshots.                                                *)
THEOREM TypeCorrect == Spec => []TypeOK
  <1>1. IInv => TypeOK
    BY DEF IInv
  <1> QED
    BY Invariance, <1>1, PTL

(* A delivered, cancelled or refunded order changes status only by the     *)
(* write of an update() or cancel() that read it before it became so.      *)
THEOREM TerminalIsLeftByStaleRequests == Spec => TerminalLeftOnlyByStaleRequest
  <1>1. IInv /\ [Next]_vars =>
          [\A o \in OrderIds :
              orders[o] # None /\ orders[o].status \in Terminal
                /\ orders'[o].status # orders[o].status
              => \E r \in Requests : /\ req[r].order = o
                                     /\ req[r].pc \in {"write", "cancel"}
                                     /\ req[r].seen \notin Terminal]_vars
    BY OrderMoves DEF IInv, RequestsKnowOrders
  <1> QED
    BY Invariance, <1>1, PTL DEF Spec, TerminalLeftOnlyByStaleRequest

(* A cart line loses units only by an update of it or a stale merge.       *)
THEOREM LinesFallKnowingly == Spec => LineFallsOnlyByUpdateOrStaleMerge
  <1>1. IInv /\ [Next]_vars =>
          [\A l \in LineIds :
              IsLine(l) /\ IsLine(l)' /\ lines'[l].quantity < lines[l].quantity
              => \E c \in CartCalls :
                    /\ cart'[c] = NoCall
                    /\ \/ cart[c].pc = "update" /\ cart[c].line = l
                       \/ /\ cart[c].pc = "merge"
                          /\ cart[c].found[lines[l].sku] = l
                          /\ cart[c].write[lines[l].sku] < lines[l].quantity]_vars
    <2> SUFFICES ASSUME IInv, [Next]_vars, NEW l \in LineIds, IsLine(l), IsLine(l)',
                        lines'[l].quantity < lines[l].quantity
                 PROVE  Lowers(l)
      BY DEF Lowers
    <2>1. Moved(l)
      BY LineMoves
    <2>2. (lines[l] \in Line /\ lines'[l] \in Line) \/ Lowers(l)
      BY <2>1 DEF Moved, IsLine, IInv, TypeOK, TablesOK
    <2> QED
      BY <2>1, <2>2 DEF Moved, IsLine, Line
  <1> QED
    BY Invariance, <1>1, PTL DEF Spec, LineFallsOnlyByUpdateOrStaleMerge

(* A step of the shop moves what is available of a row upwards only, by a  *)
(* release of the cleanup.                                                 *)
LEMMA AvailabilityMoves ==
  ASSUME IInv, [Next]_vars, NEW p \in Products, inventory[p] # None
  PROVE  \/ Available(inventory'[p]) = Available(inventory[p])
         \/ todo' # todo /\ Available(inventory'[p]) > Available(inventory[p])
  <1>a. /\ TablesOK /\ CleanupTypeOK /\ inventory[p] \in Row
        /\ inventory[p].stock \in Int /\ inventory[p].reserved \in Int
    BY DEF IInv, TypeOK, TablesOK, Row
  <1>1. ASSUME NEW o \in OrderIds, NEW u, NEW q \in [Skus -> 0..MaxQty],
               NEW n \in 1..MaxEntries, NEW s, CreateOrder(o, u, q, n, s)
        PROVE  Available(inventory'[p]) = Available(inventory[p])
    <2> DEFINE items == [k \in Skus |-> n * q[k]]
               m == UnitsFrom(items, p)
    <2>1. items \in [Skus -> Nat]
      BY ItemsType
    <2>2. inventory' = Sold(items)
      BY <1>1 DEF CreateOrder
    <2> HIDE DEF items
    <2>3. inventory'[p] = [inventory[p] EXCEPT !.stock = inventory[p].stock - m,
                                               !.reserved = inventory[p].reserved - m]
      BY <1>a, <2>2 DEF Sold
    <2>4. m \in Int
      BY <1>a, <2>1, UnitsFromType
    <2> HIDE DEF m
    <2>5. /\ inventory'[p].stock = inventory[p].stock - m
          /\ inventory'[p].reserved = inventory[p].reserved - m
      BY <1>a, <2>3 DEF Row
    <2> QED
      BY <1>a, <2>4, <2>5 DEF Available
  <1>2. ASSUME NEW u \in Users, NEW k \in Skus, NEW n \in 1..MaxLineQty, AddToCart(u, k, n)
        PROVE  inventory'[p] = inventory[p]
    <2>1. CASE HasRow(k)
      BY <1>2, <2>1 DEF AddToCart, Put, WithRow
    <2>2. CASE ~HasRow(k)
      <3>1. inventory[ProductOf(k)] = None
        BY <1>2, <2>2 DEF AddToCart, Put, RowInsertable
      <3> QED
        BY <1>a, <1>2, <2>2, <3>1, ProductOfSku DEF AddToCart, Put, WithRow, TablesOK
    <2> QED
      BY <2>1, <2>2
  <1>3. ASSUME NEW i \in Crons, NEW s \in todo[i], ReleaseExpired(i, s)
        PROVE  \/ Available(inventory'[p]) = Available(inventory[p])
               \/ todo' # todo /\ Available(inventory'[p]) > Available(inventory[p])
    <2>1. todo' # todo
      BY <1>a, <1>3 DEF ReleaseExpired, CleanupTypeOK
    <2>2. CASE RowOf(s.sku) = p
      <3> DEFINE j == inventory[p].reserved - s.quantity
      <3>1. inventory'[p] = [inventory[p] EXCEPT !.reserved = j]
        BY <1>a, <1>3, <2>2 DEF ReleaseExpired, TablesOK
      <3>2. s.quantity \in Int /\ s.quantity > 0
        BY <1>a DEF CleanupTypeOK, Snapshot, IInv, QuantitiesPositive
      <3>3. j \in Int /\ j < inventory[p].reserved
        BY <1>a, <3>2
      <3> HIDE DEF j
      <3>4. inventory'[p].stock = inventory[p].stock /\ inventory'[p].reserved = j
        BY <1>a, <3>1 DEF Row
      <3> QED
        BY <1>a, <2>1, <3>3, <3>4 DEF Available
    <2>3. CASE RowOf(s.sku) # p
      BY <1>a, <1>3, <2>3 DEF ReleaseExpired, TablesOK
    <2> QED
      BY <2>2, <2>3
  <1>4. CASE UNCHANGED inventory
    BY <1>4
  <1>5. CASE OrdersNext
    BY <1>1, <1>4, <1>5
       DEF OrdersNext, OrdersStep, UpdateRead, UpdateWrite, RestoreItem, LogReturn,
           AddTimelineEntry, CancelRead, CancelCommit, Abandon, tables
  <1>6. CASE CartsNext
    BY <1>2, <1>4, <1>6
       DEF CartsNext, UpdateItemRead, UpdateItemCommit, RemoveItem, ClearCart, MergeRead,
           MergeCommit, AbandonCartCall, Expire, tables
  <1>7. CASE CleanupNext
    BY <1>3, <1>4, <1>7
       DEF CleanupNext, CleanupRun, StartCleanup, CleanupFails, CleanupStops, tables
  <1> QED
    BY <1>4, <1>5, <1>6, <1>7 DEF Next, vars, tables

(* Selling does not move what can be sold: stock - reserved of a row goes  *)
(* up by the cleanup of an expired cart line and never otherwise.          *)
THEOREM SalesLeaveAvailability == Spec => AvailabilityMovesOnlyByCleanup
  <1>1. IInv /\ [Next]_vars =>
          [\A p \in Products : inventory[p] # None =>
              \/ Available(inventory'[p]) = Available(inventory[p])
              \/ todo' # todo /\ Available(inventory'[p]) > Available(inventory[p])]_vars
    BY AvailabilityMoves
  <1> QED
    BY Invariance, <1>1, PTL DEF Spec, AvailabilityMovesOnlyByCleanup

-----------------------------------------------------------------------------
(* What the stock of a row is: no sale is lost or counted twice            *)

(* The rows that were there at the start stay, and name no variant.        *)
StockedRows == \A p \in Stocked : inventory[p] # None /\ inventory[p].variant = None

(* What a step may do to the orders placed and to the rows: place one      *)
(* order, whose units it takes from every row, or leave the items of every *)
(* order, and the stock and the variant of every row, as they were.        *)
Places(o, items) ==
    /\ orders[o] = None /\ orders'[o] # None /\ orders'[o].items = items
    /\ \A x \in OrderIds : x # o => orders'[x] = orders[x]
    /\ inventory' = Sold(items)

KeepsItems ==
    \A o \in OrderIds :
        /\ orders'[o] = None <=> orders[o] = None
        /\ orders[o] # None => orders'[o].items = orders[o].items

KeepsStock(p) ==
    inventory[p] # None =>
        /\ inventory'[p] # None
        /\ inventory'[p].variant = inventory[p].variant
        /\ inventory'[p].stock = inventory[p].stock

(* A request in flight places no order and changes no items.               *)
LEMMA RequestsPlaceNothing ==
  ASSUME IInv, [Next]_vars, NEW r \in Requests, OrdersStep(r)
  PROVE  KeepsItems
  <1>a. TablesOK
    BY DEF IInv, TypeOK
  <1>1. ASSUME \A o \in OrderIds : orders[o] = None => orders'[o] = None
        PROVE  KeepsItems
    BY <1>1, OrderMoves DEF KeepsItems
  <1>2. ASSUME UpdateWrite(r) \/ CancelCommit(r), NEW o \in OrderIds, orders[o] = None
        PROVE  orders'[o] = None
    <2>1. req[r].order # o
      BY <1>2 DEF UpdateWrite, CancelCommit, IInv, RequestsKnowOrders
    <2> QED
      BY <1>a, <1>2, <2>1 DEF UpdateWrite, CancelCommit, TablesOK
  <1> QED
    BY <1>1, <1>2
       DEF OrdersStep, UpdateRead, RestoreItem, LogReturn, AddTimelineEntry, CancelRead,
           Abandon, tables

(* A step places one order or leaves the stock alone.                      *)
LEMMA StockMoves ==
  IInv /\ [Next]_vars =>
    \/ \E o \in OrderIds, items \in [Skus -> Nat] : Places(o, items)
    \/ KeepsItems /\ \A p \in Products : KeepsStock(p)
  <1> SUFFICES ASSUME IInv, [Next]_vars
               PROVE  \/ \E o \in OrderIds, items \in [Skus -> Nat] : Places(o, items)
                      \/ KeepsItems /\ \A p \in Products : KeepsStock(p)
    OBVIOUS
  <1>a. TablesOK /\ CleanupTypeOK
    BY DEF IInv, TypeOK
  <1>b. \A p \in Products : inventory[p] # None =>
            /\ inventory[p] \in Row
            /\ inventory[p].stock \in Int /\ inventory[p].reserved \in Int
    BY <1>a DEF TablesOK, Row
  <1>c. ASSUME UNCHANGED inventory PROVE \A p \in Products : KeepsStock(p)
    BY <1>c DEF KeepsStock
  <1>1. ASSUME NEW o \in OrderIds, NEW u \in Users \cup {None}, NEW q \in [Skus -> 0..MaxQty],
               NEW n \in 1..MaxEntries, NEW s \in CreateStatuses, CreateOrder(o, u, q, n, s)
        PROVE  \E items \in [Skus -> Nat] : Places(o, items)
    <2> DEFINE items == [k \in Skus |-> n * q[k]]
    <2>1. items \in [Skus -> Nat]
      BY ItemsType
    <2>2. /\ orders[o] = None
          /\ orders' = [orders EXCEPT ![o] = [owner |-> u, status |-> s, items |-> items]]
          /\ inventory' = Sold(items)
      BY <1>1 DEF CreateOrder
    <2> HIDE DEF items
    <2>3. orders'[o] = [owner |-> u, status |-> s, items |-> items]
      BY <1>a, <2>2 DEF TablesOK
    <2>4. orders'[o] # None
      BY <2>1, <2>3, OrdersAssumption, OrderAssumption DEF Order
    <2>5. orders'[o].items = items
      BY <2>3
    <2>6. \A x \in OrderIds : x # o => orders'[x] = orders[x]
      BY <1>a, <2>2 DEF TablesOK
    <2>7. Places(o, items)
      BY <2>2, <2>4, <2>5, <2>6 DEF Places
    <2> QED
      BY <2>1, <2>7
  <1>2. ASSUME \A o \in OrderIds : orders[o] = None => orders'[o] = None
        PROVE  KeepsItems
    BY <1>2, OrderMoves DEF KeepsItems
  <1>3. ASSUME NEW r \in Requests, OrdersStep(r)
        PROVE  KeepsItems /\ \A p \in Products : KeepsStock(p)
    <2>1. UNCHANGED inventory
      BY <1>3 DEF OrdersStep, UpdateRead, UpdateWrite, RestoreItem, LogReturn, AddTimelineEntry,
                  CancelRead, CancelCommit, Abandon, tables
    <2> QED
      BY <1>3, <1>c, <2>1, RequestsPlaceNothing
  <1>4. ASSUME UNCHANGED orders, \A p \in Products : KeepsStock(p)
        PROVE  KeepsItems /\ \A p \in Products : KeepsStock(p)
    BY <1>2, <1>4
  <1>5. ASSUME NEW u \in Users, NEW k \in Skus, NEW n \in 1..MaxLineQty, AddToCart(u, k, n)
        PROVE  \A p \in Products : KeepsStock(p)
    <2>1. inventory' = WithRow(k) /\ (HasRow(k) \/ inventory[ProductOf(k)] = None)
      BY <1>5 DEF AddToCart, Put, RowInsertable
    <2>2. \A p \in Products : inventory[p] # None => inventory'[p] = inventory[p]
      BY <1>a, <2>1, ProductOfSku DEF WithRow, TablesOK
    <2> QED
      BY <2>2 DEF KeepsStock
  <1>6. ASSUME NEW i \in Crons, NEW s \in todo[i], ReleaseExpired(i, s), NEW p \in Products
        PROVE  KeepsStock(p)
    <2>1. CASE RowOf(s.sku) = p /\ inventory[p] # None
      <3> DEFINE j == inventory[p].reserved - s.quantity
      <3>1. inventory'[p] = [inventory[p] EXCEPT !.reserved = j]
        BY <1>a, <1>6, <2>1 DEF ReleaseExpired, TablesOK
      <3>2. j \in Int
        BY <1>a, <1>b, <2>1 DEF CleanupTypeOK, Snapshot
      <3> HIDE DEF j
      <3>3. /\ inventory'[p] \in Row
            /\ inventory'[p].stock = inventory[p].stock /\ inventory'[p].variant = inventory[p].variant
        BY <1>b, <2>1, <3>1, <3>2 DEF Row
      <3> QED
        BY <3>3, RowAssumption DEF KeepsStock
    <2>2. CASE RowOf(s.sku) # p
      BY <1>a, <1>6, <2>2 DEF ReleaseExpired, TablesOK, KeepsStock
    <2> QED
      BY <2>1, <2>2 DEF KeepsStock
  <1>7. CASE OrdersNext
    BY <1>1, <1>3, <1>7 DEF OrdersNext
  <1>8. CASE CartsNext
    BY <1>4, <1>5, <1>c, <1>8
       DEF CartsNext, AddToCart, UpdateItemRead, UpdateItemCommit, RemoveItem, ClearCart,
           MergeRead, MergeCommit, AbandonCartCall, Expire, tables
  <1>9. CASE CleanupNext
    BY <1>4, <1>6, <1>c, <1>9
       DEF CleanupNext, CleanupRun, StartCleanup, ReleaseExpired, CleanupFails, CleanupStops, tables
  <1> QED
    BY <1>4, <1>c, <1>7, <1>8, <1>9 DEF Next, vars, tables

(* An order that is placed takes its units from every row, no other field  *)
(* than stock and reserved changes.                                        *)
LEMMA SoldRows ==
  ASSUME TablesOK, NEW items \in [Skus -> Nat], inventory' = Sold(items),
         NEW p \in Products, inventory[p] # None
  PROVE  /\ inventory'[p] # None
         /\ inventory'[p].variant = inventory[p].variant
         /\ inventory[p].stock \in Int /\ UnitsFrom(items, p) \in Nat
         /\ inventory'[p].stock = inventory[p].stock - UnitsFrom(items, p)
  <1> DEFINE m == UnitsFrom(items, p)
             row == inventory[p]
  <1>1. row \in Row /\ m \in Nat
    BY UnitsFromType DEF TablesOK
  <1>2. inventory'[p] = [row EXCEPT !.stock = row.stock - m, !.reserved = row.reserved - m]
    BY DEF Sold
  <1> HIDE DEF m, row
  <1>3. row.stock \in Int /\ row.stock - m \in Int /\ row.reserved - m \in Int
    BY <1>1 DEF Row
  <1>4. /\ inventory'[p] \in Row /\ inventory'[p].stock = row.stock - m
        /\ inventory'[p].variant = row.variant
    BY <1>1, <1>2, <1>3 DEF Row
  <1> QED
    BY <1>1, <1>3, <1>4, RowAssumption DEF m, row

(* The units taken from a row that is there are natural numbers.           *)
LEMMA TakenType ==
  ASSUME TablesOK, NEW p \in Products, inventory[p] # None
  PROVE  Taken(p) \in [OrderIds -> Nat]
  <1>1. ASSUME NEW o \in OrderIds, orders[o] # None
        PROVE  UnitsFrom(orders[o].items, p) \in Nat
    <2>1. orders[o].items \in [Skus -> Nat]
      BY <1>1 DEF TablesOK, Order
    <2> QED
      BY <2>1, UnitsFromType
  <1> QED
    BY <1>1 DEF Taken

(* A step changes the units taken from a row by those it takes from it.    *)
LEMMA StockAndTaken ==
  ASSUME IInv, [Next]_vars, NEW p \in Products, inventory[p] # None
  PROVE  /\ inventory'[p] # None /\ inventory'[p].variant = inventory[p].variant
         /\ inventory[p].stock \in Int
         /\ SumFunction(Taken(p)) \in Int /\ SumFunction(Taken(p)') \in Int
         /\ inventory'[p].stock + SumFunction(Taken(p)')
               = inventory[p].stock + SumFunction(Taken(p))
  <1>a. TablesOK /\ TablesOK' /\ inventory[p].stock \in Int /\ IsFiniteSet(OrderIds)
    BY TypeStep, StorefrontAssumption DEF IInv, TypeOK, TablesOK, Row
  <1>1. ASSUME NEW o \in OrderIds, NEW items \in [Skus -> Nat], Places(o, items)
        PROVE  /\ inventory'[p] # None /\ inventory'[p].variant = inventory[p].variant
               /\ SumFunction(Taken(p)) \in Int /\ SumFunction(Taken(p)') \in Int
               /\ inventory'[p].stock + SumFunction(Taken(p)')
                     = inventory[p].stock + SumFunction(Taken(p))
    <2>1. /\ inventory'[p] # None /\ inventory'[p].variant = inventory[p].variant
          /\ UnitsFrom(items, p) \in Nat
          /\ inventory'[p].stock = inventory[p].stock - UnitsFrom(items, p)
      BY <1>1, <1>a, SoldRows DEF Places
    <2>2. UnitsFrom(items, p)' = UnitsFrom(items, p)
      BY <2>1 DEF UnitsFrom
    <2>3. Taken(p) \in [OrderIds -> Int] /\ Taken(p)' \in [OrderIds -> Int]
      <3>1. Taken(p) \in [OrderIds -> Nat]
        BY <1>a, TakenType
      <3>2. Taken(p)' \in [OrderIds -> Nat]
        <4>1. ASSUME NEW x \in OrderIds, orders'[x] # None
              PROVE  UnitsFrom(orders[x].items, p)' \in Nat
          <5>1. orders'[x].items \in [Skus -> Nat]
            BY <1>a, <4>1 DEF TablesOK, Order
          <5>2. inventory'[p] \in Row
            BY <1>a, <2>1 DEF TablesOK
          <5> QED
            BY <5>1, <5>2 DEF UnitsFrom, Row, Skus
        <4> QED
          BY <4>1 DEF Taken
      <3> QED
        BY <3>1, <3>2
    <2>4. Taken(p)[o] = 0 /\ Taken(p)'[o] = UnitsFrom(items, p)
      BY <1>1, <2>2 DEF Taken, Places
    <2>5. \A x \in OrderIds : x # o => Taken(p)[x] = Taken(p)'[x]
      BY <1>1, <2>1 DEF Taken, Places, UnitsFrom
    <2> DEFINE f == Taken(p)
               h == Taken(p)'
    <2>6. /\ f \in [OrderIds -> Int] /\ h \in [OrderIds -> Int]
          /\ f[o] = 0 /\ h[o] = UnitsFrom(items, p)
          /\ \A x \in OrderIds : x # o => f[x] = h[x]
      BY <2>3, <2>4, <2>5
    <2> HIDE DEF f, h
    <2>7. /\ SumFunction(f) \in Int /\ SumFunction(h) \in Int
          /\ SumFunction(h) = SumFunction(f) - f[o] + h[o]
      BY <1>a, <2>6, OneTermChanges
    <2>8. inventory'[p].stock + SumFunction(h) = inventory[p].stock + SumFunction(f)
      BY <1>a, <2>1, <2>6, <2>7
    <2> QED
      BY <2>1, <2>7, <2>8 DEF f, h
  <1>2. CASE KeepsItems /\ \A x \in Products : KeepsStock(x)
    <2>1. KeepsStock(p)
      BY <1>2
    <2>2. \A o \in OrderIds : Taken(p)'[o] = Taken(p)[o]
      BY <1>2, <2>1 DEF Taken, KeepsItems, KeepsStock, UnitsFrom
    <2>3. Taken(p)' = Taken(p)
      BY <2>2 DEF Taken
    <2>4. Taken(p) \in [OrderIds -> Int]
      BY <1>a, TakenType
    <2>5. SumFunction(Taken(p)) \in Int
      BY <1>a, <2>4, WholeSumType
    <2> DEFINE f == Taken(p)
               h == Taken(p)'
    <2>6. h = f /\ SumFunction(f) \in Int
      BY <2>3, <2>5
    <2> HIDE DEF f, h
    <2>7. SumFunction(h) = SumFunction(f) /\ SumFunction(h) \in Int
      BY <2>6
    <2>8. /\ inventory'[p] # None /\ inventory'[p].variant = inventory[p].variant
          /\ inventory'[p].stock + SumFunction(h) = inventory[p].stock + SumFunction(f)
      BY <2>1, <2>7 DEF KeepsStock
    <2> QED
      BY <1>a, <2>6, <2>7, <2>8 DEF f, h
  <1> QED
    BY <1>a, <1>1, <1>2, StockMoves

(* Opening stock: the rows, and what they hold.                            *)
StockInv == StockedRows /\ StockIsOpeningLessOrdered

(* It holds at the start: nothing is ordered.                              *)
LEMMA StockInit == Init => StockInv
  <1> SUFFICES ASSUME Init, NEW p \in Stocked
               PROVE  /\ inventory[p] # None /\ inventory[p].variant = None
                      /\ inventory[p].stock = InitStock[p] - SumFunction(Taken(p))
    BY DEF StockInv, StockedRows, StockIsOpeningLessOrdered
  <1>1. p \in Products /\ InitStock[p] \in Nat /\ p \notin Variants
    BY StorefrontAssumption, SkuAssumption DEF Stocked
  <1>2. inventory[p] = [variant |-> None, stock |-> InitStock[p], reserved |-> 0]
    BY <1>1 DEF Init, NewRow, VariantIn
  <1>3. inventory[p] # None
    BY <1>1, <1>2, RowAssumption DEF Row
  <1>4. \A o \in OrderIds : Taken(p)[o] = 0
    BY DEF Init, OrdersInit, Taken
  <1>5. Taken(p) \in [OrderIds -> Int]
    BY <1>4 DEF Taken
  <1>6. SumFunction(Taken(p)) = 0
    BY <1>4, <1>5, WholeSumZero, StorefrontAssumption
  <1> QED
    BY <1>1, <1>2, <1>3, <1>6

(* A step keeps it: what an order takes from the row it adds to the taken. *)
LEMMA StockStep == IInv /\ StockInv /\ [Next]_vars => StockInv'
  <1> SUFFICES ASSUME IInv, StockInv, [Next]_vars, NEW p \in Stocked
               PROVE  /\ inventory'[p] # None /\ inventory'[p].variant = None
                      /\ inventory'[p].stock = InitStock[p] - SumFunction(Taken(p)')
    BY DEF StockInv, StockedRows, StockIsOpeningLessOrdered, Stocked
  <1> DEFINE f == SumFunction(Taken(p))
             h == SumFunction(Taken(p)')
  <1>1. p \in Products /\ InitStock[p] \in Int
    BY StorefrontAssumption DEF Stocked
  <1>2. /\ inventory[p] # None /\ inventory[p].variant = None
        /\ inventory[p].stock = InitStock[p] - f
    BY DEF StockInv, StockedRows, StockIsOpeningLessOrdered
  <1>3. /\ inventory'[p] # None /\ inventory'[p].variant = inventory[p].variant
        /\ inventory[p].stock \in Int /\ f \in Int /\ h \in Int
        /\ inventory'[p].stock + h = inventory[p].stock + f
    BY <1>1, <1>2, StockAndTaken
  <1>4. inventory'[p].stock \in Int
    BY <1>1, <1>3, TypeStep DEF TypeOK, TablesOK, Row
  <1> HIDE DEF f, h
  <1>5. inventory'[p].stock = InitStock[p] - h
    BY <1>1, <1>2, <1>3, <1>4
  <1> QED
    BY <1>2, <1>3, <1>5 DEF f, h

(* The stock of a row is what it was at the start less what was ordered.   *)
THEOREM SalesAreCountedOnce == Spec => []StockIsOpeningLessOrdered
  <1>1. StockInv => StockIsOpeningLessOrdered
    BY DEF StockInv
  <1> QED
    BY Invariance, StockInit, StockStep, <1>1, PTL DEF Spec

-----------------------------------------------------------------------------
(* Requests that put units back: what each of them owes                    *)

(* The units a request has still to log for its order, and those of them   *)
(* that it has put back already.                                           *)
Owes(q, k) == q.pc \in {"restore", "log"} /\ k \in q.pending
Logs(q, k) == q.pc = "log" /\ q.sku = k

OwedBy(q, o, k, u)    == IF q.order = o /\ Owes(q, k) THEN u ELSE 0
KeptBy(q, o, k, u)    == IF q.order = o /\ Owes(q, k) /\ ~Logs(q, k) THEN u ELSE 0
UnloggedBy(q, o, k, u) == IF q.order = o /\ Logs(q, k) THEN u ELSE 0

UnitsOf(o, k) == IF orders[o] = None THEN 0 ELSE orders[o].items[k]

Owed(o, k) == [r \in Requests |-> OwedBy(req[r], o, k, UnitsOf(o, k))]
Kept(k) == [r \in Requests |->
    IF req[r].pc = "idle" THEN 0
    ELSE KeptBy(req[r], req[r].order, k, UnitsOf(req[r].order, k))]
Unlogged(k) == [r \in Requests |->
    IF req[r].pc = "idle" THEN 0
    ELSE UnloggedBy(req[r], req[r].order, k, UnitsOf(req[r].order, k))]

(* What a step does to the counts of one sku k: request r, which works on  *)
(* order o, puts back m units, logs t, and voids or cancels the order, the *)
(* counts of which, in units of k, grow by v and c.                        *)
Works(q, o) == q.pc = "idle" \/ q.order = o

Effect(k, r, o, m, t, v, c) ==
    LET u == orders[o].items[k]
    IN  /\ orders[o] # None
        /\ \A i \in Requests : i # r => req'[i] = req[i]
        /\ Works(req[r], o) /\ Works(req'[r], o)
        /\ \A x \in OrderIds : x # o =>
              /\ returned'[x] = returned[x]
              /\ voids'[x] = voids[x] /\ cancels'[x] = cancels[x]
        /\ mirror'[k] = mirror[k] + m
        /\ returned'[o][k] = returned[o][k] + t
        /\ voids'[o] * u = voids[o] * u + v
        /\ cancels'[o] * u = cancels[o] * u + c
        /\ c <= t
        /\ t + OwedBy(req'[r], o, k, u) <= v + OwedBy(req[r], o, k, u)
        /\ t + UnloggedBy(req'[r], o, k, u) <= m + UnloggedBy(req[r], o, k, u)
        /\ m + KeptBy(req'[r], o, k, u) <= v + KeptBy(req[r], o, k, u)

(* A request logs an item it has yet to log, and one that is over holds    *)
(* nothing.                                                                *)
RequestsTidy ==
    \A r \in Requests :
        /\ req[r].pc = "log" => req[r].sku \in req[r].pending
        /\ req[r].pc = "idle" => req[r] = Idle

(* One more request voids an order of u units.                             *)
LEMMA OneMore == ASSUME NEW n \in Nat, NEW u \in Nat PROVE (n + 1) * u = n * u + u
  OBVIOUS

(* Every step of a request has such an effect, on every sku.               *)
LEMMA RequestEffects ==
  ASSUME IInv, RequestsTidy, NEW r \in Requests, OrdersStep(r), NEW k \in Skus
  PROVE  \E o \in OrderIds, m, t, v, c \in Nat : Effect(k, r, o, m, t, v, c)
  <1> DEFINE q == req[r]
  <1>a. /\ TablesOK /\ OrdersTypeOK /\ q \in Request
        /\ q.pc # "idle" => q.order \in OrderIds /\ orders[q.order] # None
    BY DEF IInv, TypeOK, OrdersTypeOK, RequestsKnowOrders
  <1>b. \A o \in OrderIds : orders[o] # None => orders[o].items \in [Skus -> Nat]
    BY <1>a DEF TablesOK, Order
  <1>c. \A o \in OrderIds : /\ voids[o] \in Nat /\ cancels[o] \in Nat
                            /\ returned[o] \in [Skus -> Nat]
    BY <1>a DEF OrdersTypeOK
  <1>d. mirror[k] \in Int
    BY <1>a DEF TablesOK
  <1>e. \A o \in OrderIds : orders[o] # None =>
            /\ orders[o].items[k] \in Nat
            /\ voids[o] * orders[o].items[k] \in Nat
            /\ cancels[o] * orders[o].items[k] \in Nat
            /\ (voids[o] + 1) * orders[o].items[k] = voids[o] * orders[o].items[k] + orders[o].items[k]
            /\ (cancels[o] + 1) * orders[o].items[k] = cancels[o] * orders[o].items[k] + orders[o].items[k]
    <2> TAKE o \in OrderIds
    <2> HAVE orders[o] # None
    <2> DEFINE u == orders[o].items[k]
               n == voids[o]
               c == cancels[o]
    <2>1. u \in Nat /\ n \in Nat /\ c \in Nat
      BY <1>b, <1>c
    <2> HIDE DEF u, n, c
    <2>2. n * u \in Nat /\ c * u \in Nat /\ (n + 1) * u = n * u + u /\ (c + 1) * u = c * u + u
      BY <2>1, OneMore
    <2> QED
      BY <2>1, <2>2 DEF u, n, c
  <1> DEFINE Quiet(o) ==
        /\ o \in OrderIds /\ orders[o] # None
        /\ \A i \in Requests : i # r => req'[i] = req[i]
        /\ Works(req[r], o) /\ Works(req'[r], o)
        /\ UNCHANGED <<voids, cancels>>
        /\ mirror'[k] = mirror[k] /\ returned'[o][k] = returned[o][k]
        /\ \A x \in OrderIds : x # o => returned'[x] = returned[x]
        /\ Owes(req'[r], k) => Owes(req[r], k)
        /\ Logs(req'[r], k) => Logs(req[r], k)
        /\ Owes(req'[r], k) /\ ~Logs(req'[r], k) => ~Logs(req[r], k)
        /\ req'[r].order = o => req[r].order = o \/ (~Owes(req'[r], k) /\ ~Logs(req'[r], k))
  <1>q. ASSUME NEW o, Quiet(o)
        PROVE  Effect(k, r, o, 0, 0, 0, 0)
    <2>1. /\ orders[o].items[k] \in Nat /\ returned[o][k] \in Nat
          /\ voids[o] * orders[o].items[k] \in Nat /\ cancels[o] * orders[o].items[k] \in Nat
      BY <1>q, <1>c, <1>e
    <2> DEFINE u == orders[o].items[k]
    <2>2. /\ OwedBy(req'[r], o, k, u) \in Nat /\ OwedBy(req[r], o, k, u) \in Nat
          /\ OwedBy(req'[r], o, k, u) <= OwedBy(req[r], o, k, u)
      BY <1>q, <2>1 DEF OwedBy
    <2>3. /\ UnloggedBy(req'[r], o, k, u) \in Nat /\ UnloggedBy(req[r], o, k, u) \in Nat
          /\ UnloggedBy(req'[r], o, k, u) <= UnloggedBy(req[r], o, k, u)
      BY <1>q, <2>1 DEF UnloggedBy
    <2>4. /\ KeptBy(req'[r], o, k, u) \in Nat /\ KeptBy(req[r], o, k, u) \in Nat
          /\ KeptBy(req'[r], o, k, u) <= KeptBy(req[r], o, k, u)
      BY <1>q, <2>1 DEF KeptBy
    <2> QED
      BY <1>q, <1>d, <2>1, <2>2, <2>3, <2>4 DEF Effect
  <1> HIDE DEF Quiet
  <1>n. 0 \in Nat
    OBVIOUS
  <1>s. ASSUME NEW o, Quiet(o)
        PROVE  \E p \in OrderIds, m, t, v, c \in Nat : Effect(k, r, p, m, t, v, c)
    <2>1. o \in OrderIds
      BY <1>s DEF Quiet
    <2> QED
      BY <1>s, <1>n, <1>q, <2>1
  <1>i. req \in [Requests -> Request] /\ ~Owes(Idle, k) /\ ~Logs(Idle, k)
    BY <1>a DEF OrdersTypeOK, Idle, Owes, Logs
  <1>1. ASSUME NEW o \in OrderIds, NEW s \in UpdateStatuses, UpdateRead(r, o, s)
        PROVE  Quiet(o)
    <2>1. req' = [req EXCEPT ![r] = [Idle EXCEPT !.pc = "write", !.order = o,
                                       !.seen = orders[o].status, !.new = s]]
      BY <1>1 DEF UpdateRead
    <2>2. req'[r].pc = "write" /\ req'[r].order = o /\ \A i \in Requests : i # r => req'[i] = req[i]
      BY <1>i, <2>1 DEF Idle
    <2> QED
      BY <1>1, <2>2 DEF UpdateRead, Open, Quiet, Owes, Logs, Works, Idle, tables
  <1>2. ASSUME NEW o \in OrderIds, CancelRead(r, o)
        PROVE  Quiet(o)
    <2>1. req' = [req EXCEPT ![r] = [Idle EXCEPT !.pc = "cancel", !.order = o,
                                       !.seen = orders[o].status, !.new = "CANCELLED"]]
      BY <1>2 DEF CancelRead
    <2>2. req'[r].pc = "cancel" /\ req'[r].order = o /\ \A i \in Requests : i # r => req'[i] = req[i]
      BY <1>i, <2>1 DEF Idle
    <2> QED
      BY <1>2, <2>2 DEF CancelRead, Open, Quiet, Owes, Logs, Works, Idle, tables
  <1>3. CASE AddTimelineEntry(r) \/ Abandon(r)
    <2>1. q.pc # "idle"
      BY <1>3 DEF AddTimelineEntry, Abandon, RequestsTidy
    <2>2. req' = [req EXCEPT ![r] = Idle] /\ UNCHANGED <<mirror, returned, voids, cancels>>
      BY <1>3 DEF AddTimelineEntry, Abandon, tables
    <2>3. req'[r] = Idle /\ \A i \in Requests : i # r => req'[i] = req[i]
      BY <1>i, <2>2
    <2>4. Works(Idle, q.order) /\ Works(q, q.order)
      BY DEF Works, Idle
    <2>5. Quiet(q.order)
      BY <1>a, <1>i, <2>1, <2>2, <2>3, <2>4 DEF Quiet
    <2> QED
      BY <1>s, <2>5
  <1>4. CASE UpdateWrite(r)
    <2>1. /\ q.pc = "write" /\ q.order \in OrderIds /\ orders[q.order] # None
          /\ UNCHANGED <<mirror, returned, cancels>>
      BY <1>4, <1>a DEF UpdateWrite
    <2>2. req'[r] = AfterWrite(q) /\ \A i \in Requests : i # r => req'[i] = req[i]
      BY <1>4, <1>i DEF UpdateWrite
    <2>3. ~Owes(q, k) /\ ~Logs(q, k)
      BY <2>1 DEF Owes, Logs
    <2>4. CASE q.new \in Voiding /\ q.new # q.seen
      <3> DEFINE o == q.order
                 u == orders[o].items[k]
      <3>1. voids' = [voids EXCEPT ![o] = voids[o] + 1]
        BY <1>4, <2>4 DEF UpdateWrite
      <3>2. u \in Nat /\ voids[o] * u \in Nat /\ cancels[o] * u \in Nat
            /\ (voids[o] + 1) * u = voids[o] * u + u
        BY <1>e, <2>1
      <3>3. voids'[o] = voids[o] + 1 /\ \A x \in OrderIds : x # o => voids'[x] = voids[x]
        BY <1>a, <2>1, <3>1 DEF OrdersTypeOK
      <3>4. req'[r] = [q EXCEPT !.pc = "restore", !.pending = SkusIn(o)]
        BY <2>2, <2>4 DEF AfterWrite
      <3>5. req'[r].pc = "restore" /\ req'[r].order = o
        BY <1>a, <3>4 DEF Request
      <3>6. Works(q, o) /\ Works(req'[r], o) /\ ~Logs(req'[r], k)
        BY <3>5 DEF Works, Logs
      <3>7. /\ OwedBy(q, o, k, u) = 0 /\ KeptBy(q, o, k, u) = 0 /\ UnloggedBy(q, o, k, u) = 0
            /\ UnloggedBy(req'[r], o, k, u) = 0
        BY <2>3, <3>6 DEF OwedBy, KeptBy, UnloggedBy
      <3>8. /\ OwedBy(req'[r], o, k, u) \in Nat /\ OwedBy(req'[r], o, k, u) <= u
            /\ KeptBy(req'[r], o, k, u) \in Nat /\ KeptBy(req'[r], o, k, u) <= u
        BY <3>2 DEF OwedBy, KeptBy
      <3>9. returned[o][k] \in Nat
        BY <1>c, <2>1
      <3>10. voids'[o] * u = voids[o] * u + u
        BY <3>2, <3>3
      <3>11. Effect(k, r, o, 0, 0, u, 0)
        BY <1>d, <2>1, <2>2, <3>2, <3>3, <3>6, <3>7, <3>8, <3>9, <3>10 DEF Effect
      <3> QED
        BY <1>n, <2>1, <3>2, <3>11
    <2>5. CASE ~(q.new \in Voiding /\ q.new # q.seen)
      <3>1. UNCHANGED voids
        BY <1>4, <2>5 DEF UpdateWrite
      <3>2. \/ req'[r] = Idle
            \/ req'[r].pc = "timeline" /\ req'[r].order = q.order
        BY <1>a, <2>2, <2>5 DEF AfterWrite, Request
      <3>3. ~Owes(req'[r], k) /\ ~Logs(req'[r], k) /\ Works(req'[r], q.order) /\ Works(q, q.order)
        BY <1>i, <3>2 DEF Owes, Logs, Works, Idle
      <3>4. Quiet(q.order)
        BY <2>1, <2>2, <3>1, <3>3 DEF Quiet
      <3> QED
        BY <1>s, <3>4
    <2> QED
      BY <2>4, <2>5
  <1>5. CASE RestoreItem(r)
    <2>1. /\ q.pc = "restore" /\ q.order \in OrderIds /\ orders[q.order] # None
          /\ UNCHANGED <<returned, voids, cancels>>
      BY <1>5, <1>a DEF RestoreItem
    <2>2. PICK j \in q.pending :
            /\ mirror' = [mirror EXCEPT ![j] = mirror[j] + orders[q.order].items[j]]
            /\ req' = [req EXCEPT ![r] = [q EXCEPT !.pc = "log", !.sku = j]]
      BY <1>5 DEF RestoreItem
    <2>3. req'[r] = [q EXCEPT !.pc = "log", !.sku = j] /\ \A i \in Requests : i # r => req'[i] = req[i]
      BY <1>i, <2>2
    <2>4. /\ req'[r].pc = "log" /\ req'[r].sku = j /\ req'[r].order = q.order
          /\ req'[r].pending = q.pending
      BY <1>a, <2>3 DEF Request
    <2>5. Works(q, q.order) /\ Works(req'[r], q.order) /\ ~Logs(q, k)
      BY <2>1, <2>4 DEF Works, Logs
    <2>6. CASE j = k
      <3> DEFINE o == q.order
                 u == orders[o].items[k]
      <3>1. u \in Nat /\ voids[o] * u \in Nat /\ cancels[o] * u \in Nat /\ returned[o][k] \in Nat
        BY <1>c, <1>e, <2>1
      <3>2. mirror'[k] = mirror[k] + u
        BY <1>a, <2>2, <2>6 DEF TablesOK
      <3>3. Owes(q, k) /\ Owes(req'[r], k) /\ Logs(req'[r], k)
        BY <2>1, <2>2, <2>4, <2>6 DEF Owes, Logs
      <3>4. /\ OwedBy(q, o, k, u) = u /\ OwedBy(req'[r], o, k, u) = u
            /\ KeptBy(q, o, k, u) = u /\ KeptBy(req'[r], o, k, u) = 0
            /\ UnloggedBy(q, o, k, u) = 0 /\ UnloggedBy(req'[r], o, k, u) = u
        BY <2>4, <2>5, <3>3 DEF OwedBy, KeptBy, UnloggedBy
      <3>5. Effect(k, r, o, u, 0, 0, 0)
        BY <1>d, <2>1, <2>3, <2>5, <3>1, <3>2, <3>4 DEF Effect
      <3> QED
        BY <1>n, <2>1, <3>1, <3>5
    <2>7. CASE j # k
      <3>1. mirror'[k] = mirror[k]
        BY <1>a, <2>2, <2>7 DEF TablesOK
      <3>2. Owes(req'[r], k) => Owes(q, k)
        BY <2>1, <2>4 DEF Owes
      <3>3. ~Logs(req'[r], k)
        BY <2>4, <2>7 DEF Logs
      <3>4. Quiet(q.order)
        BY <2>1, <2>3, <2>5, <3>1, <3>2, <3>3 DEF Quiet
      <3> QED
        BY <1>s, <3>4
    <2> QED
      BY <2>6, <2>7
  <1>6. CASE LogReturn(r)
    <2> DEFINE o == q.order
               j == q.sku
               rest == q.pending \ {j}
    <2>1. /\ q.pc = "log" /\ o \in OrderIds /\ orders[o] # None /\ j \in Skus /\ j \in q.pending
          /\ UNCHANGED <<mirror, voids, cancels>>
      BY <1>6, <1>a DEF LogReturn, tables, IInv, RequestsKnowOrders, RequestsTidy
    <2>2. /\ returned' = [returned EXCEPT ![o][j] = returned[o][j] + orders[o].items[j]]
          /\ req' = [req EXCEPT ![r] = [q EXCEPT !.pc = IF rest = {} THEN "timeline" ELSE "restore",
                                                 !.pending = rest, !.sku = None]]
      BY <1>6 DEF LogReturn
    <2>3. /\ req'[r] = [q EXCEPT !.pc = IF rest = {} THEN "timeline" ELSE "restore",
                                 !.pending = rest, !.sku = None]
          /\ \A i \in Requests : i # r => req'[i] = req[i]
      BY <1>i, <2>2
    <2>4. /\ req'[r].pc = (IF rest = {} THEN "timeline" ELSE "restore")
          /\ req'[r].order = o /\ req'[r].pending = rest
      BY <1>a, <2>3 DEF Request
    <2>5. Works(q, o) /\ Works(req'[r], o) /\ ~Logs(req'[r], k)
      BY <2>1, <2>4 DEF Works, Logs
    <2>6. \A x \in OrderIds : x # o => returned'[x] = returned[x]
      BY <1>a, <2>2 DEF OrdersTypeOK
    <2>7. CASE j = k
      <3> DEFINE u == orders[o].items[k]
      <3>1. u \in Nat /\ voids[o] * u \in Nat /\ cancels[o] * u \in Nat /\ returned[o][k] \in Nat
        BY <1>c, <1>e, <2>1
      <3>2. returned'[o][k] = returned[o][k] + u
        BY <1>a, <1>c, <2>1, <2>2, <2>7 DEF OrdersTypeOK
      <3>3. Owes(q, k) /\ Logs(q, k) /\ ~Owes(req'[r], k)
        BY <2>1, <2>4, <2>7 DEF Owes, Logs
      <3>4. /\ OwedBy(q, o, k, u) = u /\ OwedBy(req'[r], o, k, u) = 0
            /\ KeptBy(q, o, k, u) = 0 /\ KeptBy(req'[r], o, k, u) = 0
            /\ UnloggedBy(q, o, k, u) = u /\ UnloggedBy(req'[r], o, k, u) = 0
        BY <2>5, <3>3 DEF OwedBy, KeptBy, UnloggedBy
      <3>5. cancels'[o] * u = cancels[o] * u + 0 /\ voids'[o] * u = voids[o] * u + 0
            /\ mirror'[k] = mirror[k] + 0
        BY <1>d, <2>1, <3>1
      <3>6. Effect(k, r, o, 0, u, 0, 0)
        BY <2>1, <2>3, <2>5, <2>6, <3>1, <3>2, <3>4, <3>5 DEF Effect
      <3> QED
        BY <1>n, <2>1, <3>1, <3>6
    <2>8. CASE j # k
      <3>1. returned'[o][k] = returned[o][k]
        BY <1>a, <1>c, <2>1, <2>2, <2>8 DEF OrdersTypeOK
      <3>2. Owes(req'[r], k) => Owes(q, k)
        BY <2>1, <2>4 DEF Owes
      <3>3. ~Logs(q, k)
        BY <2>8 DEF Logs
      <3>4. Quiet(o)
        BY <2>1, <2>3, <2>5, <2>6, <3>1, <3>2, <3>3 DEF Quiet
      <3> QED
        BY <1>s, <3>4
    <2> QED
      BY <2>7, <2>8
  <1>7. CASE CancelCommit(r)
    <2> DEFINE o == q.order
               u == orders[o].items[k]
    <2>1. q.pc = "cancel" /\ o \in OrderIds /\ orders[o] # None
      BY <1>7, <1>a DEF CancelCommit
    <2>2. /\ u \in Nat /\ voids[o] * u \in Nat /\ cancels[o] * u \in Nat /\ returned[o][k] \in Nat
          /\ (voids[o] + 1) * u = voids[o] * u + u /\ (cancels[o] + 1) * u = cancels[o] * u + u
      BY <1>c, <1>e, <2>1
    <2>3. mirror'[k] = mirror[k] + u
      BY <1>7 DEF CancelCommit
    <2>4. /\ returned'[o] = [j \in Skus |-> returned[o][j] + orders[o].items[j]]
          /\ \A x \in OrderIds : x # o => returned'[x] = returned[x]
      BY <1>7, <1>a, <2>1 DEF CancelCommit, OrdersTypeOK
    <2>5. /\ voids'[o] = voids[o] + 1 /\ cancels'[o] = cancels[o] + 1
          /\ \A x \in OrderIds : x # o => voids'[x] = voids[x] /\ cancels'[x] = cancels[x]
      BY <1>7, <1>a, <2>1 DEF CancelCommit, OrdersTypeOK
    <2>6. req'[r] = Idle /\ \A i \in Requests : i # r => req'[i] = req[i]
      BY <1>7, <1>i DEF CancelCommit
    <2>7. Works(q, o) /\ Works(req'[r], o) /\ ~Owes(q, k) /\ ~Logs(q, k)
          /\ ~Owes(req'[r], k) /\ ~Logs(req'[r], k)
      BY <1>i, <2>1, <2>6 DEF Works, Owes, Logs, Idle
    <2>8. /\ OwedBy(q, o, k, u) = 0 /\ OwedBy(req'[r], o, k, u) = 0
          /\ KeptBy(q, o, k, u) = 0 /\ KeptBy(req'[r], o, k, u) = 0
          /\ UnloggedBy(q, o, k, u) = 0 /\ UnloggedBy(req'[r], o, k, u) = 0
      BY <2>7 DEF OwedBy, KeptBy, UnloggedBy
    <2>9. /\ returned'[o][k] = returned[o][k] + u
          /\ voids'[o] * u = voids[o] * u + u /\ cancels'[o] * u = cancels[o] * u + u
      BY <2>2, <2>4, <2>5
    <2>10. Effect(k, r, o, u, u, u, u)
      BY <2>1, <2>2, <2>3, <2>4, <2>5, <2>6, <2>7, <2>8, <2>9 DEF Effect
    <2> QED
      BY <2>1, <2>2, <2>10
  <1> QED
    BY <1>1, <1>2, <1>3, <1>4, <1>5, <1>6, <1>7, <1>s DEF OrdersStep

-----------------------------------------------------------------------------
(* The balances of the returns                                             *)

(* An order not yet placed has no logs and was not voided.                 *)
Blank ==
    \A o \in OrderIds : orders[o] = None =>
        /\ \A k \in Skus : returned[o][k] = 0
        /\ voids[o] = 0 /\ cancels[o] = 0

(* The logs of an order and what is owed to it are what its voids call     *)
(* for; the mirror of a sku holds what was logged and what is about to be, *)
(* and with what requests have still to put back, what the voids call for. *)
OrderBalances(o, k) ==
    /\ cancels[o] * UnitsOf(o, k) <= returned[o][k]
    /\ returned[o][k] + SumFunction(Owed(o, k)) <= voids[o] * UnitsOf(o, k)

MirrorBalances(k) ==
    /\ InitMirror[k] + SumFunction(Logged(k)) + SumFunction(Unlogged(k)) <= mirror[k]
    /\ mirror[k] + SumFunction(Kept(k)) <= InitMirror[k] + SumFunction(Voided(k))

ReturnsInv ==
    /\ RequestsTidy
    /\ Blank
    /\ \A o \in OrderIds, k \in Skus : OrderBalances(o, k)
    /\ \A k \in Skus : MirrorBalances(k)

(* The sums of the invariant are of natural numbers.                       *)
LEMMA TermTypes ==
  ASSUME TablesOK, OrdersTypeOK, RequestsKnowOrders, NEW k \in Skus
  PROVE  /\ \A o \in OrderIds : UnitsOf(o, k) \in Nat /\ voids[o] * UnitsOf(o, k) \in Nat
                                 /\ cancels[o] * UnitsOf(o, k) \in Nat /\ returned[o][k] \in Nat
         /\ \A o \in OrderIds : Owed(o, k) \in [Requests -> Nat]
         /\ Kept(k) \in [Requests -> Nat] /\ Unlogged(k) \in [Requests -> Nat]
         /\ Logged(k) \in [OrderIds -> Nat] /\ Voided(k) \in [OrderIds -> Nat]
         /\ \A o \in OrderIds : Voided(k)[o] = voids[o] * UnitsOf(o, k)
  <1>1. \A o \in OrderIds : UnitsOf(o, k) \in Nat
    BY DEF UnitsOf, TablesOK, Order
  <1>2. \A o \in OrderIds : voids[o] \in Nat /\ cancels[o] \in Nat /\ returned[o][k] \in Nat
    BY DEF OrdersTypeOK
  <1>3. \A o \in OrderIds : voids[o] * UnitsOf(o, k) \in Nat /\ cancels[o] * UnitsOf(o, k) \in Nat
    BY <1>1, <1>2
  <1>4. \A o \in OrderIds : Owed(o, k) \in [Requests -> Nat]
    BY <1>1 DEF Owed, OwedBy
  <1>5. \A r \in Requests : req[r].pc # "idle" => UnitsOf(req[r].order, k) \in Nat
    BY <1>1 DEF RequestsKnowOrders
  <1>6. Kept(k) \in [Requests -> Nat] /\ Unlogged(k) \in [Requests -> Nat]
    BY <1>5 DEF Kept, Unlogged, KeptBy, UnloggedBy
  <1>7. Logged(k) \in [OrderIds -> Nat]
    BY <1>2 DEF Logged
  <1>8. \A o \in OrderIds :
          (IF orders[o] = None THEN 0 ELSE voids[o] * orders[o].items[k]) = voids[o] * UnitsOf(o, k)
    BY <1>2 DEF UnitsOf
  <1>9. \A o \in OrderIds : Voided(k)[o] = voids[o] * UnitsOf(o, k)
    BY <1>8 DEF Voided
  <1>10. Voided(k) \in [OrderIds -> Nat]
    BY <1>3, <1>8 DEF Voided
  <1> QED
    BY <1>1, <1>2, <1>3, <1>4, <1>6, <1>7, <1>9, <1>10

(* The balances hold at the start: nothing is logged or voided.            *)
LEMMA ReturnsInit == Init => ReturnsInv
  <1> SUFFICES ASSUME Init PROVE ReturnsInv
    OBVIOUS
  <1>1. RequestsTidy /\ Blank
    BY DEF Init, OrdersInit, RequestsTidy, Blank, Idle
  <1>2. TablesOK /\ OrdersTypeOK /\ RequestsKnowOrders /\ IsFiniteSet(OrderIds) /\ IsFiniteSet(Requests)
    BY InitIInv, StorefrontAssumption DEF IInv, TypeOK
  <1>3. ASSUME NEW k \in Skus, NEW o \in OrderIds
        PROVE  OrderBalances(o, k)
    <2>1. /\ Owed(o, k) \in [Requests -> Nat]
          /\ cancels[o] = 0 /\ voids[o] = 0 /\ returned[o][k] = 0 /\ UnitsOf(o, k) = 0
      BY <1>2, <1>3, TermTypes DEF Init, OrdersInit, UnitsOf
    <2>2. \A r \in Requests : Owed(o, k)[r] = 0
      BY DEF Init, OrdersInit, Idle, Owed, OwedBy, Owes
    <2>3. SumFunction(Owed(o, k)) = 0
      BY <1>2, <2>1, <2>2, WholeSumZero
    <2> QED
      BY <2>1, <2>3 DEF OrderBalances
  <1>4. ASSUME NEW k \in Skus
        PROVE  MirrorBalances(k)
    <2>1. /\ Kept(k) \in [Requests -> Int] /\ Unlogged(k) \in [Requests -> Int]
          /\ Logged(k) \in [OrderIds -> Int] /\ Voided(k) \in [OrderIds -> Int]
      BY <1>2, TermTypes
    <2>2. /\ \A r \in Requests : Kept(k)[r] = 0 /\ Unlogged(k)[r] = 0
          /\ \A o \in OrderIds : Logged(k)[o] = 0 /\ Voided(k)[o] = 0
      BY DEF Init, OrdersInit, Idle, Kept, Unlogged, Logged, Voided
    <2>3. /\ SumFunction(Kept(k)) = 0 /\ SumFunction(Unlogged(k)) = 0
          /\ SumFunction(Logged(k)) = 0 /\ SumFunction(Voided(k)) = 0
      BY <1>2, <2>1, <2>2, WholeSumZero
    <2>4. mirror[k] = InitMirror[k] /\ InitMirror[k] \in Nat
      BY StorefrontAssumption DEF Init
    <2> QED
      BY <2>3, <2>4 DEF MirrorBalances
  <1> QED
    BY <1>1, <1>3, <1>4 DEF ReturnsInv

(* No step but that of a request touches the requests, the counts and the  *)
(* mirror.                                                                 *)
LEMMA OnlyRequestsReturn ==
  [Next]_vars => \/ \E r \in Requests : OrdersStep(r)
                 \/ UNCHANGED <<mirror, req, returned, voids, cancels>>
  BY DEF Next, OrdersNext, CreateOrder, CartsNext, CleanupNext, CleanupRun, StartCleanup,
         ReleaseExpired, CleanupFails, CleanupStops, AddToCart, UpdateItemRead,
         UpdateItemCommit, RemoveItem, ClearCart, MergeRead, MergeCommit, AbandonCartCall,
         Expire, vars, tables, orderVars

(* Requests stay tidy, and orders not placed blank.                        *)
LEMMA TidyStep == IInv /\ ReturnsInv /\ [Next]_vars => RequestsTidy' /\ Blank'
  <1> SUFFICES ASSUME IInv, ReturnsInv, [Next]_vars PROVE RequestsTidy' /\ Blank'
    OBVIOUS
  <1>a. /\ req \in [Requests -> Request] /\ RequestsTidy /\ Blank /\ OrdersTypeOK
        /\ \A o \in OrderIds : orders[o] # None => orders'[o] # None
    BY OrderMoves DEF IInv, TypeOK, OrdersTypeOK, ReturnsInv
  <1>1. ASSUME NEW r \in Requests, OrdersStep(r)
        PROVE  RequestsTidy'
    <2> DEFINE Tidy(q) == (q.pc = "log" => q.sku \in q.pending) /\ (q.pc = "idle" => q = Idle)
    <2>1. Tidy(Idle)
      BY DEF Idle
    <2>2. CASE req' = [req EXCEPT ![r] = Idle]
      BY <1>a, <2>1, <2>2 DEF RequestsTidy
    <2>3. ASSUME NEW o \in OrderIds, NEW s \in UpdateStatuses, UpdateRead(r, o, s)
          PROVE  RequestsTidy'
      BY <1>a, <2>3 DEF UpdateRead, RequestsTidy, Idle
    <2>4. ASSUME NEW o \in OrderIds, CancelRead(r, o)
          PROVE  RequestsTidy'
      BY <1>a, <2>4 DEF CancelRead, RequestsTidy, Idle
    <2>5. CASE UpdateWrite(r)
      <3>1. req'[r] = AfterWrite(req[r]) /\ \A i \in Requests : i # r => req'[i] = req[i]
        BY <1>a, <2>5 DEF UpdateWrite
      <3>2. Tidy(AfterWrite(req[r]))
        BY <1>a, <2>1 DEF AfterWrite, Request
      <3> QED
        BY <1>a, <3>1, <3>2 DEF RequestsTidy
    <2>6. CASE RestoreItem(r)
      BY <1>a, <2>6 DEF RestoreItem, RequestsTidy, Request
    <2>7. CASE LogReturn(r)
      BY <1>a, <2>7 DEF LogReturn, RequestsTidy, Request
    <2> QED
      BY <1>1, <2>2, <2>3, <2>4, <2>5, <2>6, <2>7
         DEF OrdersStep, AddTimelineEntry, CancelCommit, Abandon
  <1>2. ASSUME NEW r \in Requests, OrdersStep(r)
        PROVE  Blank'
    <2> SUFFICES ASSUME NEW o \in OrderIds, orders'[o] = None
                 PROVE  /\ \A k \in Skus : returned'[o][k] = 0
                        /\ voids'[o] = 0 /\ cancels'[o] = 0
      BY DEF Blank
    <2>1. orders[o] = None
      BY <1>a
    <2>2. req[r].pc # "idle" => req[r].order # o
      BY <2>1 DEF IInv, RequestsKnowOrders
    <2>3. returned'[o] = returned[o] /\ voids'[o] = voids[o] /\ cancels'[o] = cancels[o]
      BY <1>2, <1>a, <2>2
         DEF OrdersStep, UpdateRead, UpdateWrite, RestoreItem, LogReturn, AddTimelineEntry,
             CancelRead, CancelCommit, Abandon, OrdersTypeOK
    <2> QED
      BY <1>a, <2>1, <2>3 DEF Blank
  <1>3. CASE UNCHANGED <<mirror, req, returned, voids, cancels>>
    BY <1>3, <1>a DEF RequestsTidy, Blank
  <1> QED
    BY <1>1, <1>2, <1>3, OnlyRequestsReturn

(* A step of a request changes at most one term of each sum, by what its   *)
(* effect says.                                                            *)
LEMMA EffectBalances ==
  ASSUME IInv, ReturnsInv, [Next]_vars, NEW k \in Skus, NEW r \in Requests, NEW o \in OrderIds,
         NEW m \in Nat, NEW t \in Nat, NEW v \in Nat, NEW c \in Nat,
         Effect(k, r, o, m, t, v, c),
         \A x \in OrderIds : UnitsOf(x, k)' = UnitsOf(x, k)
  PROVE  /\ \A x \in OrderIds : OrderBalances(x, k)'
         /\ MirrorBalances(k)'
  <1> DEFINE u == orders[o].items[k]
             q == req[r]
             p == req'[r]
  <1>a. /\ TablesOK /\ OrdersTypeOK /\ RequestsKnowOrders
        /\ TablesOK' /\ OrdersTypeOK' /\ RequestsKnowOrders'
        /\ IsFiniteSet(OrderIds) /\ IsFiniteSet(Requests)
    BY TypeStep, RequestsStep, StorefrontAssumption DEF IInv, TypeOK
  <1>b. /\ orders[o] # None /\ UnitsOf(o, k) = u /\ u \in Nat
        /\ mirror[k] \in Int /\ mirror'[k] \in Int
    BY <1>a DEF Effect, UnitsOf, TablesOK, Order
  <1>c. InitMirror[k] \in Nat
    BY StorefrontAssumption
  <1>1. ASSUME NEW x \in OrderIds, x # o
        PROVE  OrderBalances(x, k)'
    <2>1. \A i \in Requests : Owed(x, k)'[i] = Owed(x, k)[i]
      <3>1. ASSUME NEW i \in Requests, i # r
            PROVE  Owed(x, k)'[i] = Owed(x, k)[i]
        BY <3>1 DEF Effect, Owed
      <3>2. Owed(x, k)'[r] = 0 /\ Owed(x, k)[r] = 0
        BY <1>1 DEF Effect, Owed, OwedBy, Owes, Works
      <3> QED
        BY <3>1, <3>2
    <2>2. Owed(x, k)' = Owed(x, k)
      BY <2>1 DEF Owed
    <2>3. /\ returned'[x] = returned[x] /\ voids'[x] = voids[x] /\ cancels'[x] = cancels[x]
          /\ OrderBalances(x, k)
      BY <1>1 DEF Effect, ReturnsInv
    <2> QED
      BY <2>2, <2>3 DEF OrderBalances
  <1>2. OrderBalances(o, k)'
    <2> DEFINE f == Owed(o, k)
               h == Owed(o, k)'
    <2>1. f \in [Requests -> Int] /\ h \in [Requests -> Int]
      <3>1. f \in [Requests -> Nat]
        BY <1>a, TermTypes
      <3>2. h \in [Requests -> Nat]
        BY <1>b DEF Owed, OwedBy
      <3> QED
        BY <3>1, <3>2
    <2>2. f[r] = OwedBy(q, o, k, u) /\ h[r] = OwedBy(p, o, k, u)
      BY <1>b DEF Owed
    <2>3. \A i \in Requests : i # r => f[i] = h[i]
      BY <1>b DEF Owed, Effect
    <2> HIDE DEF f, h
    <2>4. /\ SumFunction(f) \in Int /\ SumFunction(h) \in Int
          /\ f[r] \in Int /\ h[r] \in Int
          /\ SumFunction(h) = SumFunction(f) - f[r] + h[r]
      BY <1>a, <2>1, <2>3, OneTermChanges
    <2>5. /\ cancels[o] * u <= returned[o][k]
          /\ returned[o][k] + SumFunction(f) <= voids[o] * u
          /\ returned[o][k] \in Nat /\ voids[o] * u \in Nat /\ cancels[o] * u \in Nat
      BY <1>a, <1>b, TermTypes DEF ReturnsInv, OrderBalances, f
    <2>6. /\ returned'[o][k] = returned[o][k] + t
          /\ voids'[o] * u = voids[o] * u + v
          /\ cancels'[o] * u = cancels[o] * u + c
          /\ c <= t /\ t + h[r] <= v + f[r]
      BY <2>2 DEF Effect
    <2> DEFINE a == cancels[o] * u
               b == voids[o] * u
    <2>7. a \in Int /\ b \in Int /\ a <= returned[o][k] /\ returned[o][k] + SumFunction(f) <= b
      BY <2>5
    <2> HIDE DEF a, b
    <2>8. a + c <= returned[o][k] + t /\ returned[o][k] + t + SumFunction(h) <= b + v
      BY <2>4, <2>5, <2>6, <2>7
    <2>9. /\ cancels'[o] * u <= returned'[o][k]
          /\ returned'[o][k] + SumFunction(h) <= voids'[o] * u
      BY <2>6, <2>8 DEF a, b
    <2> QED
      BY <1>b, <2>9 DEF OrderBalances, h
  <1>3. MirrorBalances(k)'
    <2>1. /\ SumFunction(Logged(k)) \in Int /\ SumFunction(Logged(k)') \in Int
          /\ SumFunction(Logged(k)') = SumFunction(Logged(k)) + t
      <3> DEFINE f == Logged(k)
                 h == Logged(k)'
      <3>1. f \in [OrderIds -> Int] /\ h \in [OrderIds -> Int]
        BY <1>a DEF Logged, OrdersTypeOK
      <3>2. f[o] = returned[o][k] /\ h[o] = f[o] + t /\ \A x \in OrderIds : x # o => f[x] = h[x]
        BY DEF Logged, Effect
      <3> HIDE DEF f, h
      <3>3. /\ SumFunction(f) \in Int /\ SumFunction(h) \in Int /\ f[o] \in Int /\ h[o] \in Int
            /\ SumFunction(h) = SumFunction(f) - f[o] + h[o]
        BY <1>a, <3>1, <3>2, OneTermChanges
      <3>4. SumFunction(h) = SumFunction(f) + t
        BY <3>2, <3>3
      <3> QED
        BY <3>3, <3>4 DEF f, h
    <2>2. /\ SumFunction(Voided(k)) \in Int /\ SumFunction(Voided(k)') \in Int
          /\ SumFunction(Voided(k)') = SumFunction(Voided(k)) + v
      <3> DEFINE f == Voided(k)
                 h == Voided(k)'
      <3>1. f \in [OrderIds -> Nat] /\ \A x \in OrderIds : f[x] = voids[x] * UnitsOf(x, k)
        BY <1>a, TermTypes
      <3>2. \A x \in OrderIds : h[x] = voids'[x] * UnitsOf(x, k) /\ voids'[x] * UnitsOf(x, k) \in Nat
        <4>1. \A x \in OrderIds : /\ Voided(k)'[x] = voids'[x] * UnitsOf(x, k)'
                                   /\ voids'[x] * UnitsOf(x, k)' \in Nat
          <5> SUFFICES ASSUME NEW x \in OrderIds
                       PROVE  /\ Voided(k)'[x] = voids'[x] * UnitsOf(x, k)'
                              /\ voids'[x] * UnitsOf(x, k)' \in Nat
            OBVIOUS
          <5>1. voids'[x] \in Nat /\ UnitsOf(x, k)' \in Nat
            BY <1>a DEF OrdersTypeOK, UnitsOf, TablesOK, Order
          <5>2. CASE orders'[x] = None
            BY <5>1, <5>2 DEF Voided, UnitsOf
          <5>3. CASE orders'[x] # None
            BY <5>1, <5>3 DEF Voided, UnitsOf
          <5> QED
            BY <5>2, <5>3
        <4> QED
          BY <4>1
      <3>3. h \in [OrderIds -> Int] /\ f \in [OrderIds -> Int]
        BY <3>1, <3>2 DEF Voided
      <3>4. h[o] = f[o] + v /\ \A x \in OrderIds : x # o => f[x] = h[x]
        BY <1>b, <3>1, <3>2 DEF Effect
      <3> HIDE DEF f, h
      <3>5. /\ SumFunction(f) \in Int /\ SumFunction(h) \in Int /\ f[o] \in Int /\ h[o] \in Int
            /\ SumFunction(h) = SumFunction(f) - f[o] + h[o]
        BY <1>a, <3>3, <3>4, OneTermChanges
      <3>6. SumFunction(h) = SumFunction(f) + v
        BY <3>4, <3>5
      <3> QED
        BY <3>5, <3>6 DEF f, h
    <2>o. \A i \in Requests : i # r /\ req[i].pc # "idle" => req[i].order \in OrderIds
      BY <1>a DEF RequestsKnowOrders
    <2>3. /\ SumFunction(Kept(k)) \in Int /\ SumFunction(Kept(k)') \in Int
          /\ KeptBy(q, o, k, u) \in Nat /\ KeptBy(p, o, k, u) \in Nat
          /\ SumFunction(Kept(k)') = SumFunction(Kept(k)) - KeptBy(q, o, k, u) + KeptBy(p, o, k, u)
      <3> DEFINE f == Kept(k)
                 h == Kept(k)'
      <3>1. f \in [Requests -> Int] /\ h \in [Requests -> Int]
        <4>1. f \in [Requests -> Nat]
          BY <1>a, TermTypes
        <4>2. ASSUME NEW i \in Requests, req'[i].pc # "idle"
              PROVE  UnitsOf(req[i].order, k)' \in Nat
          BY <1>a, <4>2 DEF RequestsKnowOrders, UnitsOf, TablesOK, Order
        <4>3. h \in [Requests -> Nat]
          BY <4>2 DEF Kept, KeptBy
        <4> QED
          BY <4>1, <4>3
      <3>2. f[r] = KeptBy(q, o, k, u) /\ h[r] = KeptBy(p, o, k, u)
        BY <1>b DEF Kept, KeptBy, Effect, Works, Owes
      <3>3. \A i \in Requests : i # r => f[i] = h[i]
        BY <2>o DEF Kept, Effect
      <3> HIDE DEF f, h
      <3>4. /\ SumFunction(f) \in Int /\ SumFunction(h) \in Int
            /\ SumFunction(h) = SumFunction(f) - f[r] + h[r]
        BY <1>a, <3>1, <3>3, OneTermChanges
      <3>5. KeptBy(q, o, k, u) \in Nat /\ KeptBy(p, o, k, u) \in Nat
        BY <1>b DEF KeptBy
      <3> QED
        BY <3>2, <3>4, <3>5 DEF f, h
    <2>4. /\ SumFunction(Unlogged(k)) \in Int /\ SumFunction(Unlogged(k)') \in Int
          /\ UnloggedBy(q, o, k, u) \in Nat /\ UnloggedBy(p, o, k, u) \in Nat
          /\ SumFunction(Unlogged(k)')
                = SumFunction(Unlogged(k)) - UnloggedBy(q, o, k, u) + UnloggedBy(p, o, k, u)
      <3> DEFINE f == Unlogged(k)
                 h == Unlogged(k)'
      <3>1. f \in [Requests -> Int] /\ h \in [Requests -> Int]
        <4>1. f \in [Requests -> Nat]
          BY <1>a, TermTypes
        <4>2. ASSUME NEW i \in Requests, req'[i].pc # "idle"
              PROVE  UnitsOf(req[i].order, k)' \in Nat
          BY <1>a, <4>2 DEF RequestsKnowOrders, UnitsOf, TablesOK, Order
        <4>3. h \in [Requests -> Nat]
          BY <4>2 DEF Unlogged, UnloggedBy
        <4> QED
          BY <4>1, <4>3
      <3>2. f[r] = UnloggedBy(q, o, k, u) /\ h[r] = UnloggedBy(p, o, k, u)
        BY <1>b DEF Unlogged, UnloggedBy, Effect, Works, Logs
      <3>3. \A i \in Requests : i # r => f[i] = h[i]
        BY <2>o DEF Unlogged, Effect
      <3> HIDE DEF f, h
      <3>4. /\ SumFunction(f) \in Int /\ SumFunction(h) \in Int
            /\ SumFunction(h) = SumFunction(f) - f[r] + h[r]
        BY <1>a, <3>1, <3>3, OneTermChanges
      <3>5. UnloggedBy(q, o, k, u) \in Nat /\ UnloggedBy(p, o, k, u) \in Nat
        BY <1>b DEF UnloggedBy
      <3> QED
        BY <3>2, <3>4, <3>5 DEF f, h
    <2> DEFINE A == SumFunction(Logged(k))
               A2 == SumFunction(Logged(k)')
               B == SumFunction(Voided(k))
               B2 == SumFunction(Voided(k)')
               C == SumFunction(Kept(k))
               C2 == SumFunction(Kept(k)')
               D == SumFunction(Unlogged(k))
               D2 == SumFunction(Unlogged(k)')
    <2>5. InitMirror[k] + A + D <= mirror[k] /\ mirror[k] + C <= InitMirror[k] + B
      BY DEF ReturnsInv, MirrorBalances
    <2>6. /\ mirror'[k] = mirror[k] + m
          /\ t + UnloggedBy(p, o, k, u) <= m + UnloggedBy(q, o, k, u)
          /\ m + KeptBy(p, o, k, u) <= v + KeptBy(q, o, k, u)
      BY DEF Effect
    <2> HIDE DEF A, A2, B, B2, C, C2, D, D2, p, q, u
    <2>7. InitMirror[k] + A2 + D2 <= mirror'[k]
      BY <1>b, <1>c, <2>1, <2>4, <2>5, <2>6 DEF A, A2, D, D2
    <2>8. mirror'[k] + C2 <= InitMirror[k] + B2
      BY <1>b, <1>c, <2>2, <2>3, <2>5, <2>6 DEF B, B2, C, C2
    <2> QED
      BY <2>7, <2>8 DEF MirrorBalances, A2, B2, C2, D2
  <1> QED
    BY <1>1, <1>2, <1>3

(* Any other step leaves the sums as they are: an order that is placed is  *)
(* blank, and no request in flight is for it.                              *)
LEMMA OthersBalance ==
  ASSUME IInv, ReturnsInv, [Next]_vars, NEW k \in Skus,
         UNCHANGED <<mirror, req, returned, voids, cancels>>
  PROVE  /\ \A x \in OrderIds : OrderBalances(x, k)'
         /\ MirrorBalances(k)'
  <1>a. /\ TablesOK /\ OrdersTypeOK /\ RequestsKnowOrders
        /\ TablesOK' /\ OrdersTypeOK' /\ RequestsKnowOrders'
        /\ IsFiniteSet(OrderIds) /\ IsFiniteSet(Requests)
    BY TypeStep, RequestsStep, StorefrontAssumption DEF IInv, TypeOK
  <1>b. \A x \in OrderIds : orders[x] # None => UnitsOf(x, k)' = UnitsOf(x, k)
    BY OrderMoves DEF UnitsOf
  <1>c. \A x \in OrderIds : orders[x] = None =>
            voids[x] = 0 /\ cancels[x] = 0 /\ returned[x][k] = 0 /\ UnitsOf(x, k) = 0
    BY DEF ReturnsInv, Blank, UnitsOf
  <1>d. \A x \in OrderIds : UnitsOf(x, k)' \in Nat
    BY <1>a DEF UnitsOf, TablesOK, Order
  <1>1. ASSUME NEW x \in OrderIds
        PROVE  OrderBalances(x, k)'
    <2>1. CASE orders[x] # None
      <3>1. Owed(x, k)' = Owed(x, k)
        BY <1>b, <2>1 DEF Owed
      <3> QED
        BY <1>b, <2>1, <3>1 DEF OrderBalances, ReturnsInv
    <2>2. CASE orders[x] = None
      <3>1. \A r \in Requests : Owed(x, k)'[r] = 0
        BY <1>a, <2>2 DEF Owed, OwedBy, Owes, RequestsKnowOrders
      <3>2. Owed(x, k)' \in [Requests -> Int]
        BY <3>1 DEF Owed
      <3> DEFINE h == Owed(x, k)'
      <3> HIDE DEF h
      <3>3. SumFunction(h) = 0
        BY <1>a, <3>1, <3>2, WholeSumZero DEF h
      <3> DEFINE u == UnitsOf(x, k)'
      <3>4. u \in Nat /\ voids'[x] = 0 /\ cancels'[x] = 0 /\ returned'[x][k] = 0
        BY <1>c, <1>d, <2>2
      <3> HIDE DEF u
      <3>5. cancels'[x] * u <= returned'[x][k] /\ returned'[x][k] + SumFunction(h) <= voids'[x] * u
        BY <3>3, <3>4
      <3> QED
        BY <3>5 DEF OrderBalances, h, u
    <2> QED
      BY <2>1, <2>2
  <1>2. MirrorBalances(k)'
    <2>1. Logged(k)' = Logged(k)
      BY DEF Logged
    <2>2. Voided(k)' = Voided(k)
      <3>1. \A x \in OrderIds : Voided(k)[x] = voids[x] * UnitsOf(x, k)
        BY <1>a, TermTypes
      <3>2. ASSUME NEW x \in OrderIds
            PROVE  Voided(k)'[x] = Voided(k)[x]
        <4>1. CASE orders[x] # None
          <5>1. orders'[x] # None /\ orders'[x].items = orders[x].items
            BY <4>1, OrderMoves
          <5> QED
            BY <4>1, <5>1 DEF Voided
        <4>2. CASE orders[x] = None /\ orders'[x] = None
          BY <4>2 DEF Voided
        <4>3. CASE orders[x] = None /\ orders'[x] # None
          <5> DEFINE u == orders'[x].items[k]
          <5>1. u \in Nat /\ voids'[x] = 0
            BY <1>a, <1>c, <4>3 DEF TablesOK, Order
          <5>2. Voided(k)'[x] = voids'[x] * u
            BY <4>3 DEF Voided
          <5> HIDE DEF u
          <5>3. Voided(k)'[x] = 0
            BY <5>1, <5>2
          <5> QED
            BY <4>3, <5>3 DEF Voided
        <4> QED
          BY <4>1, <4>2, <4>3
      <3> QED
        BY <3>2 DEF Voided
    <2>3. \A r \in Requests : req[r].pc # "idle" =>
              UnitsOf(req[r].order, k)' = UnitsOf(req[r].order, k)
      BY <1>a, <1>b DEF RequestsKnowOrders
    <2>4. Kept(k)' = Kept(k) /\ Unlogged(k)' = Unlogged(k)
      BY <2>3 DEF Kept, Unlogged
    <2> QED
      BY <2>1, <2>2, <2>4 DEF MirrorBalances, ReturnsInv
  <1> QED
    BY <1>1, <1>2

(* A step keeps them.                                                      *)
LEMMA ReturnsStep == IInv /\ ReturnsInv /\ [Next]_vars => ReturnsInv'
  <1> SUFFICES ASSUME IInv, ReturnsInv, [Next]_vars PROVE ReturnsInv'
    OBVIOUS
  <1>1. ASSUME NEW k \in Skus
        PROVE  (\A x \in OrderIds : OrderBalances(x, k)') /\ MirrorBalances(k)'
    <2>1. CASE UNCHANGED <<mirror, req, returned, voids, cancels>>
      BY <2>1, OthersBalance
    <2>2. ASSUME NEW r \in Requests, OrdersStep(r)
          PROVE  (\A x \in OrderIds : OrderBalances(x, k)') /\ MirrorBalances(k)'
      <3>1. PICK o \in OrderIds, m \in Nat, t \in Nat, v \in Nat, c \in Nat :
              Effect(k, r, o, m, t, v, c)
        BY <2>2, RequestEffects DEF ReturnsInv
      <3>2. \A x \in OrderIds : UnitsOf(x, k)' = UnitsOf(x, k)
        BY <2>2, RequestsPlaceNothing DEF KeepsItems, UnitsOf
      <3> QED
        BY <3>1, <3>2, EffectBalances
    <2> QED
      BY <2>1, <2>2, OnlyRequestsReturn
  <1> QED
    BY <1>1, TidyStep DEF ReturnsInv

(* What the invariant says of the logs and of the mirror, for every        *)
(* behaviour.                                                              *)
LEMMA ReturnsInvariance == Spec => [](IInv /\ ReturnsInv)
  BY Invariance, ReturnsInit, ReturnsStep, PTL DEF Spec

(* The RETURN logs of an order bracket its cancellations: no committed     *)
(* cancel() is short of a log, and no item is logged that was not voided.  *)
THEOREM ReturnsAreBracketed == Spec => []ReturnsBracketed
  <1>1. IInv /\ ReturnsInv => ReturnsBracketed
    <2> SUFFICES ASSUME IInv, ReturnsInv, NEW o \in OrderIds, NEW k \in Skus, orders[o] # None
                 PROVE  /\ cancels[o] * orders[o].items[k] <= returned[o][k]
                        /\ returned[o][k] <= voids[o] * orders[o].items[k]
      BY DEF ReturnsBracketed
    <2>1. /\ returned[o][k] \in Nat /\ voids[o] * UnitsOf(o, k) \in Nat
          /\ Owed(o, k) \in [Requests -> Nat]
      BY TermTypes DEF IInv, TypeOK
    <2> DEFINE f == Owed(o, k)
    <2> HIDE DEF f
    <2>2. SumFunction(f) \in Nat
      BY <2>1, StorefrontAssumption, WholeSumNat DEF f
    <2>3. /\ cancels[o] * UnitsOf(o, k) <= returned[o][k]
          /\ returned[o][k] + SumFunction(f) <= voids[o] * UnitsOf(o, k)
      BY DEF ReturnsInv, OrderBalances, f
    <2> DEFINE b == voids[o] * UnitsOf(o, k)
    <2>4. b \in Nat /\ returned[o][k] + SumFunction(f) <= b
      BY <2>1, <2>3
    <2> HIDE DEF b
    <2>5. returned[o][k] <= b
      BY <2>1, <2>2, <2>4
    <2>6. UnitsOf(o, k) = orders[o].items[k]
      BY DEF UnitsOf
    <2> QED
      BY <2>3, <2>5, <2>6 DEF b
  <1> QED
    BY <1>1, ReturnsInvariance, PTL

(* The mirror of a sku lies between what the RETURN logs explain and what  *)
(* the voided orders account for.                                          *)
THEOREM MirrorIsExplained == Spec => []MirrorExplainedByReturns
  <1>1. IInv /\ ReturnsInv => MirrorExplainedByReturns
    <2> SUFFICES ASSUME IInv, ReturnsInv, NEW k \in Skus
                 PROVE  /\ mirror[k] >= InitMirror[k] + SumFunction(Logged(k))
                        /\ mirror[k] <= InitMirror[k] + SumFunction(Voided(k))
      BY DEF MirrorExplainedByReturns
    <2> DEFINE A == SumFunction(Logged(k))
               B == SumFunction(Voided(k))
               C == SumFunction(Kept(k))
               D == SumFunction(Unlogged(k))
    <2>1. /\ Logged(k) \in [OrderIds -> Nat] /\ Voided(k) \in [OrderIds -> Nat]
          /\ Kept(k) \in [Requests -> Nat] /\ Unlogged(k) \in [Requests -> Nat]
      BY TermTypes DEF IInv, TypeOK
    <2>2. A \in Nat /\ B \in Nat /\ C \in Nat /\ D \in Nat
      BY <2>1, StorefrontAssumption, WholeSumNat
    <2>3. mirror[k] \in Int /\ InitMirror[k] \in Nat
      BY StorefrontAssumption DEF IInv, TypeOK, TablesOK
    <2>4. InitMirror[k] + A + D <= mirror[k] /\ mirror[k] + C <= InitMirror[k] + B
      BY DEF ReturnsInv, MirrorBalances
    <2> HIDE DEF A, B, C, D
    <2>5. mirror[k] >= InitMirror[k] + A /\ mirror[k] <= InitMirror[k] + B
      BY <2>2, <2>3, <2>4
    <2> QED
      BY <2>5 DEF A, B
  <1> QED
    BY <1>1, ReturnsInvariance, PTL

-----------------------------------------------------------------------------
(* The inventory service: the calls and the rows                           *)

(* A call of the inventory service: a row it has seen is still there, a    *)
(* stock it is about to write is not negative, and one that would file a   *)
(* new row for a product files it under that product.                      *)
CallOK(q) ==
    /\ q \in Update
    /\ q.pc # "idle" => q.sku \in Skus /\ q.product \in Products
    /\ q.pc = "set" => q.target \in Nat \cup {None}
    /\ q.pc \in {"write", "sync"} => q.local >= 0
    /\ q.pc = "final" \/ (q.pc \in {"log", "read", "write", "sync"} /\ q.setting)
          => q.target \in Int
    /\ q.pc = "create" /\ q.sku \in Products => q.product = q.sku

UpdatesKnowRows ==
    \A c \in Updates : /\ CallOK(upd[c])
                       /\ upd[c].seen # None => HasRow(upd[c].sku)

RestockingIInv ==
    /\ IInv
    /\ InventoryTypeOK
    /\ UpdatesKnowRows

(* A row that is there stays, for the same skus.                           *)
KeepsRow(p) ==
    inventory[p] # None => inventory'[p] # None /\ inventory'[p].variant = inventory[p].variant

(* What is written to one row.                                             *)
LEMMA RowWritten ==
  ASSUME TablesOK, NEW x \in Products, inventory[x] # None, NEW s \in Int
  PROVE  /\ [inventory EXCEPT ![x].stock = s] \in [Products -> Row \cup {None}]
         /\ [inventory EXCEPT ![x].stock = s][x] \in Row
         /\ [inventory EXCEPT ![x].stock = s][x].stock = s
         /\ [inventory EXCEPT ![x].stock = s][x].variant = inventory[x].variant
         /\ \A p \in Products : p # x => [inventory EXCEPT ![x].stock = s][p] = inventory[p]
  <1>1. inventory[x] \in Row /\ inventory \in [Products -> Row \cup {None}]
    BY DEF TablesOK
  <1>2. [inventory EXCEPT ![x].stock = s][x] = [inventory[x] EXCEPT !.stock = s]
    BY <1>1
  <1>3. /\ [inventory[x] EXCEPT !.stock = s] \in Row
        /\ [inventory[x] EXCEPT !.stock = s].stock = s
        /\ [inventory[x] EXCEPT !.stock = s].variant = inventory[x].variant
    BY <1>1 DEF Row
  <1> QED
    BY <1>1, <1>2, <1>3

(* What is inserted as the row of a sku.                                   *)
LEMMA RowInserted ==
  ASSUME TablesOK, NEW x \in Products, NEW k \in Skus, NEW s \in Int, NEW e \in Int
  PROVE  /\ NewRow(k, s, e) \in Row
         /\ [inventory EXCEPT ![x] = NewRow(k, s, e)] \in [Products -> Row \cup {None}]
         /\ [inventory EXCEPT ![x] = NewRow(k, s, e)][x] = NewRow(k, s, e)
         /\ \A p \in Products : p # x => [inventory EXCEPT ![x] = NewRow(k, s, e)][p] = inventory[p]
  BY DEF NewRow, Row, VariantIn, TablesOK, Skus

(* The stock read of a sku is an integer, and there is a row to it.        *)
LEMMA StockSeenType ==
  ASSUME TablesOK, NEW k \in Skus
  PROVE  /\ StockSeen(k) \in Int \cup {None}
         /\ HasRow(k) => StockSeen(k) \in Int
         /\ StockSeen(k) # None => HasRow(k)
         /\ HasRow(k) => RowOf(k) \in Products /\ inventory[RowOf(k)] \in Row
                         /\ inventory[RowOf(k)] # None
  <1>1. HasRow(k) => RowOf(k) \in Products /\ inventory[RowOf(k)] \in Row /\ inventory[RowOf(k)] # None
    BY RowFound DEF IsRowOf, TablesOK
  <1> QED
    BY <1>1 DEF StockSeen, Row

(* What a step of the inventory service does to the rows.                  *)
LEMMA InventoryRows ==
  ASSUME RestockingIInv, InventoryNext
  PROVE  /\ inventory' \in [Products -> Row \cup {None}]
         /\ mirror' \in [Skus -> Int]
         /\ \A p \in Products : KeepsRow(p)
  <1>a. TablesOK /\ InventoryTypeOK /\ \A c \in Updates : CallOK(upd[c])
    BY DEF RestockingIInv, IInv, TypeOK, UpdatesKnowRows
  <1>b. inventory \in [Products -> Row \cup {None}] /\ mirror \in [Skus -> Int]
    BY <1>a DEF TablesOK
  <1> DEFINE Good == /\ inventory' \in [Products -> Row \cup {None}]
                     /\ mirror' \in [Skus -> Int]
                     /\ \A p \in Products : KeepsRow(p)
  <1> SUFFICES Good
    OBVIOUS
  <1>c. ASSUME UNCHANGED inventory, mirror' \in [Skus -> Int] PROVE Good
    BY <1>b, <1>c DEF KeepsRow
  <1>1. ASSUME NEW c \in Updates, LogWrite(c)
        PROVE  Good
    <2> DEFINE q == upd[c]
    <2>1. q.sku \in Skus /\ q.product \in Products /\ q.local \in Int /\ UNCHANGED mirror
      BY <1>1, <1>a DEF LogWrite, CallOK, Update
    <2>2. CASE q.seen = None
      <3>1. inventory' = [inventory EXCEPT ![q.product] = NewRow(q.sku, q.local, 0)]
            /\ inventory[q.product] = None
        BY <1>1, <2>2 DEF LogWrite, RowInsertable
      <3> HIDE DEF q
      <3> QED
        BY <1>a, <1>b, <2>1, <3>1, RowInserted DEF KeepsRow
    <2>3. CASE q.seen # None
      <3>1. HasRow(q.sku) /\ inventory' = [inventory EXCEPT ![RowOf(q.sku)].stock = q.local]
        BY <1>1, <2>3 DEF LogWrite, RestockingIInv, UpdatesKnowRows
      <3>2. RowOf(q.sku) \in Products /\ inventory[RowOf(q.sku)] # None
        BY <1>a, <2>1, <3>1, StockSeenType
      <3> DEFINE x == RowOf(q.sku)
      <3> HIDE DEF q, x
      <3>3. inventory' = [inventory EXCEPT ![x].stock = q.local] /\ x \in Products /\ inventory[x] # None
        BY <3>1, <3>2 DEF x
      <3>4. /\ inventory' \in [Products -> Row \cup {None}]
            /\ inventory'[x] \in Row /\ inventory'[x].variant = inventory[x].variant
            /\ \A p \in Products : p # x => inventory'[p] = inventory[p]
        BY <1>a, <2>1, <3>3, RowWritten
      <3> QED
        BY <1>b, <2>1, <3>4, RowAssumption DEF KeepsRow
    <2> QED
      BY <2>2, <2>3
  <1>2. ASSUME NEW c \in Updates, SetWrite(c)
        PROVE  Good
    <2> DEFINE q == upd[c]
               after == IF q.target # None THEN q.target
                        ELSE IF q.seen = None THEN 0 ELSE StockSeen(q.sku)
               n == q.reserve
    <2>1. q.sku \in Skus /\ q.product \in Products /\ q.target \in Nat \cup {None}
          /\ n \in Nat \cup {None} /\ UNCHANGED mirror
      BY <1>2, <1>a DEF SetWrite, CallOK, Update
    <2>2. q.seen # None => HasRow(q.sku)
      BY DEF RestockingIInv, UpdatesKnowRows
    <2>3. after \in Int
      BY <1>a, <2>1, <2>2, StockSeenType
    <2>4. CASE q.seen = None
      <3> DEFINE e == IF n = None THEN 0 ELSE n
      <3>1. inventory' = [inventory EXCEPT ![q.product] = NewRow(q.sku, after, e)]
            /\ inventory[q.product] = None /\ e \in Int
        BY <1>2, <2>1, <2>4 DEF SetWrite, RowInsertable
      <3> HIDE DEF q, after, e
      <3> QED
        BY <1>a, <1>b, <2>1, <2>3, <3>1, RowInserted DEF KeepsRow
    <2>5. CASE q.seen # None
      <3> DEFINE x == RowOf(q.sku)
      <3>1. inventory' = [inventory EXCEPT ![x].stock = after,
                                           ![x].reserved = IF n = None THEN @ ELSE n]
        BY <1>2, <2>5 DEF SetWrite
      <3>2. x \in Products /\ inventory[x] # None
        BY <1>a, <2>1, <2>2, <2>5, StockSeenType
      <3> DEFINE row == inventory[x]
                 e == IF n = None THEN row.reserved ELSE n
      <3>3. row \in Row /\ e \in Int
        BY <1>b, <2>1, <3>2 DEF Row
      <3> HIDE DEF q, x, after, n
      <3>4. inventory'[x] = [row EXCEPT !.stock = after, !.reserved = e]
        BY <1>b, <3>1, <3>2, <3>3 DEF Row
      <3>5. \A p \in Products : p # x => inventory'[p] = inventory[p]
        BY <1>b, <3>1
      <3> HIDE DEF row, e
      <3>6. inventory'[x] \in Row /\ inventory'[x].variant = row.variant
        BY <2>3, <3>3, <3>4 DEF Row
      <3>7. inventory' \in [Products -> Row \cup {None}]
        BY <1>b, <3>1, <3>5, <3>6
      <3> QED
        BY <1>b, <2>1, <3>5, <3>6, <3>7, RowAssumption DEF KeepsRow, row
    <2> QED
      BY <2>4, <2>5
  <1>3. ASSUME NEW c \in Updates, LogSync(c) \/ SetFinal(c)
        PROVE  Good
    <2>1. upd[c].sku \in Skus /\ UNCHANGED inventory
      BY <1>3, <1>a DEF LogSync, SetFinal, CallOK
    <2>2. CASE LogSync(c)
      <3>1. upd[c].local \in Int /\ mirror' = [mirror EXCEPT ![upd[c].sku] = upd[c].local]
        BY <2>2, <1>a DEF LogSync, CallOK, Update
      <3> QED
        BY <1>b, <1>c, <2>1, <3>1
    <2>3. CASE SetFinal(c)
      <3>1. upd[c].target \in Int /\ mirror' = [mirror EXCEPT ![upd[c].sku] = upd[c].target]
        BY <2>3, <1>a DEF SetFinal, CallOK
      <3> QED
        BY <1>b, <1>c, <2>1, <3>1
    <2> QED
      BY <1>3, <2>2, <2>3
  <1>4. ASSUME NEW k \in Skus, NEW d \in Deltas \ {0}, Increment(k, d)
        PROVE  Good
    <2>1. d \in Int /\ HasRow(k) /\ mirror' = [mirror EXCEPT ![k] = mirror[k] + d]
          /\ inventory' = [inventory EXCEPT ![RowOf(k)].stock = inventory[RowOf(k)].stock + d]
      BY <1>4, InventoryAssumption DEF Increment
    <2> DEFINE x == RowOf(k)
               s == inventory[x].stock + d
    <2>2. x \in Products /\ inventory[x] # None /\ s \in Int
      BY <1>a, <2>1, StockSeenType DEF Row
    <2>3. mirror[k] + d \in Int
      BY <1>b, <2>1
    <2>4. inventory' = [inventory EXCEPT ![x].stock = s] /\ mirror' \in [Skus -> Int]
      BY <1>b, <2>1, <2>3
    <2> HIDE DEF x, s
    <2>5. /\ inventory' \in [Products -> Row \cup {None}]
          /\ inventory'[x] \in Row /\ inventory'[x].variant = inventory[x].variant
          /\ \A p \in Products : p # x => inventory'[p] = inventory[p]
      BY <1>a, <2>2, <2>4, RowWritten
    <2> QED
      BY <1>b, <2>4, <2>5, RowAssumption DEF KeepsRow
  <1>5. ASSUME NEW c \in Updates, CreateCommit(c)
        PROVE  Good
    <2> DEFINE q == upd[c]
    <2>1. q.sku \in Skus /\ q.product \in Products /\ q.local \in Int /\ q.delta \in Int
      BY <1>5, <1>a DEF CreateCommit, CallOK, Update
    <2>2. /\ inventory' = [inventory EXCEPT ![q.product] = NewRow(q.sku, q.local, 0)]
          /\ inventory[q.product] = None
          /\ mirror' = [mirror EXCEPT ![q.sku] = mirror[q.sku] + q.delta]
      BY <1>5 DEF CreateCommit, RowInsertable
    <2> HIDE DEF q
    <2>3. mirror' \in [Skus -> Int]
      BY <1>b, <2>1, <2>2
    <2> QED
      BY <1>a, <1>b, <2>1, <2>2, <2>3, RowInserted DEF KeepsRow
  <1>6. ASSUME NEW x \in Products, NEW d \in Deltas, AddStock(x, d)
        PROVE  Good
    <2>0. d \in Int /\ x \in Skus /\ UNCHANGED mirror
      BY <1>6, InventoryAssumption DEF AddStock, Skus
    <2>1. HasRow(x) <=> inventory[x] # None
      BY SkuAssumption DEF HasRow, RowsOf, IsRowOf
    <2>2. CASE HasRow(x)
      <3> DEFINE s == inventory[x].stock + d
      <3>1. inventory' = [inventory EXCEPT ![x].stock = s]
        BY <1>6, <2>2 DEF AddStock
      <3>2. s \in Int
        BY <1>b, <2>0, <2>1, <2>2 DEF Row
      <3> HIDE DEF s
      <3>3. /\ inventory' \in [Products -> Row \cup {None}]
            /\ inventory'[x] \in Row /\ inventory'[x].variant = inventory[x].variant
            /\ \A p \in Products : p # x => inventory'[p] = inventory[p]
        BY <1>a, <2>1, <2>2, <3>1, <3>2, RowWritten
      <3> QED
        BY <1>b, <2>0, <3>3, RowAssumption DEF KeepsRow
    <2>3. CASE ~HasRow(x)
      <3>1. inventory' = [inventory EXCEPT ![x] = NewRow(x, d, 0)]
        BY <1>6, <2>3 DEF AddStock
      <3> QED
        BY <1>a, <1>b, <2>0, <2>1, <2>3, <3>1, RowInserted DEF KeepsRow
    <2> QED
      BY <2>2, <2>3
  <1>7. CASE UNCHANGED <<inventory, mirror>>
    BY <1>b, <1>c, <1>7
  <1> HIDE DEF Good
  <1>8. CASE RestockNext
    BY <1>1, <1>3, <1>7, <1>8 DEF RestockNext, CreateLog, LogRead, tables
  <1>9. CASE SetNext
    BY <1>2, <1>3, <1>7, <1>9 DEF SetNext, SetRead, SetLog, tables
  <1>10. CASE \E k \in Skus, d \in Deltas \ {0} :
                \/ Increment(k, d)
                \/ \E c \in Updates, p \in Products : CreateRead(c, p, k, d)
    BY <1>4, <1>7, <1>10 DEF CreateRead, tables
  <1>11. CASE \E c \in Updates : CreateCommit(c) \/ AbandonUpdate(c)
    BY <1>5, <1>7, <1>11 DEF AbandonUpdate, tables
  <1> QED
    BY <1>6, <1>8, <1>9, <1>10, <1>11 DEF InventoryNext

(* A row that is found is still found after a step that keeps the rows.    *)
LEMMA StillHasRow ==
  ASSUME \A p \in Products : KeepsRow(p), NEW k, HasRow(k)
  PROVE  HasRow(k)'
  BY DEF KeepsRow, HasRow, RowsOf, IsRowOf

(* The calls that createLog and update start.                              *)
LEMMA FreshLog ==
  ASSUME NEW k \in Skus, NEW x \in Products, NEW d \in Int
  PROVE  LET q == [NoUpdate EXCEPT !.pc = "read", !.sku = k, !.product = x, !.delta = d]
         IN  CallOK(q) /\ q.seen = None
  <1>1. ASSUME NEW u \in Update
        PROVE  [u EXCEPT !.pc = "read", !.sku = k, !.product = x, !.delta = d] \in Update
    BY DEF Update, UpdateStage
  <1> DEFINE q == [NoUpdate EXCEPT !.pc = "read", !.sku = k, !.product = x, !.delta = d]
  <1>u. NoUpdate \in Update
    BY DEF NoUpdate, Update, UpdateStage
  <1>2. q \in Update
    BY <1>1, <1>u
  <1>3. q.pc = "read" /\ q.sku = k /\ q.product = x /\ q.seen = None /\ q.setting = FALSE
    BY DEF NoUpdate
  <1> HIDE DEF q
  <1>4. CallOK(q) /\ q.seen = None
    BY <1>2, <1>3 DEF CallOK
  <1> QED
    BY <1>4 DEF q

(* A call of the inventory service goes from one good state to another.    *)
LEMMA CallMoves ==
  ASSUME RestockingIInv, InventoryNext
  PROVE  \/ UNCHANGED upd
         \/ \E c \in Updates :
               /\ \A i \in Updates : i # c => upd'[i] = upd[i]
               /\ CallOK(upd'[c])
               /\ upd'[c].seen # None => HasRow(upd'[c].sku)
               /\ upd' \in [Updates -> Update]
  <1>a. /\ TablesOK /\ upd \in [Updates -> Update] /\ \A c \in Updates : CallOK(upd[c])
        /\ \A c \in Updates : upd[c].seen # None => HasRow(upd[c].sku)
    BY DEF RestockingIInv, IInv, TypeOK, InventoryTypeOK, UpdatesKnowRows
  <1> DEFINE Moves(c) == /\ \A i \in Updates : i # c => upd'[i] = upd[i]
                         /\ CallOK(upd'[c])
                         /\ upd'[c].seen # None => HasRow(upd'[c].sku)
                         /\ upd' \in [Updates -> Update]
  <1>b. ASSUME NEW c \in Updates, NEW q, CallOK(q), q.seen # None => HasRow(q.sku),
               upd' = [upd EXCEPT ![c] = q]
        PROVE  Moves(c)
    <2>1. q \in Update
      BY <1>b DEF CallOK
    <2>2. upd'[c] = q /\ \A i \in Updates : i # c => upd'[i] = upd[i]
      BY <1>a, <1>b
    <2> QED
      BY <1>a, <1>b, <2>1, <2>2
  <1>n. CallOK(NoUpdate) /\ NoUpdate.seen = None
    BY DEF CallOK, NoUpdate, Update, UpdateStage
  <1>k. \A k \in Skus : ProductOf(k) \in Products
    BY ProductOfSku
  <1>1. ASSUME NEW c \in Updates, NEW k \in Skus, NEW d \in Deltas, CreateLog(c, k, d)
        PROVE  Moves(c)
    <2> DEFINE q == [NoUpdate EXCEPT !.pc = "read", !.sku = k, !.product = ProductOf(k), !.delta = d]
    <2>1. CallOK(q) /\ q.seen = None
      BY <1>k, FreshLog, InventoryAssumption
    <2>2. upd' = [upd EXCEPT ![c] = q]
      BY <1>1 DEF CreateLog
    <2> HIDE DEF q, Moves
    <2> QED
      BY <1>b, <2>1, <2>2
  <1>2. ASSUME NEW c \in Updates, LogRead(c)
        PROVE  Moves(c)
    <2> DEFINE q == upd[c]
               s == StockSeen(q.sku)
               n == AtLeastZero(q.delta + (IF s = None THEN 0 ELSE s))
               p == [q EXCEPT !.pc = "write", !.seen = s, !.local = n]
    <2>1. q \in Update /\ q.sku \in Skus /\ q.product \in Products /\ q.delta \in Int /\ q.pc = "read"
          /\ (q.setting => q.target \in Int)
      BY <1>a, <1>2 DEF LogRead, CallOK, Update
    <2>2. s \in Int \cup {None} /\ (s # None => HasRow(q.sku))
      BY <1>a, <2>1, StockSeenType
    <2>3. n \in Int /\ n >= 0
      BY <2>1, <2>2 DEF AtLeastZero
    <2>4. upd' = [upd EXCEPT ![c].pc = "write", ![c].seen = s, ![c].local = n]
      BY <1>2 DEF LogRead
    <2> HIDE DEF q, s, n
    <2>5. upd' = [upd EXCEPT ![c] = p]
      BY <1>a, <2>4 DEF q, Update
    <2>6. CallOK(p) /\ p.seen = s /\ p.sku = q.sku
      BY <2>1, <2>2, <2>3 DEF CallOK, Update, UpdateStage
    <2> HIDE DEF p, Moves
    <2> QED
      BY <1>b, <2>2, <2>5, <2>6
  <1>3. ASSUME NEW c \in Updates, NEW stage \in UpdateStage,
               \/ upd[c].pc = "write" /\ stage = "sync"
               \/ upd[c].pc = "sync" /\ upd[c].setting /\ stage = "final"
               \/ upd[c].pc = "log" /\ stage = "read",
               upd' = [upd EXCEPT ![c] = [upd[c] EXCEPT !.pc = stage]]
        PROVE  Moves(c)
    <2> DEFINE q == upd[c]
               p == [q EXCEPT !.pc = stage]
    <2>1. CallOK(q) /\ q \in Update
      BY <1>a
    <2>2. CallOK(p) /\ p.seen = q.seen /\ p.sku = q.sku
      BY <1>3, <2>1 DEF CallOK, Update, UpdateStage
    <2> QED
      BY <1>3, <1>a, <1>b, <2>2
  <1>4. ASSUME NEW c \in Updates, LogWrite(c) \/ SetLog(c) \/ LogSync(c)
        PROVE  Moves(c)
    <2>1. CASE LogWrite(c)
      <3>1. upd' = [upd EXCEPT ![c] = [upd[c] EXCEPT !.pc = "sync"]] /\ upd[c].pc = "write"
        BY <1>a, <2>1 DEF LogWrite
      <3> QED
        BY <1>3, <3>1 DEF UpdateStage
    <2>2. CASE SetLog(c)
      <3>1. upd' = [upd EXCEPT ![c] = [upd[c] EXCEPT !.pc = "read"]] /\ upd[c].pc = "log"
        BY <1>a, <2>2 DEF SetLog
      <3> QED
        BY <1>3, <3>1 DEF UpdateStage
    <2>3. CASE LogSync(c) /\ upd[c].setting
      <3>1. upd' = [upd EXCEPT ![c] = [upd[c] EXCEPT !.pc = "final"]] /\ upd[c].pc = "sync"
        BY <1>a, <2>3 DEF LogSync
      <3> QED
        BY <1>3, <2>3, <3>1 DEF UpdateStage
    <2>4. CASE LogSync(c) /\ ~upd[c].setting
      <3>1. upd' = [upd EXCEPT ![c] = NoUpdate]
        BY <1>a, <2>4 DEF LogSync
      <3> QED
        BY <1>b, <1>n, <3>1
    <2> QED
      BY <1>4, <2>1, <2>2, <2>3, <2>4
  <1>5. ASSUME NEW c \in Updates, NEW k \in Skus, NEW t \in Targets \cup {None},
               NEW n \in Reserves \cup {None}, SetRead(c, k, t, n)
        PROVE  Moves(c)
    <2> DEFINE s == StockSeen(k)
               d == IF t = None THEN 0 ELSE IF HasRow(k) THEN t - s ELSE t
               x == ProductOf(k)
               q == [NoUpdate EXCEPT !.pc = "set", !.sku = k, !.setting = TRUE,
                        !.product = x, !.target = t, !.reserve = n, !.seen = s, !.delta = d]
    <2>1. s \in Int \cup {None} /\ (s # None => HasRow(k)) /\ (HasRow(k) => s \in Int)
      BY <1>a, StockSeenType
    <2>2. t \in Nat \cup {None} /\ n \in Nat \cup {None} /\ x \in Products
      BY <1>k, InventoryAssumption
    <2>3. d \in Int
      BY <2>1, <2>2
    <2>4. upd' = [upd EXCEPT ![c] = q]
      BY <1>5 DEF SetRead
    <2> HIDE DEF s, d, x
    <2>5. CallOK(q) /\ q.seen = s /\ q.sku = k
      <3> DEFINE v == [NoUpdate EXCEPT !.pc = "set", !.sku = k, !.setting = TRUE, !.product = x]
                 w == [v EXCEPT !.target = t, !.reserve = n, !.seen = s, !.delta = d]
      <3>1. v \in Update
        <4>1. ASSUME NEW u \in Update
              PROVE  [u EXCEPT !.pc = "set", !.sku = k, !.setting = TRUE, !.product = x] \in Update
          BY <2>2 DEF Update, UpdateStage
        <4> QED
          BY <1>n, <4>1 DEF CallOK
      <3>2. q = w
        OBVIOUS
      <3>3. q.pc = "set" /\ q.sku = k /\ q.product = x /\ q.target = t /\ q.seen = s
        BY DEF NoUpdate
      <3> HIDE DEF q, v
      <3>4. w \in Update
        <4>1. t \in Int \cup {None}
          BY <2>2
        <4> QED
          BY <2>1, <2>2, <2>3, <3>1, <4>1 DEF Update
      <3> HIDE DEF w
      <3> QED
        BY <2>2, <3>2, <3>3, <3>4 DEF CallOK
    <2> HIDE DEF q, Moves
    <2> QED
      BY <1>b, <2>1, <2>4, <2>5
  <1>6. ASSUME NEW c \in Updates, SetWrite(c)
        PROVE  Moves(c)
    <2> DEFINE q == upd[c]
               after == IF q.target # None THEN q.target
                        ELSE IF q.seen = None THEN 0 ELSE StockSeen(q.sku)
               stage == IF q.delta = 0 THEN "final" ELSE "log"
               p == [q EXCEPT !.pc = stage, !.target = after]
    <2>1. q \in Update /\ q.sku \in Skus /\ q.product \in Products /\ q.target \in Nat \cup {None}
      BY <1>a, <1>6 DEF SetWrite, CallOK
    <2>2. after \in Int
      BY <1>a, <2>1, StockSeenType
    <2>3. upd' = [upd EXCEPT ![c].pc = stage, ![c].target = after]
      BY <1>6 DEF SetWrite
    <2> HIDE DEF q, after
    <2>4. upd' = [upd EXCEPT ![c] = p]
      BY <1>a, <2>3 DEF q, Update
    <2>5. CallOK(p) /\ p.seen = q.seen /\ p.sku = q.sku
      BY <2>1, <2>2 DEF CallOK, Update, UpdateStage
    <2> HIDE DEF p, Moves
    <2> QED
      BY <1>a, <1>b, <2>4, <2>5 DEF q
  <1>7. ASSUME NEW c \in Updates, NEW x \in Products, NEW k \in Skus, NEW d \in Deltas,
               CreateRead(c, x, k, d)
        PROVE  Moves(c)
    <2> DEFINE n == mirror[k] + d
               q == [NoUpdate EXCEPT !.pc = "create", !.sku = k, !.product = x, !.delta = d, !.local = n]
    <2>1. n \in Int /\ d \in Int
      BY <1>a, InventoryAssumption DEF TablesOK
    <2>2. upd' = [upd EXCEPT ![c] = q] /\ (k \in Products => x = k)
      BY <1>7 DEF CreateRead
    <2> HIDE DEF n
    <2>3. CallOK(q) /\ q.seen = None
      BY <2>1, <2>2 DEF CallOK, NoUpdate, Update, UpdateStage
    <2> HIDE DEF q, Moves
    <2> QED
      BY <1>b, <2>2, <2>3
  <1>8. ASSUME NEW c \in Updates, upd' = [upd EXCEPT ![c] = NoUpdate]
        PROVE  Moves(c)
    BY <1>8, <1>b, <1>n
  <1> SUFFICES UNCHANGED upd \/ \E c \in Updates : Moves(c)
    OBVIOUS
  <1> HIDE DEF Moves
  <1>9. CASE RestockNext
    BY <1>1, <1>2, <1>4, <1>9 DEF RestockNext
  <1>10. CASE SetNext
    BY <1>4, <1>5, <1>6, <1>8, <1>10 DEF SetNext, SetFinal
  <1>11. CASE \E k \in Skus, d \in Deltas \ {0} :
                \/ Increment(k, d)
                \/ \E c \in Updates, p \in Products : CreateRead(c, p, k, d)
    BY <1>7, <1>11 DEF Increment
  <1>12. CASE \E c \in Updates : CreateCommit(c) \/ AbandonUpdate(c)
    BY <1>8, <1>12 DEF CreateCommit, AbandonUpdate
  <1> QED
    BY <1>9, <1>10, <1>11, <1>12 DEF InventoryNext, AddStock

(* Its other variables keep their types.                                   *)
LEMMA InventoryCounts ==
  ASSUME RestockingIInv, InventoryNext
  PROVE  logged' \in [Skus -> Int] /\ blurred' \subseteq Products /\ started' \in Nat
  <1>a. /\ TablesOK /\ InventoryTypeOK
        /\ \A c \in Updates : CallOK(upd[c]) /\ upd[c].delta \in Int
    BY DEF RestockingIInv, IInv, TypeOK, UpdatesKnowRows, CallOK, Update
  <1>1. started' \in Nat
    <2>1. started' = started \/ started' = started + 1
      BY DEF InventoryNext, RestockNext, SetNext, CreateLog, LogRead, LogWrite, LogSync, SetRead,
          SetWrite, SetLog, SetFinal, Increment, CreateRead, CreateCommit, AddStock, AbandonUpdate,
          Start
    <2> QED
      BY <1>a, <2>1 DEF InventoryTypeOK
  <1>2. \A c \in Updates : upd[c].pc # "idle" => upd[c].sku \in Skus
    BY <1>a DEF CallOK
  <1>3. ASSUME NEW k \in Skus, NEW d \in Int, logged' = [logged EXCEPT ![k] = @ + d]
        PROVE  logged' \in [Skus -> Int]
    BY <1>3, <1>a DEF InventoryTypeOK
  <1>4. logged' \in [Skus -> Int]
    <2>1. CASE \E c \in Updates : SetLog(c) \/ CreateCommit(c)
      BY <1>a, <1>2, <1>3, <2>1 DEF SetLog, CreateCommit
    <2>2. CASE UNCHANGED logged
      BY <1>a, <2>2 DEF InventoryTypeOK
    <2>3. ASSUME NEW k \in Skus, NEW d \in Deltas,
                 Increment(k, d) \/ AddStock(k, d) \/ \E c \in Updates : CreateLog(c, k, d)
          PROVE  logged' \in [Skus -> Int]
      BY <1>3, <2>3, InventoryAssumption DEF Increment, AddStock, CreateLog
    <2> QED
      BY <2>1, <2>2, <2>3
         DEF InventoryNext, RestockNext, SetNext, LogRead, LogWrite, LogSync, SetRead,
             SetWrite, SetFinal, CreateRead, AbandonUpdate, Skus
  <1>5. blurred' \subseteq Products
    <2>1. \A c \in Updates : upd[c].pc # "idle" => Blur(c) \subseteq Products
      BY <1>a, <1>2, RowFound DEF Blur, InventoryTypeOK
    <2>2. CASE UNCHANGED blurred
      BY <1>a, <2>2 DEF InventoryTypeOK
    <2>3. CASE \E c \in Updates : upd[c].pc # "idle" /\ blurred' = Blur(c)
      BY <2>1, <2>3
    <2> QED
      BY <2>2, <2>3
         DEF InventoryNext, RestockNext, SetNext, CreateLog, LogRead, LogWrite, LogSync, SetRead,
             SetWrite, SetLog, SetFinal, Increment, CreateRead, CreateCommit, AddStock, AbandonUpdate
  <1> QED
    BY <1>1, <1>4, <1>5

-----------------------------------------------------------------------------
(* The invariant of the shop that restocks                                 *)

(* The step of the inventory service leaves the invariant of the shop.     *)
LEMMA InventoryKeepsShop ==
  ASSUME RestockingIInv, InventoryNext, UNCHANGED <<orderVars, cart, cleanupVars>>
  PROVE  IInv'
  <1>1. UNCHANGED <<lines, orders>>
    BY DEF InventoryNext, RestockNext, SetNext, CreateLog, LogRead, LogWrite, LogSync, SetRead,
           SetWrite, SetLog, SetFinal, Increment, CreateRead, CreateCommit, AddStock,
           AbandonUpdate, tables
  <1>2. TablesOK'
    BY <1>1, InventoryRows DEF RestockingIInv, IInv, TypeOK, TablesOK
  <1>3. TypeOK'
    BY <1>2 DEF RestockingIInv, IInv, TypeOK, OrdersTypeOK, CartsTypeOK, CleanupTypeOK,
                orderVars, cleanupVars
  <1>4. RequestsKnowOrders' /\ CallsKnowLines' /\ QuantitiesPositive'
    BY <1>1 DEF RestockingIInv, IInv, RequestsKnowOrders, CallsKnowLines, QuantitiesPositive,
                IsLine, orderVars, cleanupVars
  <1> QED
    BY <1>3, <1>4 DEF IInv

(* A step of the shop leaves every row where it is.                        *)
LEMMA ShopKeepsRows ==
  ASSUME IInv, [Next]_vars
  PROVE  \A p \in Products : KeepsRow(p)
  <1>1. TablesOK
    BY DEF IInv, TypeOK
  <1>2. ASSUME NEW o \in OrderIds, NEW items \in [Skus -> Nat], Places(o, items), NEW p \in Products
        PROVE  KeepsRow(p)
    BY <1>1, <1>2, SoldRows DEF KeepsRow, Places
  <1> QED
    BY <1>2, StockMoves DEF KeepsRow, KeepsStock

(* The invariant of the shop that restocks, at the start and after a step. *)
LEMMA RestockingInitIInv == RestockingInit => RestockingIInv
  <1> SUFFICES ASSUME RestockingInit
               PROVE  RestockingIInv
    OBVIOUS
  <1>1. IInv
    BY InitIInv DEF RestockingInit
  <1>2. NoUpdate \in Update /\ CallOK(NoUpdate) /\ NoUpdate.seen = None
    BY DEF CallOK, NoUpdate, Update, UpdateStage
  <1>3. InventoryTypeOK /\ UpdatesKnowRows
    BY <1>2 DEF RestockingInit, InventoryInit, InventoryTypeOK, UpdatesKnowRows
  <1> QED
    BY <1>1, <1>3 DEF RestockingIInv

(* A step of the shop keeps every row a call has seen, a step of the       *)
(* inventory service moves one call.                                       *)
LEMMA RestockingStep == RestockingIInv /\ [RestockingNext]_restockingVars => RestockingIInv'
  <1> SUFFICES ASSUME RestockingIInv, [RestockingNext]_restockingVars
               PROVE  RestockingIInv'
    OBVIOUS
  <1>1. IInv /\ InventoryTypeOK /\ UpdatesKnowRows
    BY DEF RestockingIInv
  <1>2. ASSUME [Next]_vars, UNCHANGED inventoryVars
        PROVE  RestockingIInv'
    <2>1. IInv'
      BY <1>1, <1>2, TypeStep, RequestsStep, CallsStep, PositiveStep DEF IInv
    <2>2. \A p \in Products : KeepsRow(p)
      BY <1>1, <1>2, ShopKeepsRows
    <2>3. UNCHANGED <<upd, logged, blurred, started>>
      BY <1>2 DEF inventoryVars
    <2>4. \A c \in Updates : CallOK(upd[c])' /\ (upd'[c].seen # None => HasRow(upd[c].sku)')
      BY <1>1, <2>2, <2>3, StillHasRow DEF UpdatesKnowRows, CallOK
    <2> QED
      BY <1>1, <2>1, <2>3, <2>4 DEF RestockingIInv, InventoryTypeOK, UpdatesKnowRows
  <1>3. ASSUME InventoryNext, UNCHANGED <<orderVars, cart, cleanupVars>>
        PROVE  RestockingIInv'
    <2>1. IInv' /\ \A p \in Products : KeepsRow(p)
      BY <1>3, InventoryKeepsShop, InventoryRows
    <2>2. logged' \in [Skus -> Int] /\ blurred' \subseteq Products /\ started' \in Nat
      BY <1>3, InventoryCounts
    <2>3. ASSUME NEW k, HasRow(k) PROVE HasRow(k)'
      BY <2>1, <2>3, StillHasRow
    <2>4. /\ upd' \in [Updates -> Update]
          /\ \A c \in Updates : CallOK(upd'[c])
      BY <1>1, <1>3, CallMoves DEF InventoryTypeOK, UpdatesKnowRows
    <2>5. \A c \in Updates : upd'[c].seen # None => HasRow(upd[c].sku)'
      <3>1. ASSUME NEW c \in Updates, upd'[c].seen # None => HasRow(upd'[c].sku)
            PROVE  upd'[c].seen # None => HasRow(upd[c].sku)'
        BY <2>3, <3>1 DEF HasRow, RowsOf, IsRowOf
      <3>2. ASSUME NEW c \in Updates, upd'[c] = upd[c]
            PROVE  upd'[c].seen # None => HasRow(upd[c].sku)'
        BY <1>1, <3>1, <3>2 DEF UpdatesKnowRows
      <3> QED
        BY <1>3, <3>1, <3>2, CallMoves
    <2> QED
      BY <2>1, <2>2, <2>4, <2>5 DEF RestockingIInv, InventoryTypeOK, UpdatesKnowRows, CallOK
  <1> QED
    BY <1>2, <1>3 DEF RestockingNext, restockingVars

(* The invariant holds in every reachable state of the shop that restocks. *)
THEOREM RestockingInvariance == RestockingSpec => []RestockingIInv
  BY RestockingInitIInv, RestockingStep, PTL DEF RestockingSpec

(* Type correctness with restocks: among others, the stock that createLog  *)
(* and update compute is an integer, and the mirror a known one.           *)
THEOREM RestockingTypeCorrect == RestockingSpec => []RestockingTypeOK
  <1>1. RestockingIInv => RestockingTypeOK
    BY DEF RestockingIInv, IInv, RestockingTypeOK
  <1> QED
    BY RestockingInvariance, <1>1, PTL

-----------------------------------------------------------------------------
(* The ledger of a row: what each step adds                                *)

(* What a call has logged for sku p and not yet written to its row.        *)
Due(q, p) == IF q.pc \in {"read", "write"} /\ q.sku = p THEN q.delta ELSE 0

(* A row filed under p for p itself is found under p only.                 *)
LEMMA OwnRow ==
  ASSUME NEW p \in Products, inventory[p] # None, inventory[p].variant = None
  PROVE  /\ \A k \in Skus : IsRowOf(p, k) <=> k = p
         /\ HasRow(p) /\ RowOf(p) = p
         /\ \A k \in Skus : HasRow(k) /\ k # p => RowOf(k) # p
  <1>1. \A k \in Skus : IsRowOf(p, k) <=> k = p
    BY SkuAssumption DEF IsRowOf, Skus
  <1>2. p \in Skus
    BY DEF Skus
  <1>3. HasRow(p)
    BY <1>1, <1>2 DEF HasRow, RowsOf
  <1>4. RowOf(p) = p
    BY <1>2, <1>3, RowFound, SkuAssumption DEF IsRowOf
  <1>5. \A k \in Skus : HasRow(k) /\ k # p => RowOf(k) # p
    BY <1>1, RowFound
  <1> QED
    BY <1>1, <1>3, <1>4, <1>5

(* What a step of the inventory service does to a row that is kept         *)
(* exactly: what it adds to the stock and to what is still due is what it  *)
(* logs.                                                                   *)
Settles(p) ==
    \/ /\ UNCHANGED upd
       /\ inventory'[p].stock + logged[p] = inventory[p].stock + logged'[p]
    \/ \E c \in Updates :
          /\ \A i \in Updates : i # c => upd'[i] = upd[i]
          /\ inventory'[p].stock + Due(upd'[c], p) + logged[p]
                = inventory[p].stock + Due(upd[c], p) + logged'[p]

(* Every step of the inventory service settles a row, unless it blurs it.  *)
LEMMA InventorySettles ==
  ASSUME RestockingIInv, InventoryNext, NEW p \in Products,
         inventory[p] # None, inventory[p].variant = None, p \notin blurred'
  PROVE  Settles(p)
  <1>a. /\ TablesOK /\ InventoryTypeOK /\ p \in Skus
        /\ inventory[p] \in Row /\ inventory[p].stock \in Int
        /\ \A c \in Updates : CallOK(upd[c])
        /\ \A c \in Updates : upd[c].seen # None => HasRow(upd[c].sku)
    BY DEF RestockingIInv, IInv, TypeOK, UpdatesKnowRows, TablesOK, Row, Skus
  <1>b. /\ upd \in [Updates -> Update] /\ logged \in [Skus -> Int] /\ logged[p] \in Int
        /\ inventory \in [Products -> Row \cup {None}]
        /\ \A c \in Updates : upd[c].delta \in Int
    BY <1>a DEF InventoryTypeOK, TablesOK, Update
  <1>c. /\ HasRow(p) /\ RowOf(p) = p
        /\ \A k \in Skus : HasRow(k) /\ k # p => RowOf(k) # p
    BY OwnRow
  <1>d. \A c \in Updates : upd[c].pc # "idle" => upd[c].sku \in Skus /\ upd[c].product \in Products
    BY <1>a DEF CallOK
  (* One call c moves: what it does to the call, to the stock and to the log. *)
  <1> DEFINE Settled(c) == /\ \A i \in Updates : i # c => upd'[i] = upd[i]
                           /\ inventory'[p].stock + Due(upd'[c], p) + logged[p]
                                = inventory[p].stock + Due(upd[c], p) + logged'[p]
  <1>e. ASSUME NEW c \in Updates, \A i \in Updates : i # c => upd'[i] = upd[i],
               inventory'[p].stock = inventory[p].stock, logged'[p] = logged[p],
               Due(upd'[c], p) = Due(upd[c], p), Due(upd[c], p) \in Int
        PROVE  Settled(c)
    BY <1>a, <1>b, <1>e
  <1>z. ASSUME NEW c \in Updates PROVE Due(upd[c], p) \in Int
    BY <1>b DEF Due
  <1>n. Due(NoUpdate, p) = 0
    BY DEF Due, NoUpdate
  <1>1. ASSUME NEW c \in Updates, NEW k \in Skus, NEW d \in Deltas, CreateLog(c, k, d)
        PROVE  Settled(c)
    <2>1. d \in Int /\ UNCHANGED inventory
      BY <1>1, InventoryAssumption DEF CreateLog, tables
    <2>2. logged'[p] = logged[p] + (IF k = p THEN d ELSE 0)
      BY <1>1, <1>a, <1>b, <2>1 DEF CreateLog
    <2>3. upd'[c].pc = "read" /\ upd'[c].sku = k /\ upd'[c].delta = d
          /\ \A i \in Updates : i # c => upd'[i] = upd[i]
      BY <1>1, <1>b DEF CreateLog, NoUpdate
    <2>4. Due(upd'[c], p) = IF k = p THEN d ELSE 0
      BY <2>3 DEF Due
    <2>5. Due(upd[c], p) = 0
      BY <1>1, <1>n DEF CreateLog
    <2> QED
      BY <1>a, <1>b, <2>1, <2>2, <2>3, <2>4, <2>5
  <1>2. ASSUME NEW c \in Updates, LogRead(c)
        PROVE  Settled(c)
    <2>1. UNCHANGED <<inventory, logged>> /\ upd[c].pc = "read"
      BY <1>2 DEF LogRead, tables
    <2>2. /\ upd'[c].pc = "write" /\ upd'[c].sku = upd[c].sku /\ upd'[c].delta = upd[c].delta
          /\ \A i \in Updates : i # c => upd'[i] = upd[i]
      BY <1>2, <1>b DEF LogRead, Update
    <2>3. Due(upd'[c], p) = Due(upd[c], p)
      BY <2>1, <2>2 DEF Due
    <2> QED
      BY <1>e, <1>z, <2>1, <2>2, <2>3
  <1>3. ASSUME NEW c \in Updates, LogWrite(c)
        PROVE  Settled(c)
    <2> DEFINE q == upd[c]
    <2>1. /\ q.pc = "write" /\ q.sku \in Skus /\ q.product \in Products /\ q.local \in Int
          /\ logged' = logged /\ q.delta \in Int
      BY <1>3, <1>a, <1>b, <1>d DEF LogWrite, Update, CallOK
    <2>2. /\ upd'[c].pc = "sync" /\ \A i \in Updates : i # c => upd'[i] = upd[i]
      BY <1>3, <1>b DEF LogWrite, Update
    <2>3. Due(upd'[c], p) = 0
      BY <2>2 DEF Due
    <2>4. CASE q.sku = p
      <3>1. Exact(q)
        BY <1>3, <1>c, <2>4 DEF LogWrite, Blur
      <3>2. inventory' = [inventory EXCEPT ![p].stock = q.local]
            /\ q.local = inventory[p].stock + q.delta
        BY <1>3, <1>c, <2>4, <3>1 DEF LogWrite, Exact
      <3>3. inventory'[p].stock = q.local
        BY <1>a, <2>1, <3>2, RowWritten
      <3>4. Due(q, p) = q.delta
        BY <2>1, <2>4 DEF Due
      <3> QED
        BY <1>a, <1>b, <2>1, <2>2, <2>3, <3>2, <3>3, <3>4
    <2>5. CASE q.sku # p
      <3>1. inventory'[p] = inventory[p]
        <4>1. CASE q.seen = None
          BY <1>3, <1>b, <4>1 DEF LogWrite, RowInsertable
        <4>2. CASE q.seen # None
          <5>1. RowOf(q.sku) # p
            BY <1>a, <1>c, <2>1, <2>5, <4>2
          <5> QED
            BY <1>3, <1>b, <4>2, <5>1 DEF LogWrite
        <4> QED
          BY <4>1, <4>2
      <3>2. Due(q, p) = 0
        BY <2>5 DEF Due
      <3> QED
        BY <1>e, <2>1, <2>2, <2>3, <3>1, <3>2
    <2> QED
      BY <2>4, <2>5
  <1>4. ASSUME NEW c \in Updates, LogSync(c) \/ SetFinal(c)
        PROVE  Settled(c)
    <2>1. UNCHANGED <<inventory, logged>> /\ upd[c].pc \in {"sync", "final"}
      BY <1>4 DEF LogSync, SetFinal
    <2>2. /\ upd'[c] = NoUpdate \/ upd'[c].pc = "final"
          /\ \A i \in Updates : i # c => upd'[i] = upd[i]
      BY <1>4, <1>b DEF LogSync, SetFinal, Update
    <2>3. Due(upd[c], p) = 0 /\ Due(upd'[c], p) = 0
      BY <1>n, <2>1, <2>2 DEF Due
    <2> QED
      BY <1>e, <2>1, <2>2, <2>3
  <1>5. ASSUME NEW c \in Updates, NEW k \in Skus, NEW s \in Targets \cup {None},
               NEW n \in Reserves \cup {None}, SetRead(c, k, s, n)
        PROVE  Settled(c)
    <2>1. UNCHANGED <<inventory, logged>> /\ upd[c] = NoUpdate
      BY <1>5 DEF SetRead, tables
    <2>2. /\ upd'[c].pc = "set" /\ \A i \in Updates : i # c => upd'[i] = upd[i]
      BY <1>5, <1>b DEF SetRead, NoUpdate
    <2>3. Due(upd[c], p) = 0 /\ Due(upd'[c], p) = 0
      BY <1>n, <2>1, <2>2 DEF Due
    <2> QED
      BY <1>e, <2>1, <2>2, <2>3
  <1>6. ASSUME NEW c \in Updates, SetWrite(c)
        PROVE  Settled(c)
    <2> DEFINE q == upd[c]
    <2>1. /\ q.pc = "set" /\ q.sku \in Skus /\ q.product \in Products
          /\ logged' = logged
      BY <1>6, <1>d DEF SetWrite
    <2>2. /\ upd'[c].pc \in {"final", "log"} /\ \A i \in Updates : i # c => upd'[i] = upd[i]
      BY <1>6, <1>b DEF SetWrite, Update
    <2>3. Due(q, p) = 0 /\ Due(upd'[c], p) = 0
      BY <2>1, <2>2 DEF Due
    <2>4. inventory'[p].stock = inventory[p].stock
      <3>1. CASE q.seen = None
        BY <1>6, <1>b, <3>1 DEF SetWrite, RowInsertable
      <3>2. CASE q.seen # None /\ q.sku # p
        <4>1. RowOf(q.sku) # p
          BY <1>a, <1>c, <2>1, <3>2
        <4> QED
          BY <1>6, <1>b, <3>2, <4>1 DEF SetWrite
      <3>3. CASE q.seen # None /\ q.sku = p
        <4>1. q.target = None
          BY <1>6, <1>c, <3>3 DEF SetWrite, Blur
        <4> DEFINE s == inventory[p].stock
                   e == IF q.reserve = None THEN inventory[p].reserved ELSE q.reserve
                   row == inventory[p]
        <4>2. inventory' = [inventory EXCEPT ![p].stock = s,
                                             ![p].reserved = IF q.reserve = None THEN @ ELSE q.reserve]
          BY <1>6, <1>c, <3>3, <4>1 DEF SetWrite, StockSeen
        <4>3. s \in Int /\ row \in Row
          BY <1>a
        <4>4. inventory'[p] = [row EXCEPT !.stock = s, !.reserved = e]
          BY <1>b, <4>2, <4>3 DEF Row
        <4> HIDE DEF s, e, row
        <4>5. inventory'[p].stock = s
          BY <4>3, <4>4 DEF Row
        <4> QED
          BY <4>5 DEF s
      <3> QED
        BY <3>1, <3>2, <3>3
    <2> QED
      BY <1>e, <2>1, <2>2, <2>3, <2>4
  <1>7. ASSUME NEW c \in Updates, SetLog(c)
        PROVE  Settled(c)
    <2> DEFINE q == upd[c]
    <2>1. /\ q.pc = "log" /\ q.sku \in Skus /\ q.delta \in Int /\ UNCHANGED inventory
      BY <1>7, <1>b, <1>d DEF SetLog, tables
    <2>2. /\ upd'[c].pc = "read" /\ upd'[c].sku = q.sku /\ upd'[c].delta = q.delta
          /\ \A i \in Updates : i # c => upd'[i] = upd[i]
      BY <1>7, <1>b DEF SetLog, Update
    <2>3. logged'[p] = logged[p] + (IF q.sku = p THEN q.delta ELSE 0)
      BY <1>7, <1>a, <1>b, <2>1 DEF SetLog
    <2>4. Due(q, p) = 0 /\ Due(upd'[c], p) = IF q.sku = p THEN q.delta ELSE 0
      BY <2>1, <2>2 DEF Due
    <2> HIDE DEF q
    <2>5. Due(upd[c], p) = 0
      BY <2>4 DEF q
    <2> QED
      BY <1>a, <1>b, <2>1, <2>2, <2>3, <2>4, <2>5
  <1>8. ASSUME NEW k \in Skus, NEW d \in Deltas, Increment(k, d)
        PROVE  UNCHANGED upd /\ inventory'[p].stock + logged[p] = inventory[p].stock + logged'[p]
    <2>1. d \in Int /\ HasRow(k) /\ UNCHANGED upd
      BY <1>8, InventoryAssumption DEF Increment
    <2>2. CASE k = p
      <3> DEFINE s == inventory[p].stock + d
      <3>1. inventory' = [inventory EXCEPT ![p].stock = s] /\ s \in Int
        BY <1>8, <1>a, <1>c, <2>1, <2>2 DEF Increment
      <3> HIDE DEF s
      <3>2. inventory'[p].stock = s
        BY <1>a, <3>1, RowWritten
      <3>3. logged'[p] = logged[p] + d
        BY <1>8, <1>a, <1>b, <2>2 DEF Increment
      <3> QED
        BY <1>a, <1>b, <2>1, <3>2, <3>3 DEF s
    <2>3. CASE k # p
      <3>1. RowOf(k) # p
        BY <1>c, <2>1, <2>3
      <3>2. inventory'[p] = inventory[p] /\ logged'[p] = logged[p]
        BY <1>8, <1>a, <1>b, <2>3, <3>1 DEF Increment
      <3> QED
        BY <2>1, <3>2
    <2> QED
      BY <2>2, <2>3
  <1>9. ASSUME NEW c \in Updates, NEW x \in Products, NEW k \in Skus, NEW d \in Deltas,
               CreateRead(c, x, k, d)
        PROVE  Settled(c)
    <2>1. UNCHANGED <<inventory, logged>> /\ upd[c] = NoUpdate
      BY <1>9 DEF CreateRead, tables
    <2>2. /\ upd'[c].pc = "create" /\ \A i \in Updates : i # c => upd'[i] = upd[i]
      BY <1>9, <1>b DEF CreateRead, NoUpdate
    <2>3. Due(upd[c], p) = 0 /\ Due(upd'[c], p) = 0
      BY <1>n, <2>1, <2>2 DEF Due
    <2> QED
      BY <1>e, <2>1, <2>2, <2>3
  <1>10. ASSUME NEW c \in Updates, CreateCommit(c)
        PROVE  Settled(c)
    <2> DEFINE q == upd[c]
    <2>1. /\ q.pc = "create" /\ inventory[q.product] = None /\ q.sku \in Skus
          /\ q.product # p
      BY <1>10, <1>d DEF CreateCommit, RowInsertable
    <2>2. q.sku # p
      BY <1>a, <2>1 DEF CallOK
    <2>3. inventory'[p] = inventory[p] /\ logged'[p] = logged[p]
      BY <1>10, <1>a, <1>b, <2>1, <2>2 DEF CreateCommit
    <2>4. upd'[c] = NoUpdate /\ \A i \in Updates : i # c => upd'[i] = upd[i]
      BY <1>10, <1>b DEF CreateCommit
    <2>5. Due(q, p) = 0 /\ Due(upd'[c], p) = 0
      BY <1>n, <2>1, <2>4 DEF Due
    <2> QED
      BY <1>e, <2>3, <2>4, <2>5
  <1>11. ASSUME NEW x \in Products, NEW d \in Deltas, AddStock(x, d)
         PROVE  UNCHANGED upd /\ inventory'[p].stock + logged[p] = inventory[p].stock + logged'[p]
    <2>1. d \in Int /\ x \in Skus /\ UNCHANGED upd
      BY <1>11, InventoryAssumption DEF AddStock, Skus
    <2>2. CASE x = p
      <3> DEFINE s == inventory[p].stock + d
      <3>1. inventory' = [inventory EXCEPT ![p].stock = s] /\ s \in Int
        BY <1>11, <1>a, <1>c, <2>1, <2>2 DEF AddStock
      <3> HIDE DEF s
      <3>2. inventory'[p].stock = s
        BY <1>a, <3>1, RowWritten
      <3>3. logged'[p] = logged[p] + d
        BY <1>11, <1>a, <1>b, <2>2 DEF AddStock
      <3> QED
        BY <1>a, <1>b, <2>1, <3>2, <3>3 DEF s
    <2>3. CASE x # p
      <3>1. inventory'[p] = inventory[p] /\ logged'[p] = logged[p]
        BY <1>11, <1>a, <1>b, <2>1, <2>3 DEF AddStock
      <3> QED
        BY <2>1, <3>1
    <2> QED
      BY <2>2, <2>3
  <1>12. ASSUME NEW c \in Updates, AbandonUpdate(c)
        PROVE  Settled(c)
    <2>1. UNCHANGED <<inventory, logged>> /\ upd'[c] = NoUpdate
          /\ \A i \in Updates : i # c => upd'[i] = upd[i]
      BY <1>12, <1>b DEF AbandonUpdate, tables
    <2>2. Due(upd[c], p) = 0
      BY <1>12, <1>c DEF AbandonUpdate, Due, Blur
    <2>3. Due(upd'[c], p) = 0
      BY <1>n, <2>1
    <2> QED
      BY <1>e, <2>1, <2>2, <2>3
  <1>13. ASSUME NEW c \in Updates, Settled(c) PROVE Settles(p)
    BY <1>13 DEF Settles
  <1> HIDE DEF Settled
  <1>14. CASE RestockNext
    BY <1>1, <1>2, <1>3, <1>4, <1>13, <1>14 DEF RestockNext
  <1>15. CASE SetNext
    BY <1>4, <1>5, <1>6, <1>7, <1>13, <1>15 DEF SetNext
  <1> QED
    BY <1>8, <1>9, <1>10, <1>11, <1>12, <1>13, <1>14, <1>15 DEF InventoryNext, Settles

-----------------------------------------------------------------------------
(* The ledger explains the stock                                           *)

LedgerInv == StockedRows /\ StockMatchesLedger

Dues(p) == [c \in Updates |-> Due(upd[c], p)]

(* A row filed under p for p itself: every term of its ledger is a number, *)
(* what is due to it is due to p, and its logs are those of p.             *)
HasLedger(p) ==
    RestockingIInv /\ inventory[p] # None /\ inventory[p].variant = None =>
        /\ Unapplied(p) = Dues(p)
        /\ SumFunction(LoggedFor(p)) = logged[p]
        /\ Dues(p) \in [Updates -> Int]
        /\ SumFunction(Dues(p)) \in Int /\ logged[p] \in Int /\ SumFunction(Taken(p)) \in Int
        /\ inventory[p].stock \in Int

(* It holds of every product.                                              *)
LEMMA LedgerTerms == \A p \in Products : HasLedger(p)
  <1> SUFFICES ASSUME NEW p \in Products, RestockingIInv,
                      inventory[p] # None, inventory[p].variant = None
               PROVE  /\ Unapplied(p) = Dues(p)
                      /\ SumFunction(LoggedFor(p)) = logged[p]
                      /\ Dues(p) \in [Updates -> Int]
                      /\ SumFunction(Dues(p)) \in Int /\ logged[p] \in Int
                      /\ SumFunction(Taken(p)) \in Int
                      /\ inventory[p].stock \in Int
    BY DEF HasLedger
  <1>a. /\ TablesOK /\ upd \in [Updates -> Update] /\ logged \in [Skus -> Int] /\ p \in Skus
        /\ \A c \in Updates : upd[c].pc # "idle" => upd[c].sku \in Skus
        /\ \A c \in Updates : upd[c].delta \in Int
    BY DEF RestockingIInv, IInv, TypeOK, InventoryTypeOK, UpdatesKnowRows, CallOK, Update, Skus
  <1>1. \A k \in Skus : IsRowOf(p, k) <=> k = p
    BY OwnRow
  <1>2. \A c \in Updates : Unapplied(p)[c] = Due(upd[c], p)
    BY <1>a, <1>1 DEF Unapplied, Due
  <1>3. Unapplied(p) = Dues(p)
    BY <1>2 DEF Unapplied, Dues
  <1>4. Dues(p) \in [Updates -> Int]
    BY <1>a DEF Dues, Due
  <1>5. SumFunction(Dues(p)) \in Int
    BY <1>4, WholeSumType, RestockingAssumption
  <1>6. SumFunction(LoggedFor(p)) = logged[p]
    <2> DEFINE z == [k \in Skus |-> 0]
               h == LoggedFor(p)
    <2>1. z \in [Skus -> Int] /\ (\A k \in Skus : z[k] = 0) /\ z[p] = 0
      BY <1>a
    <2>2. h \in [Skus -> Int] /\ h[p] = logged[p] /\ \A k \in Skus : k # p => z[k] = h[k]
      BY <1>a, <1>1 DEF LoggedFor
    <2> HIDE DEF z, h
    <2>3. SumFunction(z) = 0
      BY <2>1, WholeSumZero, RestockingAssumption
    <2>4. SumFunction(h) = SumFunction(z) - z[p] + h[p]
      BY <1>a, <2>1, <2>2, OneTermChanges, RestockingAssumption
    <2>5. SumFunction(h) = logged[p]
      BY <1>a, <2>1, <2>2, <2>3, <2>4
    <2> QED
      BY <2>5 DEF h
  <1>7. SumFunction(Taken(p)) \in Int
    <2>1. Taken(p) \in [OrderIds -> Int]
      BY <1>a, TakenType
    <2> QED
      BY <2>1, WholeSumType, StorefrontAssumption
  <1>8. inventory[p].stock \in Int /\ logged[p] \in Int
    BY <1>a DEF TablesOK, Row
  <1> QED
    BY <1>3, <1>4, <1>5, <1>6, <1>7, <1>8

(* The same of the state after a step.                                     *)
LEMMA LedgerTermsAfter == (\A p \in Products : HasLedger(p))'
  BY LedgerTerms, PTL

(* What was blurred stays blurred.                                         *)
LEMMA BlurredStays == InventoryNext => blurred \subseteq blurred'
  <1>1. \A c \in Updates : blurred \subseteq Blur(c)
    BY DEF Blur
  <1>2. InventoryNext => UNCHANGED blurred \/ \E c \in Updates : blurred' = Blur(c)
    BY DEF InventoryNext, RestockNext, SetNext, CreateLog, LogRead, LogWrite, LogSync, SetRead,
         SetWrite, SetLog, SetFinal, Increment, CreateRead, CreateCommit, AddStock, AbandonUpdate
  <1> QED
    BY <1>1, <1>2

(* The ledger holds at the start: nothing is logged, due or ordered.       *)
LEMMA LedgerInit == RestockingInit => LedgerInv
  <1> SUFFICES ASSUME RestockingInit
               PROVE  LedgerInv
    OBVIOUS
  <1>1. RestockingIInv /\ StockedRows /\ StockIsOpeningLessOrdered
    BY RestockingInitIInv, StockInit DEF RestockingInit, StockInv
  <1>2. ASSUME NEW p \in Stocked \ blurred
        PROVE  inventory[p].stock + SumFunction(Unapplied(p))
                 = InitStock[p] + SumFunction(LoggedFor(p)) - SumFunction(Taken(p))
    <2>1. p \in Products /\ InitStock[p] \in Int /\ p \in Skus
      BY StorefrontAssumption DEF Stocked, Skus
    <2>2. inventory[p] # None /\ inventory[p].variant = None
      BY <1>1, <1>2 DEF StockedRows
    <2>3. /\ Unapplied(p) = Dues(p)
          /\ SumFunction(LoggedFor(p)) = logged[p]
          /\ Dues(p) \in [Updates -> Int] /\ SumFunction(Taken(p)) \in Int
          /\ inventory[p].stock \in Int
      BY <1>1, <2>1, <2>2, LedgerTerms DEF HasLedger
    <2>4. \A c \in Updates : Dues(p)[c] = 0
      BY DEF RestockingInit, InventoryInit, Dues, Due, NoUpdate
    <2>5. SumFunction(Dues(p)) = 0
      BY <2>3, <2>4, WholeSumZero, RestockingAssumption
    <2>6. logged[p] = 0
      BY <2>1 DEF RestockingInit, InventoryInit
    <2>7. inventory[p].stock = InitStock[p] - SumFunction(Taken(p))
      BY <1>1, <1>2 DEF StockIsOpeningLessOrdered
    <2>8. SumFunction(Unapplied(p)) = 0 /\ SumFunction(LoggedFor(p)) = 0
      BY <2>3, <2>5, <2>6
    <2> DEFINE t == SumFunction(Taken(p))
               u == SumFunction(Unapplied(p))
               g == SumFunction(LoggedFor(p))
    <2> HIDE DEF t, u, g
    <2>9. inventory[p].stock + u = InitStock[p] + g - t
      BY <2>1, <2>3, <2>7, <2>8 DEF t, u, g
    <2> QED
      BY <2>9 DEF t, u, g
  <1> QED
    BY <1>1, <1>2 DEF LedgerInv, StockMatchesLedger

(* A step keeps it: the shop moves stock and taken, the service the rest.  *)
LEMMA LedgerStep ==
  RestockingIInv /\ LedgerInv /\ [RestockingNext]_restockingVars => LedgerInv'
  <1> SUFFICES ASSUME RestockingIInv, LedgerInv, [RestockingNext]_restockingVars, NEW p \in Stocked
               PROVE  /\ inventory'[p] # None /\ inventory'[p].variant = None
                      /\ p \notin blurred' =>
                            inventory'[p].stock + SumFunction(Unapplied(p)')
                              = InitStock[p] + SumFunction(LoggedFor(p)') - SumFunction(Taken(p)')
    BY DEF LedgerInv, StockedRows, StockMatchesLedger, Stocked
  <1>0. p \in Products /\ InitStock[p] \in Int /\ p \in Skus
    BY StorefrontAssumption DEF Stocked, Skus
  <1>1. inventory[p] # None /\ inventory[p].variant = None
    BY DEF LedgerInv, StockedRows
  <1>2. RestockingIInv'
    BY RestockingStep
  <1>3. inventory'[p] # None /\ inventory'[p].variant = None
    <2>1. KeepsRow(p)
      <3>1. CASE [Next]_vars
        BY <1>0, <3>1, ShopKeepsRows DEF RestockingIInv
      <3>2. CASE InventoryNext
        BY <1>0, <3>2, InventoryRows
      <3> QED
        BY <3>1, <3>2 DEF RestockingNext, restockingVars
    <2> QED
      BY <1>1, <2>1 DEF KeepsRow
  <1> DEFINE t == SumFunction(Taken(p))     t1 == SumFunction(Taken(p)')
             u == SumFunction(Dues(p))      u1 == SumFunction(Dues(p)')
             s == inventory[p].stock        s1 == inventory'[p].stock
             g == logged[p]                 g1 == logged'[p]
  <1>4. /\ Unapplied(p) = Dues(p) /\ SumFunction(LoggedFor(p)) = g
        /\ Dues(p) \in [Updates -> Int] /\ u \in Int /\ g \in Int /\ t \in Int /\ s \in Int
    BY <1>0, <1>1, LedgerTerms DEF HasLedger
  <1>5. /\ Unapplied(p)' = Dues(p)' /\ SumFunction(LoggedFor(p)') = g1
        /\ Dues(p)' \in [Updates -> Int] /\ u1 \in Int /\ g1 \in Int /\ t1 \in Int /\ s1 \in Int
    BY <1>0, <1>2, <1>3, LedgerTermsAfter DEF HasLedger
  <1>6. ASSUME p \notin blurred' PROVE s1 + u1 + t1 + g = s + u + t + g1 /\ p \notin blurred
    <2>1. CASE [Next]_vars /\ UNCHANGED inventoryVars
      <3>1. s1 + t1 = s + t
        BY <1>0, <1>1, <2>1, StockAndTaken DEF RestockingIInv
      <3>2. g1 = g /\ Dues(p)' = Dues(p) /\ blurred' = blurred
        BY <2>1 DEF inventoryVars, Dues, Due
      <3>3. u1 = u
        BY <3>2
      <3>4. g1 = g
        BY <3>2
      <3> HIDE DEF t, t1, u, u1, s, s1, g, g1
      <3> QED
        BY <1>4, <1>5, <1>6, <3>1, <3>2, <3>3, <3>4
    <2>2. CASE InventoryNext /\ UNCHANGED <<orderVars, cart, cleanupVars>>
      <3>1. Settles(p) /\ blurred \subseteq blurred'
        BY <1>0, <1>1, <1>6, <2>2, InventorySettles, BlurredStays
      <3>2. UNCHANGED orders
        BY <2>2 DEF InventoryNext, RestockNext, SetNext, CreateLog, LogRead, LogWrite, LogSync,
               SetRead, SetWrite, SetLog, SetFinal, Increment, CreateRead, CreateCommit, AddStock,
               AbandonUpdate, tables
      <3>3. Taken(p)' = Taken(p)
        BY <1>1, <1>3, <3>2 DEF Taken, UnitsFrom
      <3>4. t1 = t
        BY <3>3
      <3>5. CASE UNCHANGED upd /\ s1 + g = s + g1
        <4>1. Dues(p)' = Dues(p)
          BY <3>5 DEF Dues, Due
        <4>2. u1 = u /\ s1 + g = s + g1
          BY <3>5, <4>1
        <4> HIDE DEF t, t1, u, u1, s, s1, g, g1
        <4> QED
          BY <1>4, <1>5, <1>6, <3>1, <3>4, <4>2
      <3>6. ASSUME NEW c \in Updates, \A i \in Updates : i # c => upd'[i] = upd[i],
                   s1 + Due(upd'[c], p) + g = s + Due(upd[c], p) + g1
            PROVE  s1 + u1 + t1 + g = s + u + t + g1
        <4> DEFINE f == Dues(p)   h == Dues(p)'
        <4>1. /\ f \in [Updates -> Int] /\ h \in [Updates -> Int]
              /\ f[c] = Due(upd[c], p) /\ h[c] = Due(upd'[c], p)
              /\ \A i \in Updates : i # c => f[i] = h[i]
          BY <1>4, <1>5, <3>6 DEF Dues, Due
        <4>2. u = SumFunction(f) /\ u1 = SumFunction(h)
          OBVIOUS
        <4> HIDE DEF f, h, t, t1, u, u1, s, s1, g, g1
        <4>3. SumFunction(h) = SumFunction(f) - f[c] + h[c]
          BY <4>1, OneTermChanges, RestockingAssumption
        <4>4. f[c] \in Int /\ h[c] \in Int /\ s1 + h[c] + g = s + f[c] + g1
          BY <4>1, <3>6
        <4> QED
          BY <1>4, <1>5, <3>4, <4>2, <4>3, <4>4
      <3> QED
        BY <1>6, <3>1, <3>5, <3>6 DEF Settles
    <2> QED
      BY <2>1, <2>2 DEF RestockingNext, restockingVars
  <1>7. p \notin blurred' => s1 + u1 = InitStock[p] + g1 - t1
    <2> SUFFICES ASSUME p \notin blurred' PROVE s1 + u1 = InitStock[p] + g1 - t1
      OBVIOUS
    <2>1. s + SumFunction(Unapplied(p)) = InitStock[p] + SumFunction(LoggedFor(p)) - t
      BY <1>6 DEF LedgerInv, StockMatchesLedger
    <2>2. s + u = InitStock[p] + g - t
      BY <1>4, <2>1
    <2>3. s1 + u1 + t1 + g = s + u + t + g1
      BY <1>6
    <2> DEFINE i == InitStock[p]
    <2>4. /\ i \in Int /\ s \in Int /\ u \in Int /\ t \in Int /\ g \in Int
          /\ s1 \in Int /\ u1 \in Int /\ t1 \in Int /\ g1 \in Int
          /\ s + u = i + g - t
      BY <1>0, <1>4, <1>5, <2>2
    <2> HIDE DEF t, t1, u, u1, s, s1, g, g1, i
    <2>5. s1 + u1 = i + g1 - t1
      BY <2>3, <2>4
    <2> QED
      BY <2>5 DEF i
  <1> QED
    BY <1>3, <1>5, <1>7

(* The ledger explains the stock: a row holds its opening stock, plus what *)
(* was logged, less what was ordered, up to what a call is about to write, *)
(* unless the row was set, clamped, overwritten from a stale read or a     *)
(* call was stopped between its log and its write.                         *)
THEOREM LedgerExplainsStock == RestockingSpec => []StockMatchesLedger
  <1>1. LedgerInv => StockMatchesLedger
    BY DEF LedgerInv
  <1> QED
    BY RestockingInvariance, LedgerInit, LedgerStep, <1>1, PTL DEF RestockingSpec

-----------------------------------------------------------------------------
(* No log takes a row below zero                                           *)

(* What a call of the inventory service writes is not below zero, unless   *)
(* it increments the row.                                                  *)
LEMMA WritesFloor ==
  ASSUME RestockingIInv, InventoryNext, NEW p \in Products, inventory[p] # None
  PROVE  \/ inventory'[p].stock >= 0
         \/ inventory'[p].stock = inventory[p].stock
         \/ started' # started /\ upd' = upd
  <1>a. /\ TablesOK /\ InventoryTypeOK /\ started \in Nat
        /\ inventory[p] \in Row /\ inventory[p].stock \in Int
        /\ \A c \in Updates : CallOK(upd[c])
        /\ \A c \in Updates : upd[c].seen # None => HasRow(upd[c].sku)
    BY DEF RestockingIInv, IInv, TypeOK, UpdatesKnowRows, TablesOK, Row, InventoryTypeOK
  <1>b. inventory \in [Products -> Row \cup {None}]
    BY <1>a DEF TablesOK
  <1> DEFINE Good == inventory'[p].stock >= 0 \/ inventory'[p].stock = inventory[p].stock
  <1>1. ASSUME NEW c \in Updates, LogWrite(c) PROVE Good
    <2> DEFINE q == upd[c]
    <2>1. q.sku \in Skus /\ q.product \in Products /\ q.local \in Int /\ q.local >= 0
      BY <1>1, <1>a DEF LogWrite, CallOK, Update
    <2>2. CASE q.seen = None
      BY <1>1, <1>b, <2>2 DEF LogWrite, RowInsertable
    <2>3. CASE q.seen # None /\ RowOf(q.sku) = p
      <3>1. inventory' = [inventory EXCEPT ![p].stock = q.local]
        BY <1>1, <2>3 DEF LogWrite
      <3> HIDE DEF q
      <3>2. inventory'[p].stock = q.local
        BY <1>a, <2>1, <3>1, RowWritten
      <3> QED
        BY <2>1, <3>2
    <2>4. CASE q.seen # None /\ RowOf(q.sku) # p
      BY <1>1, <1>b, <2>4 DEF LogWrite
    <2> QED
      BY <2>2, <2>3, <2>4
  <1>2. ASSUME NEW c \in Updates, SetWrite(c) PROVE Good
    <2> DEFINE q == upd[c]
               after == IF q.target # None THEN q.target
                        ELSE IF q.seen = None THEN 0 ELSE StockSeen(q.sku)
               row == inventory[p]
               e == IF q.reserve = None THEN row.reserved ELSE q.reserve
    <2>1. q.sku \in Skus /\ q.target \in Nat \cup {None}
      BY <1>2, <1>a DEF SetWrite, CallOK, Update
    <2>2. CASE q.seen = None
      BY <1>2, <1>b, <2>2 DEF SetWrite, RowInsertable
    <2>3. CASE q.seen # None /\ RowOf(q.sku) = p
      <3>1. after \in Int /\ (after >= 0 \/ after = inventory[p].stock)
        BY <1>a, <2>1, <2>3 DEF StockSeen
      <3>2. inventory' = [inventory EXCEPT ![p].stock = after,
                                           ![p].reserved = IF q.reserve = None THEN @ ELSE q.reserve]
        BY <1>2, <2>3 DEF SetWrite
      <3>3. row \in Row
        BY <1>a
      <3> HIDE DEF after
      <3>4. inventory'[p] = [row EXCEPT !.stock = after, !.reserved = e]
        BY <1>b, <3>2, <3>3 DEF Row
      <3> HIDE DEF row, e
      <3>5. inventory'[p].stock = after
        BY <3>3, <3>4 DEF Row
      <3> QED
        BY <3>1, <3>5
    <2>4. CASE q.seen # None /\ RowOf(q.sku) # p
      BY <1>2, <1>b, <2>4 DEF SetWrite
    <2> QED
      BY <2>2, <2>3, <2>4
  <1>3. ASSUME NEW c \in Updates, CreateCommit(c) PROVE Good
    BY <1>3, <1>b DEF CreateCommit, RowInsertable
  <1>4. CASE UNCHANGED inventory
    BY <1>4
  <1>5. CASE UNCHANGED upd /\ started' = started + 1
    BY <1>a, <1>5
  <1> HIDE DEF Good
  <1>6. CASE RestockNext
    BY <1>1, <1>4, <1>6 DEF RestockNext, CreateLog, LogRead, LogSync, tables, Good
  <1>7. CASE SetNext
    BY <1>2, <1>4, <1>7 DEF SetNext, SetRead, SetLog, SetFinal, tables, Good
  <1>8. CASE \E k \in Skus, d \in Deltas \ {0} :
                \/ Increment(k, d)
                \/ \E c \in Updates, x \in Products : CreateRead(c, x, k, d)
    BY <1>4, <1>5, <1>8 DEF Increment, CreateRead, Start, tables
  <1>9. CASE \E x \in Products, d \in Deltas : AddStock(x, d)
    BY <1>5, <1>9 DEF AddStock, Start
  <1>10. CASE \E c \in Updates : CreateCommit(c) \/ AbandonUpdate(c)
    BY <1>3, <1>4, <1>10 DEF AbandonUpdate, tables, Good
  <1> QED
    BY <1>6, <1>7, <1>8, <1>9, <1>10 DEF InventoryNext

(* No log takes a row below zero: a stock falls there only by an order or  *)
(* by a raw increment (POST /update), which is a step of its own.          *)
THEOREM LogsLeaveNoDebt == RestockingSpec => NegativeOnlyBySaleOrIncrement
  <1>1. RestockingIInv /\ [RestockingNext]_restockingVars =>
          [\A p \in Products :
              inventory[p] # None /\ inventory'[p].stock < 0
                  /\ inventory'[p].stock < inventory[p].stock
              => orders' # orders \/ (started' # started /\ upd' = upd)]_restockingVars
    <2> SUFFICES ASSUME RestockingIInv, [RestockingNext]_restockingVars,
                        NEW p \in Products, inventory[p] # None, inventory'[p].stock < 0,
                        inventory'[p].stock < inventory[p].stock
                 PROVE  orders' # orders \/ (started' # started /\ upd' = upd)
      OBVIOUS
    <2>1. inventory[p].stock \in Int /\ ~(inventory'[p].stock = inventory[p].stock)
      BY DEF RestockingIInv, IInv, TypeOK, TablesOK, Row
    <2>2. inventory'[p] # None
      <3>1. CASE [Next]_vars
        BY <3>1, ShopKeepsRows DEF RestockingIInv, KeepsRow
      <3>2. CASE InventoryNext
        BY <3>2, InventoryRows DEF KeepsRow
      <3> QED
        BY <3>1, <3>2 DEF RestockingNext, restockingVars
    <2>3. inventory'[p].stock \in Int
      BY <2>2, RestockingStep DEF RestockingIInv, IInv, TypeOK, TablesOK, Row
    <2>4. CASE [Next]_vars
      <3>1. ASSUME NEW o \in OrderIds, NEW items \in [Skus -> Nat], Places(o, items)
            PROVE  orders' # orders
        BY <3>1 DEF Places
      <3>2. ~KeepsStock(p)
        BY <2>1 DEF KeepsStock
      <3> QED
        BY <2>4, <3>1, <3>2, StockMoves DEF RestockingIInv
    <2>5. CASE InventoryNext
      <3>1. ~(inventory'[p].stock >= 0)
        BY <2>3
      <3> QED
        BY <2>1, <2>5, <3>1, WritesFloor
    <2> QED
      BY <2>4, <2>5 DEF RestockingNext, restockingVars
  <1> QED
    BY RestockingInvariance, <1>1, PTL DEF RestockingSpec, NegativeOnlyBySaleOrIncrement

-----------------------------------------------------------------------------
(* What is shown of the stock                                              *)

(* A step of the shop files no second row for a sku that has one.          *)
LEMMA RowsStay ==
  ASSUME IInv, [Next]_vars, NEW k \in Skus, HasRow(k)
  PROVE  RowsOf(k)' = RowsOf(k)
  <1>a. TablesOK
    BY DEF IInv, TypeOK
  <1>b. \A p \in Products : KeepsRow(p)
    BY ShopKeepsRows
  <1>1. ASSUME NEW p \in Products, inventory[p] = None, inventory'[p] # None PROVE ~IsRowOf(p, k)'
    <2>1. ASSUME UNCHANGED inventory PROVE FALSE
      BY <1>1, <2>1
    <2>2. ASSUME NEW items, inventory' = Sold(items) PROVE FALSE
      BY <1>1, <2>2 DEF Sold
    <2>3. ASSUME NEW u \in Users, NEW j \in Skus, NEW n \in 1..MaxLineQty, AddToCart(u, j, n)
          PROVE  ~IsRowOf(p, k)'
      <3>1. /\ ~HasRow(j) /\ RowInsertable(ProductOf(j), j) /\ ProductOf(j) = p
            /\ inventory'[p] = NewRow(j, mirror[j], 0)
        BY <1>a, <1>1, <2>3, ProductOfSku DEF AddToCart, WithRow, TablesOK
      <3>2. k # j
        BY <3>1
      <3>3. inventory'[p].variant = VariantIn(j)
        BY <3>1 DEF NewRow
      <3>4. k # p
        BY <1>1, SkuAssumption DEF HasRow, RowsOf, IsRowOf
      <3>5. k \in Variants => inventory'[p].variant # k
        BY <3>2, <3>3, SkuAssumption DEF VariantIn, Skus
      <3> QED
        BY <3>4, <3>5 DEF IsRowOf
    <2>4. ASSUME NEW i \in Crons, NEW s \in todo[i], ReleaseExpired(i, s) PROVE FALSE
      <3>1. s.sku \in Skus
        BY DEF IInv, TypeOK, CleanupTypeOK, Snapshot
      <3>2. RowOf(s.sku) # p
        BY <1>1, <2>4, <3>1, RowFound DEF ReleaseExpired, Releasable, IsRowOf
      <3> QED
        BY <1>a, <1>1, <2>4, <3>2 DEF ReleaseExpired, TablesOK
    <2>5. CASE OrdersNext
      BY <2>1, <2>2, <2>5
         DEF OrdersNext, CreateOrder, OrdersStep, UpdateRead, UpdateWrite, RestoreItem, LogReturn,
             AddTimelineEntry, CancelRead, CancelCommit, Abandon, tables
    <2>6. CASE CartsNext
      BY <2>1, <2>3, <2>6
         DEF CartsNext, UpdateItemRead, UpdateItemCommit, RemoveItem, ClearCart, MergeRead,
             MergeCommit, AbandonCartCall, Expire, tables
    <2>7. CASE CleanupNext
      BY <2>1, <2>4, <2>7
         DEF CleanupNext, CleanupRun, StartCleanup, CleanupFails, CleanupStops, tables
    <2> QED
      BY <2>1, <2>5, <2>6, <2>7 DEF Next, vars, tables
  <1> QED
    BY <1>b, <1>1 DEF RowsOf, IsRowOf, KeepsRow

(* So what is shown of it is what is available of the same row.            *)
LEMMA ShownMoves ==
  ASSUME IInv, [Next]_vars, NEW k \in Skus, HasRow(k)
  PROVE  /\ AvailableQuantity(k) \in Int /\ AvailableQuantity(k)' \in Int
         /\ AvailableQuantity(k)' >= AvailableQuantity(k)
  <1> DEFINE p == RowOf(k)
  <1>1. RowsOf(k)' = RowsOf(k)
    BY RowsStay
  <1>2. HasRow(k)' /\ RowOf(k)' = p
    BY <1>1 DEF HasRow, RowOf, RowsOf
  <1>3. p \in Products /\ inventory[p] # None /\ inventory'[p] # None
    BY RowFound, ShopKeepsRows DEF IsRowOf, KeepsRow
  <1>4. TablesOK /\ TablesOK'
    BY TypeStep DEF IInv, TypeOK
  <1>5. inventory[p] \in Row /\ inventory'[p] \in Row
    BY <1>3, <1>4 DEF TablesOK
  <1>6. AvailableQuantity(k) = Available(inventory[p]) /\ AvailableQuantity(k)' = Available(inventory'[p])
    BY <1>2 DEF AvailableQuantity, Available
  <1> HIDE DEF p
  <1>7. Available(inventory[p]) \in Int /\ Available(inventory'[p]) \in Int
    BY <1>5 DEF Available, Row
  <1>8. Available(inventory'[p]) >= Available(inventory[p])
    BY <1>3, <1>7, AvailabilityMoves
  <1> QED
    BY <1>6, <1>7, <1>8

(* Every call of the inventory service is counted or moves one in flight.  *)
LEMMA CallsAreSeen ==
  ASSUME RestockingIInv, InventoryNext
  PROVE  upd' # upd \/ started' # started
  <1>1. upd \in [Updates -> Update] /\ started \in Nat
    BY DEF RestockingIInv, InventoryTypeOK
  <1>2. ASSUME Start PROVE started' # started
    BY <1>1, <1>2 DEF Start
  <1>3. ASSUME NEW c \in Updates, upd'[c].pc # upd[c].pc PROVE upd' # upd
    BY <1>3
  <1>4. ASSUME NEW c \in Updates,
               LogRead(c) \/ LogWrite(c) \/ SetWrite(c) \/ SetLog(c) \/ CreateCommit(c) \/ SetFinal(c)
        PROVE  upd'[c].pc # upd[c].pc
    BY <1>1, <1>4 DEF LogRead, LogWrite, SetWrite, SetLog, CreateCommit, SetFinal, NoUpdate, Update
  <1>5. ASSUME NEW c \in Updates, LogSync(c) PROVE upd'[c].pc # upd[c].pc
    BY <1>1, <1>5 DEF LogSync, NoUpdate, Update
  <1>6. ASSUME NEW c \in Updates, AbandonUpdate(c) PROVE upd' # upd
    BY <1>1, <1>6 DEF AbandonUpdate
  <1>7. ASSUME \/ \E c \in Updates, k \in Skus, d \in Deltas : CreateLog(c, k, d)
               \/ \E c \in Updates, k \in Skus, x \in Targets \cup {None}, n \in Reserves \cup {None} :
                     SetRead(c, k, x, n)
               \/ \E k \in Skus, d \in Deltas : Increment(k, d)
               \/ \E c \in Updates, k \in Skus, p \in Products, d \in Deltas : CreateRead(c, p, k, d)
               \/ \E p \in Products, d \in Deltas : AddStock(p, d)
        PROVE  started' # started
    BY <1>2, <1>7 DEF CreateLog, SetRead, Increment, CreateRead, AddStock
  <1> QED
    BY <1>3, <1>4, <1>5, <1>6, <1>7 DEF InventoryNext, RestockNext, SetNext

(* The status shown of a sku with a row does not follow its sales: neither *)
(* orders nor carts make it worse (inventory.service.ts:746).              *)
THEOREM StatusIgnoresSales == RestockingSpec => StatusWorsensOnlyByInventory
  <1>1. RestockingIInv /\ [RestockingNext]_restockingVars =>
          [\A k \in Skus : HasRow(k) /\ Worse(StockStatus(k), StockStatus(k)')
              => upd' # upd \/ started' # started]_restockingVars
    <2> SUFFICES ASSUME RestockingIInv, [RestockingNext]_restockingVars, NEW k \in Skus, HasRow(k),
                        Worse(StockStatus(k), StockStatus(k)')
                 PROVE  upd' # upd \/ started' # started
      OBVIOUS
    <2>1. CASE [Next]_vars
      <3> DEFINE n == AvailableQuantity(k)
                 m == AvailableQuantity(k)'
      <3>1. n \in Int /\ m \in Int /\ m >= n
        BY <2>1, ShownMoves DEF RestockingIInv
      <3>2. StockStatus(k) = CASE n <= 0 -> "OUT_OF_STOCK"
                               [] n \in 1 .. 4 -> "LOW_STOCK"
                               [] OTHER -> "IN_STOCK"
        BY DEF StockStatus
      <3>3. StockStatus(k)' = CASE m <= 0 -> "OUT_OF_STOCK"
                                [] m \in 1 .. 4 -> "LOW_STOCK"
                                [] OTHER -> "IN_STOCK"
        BY DEF StockStatus
      <3> HIDE DEF n, m
      <3>4. ~Worse(StockStatus(k), StockStatus(k)')
        BY <3>1, <3>2, <3>3 DEF Worse
      <3> QED
        BY <3>4
    <2>2. CASE InventoryNext
      BY <2>2, CallsAreSeen
    <2> QED
      BY <2>1, <2>2 DEF RestockingNext, restockingVars
  <1> QED
    BY RestockingInvariance, <1>1, PTL DEF RestockingSpec, StatusWorsensOnlyByInventory
=============================================================================
