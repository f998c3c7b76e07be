-------------------------- MODULE CatalogueProofs ---------------------------
(***************************************************************************)
(* Stock shown against stock held, orders against removals, and the stock  *)
(* of variants through an edit: for any number of products, variants,      *)
(* orders and requests.  Then accounts, which share nothing with them:     *)
(* sessions and guessed passwords, and the default of a user's addresses.  *)
(***************************************************************************)
EXTENDS Catalogue, FiniteSetTheorems, SequenceTheorems, TLAPS

CONSTANTS Users, Requests, Patience, AdminPatience, MaxOps, AddressIds, Visitors

VARIABLES account, carts, call, ops, guesses, reprieved, overtaken, book, used, visit, crowded, disturbed

INSTANCE Addresses

(* The foreign keys: a variant has its product, and an item of an order    *)
(* names what is there.                                                    *)
Names(x) ==
    /\ x.product # None => OnSale(x.product)
    /\ x.variant # None => IsVariant(x.variant) /\ variant[x.variant].product = x.product

Linked ==
    /\ \A v \in VariantIds : IsVariant(v) => OnSale(variant[v].product)
    /\ \A o \in OrderIds : order[o] # None => Names(order[o])

(* Nothing is filed under a product before it is created.                  *)
Untouched == \A p \in Products : product[p] = None => row[p] = None /\ moved[p] = 0

(* Which of its fields a request uses; and an order of what is about to be *)
(* removed was placed after the orders were counted.                       *)
Armed(q) ==
    /\ q.pc \in {"update", "remove"} => q.product \in Products
    /\ q.pc = "removeVariant" => q.variant \in VariantIds
    /\ q.pc = "remove" => \A o \in OrderIds \ unseen : order[o] # None => order[o].product # q.product

IInv ==
    /\ TypeOK /\ Linked /\ Untouched
    /\ \A e \in Editors : Armed(edit[e])
    /\ ColumnAheadBySales /\ OrderedProductKept

-----------------------------------------------------------------------------
LEMMA Constants ==
    /\ None \notin Products /\ None \notin VariantIds /\ None \notin Int
    /\ None # Deleted /\ Deleted \notin Int /\ Stocks \subseteq Nat
    /\ None \notin Variant /\ Deleted \notin Variant /\ None \notin Row
    /\ None \notin Line /\ Deleted \notin Line /\ None \notin Order
    /\ MaxStock \in Nat /\ MaxEdits \in Nat
  BY CatalogueAssumption, RowsAssumption DEF CatalogueAssumption, RowsAssumption, Stocks

LEMMA IdleIsEdit == Idle \in Edit /\ Idle.pc = "idle"
  BY Constants DEF Idle, Edit

LEMMA StartIsEdit ==
    /\ \A p \in Products : [Idle EXCEPT !.pc = "remove", !.product = p] \in Edit
    /\ \A v \in VariantIds : [Idle EXCEPT !.pc = "removeVariant", !.variant = v] \in Edit
    /\ \A p \in Products, x \in Int, h \in SUBSET Variant, s \in Stocks \cup {None}, f \in Form \cup {None} :
          [Idle EXCEPT !.pc = "update", !.product = p, !.seen = x, !.matched = h, !.stock = s,
                       !.form = f] \in Edit
  BY Constants DEF Idle, Edit

LEMMA Typed ==
    ASSUME TypeOK
    PROVE  /\ \A p \in Products : OnSale(p) <=> product[p] \in Int
           /\ \A v \in VariantIds : IsVariant(v) <=> variant[v] \in Variant
           /\ \A p \in Products : row[p] # None <=> row[p] \in Row
           /\ \A l \in LineIds : IsLine(l) <=> line[l] \in Line
           /\ \A o \in OrderIds : order[o] # None <=> order[o] \in Order
  BY Constants DEF TypeOK, OnSale, IsVariant, IsLine

(* The table with the variants of a form in it.                            *)
LEMMA VariantsWritten ==
    ASSUME TypeOK, NEW p \in Products, NEW f \in Form, NEW n \in Numberings(f)
    PROVE  /\ WithVariants(p, f, n) \in [VariantIds -> Variant \cup {None, Deleted}]
           /\ \A v \in VariantIds :
                 /\ v \in VariantsOf(p) => WithVariants(p, f, n)[v] = Deleted
                 /\ v \notin VariantsOf(p) /\ variant[v] # None => WithVariants(p, f, n)[v] = variant[v]
                 /\ variant[v] = None /\ WithVariants(p, f, n)[v] # None =>
                       /\ WithVariants(p, f, n)[v] \in Variant
                       /\ WithVariants(p, f, n)[v].product = p
                       /\ WithVariants(p, f, n)[v].sku \in DOMAIN f
                       /\ WithVariants(p, f, n)[v].stock = f[WithVariants(p, f, n)[v].sku]
  <1> DEFINE W == WithVariants(p, f, n)
             Named(v) == \E s \in DOMAIN f : n[s] = v
             code(v) == CHOOSE s \in DOMAIN f : n[s] = v
             new(v) == [product |-> p, sku |-> code(v), stock |-> f[code(v)]]
  <1>1. \A s \in DOMAIN f : s \in Skus /\ f[s] \in Nat /\ n[s] \in VariantIds /\ variant[n[s]] = None
    <2>1. PICK S \in SUBSET Skus : f \in [S -> Stocks]
      BY DEF Form
    <2>2. DOMAIN f = S /\ \A s \in S : f[s] \in Stocks
      BY <2>1
    <2>3. n \in [DOMAIN f -> Fresh]
      BY DEF Numberings
    <2>4. \A s \in DOMAIN f : n[s] \in Fresh
      BY <2>3
    <2>5. QED
      BY <2>1, <2>2, <2>4, Constants DEF Fresh
  <1>2. \A v \in VariantIds : Named(v) => code(v) \in DOMAIN f /\ variant[v] = None
    BY <1>1
  <1>3. \A v \in VariantIds : Named(v) => new(v) \in Variant
    BY <1>1, <1>2 DEF Variant
  <1>4. \A v \in VariantsOf(p) : variant[v] # None
    BY DEF VariantsOf, IsVariant
  <1>5. \A v \in VariantIds : W[v] = IF v \in VariantsOf(p) THEN Deleted
                                     ELSE IF Named(v) THEN new(v) ELSE variant[v]
    BY DEF WithVariants
  <1>6. W \in [VariantIds -> Variant \cup {None, Deleted}]
    BY <1>3 DEF WithVariants, TypeOK
  <1>7. ASSUME NEW v \in VariantIds, variant[v] = None, W[v] # None
        PROVE  W[v] \in Variant /\ W[v].product = p /\ W[v].sku \in DOMAIN f
               /\ W[v].stock = f[W[v].sku]
    <2>1. W[v] = new(v) /\ Named(v)
      BY <1>4, <1>5, <1>7
    <2>2. new(v).product = p /\ new(v).sku = code(v) /\ new(v).stock = f[code(v)]
      OBVIOUS
    <2>3. QED
      BY <1>2, <1>3, <2>1, <2>2
  <1>8. ASSUME NEW v \in VariantIds
        PROVE  /\ v \in VariantsOf(p) => W[v] = Deleted
               /\ v \notin VariantsOf(p) /\ variant[v] # None => W[v] = variant[v]
    BY <1>2, <1>5
  <1> HIDE DEF W
  <1>9. QED
    BY <1>6, <1>7, <1>8 DEF W

(* The empty shop: nothing is on sale, ordered or being edited.            *)
THEOREM Initially == Init => IInv
  <1> SUFFICES ASSUME Init PROVE IInv
    OBVIOUS
  <1> USE Constants, IdleIsEdit DEF Init
  <1>1. TypeOK
    <2>1. /\ product \in [Products -> Int \cup {None, Deleted}]
          /\ variant \in [VariantIds -> Variant \cup {None, Deleted}]
          /\ row \in [Products -> Row \cup {None}]
          /\ line \in [LineIds -> Line \cup {None, Deleted}]
          /\ order \in [OrderIds -> Order \cup {None}]
      OBVIOUS
    <2>2. moved \in [Products -> Int] /\ edits \in Nat
      OBVIOUS
    <2>3. edit \in [Editors -> Edit]
      BY IdleIsEdit
    <2>4. QED
      BY <2>1, <2>2, <2>3 DEF TypeOK
  <1>2. Linked /\ Untouched
    BY DEF Linked, Untouched, IsVariant
  <1>3. \A e \in Editors : Armed(edit[e])
    BY DEF Armed
  <1>4. ColumnAheadBySales /\ OrderedProductKept
    BY DEF ColumnAheadBySales, OrderedProductKept, OnSale
  <1>5. QED
    BY <1>1, <1>2, <1>3, <1>4 DEF IInv

-----------------------------------------------------------------------------
(* What a step must show of the parts of the invariant: foreign keys and   *)
(* requests depend on a few variables only.                                *)

LEMMA ArmedKept ==
    ASSUME IInv, UNCHANGED <<edit, order, unseen>>
    PROVE  \A e \in Editors : Armed(edit[e])'
  BY DEF IInv, Armed

(* One request changes, and nothing else but what is counted.              *)
LEMMA OnlyEdit ==
    ASSUME IInv, NEW e \in Editors, NEW q \in Edit, Armed(q), edit' = [edit EXCEPT ![e] = q],
           edits' \in Nat,
           UNCHANGED <<product, variant, row, line, order, moved, blurred, unseen>>
    PROVE  IInv'
  <1>1. TypeOK'
    BY DEF IInv, TypeOK
  <1>2. Linked' /\ Untouched' /\ ColumnAheadBySales' /\ OrderedProductKept'
    BY DEF IInv, Linked, Names, Untouched, ColumnAheadBySales, OrderedProductKept, OnSale, IsVariant
  <1>3. ASSUME NEW f \in Editors PROVE Armed(edit[f])'
    <2>1. edit'[f] = IF f = e THEN q ELSE edit[f]
      BY DEF IInv, TypeOK
    <2>2. Armed(edit[f]) /\ order' = order /\ unseen' = unseen
      BY DEF IInv
    <2>3. CASE f = e
      BY <2>1, <2>2, <2>3 DEF Armed
    <2>4. CASE f # e
      BY <2>1, <2>2, <2>4 DEF Armed
    <2>5. QED
      BY <2>3, <2>4
  <1>4. QED
    BY <1>1, <1>2, <1>3 DEF IInv

LEMMA UpdateReadStep ==
    ASSUME IInv, NEW e \in Editors, NEW p \in Products, NEW s \in Stocks \cup {None},
           NEW f \in Form \cup {None}, NEW sent \in SUBSET Skus, UpdateRead(e, p, s, f, sent)
    PROVE  IInv'
  <1> DEFINE had == Matched(p, sent)
             q == [Idle EXCEPT !.pc = "update", !.product = p, !.seen = product[p],
                               !.matched = had, !.stock = s, !.form = f]
  <1>1. product[p] \in Int /\ had \in SUBSET Variant
    BY Typed DEF IInv, UpdateRead, VariantsOf, Matched
  <1>2. q \in Edit
    BY <1>1, StartIsEdit
  <1>3. q.pc = "update" /\ q.product = p
    BY DEF Idle
  <1>4. Armed(q)
    BY <1>3 DEF Armed
  <1>5. edit' = [edit EXCEPT ![e] = q] /\ edits' \in Nat
    BY DEF UpdateRead, EditAllowed, IInv, TypeOK
  <1> HIDE DEF q
  <1>6. QED
    BY <1>2, <1>4, <1>5, OnlyEdit DEF UpdateRead

LEMMA RemoveCountStep ==
    ASSUME IInv, NEW e \in Editors, NEW p \in Products, RemoveCount(e, p)
    PROVE  IInv'
  <1> DEFINE q == [Idle EXCEPT !.pc = "remove", !.product = p]
  <1>1. q \in Edit /\ q.pc = "remove" /\ q.product = p
    BY StartIsEdit DEF Idle
  <1>2. edit' = [edit EXCEPT ![e] = q] /\ edits' \in Nat
    BY DEF RemoveCount, EditAllowed, IInv, TypeOK
  <1> HIDE DEF q
  <1>3. Armed(q)
    BY <1>1 DEF Armed, RemoveCount
  <1>4. QED
    BY <1>1, <1>2, <1>3, OnlyEdit DEF RemoveCount

LEMMA RemoveVariantCountStep ==
    ASSUME IInv, NEW e \in Editors, NEW v \in VariantIds, RemoveVariantCount(e, v)
    PROVE  IInv'
  <1> DEFINE q == [Idle EXCEPT !.pc = "removeVariant", !.variant = v]
  <1>1. q \in Edit /\ q.pc = "removeVariant" /\ q.variant = v
    BY StartIsEdit DEF Idle
  <1>2. edit' = [edit EXCEPT ![e] = q] /\ edits' \in Nat
    BY DEF RemoveVariantCount, EditAllowed, IInv, TypeOK
  <1> HIDE DEF q
  <1>3. Armed(q)
    BY <1>1 DEF Armed
  <1>4. QED
    BY <1>1, <1>2, <1>3, OnlyEdit DEF RemoveVariantCount

LEMMA FailStep ==
    ASSUME IInv, NEW e \in Editors, Fail(e)
    PROVE  IInv'
  <1>1. Idle \in Edit /\ Armed(Idle) /\ edits' \in Nat
    BY IdleIsEdit DEF Armed, Fail, history, IInv, TypeOK
  <1>2. QED
    BY <1>1, OnlyEdit DEF Fail, history

-----------------------------------------------------------------------------
(* Products and variants come.                                             *)

LEMMA CreateStep ==
    ASSUME IInv, NEW p \in Products, NEW s \in Stocks, NEW f \in Form, NEW sent \in SUBSET DOMAIN f,
           Create(p, s, f, sent)
    PROVE  IInv'
  <1> DEFINE stocked == {k \in sent : f[k] > 0}
             code == CHOOSE k \in stocked : TRUE
  <1>1. PICK n \in Numberings(f) :
          /\ variant' = WithVariants(p, f, n)
          /\ row' = IF s > 0 THEN [row EXCEPT ![p] = NewRow(None, s)]
                    ELSE IF stocked # {} THEN [row EXCEPT ![p] = NewRow(n[code], f[code])]
                    ELSE row
    BY DEF Create
  <1>2. /\ product[p] = None /\ product' = [product EXCEPT ![p] = s] /\ s \in Nat
        /\ blurred' = IF stocked # {} THEN blurred \cup {p} ELSE blurred
        /\ UNCHANGED <<line, order, edit, moved, unseen>>
        /\ edits' \in Nat
    BY Constants DEF Create, EditAllowed, IInv, TypeOK
  <1>3. VariantsOf(p) = {} /\ row[p] = None /\ moved[p] = 0
    BY <1>2 DEF IInv, Linked, OnSale, VariantsOf, Untouched
  <1>4. stocked # {} => code \in sent /\ n[code] \in VariantIds /\ f[code] \in Nat
    <2>1. PICK S \in SUBSET Skus : f \in [S -> Stocks]
      BY DEF Form
    <2>2. n \in [DOMAIN f -> Fresh]
      BY DEF Numberings
    <2>3. stocked # {} => code \in sent /\ code \in DOMAIN f
      OBVIOUS
    <2> HIDE DEF code
    <2>4. QED
      BY <2>1, <2>2, <2>3, Constants DEF Fresh
  <1> HIDE DEF stocked, code
  <1>5. /\ NewRow(None, s) \in Row /\ NewRow(None, s).stock = s
        /\ stocked # {} => NewRow(n[code], f[code]) \in Row
    BY <1>2, <1>4 DEF NewRow, Row
  <1>6. /\ row' \in [Products -> Row \cup {None}]
        /\ \A x \in Products : x # p => row'[x] = row[x]
        /\ stocked = {} /\ row'[p] # None => row'[p].stock = s
    BY <1>1, <1>3, <1>5 DEF IInv, TypeOK
  <1>7. /\ variant' \in [VariantIds -> Variant \cup {None, Deleted}]
        /\ \A v \in VariantIds : variant[v] # None => variant'[v] = variant[v]
        /\ \A v \in VariantIds : variant[v] = None /\ variant'[v] # None => variant'[v].product = p
    BY <1>1, <1>3, VariantsWritten DEF IInv
  <1>8. TypeOK'
    <2>1. product' \in [Products -> Int \cup {None, Deleted}] /\ blurred' \subseteq Products
      BY <1>2 DEF IInv, TypeOK
    <2>2. QED
      BY <1>2, <1>6, <1>7, <2>1 DEF IInv, TypeOK
  <1>9. OnSale(p)' /\ \A x \in Products : OnSale(x) => OnSale(x)'
    BY <1>2, Constants DEF IInv, TypeOK, OnSale
  <1>10. \A v \in VariantIds : IsVariant(v) => IsVariant(v)' /\ variant'[v] = variant[v]
    BY <1>7 DEF IsVariant
  <1>11. Linked'
    <2>1. \A v \in VariantIds : IsVariant(v)' => OnSale(variant[v].product)'
      BY <1>7, <1>9, <1>10, Typed, <1>8 DEF IInv, Linked, IsVariant, Variant
    <2>2. ASSUME NEW o \in OrderIds, order'[o] # None PROVE Names(order[o])'
      <3>1. order'[o] = order[o] /\ order[o] \in Order /\ Names(order[o])
        BY <1>2, <2>2, Typed DEF IInv, Linked
      <3>2. QED
        BY <3>1, <1>9, <1>10 DEF Names, Order
    <2>3. QED
      BY <2>1, <2>2 DEF Linked
  <1>12. Untouched'
    BY <1>2, <1>6, Constants DEF IInv, Untouched, TypeOK
  <1>13. \A e \in Editors : Armed(edit[e])'
    BY <1>2, ArmedKept
  <1>14. ColumnAheadBySales'
    <2> SUFFICES ASSUME NEW x \in Products \ blurred', OnSale(x)', row'[x] # None
                 PROVE  product'[x] = row'[x].stock + moved'[x]
      BY DEF ColumnAheadBySales
    <2>1. CASE x = p
      BY <2>1, <1>2, <1>3, <1>6 DEF IInv, TypeOK
    <2>2. CASE x # p
      BY <2>2, <1>2, <1>6 DEF IInv, TypeOK, ColumnAheadBySales, OnSale
    <2>3. QED
      BY <2>1, <2>2
  <1>15. OrderedProductKept'
    BY <1>2 DEF IInv, OrderedProductKept
  <1>16. QED
    BY <1>8, <1>11, <1>12, <1>13, <1>14, <1>15 DEF IInv

LEMMA AddVariantStep ==
    ASSUME IInv, NEW p \in Products, NEW v \in VariantIds, NEW k \in Skus, NEW s \in Stocks,
           AddVariant(p, v, k, s)
    PROVE  IInv'
  <1> DEFINE x == [product |-> p, sku |-> k, stock |-> s]
  <1>1. x \in Variant /\ x.product = p
    BY Constants DEF Variant
  <1>2. /\ OnSale(p) /\ variant[v] = None /\ variant' = [variant EXCEPT ![v] = x]
        /\ edits' \in Nat
        /\ UNCHANGED <<product, row, line, order, edit, moved, blurred, unseen>>
    BY DEF AddVariant, EditAllowed, Fresh, IInv, TypeOK
  <1> HIDE DEF x
  <1>3. TypeOK'
    BY <1>1, <1>2 DEF IInv, TypeOK
  <1>4. \A w \in VariantIds : IsVariant(w) => w # v /\ IsVariant(w)' /\ variant'[w] = variant[w]
    BY <1>2 DEF IInv, TypeOK, IsVariant
  <1>5. \A y : OnSale(y)' <=> OnSale(y)
    BY <1>2 DEF OnSale
  <1>6. Linked'
    <2>1. ASSUME NEW w \in VariantIds, IsVariant(w)' PROVE OnSale(variant[w].product)'
      BY <2>1, <1>1, <1>2, <1>5 DEF IInv, TypeOK, Linked, IsVariant
    <2>2. ASSUME NEW o \in OrderIds, order'[o] # None PROVE Names(order[o])'
      <3>1. order'[o] = order[o] /\ order[o] \in Order /\ Names(order[o])
        BY <1>2, <2>2, Typed DEF IInv, Linked
      <3>2. QED
        BY <3>1, <1>4, <1>5 DEF Names, Order
    <2>3. QED
      BY <2>1, <2>2 DEF Linked
  <1>7. Untouched' /\ ColumnAheadBySales' /\ OrderedProductKept'
    BY <1>2 DEF IInv, Untouched, ColumnAheadBySales, OrderedProductKept, OnSale
  <1>8. QED
    BY <1>2, <1>3, <1>6, <1>7, ArmedKept DEF IInv

-----------------------------------------------------------------------------
(* Variants and products go.                                               *)

LEMMA Forgotten ==
    ASSUME TypeOK, NEW gone \in SUBSET VariantIds, ForgetVariants(gone)
    PROVE  /\ line' \in [LineIds -> Line \cup {None, Deleted}]
           /\ order' \in [OrderIds -> Order \cup {None}]
           /\ \A o \in OrderIds :
                 /\ order[o] = None <=> order'[o] = None
                 /\ order[o] # None =>
                       /\ order'[o].product = order[o].product
                       /\ order'[o].variant = IF order[o].variant \in gone THEN None ELSE order[o].variant
  <1>1. ASSUME NEW l \in LineIds, line[l] \in Line PROVE Unnamed(line[l], gone) \in Line
    BY <1>1 DEF Unnamed, Line
  <1>2. ASSUME NEW o \in OrderIds, order[o] \in Order
        PROVE  /\ Unnamed(order[o], gone) \in Order
               /\ Unnamed(order[o], gone).product = order[o].product
               /\ Unnamed(order[o], gone).variant
                    = IF order[o].variant \in gone THEN None ELSE order[o].variant
    BY <1>2 DEF Unnamed, Order
  <1>3. \A l \in LineIds : line[l] \in Line \cup {None, Deleted} /\ (IsLine(l) => line[l] \in Line)
    BY Typed DEF TypeOK
  <1>4. \A o \in OrderIds : order[o] # None => order[o] \in Order
    BY Typed
  <1>5. \A l \in LineIds : line'[l] \in Line \cup {None, Deleted}
    BY <1>1, <1>3 DEF ForgetVariants
  <1>6. \A o \in OrderIds : order'[o] = IF order[o] = None THEN None ELSE Unnamed(order[o], gone)
    BY DEF ForgetVariants
  <1>7. \A o \in OrderIds : order'[o] \in Order \cup {None}
    BY <1>2, <1>4, <1>6
  <1>8. line' \in [LineIds -> Line \cup {None, Deleted}] /\ order' \in [OrderIds -> Order \cup {None}]
    BY <1>5, <1>7 DEF ForgetVariants
  <1>9. QED
    BY <1>2, <1>4, <1>6, <1>8, Constants

(* The keys hold when what is gone is named no more.                       *)
LEMMA LinkedAfter ==
    ASSUME IInv, NEW gone \in SUBSET VariantIds, ForgetVariants(gone),
           \A p \in Products : OnSale(p) => OnSale(p)',
           \A v \in VariantIds : IsVariant(v)' => OnSale(variant[v].product)',
           \A v \in VariantIds \ gone : IsVariant(v) =>
               IsVariant(v)' /\ variant'[v].product = variant[v].product
    PROVE  Linked'
  <1>1. ASSUME NEW o \in OrderIds, order'[o] # None PROVE Names(order[o])'
    <2>1. /\ order[o] # None /\ order[o] \in Order
          /\ order'[o].product = order[o].product
          /\ order'[o].variant = IF order[o].variant \in gone THEN None ELSE order[o].variant
      BY <1>1, Forgotten, Typed DEF IInv
    <2>2. Names(order[o])
      BY <2>1 DEF IInv, Linked
    <2>3. order'[o].product # None => OnSale(order[o].product)'
      BY <2>1, <2>2 DEF Names, Order
    <2>4. order'[o].variant # None =>
             IsVariant(order[o].variant)' /\ variant'[order'[o].variant].product = order'[o].product
      BY <2>1, <2>2 DEF Names, Order
    <2>5. QED
      BY <2>3, <2>4 DEF Names
  <1>2. QED
    BY <1>1 DEF Linked

LEMMA RemoveVariantStep ==
    ASSUME IInv, NEW e \in Editors, RemoveVariantWrite(e)
    PROVE  IInv'
  <1>1. CASE Fail(e)
    BY <1>1, FailStep
  <1>2. CASE ~Fail(e)
    <2>1. PICK v \in VariantIds : v = edit[e].variant
      BY DEF RemoveVariantWrite, IInv, Armed
    <2>2. /\ IsVariant(v) /\ variant' = [variant EXCEPT ![v] = Deleted]
          /\ row' = [p \in Products |-> IF row[p] = None THEN None ELSE Unnamed(row[p], {v})]
          /\ ForgetVariants({v})
          /\ edit' = [edit EXCEPT ![e] = Idle]
          /\ UNCHANGED <<product, edits, moved, blurred, unseen>>
      BY <1>2, <2>1 DEF RemoveVariantWrite
    <2>3. ASSUME NEW p \in Products, row[p] # None
          PROVE  Unnamed(row[p], {v}) \in Row /\ Unnamed(row[p], {v}).stock = row[p].stock
      <3>1. row[p] \in Row
        BY <2>3, Typed DEF IInv
      <3>2. QED
        BY <3>1 DEF Unnamed, Row
    <2>4. /\ row' \in [Products -> Row \cup {None}]
          /\ \A p \in Products : /\ row'[p] = None <=> row[p] = None
                                 /\ row[p] # None => row'[p].stock = row[p].stock
      BY <2>2, <2>3, Constants
    <2>5. TypeOK'
      BY <2>2, <2>4, Forgotten, IdleIsEdit DEF IInv, TypeOK
    <2>6. \A p : OnSale(p)' <=> OnSale(p)
      BY <2>2 DEF OnSale
    <2>7. \A w \in VariantIds : /\ IsVariant(w)' => IsVariant(w) /\ variant'[w] = variant[w]
                                /\ IsVariant(w) /\ w # v => IsVariant(w)' /\ variant'[w] = variant[w]
      BY <2>2 DEF IInv, TypeOK, IsVariant
    <2>8. Linked'
      BY <2>2, <2>6, <2>7, LinkedAfter DEF IInv, Linked
    <2>9. Untouched' /\ ColumnAheadBySales'
      BY <2>2, <2>4, <2>6 DEF IInv, Untouched, ColumnAheadBySales
    <2>10. OrderedProductKept'
      BY <2>2, Forgotten DEF IInv, OrderedProductKept
    <2>11. ASSUME NEW f \in Editors PROVE Armed(edit[f])'
      <3>1. edit'[f] = IF f = e THEN Idle ELSE edit[f]
        BY <2>2 DEF IInv, TypeOK
      <3>2. CASE f = e
        BY <3>1, <3>2, IdleIsEdit DEF Armed
      <3>3. CASE f # e
        BY <3>1, <3>3, <2>2, Forgotten DEF IInv, Armed
      <3>4. QED
        BY <3>2, <3>3
    <2>12. QED
      BY <2>5, <2>8, <2>9, <2>10, <2>11 DEF IInv
  <1>3. QED
    BY <1>1, <1>2

LEMMA RemoveStep ==
    ASSUME IInv, NEW e \in Editors, RemoveWrite(e)
    PROVE  IInv'
  <1>1. CASE Fail(e)
    BY <1>1, FailStep
  <1>2. CASE ~Fail(e)
    <2>1. PICK p \in Products : p = edit[e].product
      BY DEF RemoveWrite, IInv, Armed
    <2>2. \A o \in OrderIds \ unseen : order[o] # None => order[o].product # p
      BY <2>1 DEF RemoveWrite, IInv, Armed
    <2>3. /\ product' = [product EXCEPT ![p] = Deleted]
          /\ variant' = [v \in VariantIds |-> IF v \in VariantsOf(p) THEN Deleted ELSE variant[v]]
          /\ row' = [row EXCEPT ![p] = None]
          /\ line' = [l \in LineIds |->
                IF IsLine(l) /\ line[l].product = p THEN Deleted ELSE line[l]]
          /\ order' = [o \in OrderIds |->
                IF order[o] # None /\ order[o].product = p
                  THEN [order[o] EXCEPT !.product = None, !.variant = None]
                  ELSE order[o]]
          /\ edit' = [edit EXCEPT ![e] = Idle]
          /\ UNCHANGED <<edits, moved, blurred, unseen>>
      BY <1>2, <2>1 DEF RemoveWrite, history
    <2>4. ASSUME NEW o \in OrderIds, order[o] # None
          PROVE  /\ order'[o] \in Order
                 /\ order[o].product = p => order'[o].product = None /\ order'[o].variant = None
                 /\ order[o].product # p => order'[o] = order[o]
      <3>1. order[o] \in Order
        BY <2>4, Typed DEF IInv
      <3>2. order'[o] = IF order[o].product = p
                        THEN [order[o] EXCEPT !.product = None, !.variant = None] ELSE order[o]
        BY <2>3, <2>4
      <3>3. QED
        BY <3>1, <3>2 DEF Order
    <2>5. \A o \in OrderIds : order[o] = None => order'[o] = None
      BY <2>3
    <2>6. /\ order' \in [OrderIds -> Order \cup {None}]
          /\ line' \in [LineIds -> Line \cup {None, Deleted}]
          /\ variant' \in [VariantIds -> Variant \cup {None, Deleted}]
      <3>1. \A o \in OrderIds : order'[o] \in Order \cup {None}
        BY <2>4, <2>5
      <3>2. QED
        BY <2>3, <3>1 DEF IInv, TypeOK
    <2>7. TypeOK'
      BY <2>3, <2>6, IdleIsEdit DEF IInv, TypeOK
    <2>8. \A x \in Products : OnSale(x)' <=> OnSale(x) /\ x # p
      BY <2>3 DEF IInv, TypeOK, OnSale
    <2>9. \A v \in VariantIds :
             /\ IsVariant(v)' => IsVariant(v) /\ variant'[v] = variant[v] /\ variant[v].product # p
             /\ IsVariant(v) /\ variant[v].product # p => IsVariant(v)' /\ variant'[v] = variant[v]
      BY <2>3 DEF VariantsOf, IsVariant
    <2>10. \A v \in VariantIds : IsVariant(v) => variant[v].product \in Products
      BY Typed DEF IInv, Variant
    <2>11. Linked'
      <3>1. \A v \in VariantIds : IsVariant(v)' => OnSale(variant[v].product)'
        BY <2>8, <2>9, <2>10 DEF IInv, Linked
      <3>2. ASSUME NEW o \in OrderIds, order'[o] # None PROVE Names(order[o])'
        <4>1. order[o] # None /\ order[o] \in Order /\ Names(order[o])
          BY <2>5, <3>2, Typed DEF IInv, Linked
        <4>2. CASE order[o].product = p
          BY <2>4, <4>1, <4>2 DEF Names
        <4>3. CASE order[o].product # p
          BY <2>4, <2>8, <2>9, <2>10, <4>1, <4>3 DEF Names, Order
        <4>4. QED
          BY <4>2, <4>3
      <3>3. QED
        BY <3>1, <3>2 DEF Linked
    <2>12. Untouched' /\ ColumnAheadBySales'
      BY <2>3, <2>8, Constants DEF IInv, TypeOK, Untouched, ColumnAheadBySales
    <2>13. OrderedProductKept'
      BY <2>2, <2>3, <2>4, <2>5 DEF IInv, OrderedProductKept
    <2>14. ASSUME NEW f \in Editors PROVE Armed(edit[f])'
      <3>1. edit'[f] = IF f = e THEN Idle ELSE edit[f]
        BY <2>3 DEF IInv, TypeOK
      <3>2. CASE f = e
        BY <3>1, <3>2, IdleIsEdit DEF Armed
      <3>3. CASE f # e
        <4>1. Armed(edit[f]) /\ unseen' = unseen
          BY <2>3 DEF IInv
        <4>2. ASSUME edit[f].pc = "remove", NEW o \in OrderIds \ unseen, order'[o] # None
              PROVE  order'[o].product # edit[f].product
          BY <4>1, <4>2, <2>4, <2>5, Constants DEF Armed
        <4>3. QED
          BY <3>1, <3>3, <4>1, <4>2 DEF Armed
      <3>4. QED
        BY <3>2, <3>3
    <2>15. QED
      BY <2>7, <2>11, <2>12, <2>13, <2>14 DEF IInv
  <1>3. QED
    BY <1>1, <1>2

-----------------------------------------------------------------------------
(* An edit is written.                                                     *)

(* What becomes of the row: it follows the column when the stock is sent   *)
(* and has changed, and is left alone otherwise.                           *)
LEMMA RowSynced ==
    ASSUME NEW q \in Edit, NEW r \in Row \cup {None}, NEW gone
    PROVE  LET t == SyncedRow(q, IF r = None THEN None ELSE Unnamed(r, gone))
           IN  /\ t \in Row \cup {None}
               /\ StockChanged(q) => t # None /\ t.stock = q.stock
               /\ ~StockChanged(q) => (t = None <=> r = None) /\ (r # None => t.stock = r.stock)
  <1>1. r \in Row => Unnamed(r, gone) \in Row /\ Unnamed(r, gone).stock = r.stock
    BY DEF Unnamed, Row
  <1>2. StockChanged(q) => q.stock \in Nat
    BY DEF StockChanged, Edit
  <1>3. StockChanged(q) => NewRow(None, q.stock) \in Row /\ NewRow(None, q.stock).stock = q.stock
    BY <1>2 DEF NewRow, Row
  <1>4. \A x \in Row : StockChanged(q) =>
           [x EXCEPT !.stock = q.stock] \in Row /\ [x EXCEPT !.stock = q.stock].stock = q.stock
    BY <1>2 DEF Row
  <1> DEFINE x == IF r = None THEN None ELSE Unnamed(r, gone)
  <1>5. x \in Row \cup {None} /\ (x = None <=> r = None) /\ (r # None => x.stock = r.stock)
    BY <1>1, Constants
  <1> HIDE DEF x
  <1>6. /\ SyncedRow(q, x) \in Row \cup {None}
        /\ StockChanged(q) => SyncedRow(q, x) # None /\ SyncedRow(q, x).stock = q.stock
        /\ ~StockChanged(q) => SyncedRow(q, x) = x
    BY <1>3, <1>4, <1>5, Constants DEF SyncedRow
  <1>7. QED
    BY <1>5, <1>6 DEF x

LEMMA CommitStep ==
    ASSUME IInv, NEW e \in Editors, edit[e].pc = "update", OnSale(edit[e].product), Commit(e)
    PROVE  IInv'
  <1>1. PICK q \in Edit : q = edit[e]
    BY DEF IInv, TypeOK
  <1>2. PICK p \in Products : p = q.product
    BY <1>1 DEF IInv, Armed
  <1>3. PICK gone \in SUBSET VariantIds : gone = IF q.form = None THEN {} ELSE VariantsOf(p)
    BY DEF VariantsOf
  <1>4. PICK t : t = SyncedRow(q, IF row[p] = None THEN None ELSE Unnamed(row[p], gone))
    OBVIOUS
  <1>5. /\ product' = IF q.stock = None THEN product ELSE [product EXCEPT ![p] = q.stock]
        /\ row' = [row EXCEPT ![p] = t]
        /\ IF q.form = None THEN UNCHANGED variant
           ELSE \E n \in Numberings(q.form) : variant' = WithVariants(p, q.form, n)
        /\ ForgetVariants(gone)
        /\ moved' = IF StockChanged(q) THEN [moved EXCEPT ![p] = 0] ELSE moved
        /\ blurred' = IF q.stock = q.seen /\ q.seen # product[p] THEN blurred \cup {p} ELSE blurred
        /\ edit' = [edit EXCEPT ![e] = Idle]
        /\ UNCHANGED <<edits, unseen>>
    BY <1>1, <1>2, <1>3, <1>4 DEF Commit
  <1>6. /\ t \in Row \cup {None}
        /\ StockChanged(q) => t # None /\ t.stock = q.stock
        /\ ~StockChanged(q) => (t = None <=> row[p] = None) /\ (row[p] # None => t.stock = row[p].stock)
    BY <1>4, RowSynced DEF IInv, TypeOK
  <1>7. q.stock \in Nat \cup {None} /\ q.form \in Form \cup {None} /\ OnSale(p)
    BY <1>1, <1>2 DEF Edit
  <1>8. /\ product' \in [Products -> Int \cup {None, Deleted}]
        /\ \A x \in Products : /\ x # p => product'[x] = product[x]
                               /\ OnSale(x)' <=> OnSale(x)
    BY <1>5, <1>7, Constants DEF IInv, TypeOK, OnSale
  <1>9. /\ variant' \in [VariantIds -> Variant \cup {None, Deleted}]
        /\ \A v \in VariantIds :
              /\ v \notin gone /\ IsVariant(v) => IsVariant(v)' /\ variant'[v] = variant[v]
              /\ IsVariant(v)' => (IsVariant(v) /\ variant'[v] = variant[v]) \/ variant'[v].product = p
    <2>1. CASE q.form = None
      BY <2>1, <1>5 DEF IInv, TypeOK, IsVariant
    <2>2. CASE q.form # None
      <3>1. PICK n \in Numberings(q.form) : variant' = WithVariants(p, q.form, n)
        BY <2>2, <1>5
      <3>2. q.form \in Form /\ gone = VariantsOf(p)
        BY <2>2, <1>3, <1>7
      <3>3. variant' \in [VariantIds -> Variant \cup {None, Deleted}]
        BY <3>1, <3>2, VariantsWritten DEF IInv
      <3>4. \A v \in VariantIds :
               /\ v \in gone => variant'[v] = Deleted
               /\ v \notin gone /\ variant[v] # None => variant'[v] = variant[v]
               /\ variant[v] = None /\ variant'[v] # None => variant'[v].product = p
        BY <3>1, <3>2, VariantsWritten DEF IInv
      <3>5. QED
        BY <3>3, <3>4 DEF IsVariant
    <2>3. QED
      BY <2>1, <2>2
  <1>10. TypeOK'
    <2>1. line' \in [LineIds -> Line \cup {None, Deleted}] /\ order' \in [OrderIds -> Order \cup {None}]
      BY <1>5, Forgotten DEF IInv
    <2>2. row' \in [Products -> Row \cup {None}] /\ edit' \in [Editors -> Edit]
      BY <1>5, <1>6, IdleIsEdit DEF IInv, TypeOK
    <2>3. moved' \in [Products -> Int] /\ blurred' \subseteq Products
      BY <1>5 DEF IInv, TypeOK
    <2>4. edits' \in Nat /\ unseen' \subseteq OrderIds
      BY <1>5 DEF IInv, TypeOK
    <2>5. QED
      BY <1>8, <1>9, <2>1, <2>2, <2>3, <2>4 DEF TypeOK
  <1>11. Linked'
    <2>1. \A v \in VariantIds : IsVariant(v) => variant[v].product \in Products /\ OnSale(variant[v].product)
      BY Typed DEF IInv, Linked, Variant
    <2>2. \A v \in VariantIds : IsVariant(v)' => OnSale(variant[v].product)'
      BY <1>7, <1>8, <1>9, <2>1
    <2>3. QED
      BY <1>5, <1>8, <1>9, <2>2, LinkedAfter
  <1>12. Untouched'
    <2>1. ASSUME NEW x \in Products, product'[x] = None PROVE row'[x] = None /\ moved'[x] = 0
      <3>1. x # p /\ product[x] = None
        BY <1>7, <1>8, <2>1 DEF OnSale
      <3>2. QED
        BY <3>1, <1>5 DEF IInv, TypeOK, Untouched
    <2>2. QED
      BY <2>1 DEF Untouched
  <1>13. ColumnAheadBySales'
    <2> SUFFICES ASSUME NEW x \in Products \ blurred', OnSale(x)', row'[x] # None
                 PROVE  product'[x] = row'[x].stock + moved'[x]
      BY DEF ColumnAheadBySales
    <2>1. x \notin blurred /\ OnSale(x)
      BY <1>5, <1>8
    <2>2. row[x] # None => product[x] = row[x].stock + moved[x]
      BY <2>1 DEF IInv, ColumnAheadBySales
    <2>3. CASE x # p
      <3>1. row'[x] = row[x] /\ moved'[x] = moved[x] /\ product'[x] = product[x]
        BY <2>3, <1>5, <1>8 DEF IInv, TypeOK
      <3>2. QED
        BY <2>2, <3>1
    <2>4. CASE x = p /\ StockChanged(q)
      <3>1. q.stock \in Nat /\ product'[x] = q.stock
        BY <2>4, <1>5, <1>7 DEF StockChanged, IInv, TypeOK
      <3>2. row'[x].stock = q.stock /\ moved'[x] = 0
        BY <2>4, <1>5, <1>6 DEF IInv, TypeOK
      <3>3. QED
        BY <3>1, <3>2
    <2>5. CASE x = p /\ ~StockChanged(q)
      <3>1. row'[x] = t /\ t # None /\ row[p] # None /\ t.stock = row[p].stock /\ moved'[x] = moved[x]
        BY <2>5, <1>5, <1>6 DEF IInv, TypeOK
      <3>2. q.stock = None \/ q.stock = product[p]
        BY <2>5, <1>5 DEF StockChanged
      <3>3. product'[x] = product[x]
        BY <2>5, <3>2, <1>5 DEF IInv, TypeOK
      <3>4. QED
        BY <2>2, <2>5, <3>1, <3>3
    <2>6. QED
      BY <2>3, <2>4, <2>5
  <1>14. OrderedProductKept'
    BY <1>5, Forgotten DEF IInv, OrderedProductKept
  <1>15. ASSUME NEW f \in Editors PROVE Armed(edit[f])'
    <2>1. edit'[f] = IF f = e THEN Idle ELSE edit[f]
      BY <1>5 DEF IInv, TypeOK
    <2>2. CASE f = e
      BY <2>1, <2>2, IdleIsEdit DEF Armed
    <2>3. CASE f # e
      BY <2>1, <2>3, <1>5, Forgotten DEF IInv, Armed
    <2>4. QED
      BY <2>2, <2>3
  <1>16. QED
    BY <1>10, <1>11, <1>12, <1>13, <1>14, <1>15 DEF IInv

LEMMA UpdateWriteStep ==
    ASSUME IInv, NEW e \in Editors, UpdateWrite(e)
    PROVE  IInv'
  BY CommitStep, FailStep DEF UpdateWrite

-----------------------------------------------------------------------------
(* Shoppers.                                                               *)

LEMMA AddToCartStep ==
    ASSUME IInv, NEW l \in LineIds, NEW p \in Products, NEW v \in VariantIds \cup {None},
           AddToCart(l, p, v)
    PROVE  IInv'
  <1> DEFINE s == IF v = None THEN product[p] ELSE variant[v].stock
             made == NewRow(v, s)
             x == [product |-> p, variant |-> v]
  <1>1. OnSale(p) /\ product[p] \in Int /\ s \in Int
    <2>1. OnSale(p) /\ (v # None => IsVariant(v))
      BY DEF AddToCart, OffersVariant
    <2>2. product[p] \in Int /\ (v # None => variant[v] \in Variant)
      BY <2>1, Typed DEF IInv
    <2>3. QED
      BY <2>1, <2>2 DEF Variant
  <1>2. x \in Line /\ made \in Row /\ made.stock = s
    BY <1>1 DEF Line, Row, NewRow
  <1>3. /\ UNCHANGED <<product, variant, order, edit, edits, unseen>>
        /\ line' = [line EXCEPT ![l] = x]
        /\ \/ /\ row' = [row EXCEPT ![p] = made] /\ moved' = [moved EXCEPT ![p] = 0]
              /\ blurred' = IF v = None THEN blurred ELSE blurred \cup {p}
           \/ UNCHANGED <<row, moved, blurred>>
    BY DEF AddToCart
  <1>4. v = None => s = product[p]
    OBVIOUS
  <1> HIDE DEF s, made, x
  <1>5. TypeOK'
    <2>1. line' \in [LineIds -> Line \cup {None, Deleted}]
      BY <1>2, <1>3 DEF IInv, TypeOK
    <2>2. /\ row' \in [Products -> Row \cup {None}] /\ moved' \in [Products -> Int]
          /\ blurred' \subseteq Products
      BY <1>2, <1>3 DEF IInv, TypeOK
    <2>3. QED
      BY <1>3, <2>1, <2>2 DEF IInv, TypeOK
  <1>6. Linked' /\ OrderedProductKept' /\ \A y : OnSale(y)' <=> OnSale(y)
    BY <1>3 DEF IInv, Linked, Names, OnSale, IsVariant, OrderedProductKept
  <1>7. Untouched'
    BY <1>1, <1>3 DEF IInv, TypeOK, Untouched, OnSale
  <1>8. ColumnAheadBySales'
    <2> SUFFICES ASSUME NEW y \in Products \ blurred', OnSale(y), row'[y] # None
                 PROVE  product[y] = row'[y].stock + moved'[y]
      BY <1>3, <1>6 DEF ColumnAheadBySales
    <2>1. y \notin blurred /\ (row[y] # None => product[y] = row[y].stock + moved[y])
      BY <1>3 DEF IInv, ColumnAheadBySales
    <2>2. CASE UNCHANGED <<row, moved, blurred>> \/ y # p
      BY <1>3, <2>1, <2>2 DEF IInv, TypeOK
    <2>3. CASE y = p /\ ~ UNCHANGED <<row, moved, blurred>>
      <3>1. v = None /\ row'[p] = made /\ moved'[p] = 0
        BY <2>3, <1>3 DEF IInv, TypeOK
      <3>2. QED
        BY <2>3, <3>1, <1>1, <1>2, <1>4
    <2>4. QED
      BY <2>2, <2>3
  <1>9. QED
    BY <1>3, <1>5, <1>6, <1>7, <1>8, ArmedKept DEF IInv

LEMMA RowSold ==
    ASSUME NEW r \in Row, NEW s \in Int, NEW d \in Int
    PROVE  /\ [r EXCEPT !.stock = s, !.reserved = d] \in Row
           /\ [r EXCEPT !.stock = s, !.reserved = d].stock = s
  BY DEF Row

LEMMA PlaceStep ==
    ASSUME IInv, NEW o \in OrderIds, NEW p \in Products, NEW v \in VariantIds \cup {None},
           Place(o, p, v)
    PROVE  IInv'
  <1> DEFINE bought == [product |-> p, variant |-> v, cancelled |-> FALSE]
  <1>1. bought \in Order /\ bought.product = p /\ bought.variant = v /\ bought # None
    <2>1. bought \in Order /\ bought.product = p /\ bought.variant = v
      BY DEF Order
    <2> HIDE DEF bought
    <2>2. QED
      BY <2>1, Constants
  <1>2. OnSale(p) /\ (v # None => IsVariant(v) /\ variant[v].product = p) /\ order[o] = None
    BY DEF Place, OffersVariant
  <1>3. PICK x \in Products, t \in Row :
          /\ row[x] \in Row /\ t.stock = row[x].stock - 1
          /\ row' = [row EXCEPT ![x] = t]
          /\ moved' = [moved EXCEPT ![x] = moved[x] + 1]
    <2>1. PICK x \in Found(p, v) :
            /\ row' = [row EXCEPT ![x] = [row[x] EXCEPT !.stock = row[x].stock - 1,
                                                        !.reserved = row[x].reserved - 1]]
            /\ moved' = [moved EXCEPT ![x] = moved[x] + 1]
      BY DEF Place
    <2>2. x \in Products /\ row[x] # None
      BY <2>1 DEF Found, RowsFor
    <2>3. row[x] \in Row
      BY <2>2, Typed DEF IInv
    <2> DEFINE t == [row[x] EXCEPT !.stock = row[x].stock - 1, !.reserved = row[x].reserved - 1]
    <2>4. t \in Row /\ t.stock = row[x].stock - 1
      <3>1. row[x].stock - 1 \in Int /\ row[x].reserved - 1 \in Int
        BY <2>3 DEF Row
      <3>2. QED
        BY <2>3, <3>1, RowSold
    <2> HIDE DEF t
    <2>5. row' = [row EXCEPT ![x] = t]
      BY <2>1 DEF t
    <2>6. QED
      BY <2>1, <2>2, <2>3, <2>4, <2>5
  <1>4. /\ order' = [order EXCEPT ![o] = bought]
        /\ line' = [l \in LineIds |->
              IF IsLine(l) /\ line[l].product = p /\ line[l].variant \in {None, v}
                THEN Deleted ELSE line[l]]
        /\ unseen' = IF \E e \in Editors : edit[e].pc = "remove" /\ edit[e].product = p
                       THEN unseen \cup {o} ELSE unseen
        /\ UNCHANGED <<product, variant, edit, edits, blurred>>
    BY DEF Place
  <1> HIDE DEF bought
  <1>5. TypeOK'
    <2>1. line' \in [LineIds -> Line \cup {None, Deleted}] /\ unseen' \subseteq OrderIds
      BY <1>4 DEF IInv, TypeOK
    <2>2. row' \in [Products -> Row \cup {None}] /\ moved' \in [Products -> Int]
      BY <1>3 DEF IInv, TypeOK
    <2>3. order' \in [OrderIds -> Order \cup {None}]
      BY <1>1, <1>4 DEF IInv, TypeOK
    <2>4. QED
      BY <1>4, <2>1, <2>2, <2>3 DEF IInv, TypeOK
  <1>6. \A y \in OrderIds : order'[y] = IF y = o THEN bought ELSE order[y]
    BY <1>4 DEF IInv, TypeOK
  <1>7. Linked'
    <2>1. Names(bought)
      BY <1>1, <1>2 DEF Names
    <2>2. \A y \in OrderIds : order'[y] # None => Names(order'[y])
      BY <1>6, <2>1 DEF IInv, Linked
    <2>3. QED
      BY <2>2, <1>4 DEF IInv, Linked, Names, OnSale, IsVariant
  <1>8. Untouched'
    <2>1. product[x] # None
      BY <1>3, Constants DEF IInv, Untouched
    <2>2. QED
      BY <2>1, <1>3, <1>4 DEF IInv, TypeOK, Untouched
  <1>9. ColumnAheadBySales'
    <2> SUFFICES ASSUME NEW y \in Products \ blurred, OnSale(y), row'[y] # None
                 PROVE  product[y] = row'[y].stock + moved'[y]
      BY <1>4 DEF ColumnAheadBySales, OnSale
    <2>1. row[y] # None => product[y] = row[y].stock + moved[y]
      BY DEF IInv, ColumnAheadBySales
    <2>2. CASE y # x
      BY <1>3, <2>1, <2>2 DEF IInv, TypeOK
    <2>3. CASE y = x
      <3>1. row'[x] = t /\ moved'[x] = moved[x] + 1 /\ moved[x] \in Int /\ row[x].stock \in Int
        BY <1>3 DEF IInv, TypeOK, Row
      <3>2. row[x] # None
        BY <1>3, Constants
      <3>3. QED
        BY <1>3, <2>1, <2>3, <3>1, <3>2
    <2>4. QED
      BY <2>2, <2>3
  <1>10. OrderedProductKept'
    BY <1>1, <1>4, <1>6, Constants DEF IInv, OrderedProductKept
  <1>11. ASSUME NEW e \in Editors PROVE Armed(edit[e])'
    <2>1. Armed(edit[e]) /\ edit' = edit /\ unseen \subseteq unseen'
      BY <1>4 DEF IInv
    <2>2. ASSUME edit[e].pc = "remove", NEW y \in OrderIds \ unseen', order'[y] # None
          PROVE  order'[y].product # edit[e].product
      BY <2>1, <2>2, <1>1, <1>4, <1>6 DEF Armed
    <2>3. QED
      BY <2>1, <2>2 DEF Armed
  <1>12. QED
    BY <1>5, <1>7, <1>8, <1>9, <1>10, <1>11 DEF IInv

LEMMA CancelStep ==
    ASSUME IInv, NEW o \in OrderIds, Cancel(o)
    PROVE  IInv'
  <1>1. PICK x \in Order, y \in Order :
          /\ x = order[o] /\ y.product = x.product /\ y.variant = x.variant
          /\ order' = [order EXCEPT ![o] = y]
    <2>1. order[o] \in Order
      BY Typed DEF Cancel, IInv
    <2> DEFINE y == [order[o] EXCEPT !.cancelled = TRUE]
    <2>2. y \in Order /\ y.product = order[o].product /\ y.variant = order[o].variant
      BY <2>1 DEF Order
    <2>3. order' = [order EXCEPT ![o] = y]
      BY DEF Cancel
    <2> HIDE DEF y
    <2>4. QED
      BY <2>1, <2>2, <2>3
  <1>2. /\ \A z \in OrderIds : order'[z] = IF z = o THEN y ELSE order[z]
        /\ order' \in [OrderIds -> Order \cup {None}] /\ order[o] # None /\ y # None
    <2>1. order \in [OrderIds -> Order \cup {None}]
      BY DEF IInv, TypeOK
    <2>2. order[o] # None /\ y # None
      BY <1>1, Constants
    <2>3. QED
      BY <1>1, <2>1, <2>2
  <1>3. Names(x) /\ UNCHANGED <<row, line, edit, edits, blurred, unseen>>
    BY <1>1, <1>2 DEF IInv, Linked, Cancel
  <1>4. /\ product' \in [Products -> Int \cup {None, Deleted}] /\ moved' \in [Products -> Int]
        /\ variant' \in [VariantIds -> Variant \cup {None, Deleted}]
        /\ \A p \in Products :
              /\ product'[p] = None <=> product[p] = None
              /\ product[p] = None => moved'[p] = moved[p]
              /\ OnSale(p)' <=> OnSale(p)
              /\ OnSale(p) => product'[p] - moved'[p] = product[p] - moved[p]
        /\ \A v \in VariantIds :
              /\ IsVariant(v)' <=> IsVariant(v)
              /\ IsVariant(v) => variant'[v].product = variant[v].product
    <2>1. CASE x.variant # None
      <3>1. PICK w \in VariantIds : w = x.variant
        BY <2>1 DEF Order
      <3>2. variant[w] \in Variant
        BY <3>1, <2>1, <1>3, Typed DEF Names, IInv
      <3> DEFINE z == [variant[w] EXCEPT !.stock = variant[w].stock + 1]
      <3>3. z \in Variant /\ z.product = variant[w].product
        BY <3>2 DEF Variant
      <3>4. variant' = [variant EXCEPT ![w] = z] /\ UNCHANGED <<product, moved>>
        BY <1>1, <2>1, <3>1 DEF Cancel
      <3> HIDE DEF z
      <3>5. variant' \in [VariantIds -> Variant \cup {None, Deleted}]
        BY <3>3, <3>4 DEF IInv, TypeOK
      <3>6. \A v \in VariantIds :
               /\ IsVariant(v)' <=> IsVariant(v)
               /\ IsVariant(v) => variant'[v].product = variant[v].product
        BY <3>2, <3>3, <3>4, Constants DEF IInv, TypeOK, IsVariant
      <3>7. QED
        BY <3>4, <3>5, <3>6 DEF IInv, TypeOK, OnSale
    <2>2. CASE x.variant = None /\ x.product # None
      <3>1. PICK p \in Products : p = x.product
        BY <2>2 DEF Order
      <3>2. product[p] \in Int /\ moved[p] \in Int
        BY <3>1, <2>2, <1>3, Typed DEF Names, IInv, TypeOK
      <3>3. /\ product' = [product EXCEPT ![p] = product[p] + 1]
            /\ moved' = [moved EXCEPT ![p] = moved[p] + 1] /\ variant' = variant
        BY <1>1, <2>2, <3>1 DEF Cancel
      <3>4. product' \in [Products -> Int \cup {None, Deleted}] /\ moved' \in [Products -> Int]
        BY <3>2, <3>3 DEF IInv, TypeOK
      <3>5. \A z \in Products : /\ z # p => product'[z] = product[z] /\ moved'[z] = moved[z]
                                /\ product'[p] = product[p] + 1 /\ moved'[p] = moved[p] + 1
        BY <3>3 DEF IInv, TypeOK
      <3>6. \A z \in Products :
              /\ product'[z] = None <=> product[z] = None
              /\ product[z] = None => moved'[z] = moved[z]
              /\ OnSale(z)' <=> OnSale(z)
        BY <3>2, <3>5, Constants DEF OnSale
      <3>7. \A z \in Products : OnSale(z) => product'[z] - moved'[z] = product[z] - moved[z]
        BY <3>2, <3>5
      <3>8. QED
        BY <3>3, <3>4, <3>6, <3>7 DEF IInv, TypeOK, IsVariant
    <2>3. CASE x.variant = None /\ x.product = None
      BY <1>1, <2>3 DEF Cancel, IInv, TypeOK, OnSale, IsVariant
    <2>4. QED
      BY <2>1, <2>2, <2>3
  <1>5. TypeOK'
    BY <1>2, <1>3, <1>4 DEF IInv, TypeOK
  <1>6. Linked'
    <2>1. \A v \in VariantIds : IsVariant(v) => variant[v].product \in Products
      BY Typed DEF IInv, Variant
    <2>2. \A v \in VariantIds : IsVariant(v)' => OnSale(variant[v].product)'
      BY <1>4, <2>1 DEF IInv, Linked
    <2>3. ASSUME NEW z \in OrderIds, order'[z] # None PROVE Names(order[z])'
      <3>1. /\ order'[z].product = order[z].product /\ order'[z].variant = order[z].variant
            /\ order[z] \in Order /\ Names(order[z])
        BY <1>1, <1>2, <2>3, Typed DEF IInv, Linked
      <3>2. QED
        BY <1>4, <3>1 DEF Names, Order
    <2>4. QED
      BY <2>2, <2>3 DEF Linked
  <1>7. Untouched'
    BY <1>3, <1>4 DEF IInv, Untouched
  <1>8. ColumnAheadBySales'
    <2> SUFFICES ASSUME NEW p \in Products \ blurred, OnSale(p)', row[p] # None
                 PROVE  product'[p] = row[p].stock + moved'[p]
      BY <1>3 DEF ColumnAheadBySales
    <2>1. OnSale(p) /\ product[p] = row[p].stock + moved[p]
      BY <1>4 DEF IInv, ColumnAheadBySales
    <2>2. /\ product[p] \in Int /\ product'[p] \in Int /\ moved[p] \in Int /\ moved'[p] \in Int
          /\ row[p].stock \in Int
      BY <1>4, <1>5, <2>1, Typed DEF IInv, TypeOK, OnSale, Row
    <2>3. product'[p] - moved'[p] = product[p] - moved[p]
      BY <1>4, <2>1
    <2>4. QED
      BY <2>1, <2>2, <2>3
  <1>9. OrderedProductKept'
    BY <1>1, <1>2, <1>3 DEF IInv, OrderedProductKept
  <1>10. ASSUME NEW e \in Editors PROVE Armed(edit[e])'
    BY <1>1, <1>2, <1>3 DEF IInv, Armed
  <1>11. QED
    BY <1>5, <1>6, <1>7, <1>8, <1>9, <1>10 DEF IInv

-----------------------------------------------------------------------------
(* The invariant: keys, requests, and what is said of stock and orders.    *)
THEOREM Invariance == Spec => []IInv
  <1>1. IInv /\ [Next]_vars => IInv'
    <2> SUFFICES ASSUME IInv, [Next]_vars PROVE IInv'
      OBVIOUS
    <2>1. CASE UNCHANGED vars
      <3>1. UNCHANGED <<product, variant, row, line, order, edit, edits, moved, blurred, unseen>>
        BY <2>1 DEF vars, history
      <3>2. TypeOK' /\ Linked' /\ Untouched' /\ ColumnAheadBySales' /\ OrderedProductKept'
        BY <3>1 DEF IInv, TypeOK, Linked, Names, Untouched, ColumnAheadBySales,
                    OrderedProductKept, OnSale, IsVariant
      <3>3. QED
        BY <3>1, <3>2, ArmedKept DEF IInv
    <2>2. CASE VariantsNext
      BY <2>2, AddVariantStep, RemoveVariantCountStep, RemoveVariantStep DEF VariantsNext
    <2>3. ASSUME NEW p \in Products, NEW s \in Stocks, NEW f \in Form, NEW sent \in SUBSET DOMAIN f,
                 Create(p, s, f, sent)
          PROVE  IInv'
      BY <2>3, CreateStep
    <2>4. ASSUME NEW p \in Products, NEW e \in Editors,
                 \/ \E s \in Stocks \cup {None} :
                       \/ UpdateRead(e, p, s, None, {})
                       \/ \E f \in Form : \E sent \in SUBSET DOMAIN f : UpdateRead(e, p, s, f, sent)
                 \/ RemoveCount(e, p)
          PROVE  IInv'
      <3>1. ASSUME NEW s \in Stocks \cup {None}, UpdateRead(e, p, s, None, {}) PROVE IInv'
        BY <3>1, UpdateReadStep
      <3>2. ASSUME NEW s \in Stocks \cup {None}, NEW f \in Form, NEW sent \in SUBSET DOMAIN f,
                   UpdateRead(e, p, s, f, sent)
            PROVE  IInv'
        <4>1. sent \in SUBSET Skus
          BY DEF Form
        <4>2. QED
          BY <3>2, <4>1, UpdateReadStep
      <3>3. QED
        BY <2>4, <3>1, <3>2, RemoveCountStep
    <2>5. ASSUME NEW p \in Products, NEW v \in VariantIds \cup {None},
                 \/ \E l \in LineIds : AddToCart(l, p, v)
                 \/ \E o \in OrderIds : Place(o, p, v)
          PROVE  IInv'
      BY <2>5, AddToCartStep, PlaceStep
    <2>6. ASSUME NEW e \in Editors, UpdateWrite(e) \/ RemoveWrite(e) PROVE IInv'
      BY <2>6, UpdateWriteStep, RemoveStep
    <2>7. ASSUME NEW o \in OrderIds, Cancel(o) PROVE IInv'
      BY <2>7, CancelStep
    <2>8. QED
      BY <2>1, <2>2, <2>3, <2>4, <2>5, <2>6, <2>7 DEF Next
  <1>2. QED
    BY Initially, <1>1, PTL DEF Spec

(* Type correctness of the catalogue.                                      *)
THEOREM TypeCorrect == Spec => []TypeOK
  <1>1. IInv => TypeOK
    BY DEF IInv
  <1>2. QED
    BY Invariance, <1>1, PTL

(* The stock shown exceeds the stock held by the units sold and returned   *)
(* since the two were written together, unless the row counts a variant or *)
(* a form held an older stock (products.service.ts:627).                   *)
THEOREM ColumnExplained == Spec => []ColumnAheadBySales
  <1>1. IInv => ColumnAheadBySales
    BY DEF IInv
  <1>2. QED
    BY Invariance, <1>1, PTL

(* Only an order placed while a removal was under way loses its product    *)
(* (products.service.ts:1002).                                             *)
THEOREM OrdersKeepTheirProduct == Spec => []OrderedProductKept
  <1>1. IInv => OrderedProductKept
    BY DEF IInv
  <1>2. QED
    BY Invariance, <1>1, PTL

(* A step that deletes a variant and inserts one is an edit; what it read  *)
(* of the variants whose codes it was sent, it keeps or is refused         *)
(* (products.service.ts:915).                                              *)
THEOREM EditsKeepVariantStock == Spec => VariantStockSurvivesEdit
  <1> DEFINE Kept(v, w) ==
          /\ IsVariant(v) /\ variant'[v] = Deleted
          /\ variant[w] = None /\ variant'[w] # None
          /\ variant[v].sku = variant'[w].sku
          => \/ variant[v].stock = variant'[w].stock
             \/ \E e \in Editors : edit[e] # edit'[e] /\ variant[v] \notin edit[e].matched
  <1>1. IInv /\ [Next]_vars => [\A v, w \in VariantIds : Kept(v, w)]_vars
    <2> SUFFICES ASSUME IInv, Next, NEW v \in VariantIds, NEW w \in VariantIds,
                        IsVariant(v), variant'[v] = Deleted,
                        variant[w] = None, variant'[w] # None, variant[v].sku = variant'[w].sku
                 PROVE  \/ variant[v].stock = variant'[w].stock
                        \/ \E e \in Editors : edit[e] # edit'[e] /\ variant[v] \notin edit[e].matched
      OBVIOUS
    <2>1. v # w /\ variant[v] \in Variant
      BY Typed DEF IsVariant, IInv
    <2>2. ASSUME NEW e \in Editors, edit[e].pc = "update", NoVariantStockChanged(edit[e]), Commit(e)
          PROVE  \/ variant[v].stock = variant'[w].stock
                 \/ edit[e] # edit'[e] /\ variant[v] \notin edit[e].matched
      <3>1. PICK q \in Edit : q = edit[e]
        BY DEF IInv, TypeOK
      <3>2. PICK p \in Products : p = q.product
        BY <2>2, <3>1 DEF IInv, Armed
      <3>3. q.form # None /\ q.form \in Form
        BY <2>2, <3>1 DEF Commit, Edit
      <3>4. PICK n \in Numberings(q.form) : variant' = WithVariants(p, q.form, n)
        BY <2>2, <3>1, <3>2, <3>3 DEF Commit
      <3>5. variant'[w].sku \in DOMAIN q.form /\ variant'[w].stock = q.form[variant'[w].sku]
        BY <3>2, <3>3, <3>4, VariantsWritten DEF IInv
      <3>6. variant[v] \in q.matched => variant[v].stock = q.form[variant[v].sku]
        BY <2>2, <3>1 DEF NoVariantStockChanged
      <3>7. edit'[e] # edit[e]
        BY <2>2, IdleIsEdit DEF Commit, IInv, TypeOK
      <3>8. QED
        BY <3>1, <3>5, <3>6, <3>7
    <2>3. ASSUME NEW e \in Editors, UpdateWrite(e)
          PROVE  \/ variant[v].stock = variant'[w].stock
                 \/ \E f \in Editors : edit[f] # edit'[f] /\ variant[v] \notin edit[f].matched
      <3>1. ~Fail(e)
        BY <2>1 DEF Fail, IsVariant
      <3>2. edit[e].pc = "update" /\ NoVariantStockChanged(edit[e]) /\ Commit(e)
        BY <2>3, <3>1 DEF UpdateWrite
      <3>3. QED
        BY <2>2, <3>2
    <2>4. ASSUME NEW p \in Products, NEW s \in Stocks, NEW f \in Form, NEW sent \in SUBSET DOMAIN f,
                 Create(p, s, f, sent)
          PROVE  FALSE
      <3>1. PICK n \in Numberings(f) : variant' = WithVariants(p, f, n)
        BY <2>4 DEF Create
      <3>2. v \notin VariantsOf(p)
        BY <2>4 DEF Create, IInv, Linked, OnSale, VariantsOf
      <3>3. variant'[v] = variant[v]
        BY <3>1, <3>2, VariantsWritten DEF IInv, IsVariant
      <3>4. QED
        BY <3>3, Constants, <2>1
    <2>5. ASSUME NEW e \in Editors, RemoveVariantWrite(e) \/ RemoveWrite(e) PROVE FALSE
      <3>1. ~Fail(e)
        BY <2>1 DEF Fail, IsVariant
      <3>2. ~IsVariant(w) /\ \A p \in Products : w \notin VariantsOf(p)
        BY DEF VariantsOf, IsVariant
      <3>3. ASSUME NEW p, p = edit[e].product, RemoveWrite(e) PROVE FALSE
        <4>1. w \notin VariantsOf(p)
          BY <3>2 DEF VariantsOf
        <4>2. variant'[w] = variant[w]
          BY <3>1, <3>3, <4>1 DEF RemoveWrite
        <4>3. QED
          BY <4>2
      <3>4. ASSUME NEW x, x = edit[e].variant, RemoveVariantWrite(e) PROVE FALSE
        <4>1. IsVariant(x) /\ variant' = [variant EXCEPT ![x] = Deleted]
          BY <3>1, <3>4 DEF RemoveVariantWrite
        <4>2. variant'[w] = variant[w]
          BY <3>2, <4>1 DEF IInv, TypeOK
        <4>3. QED
          BY <4>2
      <3>5. QED
        BY <2>5, <3>3, <3>4
    <2>6. ASSUME NEW p \in Products, NEW x \in VariantIds, NEW k \in Skus, NEW s \in Stocks,
                 AddVariant(p, x, k, s)
          PROVE  FALSE
      BY <2>1, <2>6, Constants DEF AddVariant, Fresh, IInv, TypeOK, IsVariant
    <2>7. ASSUME NEW o \in OrderIds, Cancel(o) PROVE FALSE
      <3>1. order[o] \in Order /\ Names(order[o])
        BY <2>7, Typed DEF Cancel, IInv, Linked
      <3>2. variant' # variant
        BY Constants
      <3>3. order[o].variant # None /\ order[o].variant # w
        BY <2>7, <3>1, <3>2 DEF Cancel, Names, IsVariant
      <3>4. variant'[w] = variant[w]
        BY <2>7, <3>3 DEF Cancel, IInv, TypeOK
      <3>5. QED
        BY <3>4
    <2>8. QED
      BY <2>1, <2>3, <2>4, <2>5, <2>6, <2>7
         DEF Next, VariantsNext, UpdateRead, RemoveCount, RemoveVariantCount, AddToCart, Place
  <1>2. QED
    BY Invariance, <1>1, PTL DEF Spec, VariantStockSurvivesEdit

-----------------------------------------------------------------------------
(* What the theorems about accounts assume of the constants.               *)
AccountsAssumption == SessionsAssumption /\ AccountAssumption

(* Logins whose wrong password is about to be counted, and that will not   *)
(* block; and those that will.                                             *)
Counting(u) ==
    {r \in Requests : call[r].pc = "count" /\ call[r].user = u /\ call[r].seen < call[r].limit}
Blocking(u) == \E r \in Requests : call[r].user = u /\ call[r].pc = "block"

(* What a request knows of its user: that there was one, and, unless it    *)
(* was overtaken, what it read.                                            *)
RequestKnows(r) ==
    LET u == call[r].user
    IN  /\ call[r] # NoCall => u \in Users
        /\ u \in Users => account[u] # None
        /\ call[r].pc = "count" => call[r].limit <= Patience
        /\ call[r].pc \in {"reset", "sign"} /\ r \notin overtaken /\ u \in Users /\ Exists(u) => Open(u)
        /\ call[r].pc = "rotate" /\ r \notin overtaken /\ u \in Users /\ Exists(u) => account[u].session

(* The counter is what was guessed; and what was guessed and is about to   *)
(* be counted is bounded.                                                  *)
GuessesKnown(u) ==
    /\ Exists(u) => account[u].failures = guesses[u]
    /\ account[u] = None => guesses[u] = 0
    /\ Open(u) /\ u \notin reprieved /\ ~Blocking(u) =>
          guesses[u] + Cardinality(Counting(u)) < Patience + Cardinality(Requests)

SessionsInvariant ==
    /\ AccountsAssumption
    /\ SessionsTypeOK
    /\ \A r \in Requests : RequestKnows(r)
    /\ \A u \in Users : GuessesKnown(u)

-----------------------------------------------------------------------------
LEMMA NoCallIsCall ==
    /\ NoCall \in Call /\ NoCall.pc = "idle" /\ NoCall.user = None
  BY DEF NoCall, Call, Stage

LEMMA GoneTo ==
    ASSUME NEW pc \in Stage, NEW u \in Users
    PROVE  LET q == [NoCall EXCEPT !.pc = pc, !.user = u]
           IN  q \in Call /\ q.pc = pc /\ q.user = u
  BY DEF NoCall, Call, Stage

LEMMA RowsExist ==
    ASSUME SessionsInvariant, NEW u \in Users
    PROVE  /\ account[u] \in Account <=> Exists(u)
           /\ account[u] \in Account \cup {None, Deleted}
           /\ None \notin Users /\ None # Deleted
           /\ Exists(u) => /\ account[u].failures \in Nat /\ account[u].session \in BOOLEAN
                           /\ account[u].status \in Statuses
           /\ guesses[u] \in Nat
  <1>1. /\ None \notin Account /\ Deleted \notin Account /\ None \notin Users /\ None # Deleted
        /\ account \in [Users -> Account \cup {None, Deleted}] /\ guesses \in [Users -> Nat]
    BY DEF SessionsInvariant, AccountsAssumption, AccountAssumption, SessionsAssumption, SessionsTypeOK
  <1>2. account[u] \in Account => /\ account[u].failures \in Nat /\ account[u].session \in BOOLEAN
                                  /\ account[u].status \in Statuses
    BY DEF Account
  <1>3. QED
    BY <1>1, <1>2 DEF Exists

LEMMA InNumbers ==
    ASSUME AccountsAssumption, NEW S \in SUBSET Requests
    PROVE  /\ IsFiniteSet(S) /\ Cardinality(S) \in Nat /\ Cardinality(Requests) \in Nat
           /\ Cardinality(S) <= Cardinality(Requests)
           /\ S # Requests => Cardinality(S) < Cardinality(Requests)
           /\ Patience \in Nat /\ AdminPatience \in Nat /\ AdminPatience <= Patience
  <1>1. IsFiniteSet(Requests) /\ Patience \in Nat /\ AdminPatience \in 0 .. Patience
    BY DEF AccountsAssumption, SessionsAssumption
  <1>2. QED
    BY <1>1, FS_Subset, FS_CardinalityType

(* A step after which no more of a user's requests are about to count, and *)
(* that neither opens the account nor forgets a block.                     *)
LEMMA BoundKept ==
    ASSUME SessionsInvariant, NEW u \in Users,
           guesses'[u] = guesses[u], Counting(u)' \subseteq Counting(u),
           Open(u)' => Open(u), u \in reprieved \/ Blocking(u) => u \in reprieved' \/ Blocking(u)'
    PROVE  Open(u)' /\ u \notin reprieved' /\ ~Blocking(u)' =>
              guesses'[u] + Cardinality(Counting(u)') < Patience + Cardinality(Requests)
  <1> SUFFICES ASSUME Open(u)', u \notin reprieved', ~Blocking(u)'
               PROVE  guesses'[u] + Cardinality(Counting(u)') < Patience + Cardinality(Requests)
    OBVIOUS
  <1>1. guesses[u] + Cardinality(Counting(u)) < Patience + Cardinality(Requests)
    BY DEF SessionsInvariant, GuessesKnown
  <1>2. Counting(u) \subseteq Requests
    BY DEF Counting
  <1>3. /\ Cardinality(Counting(u)') \in Nat /\ Cardinality(Counting(u)) \in Nat
        /\ Cardinality(Counting(u)') <= Cardinality(Counting(u))
        /\ Patience \in Nat /\ Cardinality(Requests) \in Nat
    <2>1. AccountsAssumption
      BY DEF SessionsInvariant
    <2>2. IsFiniteSet(Counting(u)) /\ Cardinality(Counting(u)) \in Nat /\ Patience \in Nat /\ Cardinality(Requests) \in Nat
      BY <2>1, <1>2, InNumbers
    <2>3. QED
      BY <2>2, FS_Subset, FS_CardinalityType
  <1>4. guesses[u] \in Nat
    BY RowsExist
  <1>5. QED
    BY <1>1, <1>3, <1>4

(* The same of one request: q takes the place of what r was doing.         *)
LEMMA RequestsOf ==
    ASSUME SessionsInvariant, NEW r \in Requests, NEW q, call' = [call EXCEPT ![r] = q], NEW u \in Users,
           q.pc = "count" /\ q.user = u => ~(q.seen < q.limit),
           call[r].pc = "block" /\ call[r].user = u => u \in reprieved' \/ (q.pc = "block" /\ q.user = u),
           u \in reprieved => u \in reprieved'
    PROVE  /\ Counting(u)' \subseteq Counting(u)
           /\ u \in reprieved \/ Blocking(u) => u \in reprieved' \/ Blocking(u)'
  <1>1. call \in [Requests -> Call]
    BY DEF SessionsInvariant, SessionsTypeOK
  <1>2. \A s \in Requests : call'[s] = IF s = r THEN q ELSE call[s]
    BY <1>1
  <1>3. Counting(u)' \subseteq Counting(u)
    BY <1>2 DEF Counting
  <1>4. ASSUME Blocking(u) PROVE u \in reprieved' \/ Blocking(u)'
    <2>1. PICK s \in Requests : call[s].user = u /\ call[s].pc = "block"
      BY <1>4 DEF Blocking
    <2>2. CASE s = r
      <3>1. q.pc = "block" /\ q.user = u => Blocking(u)'
        BY <1>2 DEF Blocking
      <3>2. QED
        BY <2>1, <2>2, <3>1
    <2>3. CASE s # r
      <3>1. call'[s] = call[s]
        BY <2>3, <1>2
      <3>2. QED
        BY <2>1, <3>1 DEF Blocking
    <2>4. QED
      BY <2>2, <2>3
  <1>5. QED
    BY <1>3, <1>4

(* A step of the requests R about user x leaves the other requests and     *)
(* users with what they know.                                              *)
LEMMA OnlyAbout ==
    ASSUME SessionsInvariant, SessionsTypeOK', NEW x \in Users, NEW R \in SUBSET Requests,
           \A s \in R : /\ RequestKnows(s)'
                        /\ call[s].user \in {x, None} /\ call'[s].user \in {x, None},
           \A s \in Requests \ R : call'[s] = call[s] /\ (s \in overtaken => s \in overtaken'),
           \A s \in Requests \ R :
              call[s].user = x /\ s \notin overtaken' /\ Exists(x)' =>
                 Exists(x) /\ (Open(x) => Open(x)') /\ (account[x].session => account'[x].session),
           \A u \in Users \ {x} : /\ account'[u] = account[u] /\ guesses'[u] = guesses[u]
                                  /\ u \in reprieved => u \in reprieved',
           account'[x] # None, GuessesKnown(x)'
    PROVE  SessionsInvariant'
  <1>1. None \notin Users
    BY DEF SessionsInvariant, AccountsAssumption, SessionsAssumption
  <1>2. ASSUME NEW s \in Requests PROVE RequestKnows(s)'
    <2>1. CASE s \in R
      BY <2>1
    <2>2. CASE s \notin R
      <3>1. PICK c : c = call[s]
        OBVIOUS
      <3>2. call'[s] = c /\ (s \in overtaken => s \in overtaken')
        BY <2>2, <3>1
      <3>3. RequestKnows(s)
        BY DEF SessionsInvariant
      <3>4. CASE c.user = x
        <4>1. s \notin overtaken' /\ Exists(x)' =>
                 Exists(x) /\ (Open(x) => Open(x)') /\ (account[x].session => account'[x].session)
          BY <2>2, <3>1, <3>4
        <4>2. QED
          BY <3>1, <3>2, <3>3, <3>4, <4>1 DEF RequestKnows
      <3>5. CASE c.user \in Users \ {x}
        <4>1. PICK u \in Users \ {x} : u = c.user
          BY <3>5
        <4>2. account'[u] = account[u]
          OBVIOUS
        <4>3. (Exists(u)' <=> Exists(u)) /\ (Open(u)' <=> Open(u))
          BY <4>2 DEF Exists, Open
        <4>4. QED
          BY <3>1, <3>2, <3>3, <4>1, <4>2, <4>3 DEF RequestKnows
      <3>6. CASE c.user \notin Users
        BY <3>1, <3>2, <3>3, <3>6 DEF RequestKnows
      <3>7. QED
        BY <3>4, <3>5, <3>6
    <2>3. QED
      BY <2>1, <2>2
  <1>3. ASSUME NEW u \in Users PROVE GuessesKnown(u)'
    <2>1. CASE u = x
      BY <2>1
    <2>2. CASE u # x
      <3>1. \A s \in Requests : call[s].user = u => call'[s] = call[s]
        BY <2>2, <1>1
      <3>2. \A s \in Requests : call'[s].user = u => call'[s] = call[s]
        BY <2>2, <1>1
      <3>3. Counting(u)' \subseteq Counting(u)
        BY <3>2 DEF Counting
      <3>4. Blocking(u) => Blocking(u)'
        BY <3>1 DEF Blocking
      <3>5. account'[u] = account[u] /\ guesses'[u] = guesses[u] /\ (u \in reprieved => u \in reprieved')
        BY <2>2
      <3>6. (Exists(u)' <=> Exists(u)) /\ (Open(u)' <=> Open(u))
        BY <3>5 DEF Exists, Open
      <3>7. Open(u)' /\ u \notin reprieved' /\ ~Blocking(u)' =>
              guesses'[u] + Cardinality(Counting(u)') < Patience + Cardinality(Requests)
        BY <3>3, <3>4, <3>5, <3>6, BoundKept
      <3>8. GuessesKnown(u)
        BY DEF SessionsInvariant
      <3>9. QED
        BY <3>5, <3>6, <3>7, <3>8 DEF GuessesKnown
    <2>3. QED
      BY <2>1, <2>2
  <1>4. AccountsAssumption'
    BY DEF SessionsInvariant, AccountsAssumption, SessionsAssumption, AccountAssumption
  <1>5. QED
    BY <1>2, <1>3, <1>4 DEF SessionsInvariant

-----------------------------------------------------------------------------
(* A request that has read and written nothing.                            *)
LEMMA ReadStep ==
    ASSUME SessionsInvariant, NEW r \in Requests, NEW x \in Users, NEW q \in Call,
           call[r].user \in {x, None}, q.user \in {x, None}, account[x] # None,
           call' = [call EXCEPT ![r] = q], UNCHANGED <<account, guesses>>, carts' \subseteq Users, ops' \in Nat,
           overtaken \ {r} \subseteq overtaken', overtaken' \subseteq Requests,
           reprieved \subseteq reprieved', reprieved' \subseteq Users,
           q # NoCall => q.user = x,
           q.pc = "count" => Exists(x) /\ q.seen = account[x].failures /\ q.limit <= Patience,
           q.pc \in {"reset", "sign"} => Open(x),
           q.pc = "rotate" => account[x].session,
           call[r].pc = "block" => x \in reprieved'
    PROVE  SessionsInvariant'
  <1>1. None \notin Users /\ call \in [Requests -> Call]
    BY DEF SessionsInvariant, AccountsAssumption, SessionsAssumption, SessionsTypeOK
  <1>2. \A s \in Requests : call'[s] = IF s = r THEN q ELSE call[s]
    BY <1>1
  <1>3. SessionsTypeOK'
    BY <1>1 DEF SessionsInvariant, SessionsTypeOK
  <1>4. \A u \in Users : (Exists(u)' <=> Exists(u)) /\ (Open(u)' <=> Open(u)) /\ account'[u] = account[u]
    BY DEF Exists, Open
  <1>5. RequestKnows(r)'
    <2>1. call'[r] = q
      BY <1>2
    <2>2. CASE q.user = x
      BY <1>4, <2>1, <2>2 DEF RequestKnows
    <2>3. CASE q.user = None
      <3>1. q = NoCall
        BY <2>3, <1>1
      <3>2. QED
        BY <2>1, <2>3, <3>1, <1>1, NoCallIsCall DEF RequestKnows
    <2>4. QED
      BY <2>2, <2>3
  <1>6. GuessesKnown(x)'
    <2>1. GuessesKnown(x) /\ AccountsAssumption
      BY DEF SessionsInvariant
    <2>2. CASE q.pc = "count" /\ q.user = x /\ q.seen < q.limit
      <3>1. guesses[x] < Patience
        <4>1. guesses[x] = q.seen
          BY <2>1, <2>2 DEF GuessesKnown
        <4>2. q.seen \in Nat /\ q.limit \in Nat /\ Patience \in Nat
          BY <2>1 DEF Call, AccountsAssumption, SessionsAssumption
        <4>3. QED
          BY <4>1, <4>2, <2>2
      <3>2. Counting(x)' \subseteq Requests
        BY DEF Counting
      <3>3. Cardinality(Counting(x)') \in Nat /\ Cardinality(Counting(x)') <= Cardinality(Requests)
            /\ Cardinality(Requests) \in Nat /\ Patience \in Nat
        BY <3>2, <2>1, InNumbers
      <3>4. guesses'[x] = guesses[x] /\ guesses[x] \in Nat
        BY RowsExist
      <3>5. guesses'[x] + Cardinality(Counting(x)') < Patience + Cardinality(Requests)
        BY <3>1, <3>3, <3>4
      <3>6. QED
        BY <2>1, <1>4, <3>4, <3>5 DEF GuessesKnown
    <2>3. CASE ~(q.pc = "count" /\ q.user = x /\ q.seen < q.limit)
      <3>1. /\ Counting(x)' \subseteq Counting(x)
            /\ x \in reprieved \/ Blocking(x) => x \in reprieved' \/ Blocking(x)'
        BY <2>3, RequestsOf
      <3>2. guesses'[x] = guesses[x]
        OBVIOUS
      <3>3. Open(x)' /\ x \notin reprieved' /\ ~Blocking(x)' =>
              guesses'[x] + Cardinality(Counting(x)') < Patience + Cardinality(Requests)
        BY <1>4, <3>1, <3>2, BoundKept
      <3>4. QED
        BY <2>1, <1>4, <3>2, <3>3 DEF GuessesKnown
    <2>4. QED
      BY <2>2, <2>3
  <1>7. \A s \in Requests \ {r} : call'[s] = call[s] /\ (s \in overtaken => s \in overtaken')
    BY <1>2
  <1>8. \A s \in {r} : RequestKnows(s)' /\ call[s].user \in {x, None} /\ call'[s].user \in {x, None}
    BY <1>2, <1>5
  <1>9. {r} \in SUBSET Requests /\ account'[x] # None
    BY <1>4
  <1>10. \A s \in Requests \ {r} :
            call[s].user = x /\ s \notin overtaken' /\ Exists(x)' =>
               Exists(x) /\ (Open(x) => Open(x)') /\ (account[x].session => account'[x].session)
    BY <1>4
  <1>11. \A u \in Users \ {x} : /\ account'[u] = account[u] /\ guesses'[u] = guesses[u]
                                /\ u \in reprieved => u \in reprieved'
    BY <1>4
  <1>12. QED
    BY <1>3, <1>6, <1>7, <1>8, <1>9, <1>10, <1>11, OnlyAbout

(* A request, or nobody's, that writes the row of x.                       *)
LEMMA WriteStep ==
    ASSUME SessionsInvariant, NEW x \in Users, Exists(x), NEW written \in Account \cup {Deleted},
           account' = [account EXCEPT ![x] = written],
           NEW R \in SUBSET Requests, call' \in [Requests -> Call],
           \A s \in R : call[s].user = x /\ call'[s].user \in {x, None} /\ RequestKnows(s)',
           \A s \in Requests \ R : call'[s] = call[s] /\ (s \in overtaken => s \in overtaken'),
           \A s \in Requests \ R : call[s].user = x /\ s \notin overtaken' /\ written \in Account =>
              (Open(x) => written.status # "BLOCKED") /\ (account[x].session => written.session),
           carts' \subseteq Users, ops' \in Nat, reprieved' \subseteq Users, overtaken' \subseteq Requests,
           guesses' \in [Users -> Nat],
           \A u \in Users \ {x} : guesses'[u] = guesses[u] /\ (u \in reprieved => u \in reprieved'),
           written \in Account => written.failures = guesses'[x],
           written \in Account /\ written.status # "BLOCKED" /\ x \notin reprieved' /\ ~Blocking(x)' =>
              guesses'[x] + Cardinality(Counting(x)') < Patience + Cardinality(Requests)
    PROVE  SessionsInvariant'
  <1>1. /\ None \notin Users /\ None # Deleted /\ None \notin Account /\ Deleted \notin Account
        /\ account \in [Users -> Account \cup {None, Deleted}]
    BY DEF SessionsInvariant, AccountsAssumption, SessionsAssumption, AccountAssumption, SessionsTypeOK
  <1>2. \A u \in Users : account'[u] = IF u = x THEN written ELSE account[u]
    BY <1>1
  <1>3. account' \in [Users -> Account \cup {None, Deleted}]
    BY <1>1
  <1>4. SessionsTypeOK'
    BY <1>3 DEF SessionsTypeOK
  <1>5. account'[x] = written /\ written # None
    BY <1>1, <1>2
  <1>6. (Exists(x)' <=> written \in Account) /\ (Open(x)' <=> written \in Account /\ written.status # "BLOCKED")
    BY <1>1, <1>5 DEF Exists, Open
  <1>7. GuessesKnown(x)'
    BY <1>5, <1>6 DEF GuessesKnown
  <1>8. \A s \in Requests \ R :
          call[s].user = x /\ s \notin overtaken' /\ Exists(x)' =>
             Exists(x) /\ (Open(x) => Open(x)') /\ (account[x].session => account'[x].session)
    BY <1>5, <1>6
  <1>9. \A u \in Users \ {x} : /\ account'[u] = account[u] /\ guesses'[u] = guesses[u]
                               /\ u \in reprieved => u \in reprieved'
    BY <1>2
  <1>10. \A s \in R : /\ RequestKnows(s)'
                      /\ call[s].user \in {x, None} /\ call'[s].user \in {x, None}
    OBVIOUS
  <1>11. account'[x] # None
    BY <1>5
  <1> HIDE DEF SessionsInvariant
  <1>12. QED
    BY <1>4, <1>7, <1>8, <1>9, <1>10, <1>11, OnlyAbout

(* What a request is about is a user that was inserted.                    *)
LEMMA RequestOf ==
    ASSUME SessionsInvariant, NEW r \in Requests, call[r].pc # "idle"
    PROVE  /\ call[r] \in Call /\ call[r].user \in Users /\ account[call[r].user] # None
           /\ Exists(call[r].user) => account[call[r].user] \in Account
           /\ call[r].pc \in {"reset", "sign"} /\ r \notin overtaken /\ Exists(call[r].user) => Open(call[r].user)
  <1>1. RequestKnows(r) /\ call[r] \in Call
    BY DEF SessionsInvariant, SessionsTypeOK
  <1>2. call[r] # NoCall
    BY NoCallIsCall
  <1>3. PICK u \in Users : u = call[r].user
    BY <1>1, <1>2 DEF RequestKnows
  <1>4. Exists(u) => account[u] \in Account
    BY RowsExist
  <1>5. QED
    BY <1>1, <1>3, <1>4 DEF RequestKnows

LEMMA RowWritten ==
    ASSUME NEW written \in Account
    PROVE  /\ \A n \in Nat : LET s == [written EXCEPT !.failures = n]
                            IN  s \in Account /\ s.failures = n /\ s.status = written.status /\ s.session = written.session
           /\ \A n \in Nat, a \in Ages :
                 LET s == [written EXCEPT !.failures = n, !.login = a]
                 IN  s \in Account /\ s.failures = n /\ s.status = written.status /\ s.session = written.session
           /\ \A x \in Statuses : LET s == [written EXCEPT !.status = x]
                            IN  s \in Account /\ s.failures = written.failures /\ s.status = x /\ s.session = written.session
           /\ \A x \in Roles : LET s == [written EXCEPT !.role = x]
                            IN  s \in Account /\ s.failures = written.failures /\ s.status = written.status /\ s.session = written.session
           /\ \A x \in BOOLEAN : LET s == [written EXCEPT !.session = x]
                            IN  s \in Account /\ s.failures = written.failures /\ s.status = written.status /\ s.session = x
           /\ \A x \in BOOLEAN, a \in Ages :
                 LET s == [written EXCEPT !.session = x, !.login = a]
                 IN  s \in Account /\ s.failures = written.failures /\ s.status = written.status /\ s.session = x
           /\ \A a \in Ages :
                 LET s == [written EXCEPT !.login = a]
                 IN  s \in Account /\ s.failures = written.failures /\ s.status = written.status /\ s.session = written.session
           /\ \A a \in Ages :
                 LET s == [written EXCEPT !.password = a]
                 IN  s \in Account /\ s.failures = written.failures /\ s.status = written.status /\ s.session = written.session
  BY DEF Account

LEMMA NewRows ==
    \A written \in {NewUser, NewAdmin} :
       written \in Account /\ written.failures = 0 /\ written.status = "ACTIVE" /\ written.session = FALSE
  <1>1. NewUser \in Account /\ NewUser.failures = 0 /\ NewUser.status = "ACTIVE" /\ NewUser.session = FALSE
    BY DEF NewUser, Account, Roles, Statuses, Ages
  <1>2. NewAdmin \in Account /\ NewAdmin.failures = 0 /\ NewAdmin.status = "ACTIVE" /\ NewAdmin.session = FALSE
    BY DEF NewAdmin, Account, Roles, Statuses, Ages
  <1>3. QED
    BY <1>1, <1>2

-----------------------------------------------------------------------------
(* The requests that read: each knows what it has read.                    *)
LEMMA IdleHasNoUser ==
    ASSUME SessionsInvariant, NEW r \in Requests, call[r] = NoCall
    PROVE  call[r].user = None /\ call[r].pc = "idle"
  BY NoCallIsCall

LEMMA Counted ==
    ASSUME SessionsInvariant, Begin
    PROVE  ops' \in Nat
  BY DEF SessionsInvariant, SessionsTypeOK, Begin

LEMMA ComparedStep ==
    ASSUME SessionsInvariant, NEW r \in Requests, NEW x \in Users, call[r] = NoCall, Open(x), Begin,
           NEW limit \in Nat, limit <= Patience, NEW dest \in {"sign", "reset"}, Compared(r, x, limit, dest)
    PROVE  SessionsInvariant'
  <1>1. /\ call[r].user = None /\ call[r].pc = "idle" /\ ops' \in Nat
        /\ account[x] # None /\ Exists(x)
        /\ overtaken \subseteq Requests /\ reprieved \subseteq Users /\ carts \subseteq Users
    BY IdleHasNoUser, Counted DEF Open, Exists, SessionsInvariant, SessionsTypeOK
  <1>2. CASE call' = [call EXCEPT ![r] = [pc |-> "count", user |-> x, seen |-> account[x].failures,
                                          limit |-> limit]]
    <2> DEFINE q == [pc |-> "count", user |-> x, seen |-> account[x].failures, limit |-> limit]
    <2>1. account[x].failures \in Nat
      BY <1>1, RowsExist
    <2>2. q \in Call /\ q.user = x /\ q.pc = "count" /\ q.seen = account[x].failures /\ q.limit = limit
      BY <2>1 DEF Call, Stage
    <2>3. call' = [call EXCEPT ![r] = q]
      BY <1>2
    <2> HIDE DEF q
    <2>4. QED
      BY <1>1, <2>2, <2>3, ReadStep DEF Compared
  <1>3. CASE Goto(r, dest, x)
    <2> DEFINE q == [NoCall EXCEPT !.pc = dest, !.user = x]
    <2>1. dest \in Stage
      BY DEF Stage
    <2>2. q \in Call /\ q.user = x /\ q.pc = dest
      BY <2>1, GoneTo
    <2>3. call' = [call EXCEPT ![r] = q]
      BY <1>3 DEF Goto
    <2> HIDE DEF q
    <2>4. QED
      BY <1>1, <2>2, <2>3, ReadStep DEF Compared
  <1>4. QED
    BY <1>2, <1>3 DEF Compared

LEMMA LoginReadStep ==
    ASSUME SessionsInvariant, NEW r \in Requests, NEW x \in Users, LoginRead(r, x)
    PROVE  SessionsInvariant'
  <1>1. Patience \in Nat /\ Patience <= Patience
    BY DEF SessionsInvariant, AccountsAssumption, SessionsAssumption
  <1>2. QED
    BY <1>1, ComparedStep DEF LoginRead

LEMMA AdminLoginReadStep ==
    ASSUME SessionsInvariant, NEW r \in Requests, NEW x \in Users, AdminLoginRead(r, x)
    PROVE  SessionsInvariant'
  <1>1. AdminPatience \in Nat /\ AdminPatience <= Patience
    BY DEF SessionsInvariant, AccountsAssumption, SessionsAssumption
  <1>2. call[r] = NoCall /\ Open(x) /\ Begin
    BY DEF AdminLoginRead
  <1>3. CASE account[x].login = "old"
    <2> DEFINE q == [pc |-> "block", user |-> x, seen |-> 0, limit |-> 0]
    <2>1. q \in Call /\ q.user = x /\ q.pc = "block"
      BY DEF Call, Stage
    <2>2. call' = [call EXCEPT ![r] = q] /\ UNCHANGED <<account, carts, guesses, reprieved, overtaken>>
      BY <1>3 DEF AdminLoginRead
    <2>3. /\ call[r].user = None /\ call[r].pc = "idle" /\ ops' \in Nat
          /\ account[x] # None /\ overtaken \subseteq Requests /\ reprieved \subseteq Users /\ carts \subseteq Users
      BY <1>2, IdleHasNoUser, Counted DEF Open, Exists, SessionsInvariant, SessionsTypeOK
    <2> HIDE DEF q
    <2>4. QED
      BY <2>1, <2>2, <2>3, ReadStep
  <1>4. CASE account[x].login # "old"
    <2>1. PICK dest \in {"sign", "reset"} : Compared(r, x, AdminPatience, dest)
      BY <1>4 DEF AdminLoginRead
    <2>2. QED
      BY <1>1, <1>2, <2>1, ComparedStep
  <1>5. QED
    BY <1>3, <1>4

(* The other requests that only read.                                      *)
LEMMA AskStep ==
    ASSUME SessionsInvariant, NEW r \in Requests, NEW x \in Users, call[r] = NoCall, Exists(x), Begin,
           NEW pc \in Stage, pc \notin {"idle", "count", "reset", "sign"},
           pc = "rotate" => account[x].session,
           Goto(r, pc, x), UNCHANGED <<account, carts, guesses, reprieved, overtaken>>
    PROVE  SessionsInvariant'
  <1> DEFINE q == [NoCall EXCEPT !.pc = pc, !.user = x]
  <1>1. q \in Call /\ q.user = x /\ q.pc = pc
    BY GoneTo
  <1>2. call' = [call EXCEPT ![r] = q]
    BY DEF Goto
  <1>3. /\ call[r].user = None /\ call[r].pc = "idle" /\ ops' \in Nat
        /\ account[x] # None /\ overtaken \subseteq Requests /\ reprieved \subseteq Users /\ carts \subseteq Users
    BY IdleHasNoUser, Counted DEF Exists, SessionsInvariant, SessionsTypeOK
  <1> HIDE DEF q
  <1>4. QED
    BY <1>1, <1>2, <1>3, ReadStep

LEMMA RefreshReadStep ==
    ASSUME SessionsInvariant, NEW r \in Requests, NEW x \in Users, RefreshRead(r, x)
    PROVE  SessionsInvariant'
  <1>1. "rotate" \in Stage
    BY DEF Stage
  <1>2. QED
    BY <1>1, AskStep DEF RefreshRead, Open

LEMMA DeleteReadStep ==
    ASSUME SessionsInvariant, NEW r \in Requests, NEW x \in Users, DeleteRead(r, x)
    PROVE  SessionsInvariant'
  <1>1. "delete" \in Stage
    BY DEF Stage
  <1>2. QED
    BY <1>1, AskStep DEF DeleteRead

LEMMA ChangePasswordReadStep ==
    ASSUME SessionsInvariant, NEW r \in Requests, NEW x \in Users, ChangePasswordRead(r, x)
    PROVE  SessionsInvariant'
  <1>1. call[r] = NoCall /\ Open(x) /\ Exists(x) /\ Begin
        /\ UNCHANGED <<account, carts, guesses, reprieved, overtaken>>
    BY DEF ChangePasswordRead, Open
  <1>2. CASE Goto(r, "password", x)
    <2>1. "password" \in Stage
      BY DEF Stage
    <2>2. QED
      BY <1>1, <1>2, <2>1, AskStep
  <1>3. CASE call' = [call EXCEPT ![r] = [pc |-> "password", user |-> x, seen |-> 1, limit |-> 0]]
    <2> DEFINE q == [pc |-> "password", user |-> x, seen |-> 1, limit |-> 0]
    <2>1. q \in Call /\ q.user = x /\ q.pc = "password"
      BY DEF Call, Stage
    <2>2. call' = [call EXCEPT ![r] = q]
      BY <1>3
    <2>3. /\ call[r].user = None /\ call[r].pc = "idle" /\ ops' \in Nat
          /\ account[x] # None /\ overtaken \subseteq Requests /\ reprieved \subseteq Users /\ carts \subseteq Users
      BY <1>1, IdleHasNoUser, Counted DEF Exists, SessionsInvariant, SessionsTypeOK
    <2> HIDE DEF q
    <2>4. QED
      BY <1>1, <2>1, <2>2, <2>3, ReadStep
  <1>4. QED
    BY <1>2, <1>3 DEF ChangePasswordRead

LEMMA AbandonStep ==
    ASSUME SessionsInvariant, NEW r \in Requests, Abandon(r)
    PROVE  SessionsInvariant'
  <1>1. call[r] # NoCall /\ RequestKnows(r) /\ overtaken \subseteq Requests /\ reprieved \subseteq Users /\ carts \subseteq Users
        /\ ops \in Nat
    BY DEF Abandon, SessionsInvariant, SessionsTypeOK
  <1>2. PICK x \in Users : x = call[r].user
    BY <1>1 DEF RequestKnows
  <1>3. account[x] # None
    BY <1>1, <1>2 DEF RequestKnows
  <1>4. call' = [call EXCEPT ![r] = NoCall] /\ UNCHANGED <<account, guesses, carts, ops>>
        /\ overtaken' = overtaken \ {r}
        /\ reprieved' = IF call[r].pc = "block" THEN reprieved \cup {x} ELSE reprieved
    BY <1>2 DEF Abandon, Done, Unmark
  <1>5. NoCall \in Call /\ NoCall.pc = "idle" /\ NoCall.user = None
    BY NoCallIsCall
  <1>6. QED
    BY <1>1, <1>2, <1>3, <1>4, <1>5, ReadStep

(* The cart of a new user: nothing that matters here.                      *)
LEMMA RegisterCartStep ==
    ASSUME SessionsInvariant, NEW r \in Requests, RegisterCart(r)
    PROVE  SessionsInvariant'
  <1>1. call[r].pc = "cart" /\ call[r].pc # "idle" /\ overtaken \subseteq Requests /\ reprieved \subseteq Users /\ carts \subseteq Users
        /\ ops \in Nat
    BY DEF RegisterCart, SessionsInvariant, SessionsTypeOK
  <1>2. PICK x \in Users : x = call[r].user /\ account[x] # None
    BY <1>1, RequestOf
  <1>3. call' = [call EXCEPT ![r] = NoCall] /\ UNCHANGED <<account, guesses, reprieved, ops>>
        /\ overtaken' = overtaken \ {r} /\ carts' \subseteq Users
    BY <1>1, <1>2 DEF RegisterCart, Done, Unmark
  <1>4. NoCall \in Call /\ NoCall.pc = "idle" /\ NoCall.user = None
    BY NoCallIsCall
  <1>5. QED
    BY <1>1, <1>2, <1>3, <1>4, ReadStep

-----------------------------------------------------------------------------
(* The writers.  What r knows when it is done: nothing.                    *)
LEMMA DoneKnows ==
    ASSUME SessionsInvariant, NEW r \in Requests, call'[r] = NoCall
    PROVE  RequestKnows(r)'
  <1>1. None \notin Users
    BY DEF SessionsInvariant, AccountsAssumption, SessionsAssumption
  <1>2. QED
    BY <1>1, NoCallIsCall DEF RequestKnows

(* A request that writes a row and is done.                                *)
LEMMA WriteAndDone ==
    ASSUME SessionsInvariant, NEW r \in Requests, NEW x \in Users, x = call[r].user, Exists(x),
           NEW written \in Account \cup {Deleted}, account' = [account EXCEPT ![x] = written],
           Done(r), UNCHANGED <<ops, guesses, reprieved>>, carts' \subseteq Users,
           overtaken \ {r} \subseteq overtaken', overtaken' \subseteq Requests,
           written \in Account => written.failures = account[x].failures,
           written \in Account => (Open(x) <=> written.status # "BLOCKED")
              \/ (written.status = "BLOCKED" /\ InFlight(x) \ {r} \subseteq overtaken'),
           written \in Account => (account[x].session => written.session) \/ InFlight(x) \ {r} \subseteq overtaken',
           call[r].pc = "block" => written \in Account /\ written.status = "BLOCKED"
    PROVE  SessionsInvariant'
  <1>1. /\ None \notin Users /\ call \in [Requests -> Call] /\ ops \in Nat /\ guesses \in [Users -> Nat]
        /\ reprieved \subseteq Users /\ GuessesKnown(x)
        /\ None \notin Account /\ Deleted \notin Account /\ None # Deleted
        /\ account \in [Users -> Account \cup {None, Deleted}]
    BY DEF SessionsInvariant, AccountsAssumption, SessionsAssumption, AccountAssumption, SessionsTypeOK
  <1>2. call' = [call EXCEPT ![r] = NoCall] /\ NoCall \in Call /\ NoCall.user = None /\ NoCall.pc = "idle"
    BY NoCallIsCall DEF Done
  <1>3. call' \in [Requests -> Call] /\ \A s \in Requests : call'[s] = IF s = r THEN NoCall ELSE call[s]
    BY <1>1, <1>2
  <1>4. RequestKnows(r)'
    BY <1>3, DoneKnows
  <1>5. \A s \in {r} : call[s].user = x /\ call'[s].user \in {x, None} /\ RequestKnows(s)'
    BY <1>2, <1>3, <1>4
  <1>6. \A s \in Requests \ {r} : call'[s] = call[s] /\ (s \in overtaken => s \in overtaken')
    BY <1>3
  <1>7. ASSUME NEW s \in Requests \ {r}, call[s].user = x, s \notin overtaken', written \in Account
        PROVE  (Open(x) => written.status # "BLOCKED") /\ (account[x].session => written.session)
    <2>1. s \in InFlight(x) \ {r}
      BY <1>7 DEF InFlight
    <2>2. QED
      BY <2>1, <1>7
  <1>8. written \in Account => written.failures = guesses'[x]
    BY <1>1 DEF GuessesKnown
  <1>9. ASSUME written \in Account, written.status # "BLOCKED", x \notin reprieved', ~Blocking(x)'
        PROVE  guesses'[x] + Cardinality(Counting(x)') < Patience + Cardinality(Requests)
    <2>1. account'[x] = written /\ Exists(x)' /\ Open(x)' /\ Open(x)
      BY <1>1, <1>9 DEF Exists, Open
    <2>2. NoCall.pc = "count" /\ NoCall.user = x => ~(NoCall.seen < NoCall.limit)
      BY <1>2
    <2>3. call[r].pc # "block"
      BY <1>9
    <2>4. /\ Counting(x)' \subseteq Counting(x)
          /\ x \in reprieved \/ Blocking(x) => x \in reprieved' \/ Blocking(x)'
      BY <1>2, <2>2, <2>3, RequestsOf
    <2>5. QED
      BY <1>9, <2>1, <2>4, BoundKept
  <1>10. {r} \in SUBSET Requests /\ ops' \in Nat /\ reprieved' \subseteq Users /\ guesses' \in [Users -> Nat]
         /\ \A u \in Users \ {x} : guesses'[u] = guesses[u] /\ (u \in reprieved => u \in reprieved')
    BY <1>1
  <1>11. \A s \in Requests \ {r} : call[s].user = x /\ s \notin overtaken' /\ written \in Account =>
            (Open(x) => written.status # "BLOCKED") /\ (account[x].session => written.session)
    BY <1>7
  <1>12. written \in Account /\ written.status # "BLOCKED" /\ x \notin reprieved' /\ ~Blocking(x)' =>
            guesses'[x] + Cardinality(Counting(x)') < Patience + Cardinality(Requests)
    BY <1>9
  <1>13. {r} \in SUBSET Requests /\ call' \in [Requests -> Call]
    BY <1>3
  <1>14. QED
    BY <1>5, <1>6, <1>8, <1>10, <1>11, <1>12, <1>13, WriteStep

LEMMA BlockStep ==
    ASSUME SessionsInvariant, NEW r \in Requests, Block(r)
    PROVE  SessionsInvariant'
  <1>1. call[r].pc = "block" /\ overtaken \subseteq Requests /\ carts \subseteq Users
    BY DEF Block, SessionsInvariant, SessionsTypeOK
  <1>2. PICK x \in Users : x = call[r].user
    BY <1>1, RequestOf
  <1>3. /\ Exists(x) /\ Done(r) /\ UNCHANGED <<carts, ops, guesses, reprieved>>
        /\ account' = [account EXCEPT ![x] = [account[x] EXCEPT !.status = "BLOCKED"]]
        /\ overtaken' = (overtaken \cup InFlight(x)) \ {r}
    BY <1>2 DEF Block
  <1>4. account[x] \in Account /\ "BLOCKED" \in Statuses
    BY <1>3, RowsExist DEF Statuses
  <1> DEFINE written == [account[x] EXCEPT !.status = "BLOCKED"]
  <1>5. written \in Account /\ written.failures = account[x].failures /\ written.status = "BLOCKED"
        /\ written.session = account[x].session
    BY <1>4, RowWritten
  <1>6. InFlight(x) \subseteq Requests
    BY DEF InFlight
  <1>7. account' = [account EXCEPT ![x] = written]
    BY <1>3
  <1> HIDE DEF written
  <1>8. QED
    BY <1>1, <1>2, <1>3, <1>5, <1>6, <1>7, WriteAndDone

LEMMA SignStep ==
    ASSUME SessionsInvariant, NEW r \in Requests, Sign(r)
    PROVE  SessionsInvariant'
  <1>1. call[r].pc = "sign" /\ overtaken \subseteq Requests /\ carts \subseteq Users
    BY DEF Sign, SessionsInvariant, SessionsTypeOK
  <1>2. PICK x \in Users : x = call[r].user
    BY <1>1, RequestOf
  <1>3. /\ Exists(x) /\ Done(r) /\ UNCHANGED <<carts, ops, guesses, reprieved>>
        /\ account' = [account EXCEPT ![x] = [account[x] EXCEPT !.session = TRUE, !.login = "recent"]]
        /\ overtaken' = overtaken \ {r}
    BY <1>2 DEF Sign, Unmark
  <1>4. account[x] \in Account /\ TRUE \in BOOLEAN /\ "recent" \in Ages
    BY <1>3, RowsExist DEF Ages
  <1> DEFINE written == [account[x] EXCEPT !.session = TRUE, !.login = "recent"]
  <1>5. written \in Account /\ written.failures = account[x].failures /\ written.status = account[x].status /\ written.session = TRUE
    BY <1>4, RowWritten
  <1>6. account' = [account EXCEPT ![x] = written]
    BY <1>3
  <1> HIDE DEF written
  <1>7. Open(x) <=> written.status # "BLOCKED"
    BY <1>3, <1>5 DEF Open
  <1>8. QED
    BY <1>1, <1>2, <1>3, <1>5, <1>6, <1>7, WriteAndDone

LEMMA RotateStep ==
    ASSUME SessionsInvariant, NEW r \in Requests, Rotate(r)
    PROVE  SessionsInvariant'
  <1>1. call[r].pc = "rotate" /\ overtaken \subseteq Requests /\ carts \subseteq Users
    BY DEF Rotate, SessionsInvariant, SessionsTypeOK
  <1>2. PICK x \in Users : x = call[r].user
    BY <1>1, RequestOf
  <1>3. /\ Exists(x) /\ Done(r) /\ UNCHANGED <<carts, ops, guesses, reprieved>>
        /\ account' = [account EXCEPT ![x] = [account[x] EXCEPT !.session = TRUE]]
        /\ overtaken' = overtaken \ {r}
    BY <1>2 DEF Rotate, Unmark
  <1>4. account[x] \in Account /\ TRUE \in BOOLEAN
    BY <1>3, RowsExist
  <1> DEFINE written == [account[x] EXCEPT !.session = TRUE]
  <1>5. written \in Account /\ written.failures = account[x].failures /\ written.status = account[x].status /\ written.session = TRUE
    BY <1>4, RowWritten
  <1>6. account' = [account EXCEPT ![x] = written]
    BY <1>3
  <1> HIDE DEF written
  <1>7. Open(x) <=> written.status # "BLOCKED"
    BY <1>3, <1>5 DEF Open
  <1>8. QED
    BY <1>1, <1>2, <1>3, <1>5, <1>6, <1>7, WriteAndDone

LEMMA RevokeStep ==
    ASSUME SessionsInvariant, NEW r \in Requests, Revoke(r)
    PROVE  SessionsInvariant'
  <1>1. call[r].pc = "revoke" /\ overtaken \subseteq Requests /\ carts \subseteq Users
    BY DEF Revoke, SessionsInvariant, SessionsTypeOK
  <1>2. PICK x \in Users : x = call[r].user
    BY <1>1, RequestOf
  <1>3. /\ Exists(x) /\ Done(r) /\ UNCHANGED <<carts, ops, guesses, reprieved>>
        /\ account' = [account EXCEPT ![x] = [account[x] EXCEPT !.session = FALSE]]
        /\ overtaken' = (overtaken \cup InFlight(x)) \ {r}
    BY <1>2 DEF Revoke
  <1>4. account[x] \in Account /\ FALSE \in BOOLEAN
    BY <1>3, RowsExist
  <1> DEFINE written == [account[x] EXCEPT !.session = FALSE]
  <1>5. written \in Account /\ written.failures = account[x].failures /\ written.status = account[x].status
    BY <1>4, RowWritten
  <1>6. InFlight(x) \subseteq Requests /\ account' = [account EXCEPT ![x] = written]
    BY <1>3 DEF InFlight
  <1> HIDE DEF written
  <1>7. Open(x) <=> written.status # "BLOCKED"
    BY <1>3, <1>5 DEF Open
  <1>8. QED
    BY <1>1, <1>2, <1>3, <1>5, <1>6, <1>7, WriteAndDone

LEMMA DeleteUserStep ==
    ASSUME SessionsInvariant, NEW r \in Requests, DeleteUser(r)
    PROVE  SessionsInvariant'
  <1>1. call[r].pc = "delete" /\ overtaken \subseteq Requests /\ carts \subseteq Users
    BY DEF DeleteUser, SessionsInvariant, SessionsTypeOK
  <1>2. PICK x \in Users : x = call[r].user
    BY <1>1, RequestOf
  <1>3. /\ Exists(x) /\ Done(r) /\ UNCHANGED <<ops, guesses, reprieved>>
        /\ account' = [account EXCEPT ![x] = Deleted] /\ carts' \subseteq Users
        /\ overtaken' = overtaken \ {r}
    BY <1>1, <1>2 DEF DeleteUser, Unmark
  <1>4. Deleted \notin Account
    BY DEF SessionsInvariant, AccountsAssumption, AccountAssumption
  <1>5. QED
    BY <1>1, <1>2, <1>3, <1>4, WriteAndDone

(* Nobody's write: the requests of x that rely on what it changes are      *)
(* overtaken.                                                              *)
LEMMA WriteAlone ==
    ASSUME SessionsInvariant, NEW x \in Users, Exists(x),
           NEW written \in Account, account' = [account EXCEPT ![x] = written],
           UNCHANGED <<call, carts, guesses>>, ops' \in Nat,
           overtaken \subseteq overtaken', overtaken' \subseteq Requests,
           reprieved \subseteq reprieved', reprieved' \subseteq Users,
           written.failures = account[x].failures,
           (Open(x) => written.status # "BLOCKED") \/ InFlight(x) \subseteq overtaken',
           (account[x].session => written.session) \/ InFlight(x) \subseteq overtaken',
           written.status # "BLOCKED" => Open(x) \/ x \in reprieved'
    PROVE  SessionsInvariant'
  <1>1. /\ call \in [Requests -> Call] /\ guesses \in [Users -> Nat] /\ carts \subseteq Users
        /\ GuessesKnown(x)
        /\ None \notin Account /\ Deleted \notin Account /\ None # Deleted
        /\ account \in [Users -> Account \cup {None, Deleted}]
    BY DEF SessionsInvariant, AccountsAssumption, SessionsAssumption, AccountAssumption, SessionsTypeOK
  <1>2. \A s \in {} : call[s].user = x /\ call'[s].user \in {x, None} /\ RequestKnows(s)'
    OBVIOUS
  <1>3. \A s \in Requests \ {} : call'[s] = call[s] /\ (s \in overtaken => s \in overtaken')
    OBVIOUS
  <1>4. \A s \in Requests \ {} : call[s].user = x /\ s \notin overtaken' /\ written \in Account =>
            (Open(x) => written.status # "BLOCKED") /\ (account[x].session => written.session)
    BY DEF InFlight
  <1>5. written \in Account => written.failures = guesses'[x]
    BY <1>1 DEF GuessesKnown
  <1>6. written \in Account /\ written.status # "BLOCKED" /\ x \notin reprieved' /\ ~Blocking(x)' =>
            guesses'[x] + Cardinality(Counting(x)') < Patience + Cardinality(Requests)
    <2> SUFFICES ASSUME written.status # "BLOCKED", x \notin reprieved', ~Blocking(x)'
                 PROVE  guesses'[x] + Cardinality(Counting(x)') < Patience + Cardinality(Requests)
      OBVIOUS
    <2>1. account'[x] = written /\ Open(x)' /\ Open(x)
      BY <1>1 DEF Exists, Open
    <2>2. Counting(x)' = Counting(x) /\ (Blocking(x)' <=> Blocking(x))
      BY DEF Counting, Blocking
    <2>3. QED
      BY <2>1, <2>2, BoundKept
  <1>7. {} \in SUBSET Requests /\ carts' \subseteq Users /\ call' \in [Requests -> Call] /\ guesses' \in [Users -> Nat]
         /\ \A u \in Users \ {x} : guesses'[u] = guesses[u] /\ (u \in reprieved => u \in reprieved')
    BY <1>1
  <1> HIDE DEF SessionsInvariant
  <1>8. QED
    BY <1>2, <1>3, <1>4, <1>5, <1>6, <1>7, WriteStep

LEMMA LogoutStep ==
    ASSUME SessionsInvariant, NEW x \in Users, Logout(x)
    PROVE  SessionsInvariant'
  <1>1. /\ Exists(x) /\ ops' \in Nat /\ UNCHANGED <<call, carts, guesses, reprieved>>
        /\ overtaken' = overtaken \cup InFlight(x)
        /\ reprieved \subseteq Users /\ overtaken \subseteq Requests
    BY Counted DEF Logout, Open, Overtake, SessionsInvariant, SessionsTypeOK
  <1> DEFINE written == [account[x] EXCEPT !.session = FALSE]
  <1>2. account' = [account EXCEPT ![x] = written] /\ InFlight(x) \subseteq Requests
    BY DEF Logout, InFlight
  <1>3. account[x] \in Account /\ FALSE \in BOOLEAN
    BY <1>1, RowsExist
  <1>4. written \in Account /\ written.failures = account[x].failures /\ written.status = account[x].status
    BY <1>3, RowWritten
  <1> HIDE DEF written
  <1>5. Open(x) <=> written.status # "BLOCKED"
    BY <1>1, <1>4 DEF Open
  <1>6. QED
    BY <1>1, <1>2, <1>4, <1>5, WriteAlone

LEMMA UpdateStatusStep ==
    ASSUME SessionsInvariant, NEW x \in Users, NEW s \in Statuses, UpdateStatus(x, s)
    PROVE  SessionsInvariant'
  <1>1. /\ Exists(x) /\ ops' \in Nat /\ UNCHANGED <<call, carts, guesses>>
        /\ overtaken' = IF s = "BLOCKED" THEN overtaken \cup InFlight(x) ELSE overtaken
        /\ reprieved' = IF s = "BLOCKED" THEN reprieved ELSE reprieved \cup {x}
        /\ reprieved \subseteq Users /\ overtaken \subseteq Requests
    BY Counted DEF UpdateStatus, Overtake, SessionsInvariant, SessionsTypeOK
  <1> DEFINE written == [account[x] EXCEPT !.status = s]
  <1>2. account' = [account EXCEPT ![x] = written] /\ InFlight(x) \subseteq Requests
    BY DEF UpdateStatus, InFlight
  <1>3. account[x] \in Account
    BY <1>1, RowsExist
  <1>4. written \in Account /\ written.failures = account[x].failures /\ written.status = s /\ written.session = account[x].session
    BY <1>3, RowWritten
  <1> HIDE DEF written
  <1>5. CASE s = "BLOCKED"
    BY <1>1, <1>2, <1>4, <1>5, WriteAlone
  <1>6. CASE s # "BLOCKED"
    BY <1>1, <1>2, <1>4, <1>6, WriteAlone
  <1>7. QED
    BY <1>5, <1>6

LEMMA UpdateRoleStep ==
    ASSUME SessionsInvariant, NEW x \in Users, NEW role \in Roles, UpdateRole(x, role)
    PROVE  SessionsInvariant'
  <1>1. /\ Exists(x) /\ ops' \in Nat /\ UNCHANGED <<call, carts, guesses, reprieved, overtaken>>
        /\ reprieved \subseteq Users /\ overtaken \subseteq Requests
    BY Counted DEF UpdateRole, SessionsInvariant, SessionsTypeOK
  <1> DEFINE written == [account[x] EXCEPT !.role = role]
  <1>2. account' = [account EXCEPT ![x] = written]
    BY DEF UpdateRole
  <1>3. account[x] \in Account
    BY <1>1, RowsExist
  <1>4. written \in Account /\ written.failures = account[x].failures /\ written.status = account[x].status
        /\ written.session = account[x].session
    BY <1>3, RowWritten
  <1> HIDE DEF written
  <1>5. Open(x) <=> written.status # "BLOCKED"
    BY <1>1, <1>4 DEF Open
  <1>6. QED
    BY <1>1, <1>2, <1>4, <1>5, WriteAlone

LEMMA AgeStep ==
    ASSUME SessionsInvariant, NEW x \in Users, Age(x)
    PROVE  SessionsInvariant'
  <1>1. /\ Exists(x) /\ UNCHANGED <<call, carts, ops, guesses, reprieved, overtaken>>
        /\ reprieved \subseteq Users /\ overtaken \subseteq Requests /\ ops \in Nat
    BY DEF Age, SessionsInvariant, SessionsTypeOK
  <1>2. account[x] \in Account /\ "old" \in Ages
    BY <1>1, RowsExist DEF Ages
  <1>3. PICK written \in Account :
           /\ account' = [account EXCEPT ![x] = written]
           /\ written.failures = account[x].failures /\ written.status = account[x].status
           /\ written.session = account[x].session
    <2>1. CASE account' = [account EXCEPT ![x] = [account[x] EXCEPT !.login = "old"]]
      <3> DEFINE old == [account[x] EXCEPT !.login = "old"]
      <3>1. old \in Account /\ old.failures = account[x].failures /\ old.status = account[x].status
            /\ old.session = account[x].session
        BY <1>2, RowWritten
      <3>2. account' = [account EXCEPT ![x] = old]
        BY <2>1
      <3> HIDE DEF old
      <3>3. QED
        BY <3>1, <3>2
    <2>2. CASE account' = [account EXCEPT ![x] = [account[x] EXCEPT !.password = "old"]]
      <3> DEFINE old == [account[x] EXCEPT !.password = "old"]
      <3>1. old \in Account /\ old.failures = account[x].failures /\ old.status = account[x].status
            /\ old.session = account[x].session
        BY <1>2, RowWritten
      <3>2. account' = [account EXCEPT ![x] = old]
        BY <2>2
      <3> HIDE DEF old
      <3>3. QED
        BY <3>1, <3>2
    <2>3. QED
      BY <2>1, <2>2 DEF Age
  <1>4. Open(x) <=> written.status # "BLOCKED"
    BY <1>1, <1>3 DEF Open
  <1>5. QED
    BY <1>1, <1>3, <1>4, WriteAlone

-----------------------------------------------------------------------------
(* A request that writes and goes on.                                      *)
LEMMA WriteAndGo ==
    ASSUME SessionsInvariant, NEW r \in Requests, NEW x \in Users, x = call[r].user, Exists(x),
           NEW written \in Account, account' = [account EXCEPT ![x] = written],
           NEW q \in Call, q.user = x, call' = [call EXCEPT ![r] = q],
           UNCHANGED <<ops, carts, overtaken>>,
           reprieved' \in SUBSET Users, guesses' \in [Users -> Nat],
           \A u \in Users \ {x} : guesses'[u] = guesses[u] /\ (u \in reprieved => u \in reprieved'),
           written.failures = guesses'[x], written.status = account[x].status, written.session = account[x].session,
           q.pc \notin {"count", "rotate", "reset"}, q.pc = "sign" => call[r].pc = "reset",
           written.status # "BLOCKED" /\ x \notin reprieved' /\ ~Blocking(x)' =>
              guesses'[x] + Cardinality(Counting(x)') < Patience + Cardinality(Requests)
    PROVE  SessionsInvariant'
  <1>1. /\ None \notin Users /\ call \in [Requests -> Call] /\ ops \in Nat /\ carts \subseteq Users
        /\ overtaken \subseteq Requests /\ RequestKnows(r)
        /\ None \notin Account /\ Deleted \notin Account /\ None # Deleted
        /\ account \in [Users -> Account \cup {None, Deleted}]
    BY DEF SessionsInvariant, AccountsAssumption, SessionsAssumption, AccountAssumption, SessionsTypeOK
  <1>2. call' \in [Requests -> Call] /\ \A s \in Requests : call'[s] = IF s = r THEN q ELSE call[s]
    BY <1>1
  <1>3. account'[x] = written /\ written # None /\ Exists(x)' /\ (Open(x)' <=> written.status # "BLOCKED")
        /\ (Open(x) <=> written.status # "BLOCKED")
    BY <1>1 DEF Exists, Open
  <1>4. call[r].pc = "reset" /\ r \notin overtaken => Open(x)
    BY <1>1 DEF RequestKnows
  <1>5. RequestKnows(r)'
    <2>1. call'[r] = q
      BY <1>2
    <2>2. QED
      BY <1>3, <1>4, <2>1 DEF RequestKnows
  <1>6. \A s \in {r} : call[s].user = x /\ call'[s].user \in {x, None} /\ RequestKnows(s)'
    BY <1>2, <1>5
  <1>7. \A s \in Requests \ {r} : call'[s] = call[s] /\ (s \in overtaken => s \in overtaken')
    BY <1>2
  <1>8. \A s \in Requests \ {r} : call[s].user = x /\ s \notin overtaken' /\ written \in Account =>
            (Open(x) => written.status # "BLOCKED") /\ (account[x].session => written.session)
    BY <1>3
  <1>9. {r} \in SUBSET Requests /\ ops' \in Nat /\ carts' \subseteq Users /\ overtaken' \subseteq Requests
    BY <1>1
  <1>10. /\ written \in Account \cup {Deleted} /\ reprieved' \subseteq Users
         /\ written \in Account => written.failures = guesses'[x]
         /\ written \in Account /\ written.status # "BLOCKED" /\ x \notin reprieved' /\ ~Blocking(x)' =>
               guesses'[x] + Cardinality(Counting(x)') < Patience + Cardinality(Requests)
    OBVIOUS
  <1>11. call' \in [Requests -> Call]
    BY <1>2
  <1> HIDE DEF SessionsInvariant
  <1>12. QED
    BY <1>6, <1>7, <1>8, <1>9, <1>10, <1>11, WriteStep

LEMMA CountStep ==
    ASSUME SessionsInvariant, NEW r \in Requests, Count(r)
    PROVE  SessionsInvariant'
  <1>1. call[r].pc = "count" /\ overtaken \subseteq Requests /\ carts \subseteq Users
        /\ call \in [Requests -> Call] /\ guesses \in [Users -> Nat] /\ reprieved \subseteq Users
        /\ ops \in Nat /\ AccountsAssumption
    BY DEF Count, SessionsInvariant, SessionsTypeOK
  <1>2. PICK x \in Users : x = call[r].user
    BY <1>1, RequestOf
  <1>3. /\ Exists(x) /\ UNCHANGED <<carts, ops, reprieved>>
        /\ account' = [account EXCEPT ![x] = [account[x] EXCEPT !.failures = account[x].failures + 1]]
        /\ guesses' = [guesses EXCEPT ![x] = guesses[x] + 1]
    BY <1>2 DEF Count
  <1>4. account[x] \in Account /\ account[x].failures = guesses[x] /\ guesses[x] + 1 \in Nat
    BY <1>1, <1>3, RowsExist DEF SessionsInvariant, GuessesKnown
  <1> DEFINE written == [account[x] EXCEPT !.failures = account[x].failures + 1]
  <1>5. written \in Account /\ written.failures = guesses[x] + 1 /\ written.status = account[x].status
        /\ written.session = account[x].session
    BY <1>4 DEF Account
  <1>6. account' = [account EXCEPT ![x] = written]
    BY <1>3
  <1> HIDE DEF written
  <1>7. guesses' \in [Users -> Nat] /\ guesses'[x] = guesses[x] + 1
        /\ \A u \in Users \ {x} : guesses'[u] = guesses[u] /\ (u \in reprieved => u \in reprieved')
    BY <1>1, <1>3, <1>4
  <1>8. CASE call[r].seen >= call[r].limit
    <2> DEFINE q == [call[r] EXCEPT !.pc = "block"]
    <2>1. q \in Call /\ q.pc = "block" /\ q.user = x
      BY <1>1, <1>2 DEF Call, Stage
    <2>2. call' = [call EXCEPT ![r] = q] /\ UNCHANGED overtaken
      BY <1>8 DEF Count
    <2> HIDE DEF q
    <2>3. Blocking(x)'
      <3>1. call'[r] = q
        BY <1>1, <2>2
      <3>2. QED
        BY <2>1, <3>1 DEF Blocking
    <2>4. written.failures = guesses'[x] /\ reprieved' \in SUBSET Users
      BY <1>1, <1>3, <1>5, <1>7
    <2>5. QED
      BY <1>2, <1>3, <1>5, <1>6, <1>7, <2>1, <2>2, <2>3, <2>4, WriteAndGo
  <1>9. CASE ~(call[r].seen >= call[r].limit)
    <2> DEFINE R == {r}
    <2>1. call' = [call EXCEPT ![r] = NoCall] /\ overtaken' = overtaken \ {r}
      BY <1>9 DEF Count, Done, Unmark
    <2>2. NoCall \in Call /\ NoCall.user = None /\ NoCall.pc = "idle"
      BY NoCallIsCall
    <2>3. call' \in [Requests -> Call] /\ \A s \in Requests : call'[s] = IF s = r THEN NoCall ELSE call[s]
      BY <1>1, <2>1, <2>2
    <2>4. RequestKnows(r)'
      BY <2>3, DoneKnows
    <2>5. \A s \in R : call[s].user = x /\ call'[s].user \in {x, None} /\ RequestKnows(s)'
      BY <1>2, <2>2, <2>3, <2>4
    <2>6. \A s \in Requests \ R : call'[s] = call[s] /\ (s \in overtaken => s \in overtaken')
      BY <2>1, <2>3
    <2>7. \A s \in Requests \ R : call[s].user = x /\ s \notin overtaken' /\ written \in Account =>
              (Open(x) => written.status # "BLOCKED") /\ (account[x].session => written.session)
      BY <1>3, <1>5 DEF Open
    <2>8. written \in Account => written.failures = guesses'[x]
      BY <1>5, <1>7
    <2>9. written \in Account /\ written.status # "BLOCKED" /\ x \notin reprieved' /\ ~Blocking(x)' =>
              guesses'[x] + Cardinality(Counting(x)') < Patience + Cardinality(Requests)
      <3> SUFFICES ASSUME written.status # "BLOCKED", x \notin reprieved', ~Blocking(x)'
                   PROVE  guesses'[x] + Cardinality(Counting(x)') < Patience + Cardinality(Requests)
        OBVIOUS
      <3>1. Open(x) /\ x \notin reprieved
        BY <1>3, <1>5 DEF Open
      <3>2. ~Blocking(x)
        BY <1>1, <2>3 DEF Blocking
      <3>3. guesses[x] + Cardinality(Counting(x)) < Patience + Cardinality(Requests)
        BY <3>1, <3>2 DEF SessionsInvariant, GuessesKnown
      <3>4. call[r].seen \in Nat /\ call[r].limit \in Nat
        BY <1>1 DEF Call
      <3>5. r \in Counting(x) /\ Counting(x)' = Counting(x) \ {r} /\ Counting(x) \subseteq Requests
        BY <1>1, <1>2, <1>9, <2>2, <2>3, <3>4 DEF Counting
      <3>6. IsFiniteSet(Counting(x)) /\ Cardinality(Counting(x)) \in Nat /\ Patience \in Nat
            /\ Cardinality(Requests) \in Nat
        BY <1>1, <3>5, InNumbers
      <3>7. Cardinality(Counting(x)') = Cardinality(Counting(x)) - 1
        BY <3>5, <3>6, FS_RemoveElement
      <3>8. guesses[x] \in Nat
        BY <1>1
      <3>9. QED
        BY <1>7, <3>3, <3>6, <3>7, <3>8
    <2>10. R \in SUBSET Requests /\ ops' \in Nat /\ carts' \subseteq Users /\ overtaken' \subseteq Requests
           /\ reprieved' \subseteq Users /\ written \in Account \cup {Deleted}
      BY <1>1, <1>3, <1>5, <2>1
    <2>11. Exists(x) /\ call' \in [Requests -> Call]
      BY <1>3, <2>3
    <2> HIDE DEF SessionsInvariant, R
    <2>12. QED
      BY <1>6, <1>7, <2>5, <2>6, <2>7, <2>8, <2>9, <2>10, <2>11, WriteStep
  <1>10. QED
    BY <1>8, <1>9

LEMMA ResetStep ==
    ASSUME SessionsInvariant, NEW r \in Requests, Reset(r)
    PROVE  SessionsInvariant'
  <1>1. call[r].pc = "reset" /\ overtaken \subseteq Requests /\ carts \subseteq Users
        /\ call \in [Requests -> Call] /\ guesses \in [Users -> Nat] /\ reprieved \subseteq Users
        /\ ops \in Nat /\ AccountsAssumption
    BY DEF Reset, SessionsInvariant, SessionsTypeOK
  <1>2. PICK x \in Users : x = call[r].user
    BY <1>1, RequestOf
  <1>3. /\ Exists(x) /\ UNCHANGED <<carts, ops, overtaken>>
        /\ account' = [account EXCEPT ![x] = [account[x] EXCEPT !.failures = 0, !.login = "recent"]]
        /\ guesses' = [guesses EXCEPT ![x] = 0] /\ reprieved' = reprieved \ {x}
        /\ Goto(r, "sign", x)
    BY <1>2 DEF Reset
  <1>4. account[x] \in Account /\ "recent" \in Ages /\ "sign" \in Stage
    BY <1>3, RowsExist DEF Ages, Stage
  <1> DEFINE written == [account[x] EXCEPT !.failures = 0, !.login = "recent"]
             q == [NoCall EXCEPT !.pc = "sign", !.user = x]
  <1>5. written \in Account /\ written.failures = 0 /\ written.status = account[x].status
        /\ written.session = account[x].session
    BY <1>4 DEF Account
  <1>6. q \in Call /\ q.pc = "sign" /\ q.user = x
    BY <1>4, GoneTo
  <1>7. account' = [account EXCEPT ![x] = written] /\ call' = [call EXCEPT ![r] = q]
    BY <1>3 DEF Goto
  <1> HIDE DEF written, q
  <1>8. guesses' \in [Users -> Nat] /\ guesses'[x] = 0 /\ reprieved' \in SUBSET Users
        /\ \A u \in Users \ {x} : guesses'[u] = guesses[u] /\ (u \in reprieved => u \in reprieved')
    BY <1>1, <1>3
  <1>9. guesses'[x] + Cardinality(Counting(x)') < Patience + Cardinality(Requests)
    <2>1. call'[r] = q
      BY <1>1, <1>7
    <2>2. Counting(x)' \in SUBSET Requests /\ r \notin Counting(x)'
      BY <1>6, <2>1 DEF Counting
    <2>3. /\ Cardinality(Counting(x)') \in Nat /\ Cardinality(Counting(x)') < Cardinality(Requests)
          /\ Cardinality(Requests) \in Nat /\ Patience \in Nat
      BY <1>1, <2>2, InNumbers
    <2>4. QED
      BY <1>8, <2>3
  <1>10. written.failures = guesses'[x]
    BY <1>5, <1>8
  <1>11. QED
    BY <1>1, <1>2, <1>3, <1>5, <1>6, <1>7, <1>8, <1>9, <1>10, WriteAndGo

LEMMA WritePasswordStep ==
    ASSUME SessionsInvariant, NEW r \in Requests, WritePassword(r)
    PROVE  SessionsInvariant'
  <1>1. call[r].pc = "password" /\ overtaken \subseteq Requests /\ carts \subseteq Users
        /\ call \in [Requests -> Call] /\ guesses \in [Users -> Nat] /\ reprieved \subseteq Users
    BY DEF WritePassword, SessionsInvariant, SessionsTypeOK
  <1>2. PICK x \in Users : x = call[r].user
    BY <1>1, RequestOf
  <1>3. /\ Exists(x) /\ UNCHANGED <<carts, ops, guesses, reprieved>>
        /\ account' = [account EXCEPT ![x] = [account[x] EXCEPT !.password = "recent"]]
    BY <1>2 DEF WritePassword
  <1>4. account[x] \in Account /\ "recent" \in Ages /\ account[x].failures = guesses[x] /\ "revoke" \in Stage
    BY <1>3, RowsExist DEF Ages, Stage, SessionsInvariant, GuessesKnown
  <1> DEFINE written == [account[x] EXCEPT !.password = "recent"]
  <1>5. written \in Account /\ written.failures = account[x].failures /\ written.status = account[x].status
        /\ written.session = account[x].session
    BY <1>4, RowWritten
  <1>6. account' = [account EXCEPT ![x] = written]
    BY <1>3
  <1> HIDE DEF written
  <1>7. Open(x) <=> written.status # "BLOCKED"
    BY <1>3, <1>5 DEF Open
  <1>8. CASE call[r].seen = 1
    <2> DEFINE q == [NoCall EXCEPT !.pc = "revoke", !.user = x]
    <2>1. q \in Call /\ q.pc = "revoke" /\ q.user = x
      BY <1>4, GoneTo
    <2>2. call' = [call EXCEPT ![r] = q] /\ UNCHANGED overtaken
      BY <1>2, <1>8 DEF WritePassword, Goto
    <2> HIDE DEF q
    <2>3. written.status # "BLOCKED" /\ x \notin reprieved' /\ ~Blocking(x)' =>
             guesses'[x] + Cardinality(Counting(x)') < Patience + Cardinality(Requests)
      <3>1. account'[x] = written
        BY <1>6, <1>3 DEF SessionsInvariant, SessionsTypeOK
      <3>2. Open(x)' => Open(x)
        BY <3>1, <1>7 DEF Open
      <3>3. written.status # "BLOCKED" => Open(x)'
        BY <3>1, <1>5 DEF Open, Exists, SessionsInvariant, AccountsAssumption, AccountAssumption
      <3>4. /\ Counting(x)' \subseteq Counting(x)
            /\ x \in reprieved \/ Blocking(x) => x \in reprieved' \/ Blocking(x)'
        BY <1>1, <1>3, <2>1, <2>2, RequestsOf
      <3>5. guesses'[x] = guesses[x]
        BY <1>3
      <3>6. QED
        BY <3>2, <3>3, <3>4, <3>5, BoundKept
    <2>4. written.failures = guesses'[x] /\ guesses' \in [Users -> Nat] /\ reprieved' \in SUBSET Users
          /\ \A u \in Users \ {x} : guesses'[u] = guesses[u] /\ (u \in reprieved => u \in reprieved')
      BY <1>1, <1>3, <1>4, <1>5
    <2>5. QED
      BY <1>2, <1>3, <1>5, <1>6, <2>1, <2>2, <2>3, <2>4, WriteAndGo
  <1>9. CASE call[r].seen # 1
    <2>1. Done(r) /\ overtaken' = overtaken \ {r}
      BY <1>9 DEF WritePassword, Unmark
    <2>2. QED
      BY <1>1, <1>2, <1>3, <1>5, <1>6, <1>7, <2>1, WriteAndDone
  <1>10. QED
    BY <1>8, <1>9

LEMMA RegisterUserStep ==
    ASSUME SessionsInvariant, NEW r \in Requests, NEW x \in Users, NEW written \in {NewUser, NewAdmin},
           RegisterUser(r, x, written)
    PROVE  SessionsInvariant'
  <1>1. /\ call[r] = NoCall /\ account[x] = None /\ ops' \in Nat
        /\ account' = [account EXCEPT ![x] = written] /\ Goto(r, "cart", x)
        /\ UNCHANGED <<carts, guesses, reprieved, overtaken>>
    BY Counted DEF RegisterUser
  <1>2. /\ None \notin Users /\ call \in [Requests -> Call] /\ GuessesKnown(x) /\ AccountsAssumption
        /\ None \notin Account /\ Deleted \notin Account /\ carts \subseteq Users
        /\ guesses \in [Users -> Nat] /\ reprieved \subseteq Users /\ overtaken \subseteq Requests
        /\ account \in [Users -> Account \cup {None, Deleted}]
    BY DEF SessionsInvariant, AccountsAssumption, SessionsAssumption, AccountAssumption, SessionsTypeOK
  <1>3. written \in Account /\ written.failures = 0
    BY NewRows
  <1> DEFINE q == [NoCall EXCEPT !.pc = "cart", !.user = x]
  <1>4. q \in Call /\ q.pc = "cart" /\ q.user = x
    <2>1. "cart" \in Stage
      BY DEF Stage
    <2>2. QED
      BY <2>1, GoneTo
  <1>5. call' = [call EXCEPT ![r] = q]
    BY <1>1 DEF Goto
  <1> HIDE DEF q
  <1>6. call' \in [Requests -> Call] /\ \A s \in Requests : call'[s] = IF s = r THEN q ELSE call[s]
    BY <1>2, <1>4, <1>5
  <1>7. account'[x] = written /\ account' \in [Users -> Account \cup {None, Deleted}]
        /\ \A u \in Users \ {x} : account'[u] = account[u]
    BY <1>1, <1>2, <1>3
  <1>8. \A s \in Requests : call[s].user # x
    BY <1>1 DEF SessionsInvariant, RequestKnows
  <1>9. SessionsTypeOK'
    BY <1>1, <1>2, <1>6, <1>7 DEF SessionsTypeOK
  <1>10. \A s \in {r} : RequestKnows(s)' /\ call[s].user \in {x, None} /\ call'[s].user \in {x, None}
    <2>1. call'[r] = q /\ call[r].user = None
      BY <1>1, <1>6, NoCallIsCall
    <2>2. RequestKnows(r)'
      BY <1>2, <1>3, <1>4, <1>7, <2>1 DEF RequestKnows
    <2>3. QED
      BY <1>4, <2>1, <2>2
  <1>11. \A s \in Requests \ {r} : call'[s] = call[s] /\ (s \in overtaken => s \in overtaken')
    BY <1>1, <1>6
  <1>12. \A s \in Requests \ {r} : call[s].user = x /\ s \notin overtaken' /\ Exists(x)' =>
            Exists(x) /\ (Open(x) => Open(x)') /\ (account[x].session => account'[x].session)
    BY <1>8
  <1>13. \A u \in Users \ {x} : /\ account'[u] = account[u] /\ guesses'[u] = guesses[u]
                                /\ u \in reprieved => u \in reprieved'
    BY <1>1, <1>7
  <1>14. GuessesKnown(x)'
    <2>1. guesses'[x] = 0
      BY <1>1, <1>2 DEF GuessesKnown
    <2>2. Counting(x)' = {}
      BY <1>4, <1>6, <1>8 DEF Counting
    <2>3. /\ Cardinality({}) = 0 /\ Cardinality({}) < Cardinality(Requests) /\ Cardinality(Requests) \in Nat
          /\ Patience \in Nat
      BY <1>2, InNumbers, FS_EmptySet
    <2>4. guesses'[x] + Cardinality(Counting(x)') < Patience + Cardinality(Requests)
      BY <2>1, <2>2, <2>3
    <2>5. QED
      BY <1>2, <1>3, <1>7, <2>1, <2>4 DEF GuessesKnown
  <1>15. {r} \in SUBSET Requests /\ account'[x] # None
    BY <1>2, <1>3, <1>7
  <1> HIDE DEF SessionsInvariant
  <1>16. QED
    BY <1>9, <1>10, <1>11, <1>12, <1>13, <1>14, <1>15, OnlyAbout

(* At the start.                                                           *)
LEMMA SessionsStart ==
    ASSUME AccountsAssumption, SessionsInit
    PROVE  SessionsInvariant
  <1>1. None \notin Users /\ None # Deleted /\ NoCall \in Call /\ NoCall.user = None /\ NoCall.pc = "idle"
    BY NoCallIsCall DEF AccountsAssumption, SessionsAssumption
  <1>2. SessionsTypeOK
    BY <1>1 DEF SessionsInit, SessionsTypeOK
  <1>3. \A r \in Requests : RequestKnows(r)
    BY <1>1 DEF SessionsInit, RequestKnows
  <1>4. \A u \in Users : GuessesKnown(u)
    BY DEF SessionsInit, GuessesKnown, Exists, Open
  <1>5. QED
    BY <1>2, <1>3, <1>4 DEF SessionsInvariant

LEMMA SessionsStep ==
    ASSUME SessionsInvariant, SessionsNext \/ \E r \in Requests : DeleteUser(r)
    PROVE  SessionsInvariant'
  <1>1. CASE UsersNext
    BY <1>1, UpdateStatusStep, UpdateRoleStep, DeleteReadStep DEF UsersNext
  <1>2. ASSUME NEW u \in Users, Logout(u) \/ Age(u) PROVE SessionsInvariant'
    BY <1>2, LogoutStep, AgeStep
  <1>3. ASSUME NEW u \in Users, NEW r \in Requests, \E new \in {NewUser, NewAdmin} : RegisterUser(r, u, new)
        PROVE  SessionsInvariant'
    BY <1>3, RegisterUserStep
  <1>4. ASSUME NEW u \in Users, NEW r \in Requests,
               LoginRead(r, u) \/ AdminLoginRead(r, u) \/ RefreshRead(r, u) \/ ChangePasswordRead(r, u)
        PROVE  SessionsInvariant'
    BY <1>4, LoginReadStep, AdminLoginReadStep, RefreshReadStep, ChangePasswordReadStep
  <1>5. ASSUME NEW r \in Requests, RegisterCart(r) \/ Count(r) \/ Block(r) \/ Reset(r) \/ Sign(r)
        PROVE  SessionsInvariant'
    BY <1>5, RegisterCartStep, CountStep, BlockStep, ResetStep, SignStep
  <1>6. ASSUME NEW r \in Requests, Rotate(r) \/ WritePassword(r) \/ Revoke(r) \/ Abandon(r) \/ DeleteUser(r)
        PROVE  SessionsInvariant'
    BY <1>6, RotateStep, WritePasswordStep, RevokeStep, AbandonStep, DeleteUserStep
  <1>7. QED
    BY <1>1, <1>2, <1>3, <1>4, <1>5, <1>6 DEF SessionsNext

(* Nothing of a session is written by requests about addresses, which only *)
(* count as operations.                                                    *)
LEMMA SessionsIdle ==
    ASSUME SessionsInvariant, UNCHANGED sessionVars, ops' \in Nat
    PROVE  SessionsInvariant'
  <1>1. UNCHANGED <<account, carts, call, guesses, reprieved, overtaken>>
    BY DEF sessionVars
  <1>2. SessionsTypeOK' /\ AccountsAssumption'
    BY <1>1 DEF SessionsInvariant, SessionsTypeOK, AccountsAssumption, SessionsAssumption, AccountAssumption
  <1>3. \A r \in Requests : RequestKnows(r)'
    BY <1>1 DEF SessionsInvariant, RequestKnows, Exists, Open
  <1>4. ASSUME NEW u \in Users PROVE GuessesKnown(u)'
    <2>1. Counting(u)' = Counting(u) /\ (Blocking(u)' <=> Blocking(u)) /\ (Exists(u)' <=> Exists(u))
          /\ (Open(u)' <=> Open(u))
      BY <1>1 DEF Counting, Blocking, Exists, Open
    <2>2. GuessesKnown(u) /\ guesses'[u] = guesses[u] /\ account'[u] = account[u] /\ reprieved' = reprieved
      BY <1>1 DEF SessionsInvariant
    <2>3. QED
      BY <2>1, <2>2 DEF GuessesKnown
  <1>5. QED
    BY <1>2, <1>3, <1>4 DEF SessionsInvariant

LEMMA VisitsCount ==
    ASSUME ops \in Nat, VisitNext
    PROVE  ops' \in Nat
  <1>1. ASSUME NEW v \in Visitors, NEW q, Enter(v, q) PROVE ops' \in Nat
    BY <1>1 DEF Enter, Begin
  <1>2. ASSUME NEW v \in Visitors, NEW q, Advance(v, q) PROVE ops' = ops
    BY <1>2 DEF Advance
  <1>3. ASSUME NEW v \in Visitors, Leave(v, FALSE) PROVE ops' = ops
    BY <1>3 DEF Leave
  <1>4. ASSUME NEW v \in Visitors, NEW u \in Users,
               \/ \E default \in {"yes", "no"} : CreateAddress(v, u, default)
               \/ \E a \in AddressIds : \/ \E default \in Flags : UpdateAddress(v, u, a, default)
                                       \/ SetDefault(v, u, a) \/ DeleteAddress(v, u, a)
        PROVE  ops' \in Nat
    BY <1>1, <1>4 DEF CreateAddress, UpdateAddress, SetDefault, DeleteAddress
  <1>5. ASSUME NEW v \in Visitors,
               \/ CountAddresses(v) \/ WriteAddress(v) \/ ClearDefaults(v) \/ DropAddress(v)
               \/ FindOldest(v) \/ Promote(v) \/ AbandonVisit(v) \/ \E a \in AddressIds : InsertAddress(v, a)
        PROVE  ops' = ops
    BY <1>2, <1>3, <1>5
       DEF CountAddresses, WriteAddress, ClearDefaults, DropAddress, FindOldest, Promote, AbandonVisit, InsertAddress
  <1>6. QED
    BY <1>4, <1>5 DEF VisitNext

(* The inductive invariant of the accounts holds in every behaviour.       *)
THEOREM SessionsHold == AccountsAssumption => (AccountsSpec => []SessionsInvariant)
  <1> SUFFICES ASSUME AccountsAssumption PROVE AccountsSpec => []SessionsInvariant
    OBVIOUS
  <1>1. AccountsInit => SessionsInvariant
    BY SessionsStart DEF AccountsInit
  <1>2. SessionsInvariant /\ [AccountsNext]_accountsVars => SessionsInvariant'
    <2> SUFFICES ASSUME SessionsInvariant, [AccountsNext]_accountsVars PROVE SessionsInvariant'
      OBVIOUS
    <2>1. ops \in Nat
      BY DEF SessionsInvariant, SessionsTypeOK
    <2>2. CASE SessionsNext
      BY <2>2, SessionsStep
    <2>3. CASE VisitNext /\ UNCHANGED sessionVars
      BY <2>1, <2>3, VisitsCount, SessionsIdle
    <2>4. CASE \E r \in Requests : DeleteUserAndBook(r)
      BY <2>4, SessionsStep DEF DeleteUserAndBook
    <2>5. CASE UNCHANGED accountsVars
      BY <2>1, <2>5, SessionsIdle DEF accountsVars
    <2>6. QED
      BY <2>2, <2>3, <2>4, <2>5 DEF AccountsNext
  <1>3. QED
    BY <1>1, <1>2, PTL DEF AccountsSpec

(* An account takes at most as many wrong passwords beyond the limit as    *)
(* there are requests in flight (auth.service.ts:90).                      *)
THEOREM GuessesAreBounded == AccountsAssumption => (AccountsSpec => []AttemptsBounded)
  <1> SUFFICES ASSUME AccountsAssumption PROVE AccountsSpec => []AttemptsBounded
    OBVIOUS
  <1>1. SessionsInvariant => AttemptsBounded
    <2> SUFFICES ASSUME SessionsInvariant, NEW u \in Users, Open(u), u \notin reprieved,
                        \A r \in Requests : call[r].user = u => call[r].pc # "block"
                 PROVE  guesses[u] < Patience + Cardinality(Requests)
      BY DEF AttemptsBounded
    <2>1. guesses[u] + Cardinality(Counting(u)) < Patience + Cardinality(Requests)
      BY DEF SessionsInvariant, GuessesKnown, Blocking
    <2>2. Counting(u) \in SUBSET Requests
      BY DEF Counting
    <2>3. Cardinality(Counting(u)) \in Nat /\ guesses[u] \in Nat /\ Cardinality(Requests) \in Nat /\ Patience \in Nat
      BY <2>2, InNumbers, RowsExist
    <2>4. QED
      BY <2>1, <2>3
  <1>2. AccountsSpec => []SessionsInvariant
    BY SessionsHold
  <1>3. QED
    BY <1>1, <1>2, PTL

(* A write that starts no session.                                         *)
LEMMA NoSession ==
    ASSUME SessionsInvariant, NEW x \in Users, Exists(x), NEW written \in Account \cup {Deleted},
           account' = [account EXCEPT ![x] = written],
           written \in Account => (written.session => account[x].session),
           NEW u \in Users, Exists(u), Exists(u)', account'[u].session
    PROVE  account[u].session
  <1>1. account' = [w \in Users |-> IF w = x THEN written ELSE account[w]]
        /\ Deleted \notin Account /\ None \notin Account
    BY DEF SessionsInvariant, SessionsTypeOK, AccountsAssumption, AccountAssumption
  <1>2. CASE u = x
    <2>1. account'[u] = written
      BY <1>1, <1>2
    <2>2. written \in Account
      BY <2>1 DEF Exists
    <2>3. QED
      BY <1>2, <2>1, <2>2
  <1>3. CASE u # x
    BY <1>1, <1>3
  <1>4. QED
    BY <1>2, <1>3

LEMMA OthersStartNone ==
    ASSUME SessionsInvariant, SessionsNext \/ \E r \in Requests : DeleteUser(r),
           \A r \in Requests : ~Sign(r) /\ ~Rotate(r),
           NEW u \in Users, Exists(u), Exists(u)', account'[u].session
    PROVE  account[u].session
  <1>1. CASE UNCHANGED account
    BY <1>1
  <1>2. ASSUME NEW x \in Users, Exists(x), NEW written \in Account \cup {Deleted},
               account' = [account EXCEPT ![x] = written],
               written \in Account => (written.session => account[x].session)
        PROVE  account[u].session
    BY <1>2, NoSession
  <1>3. ASSUME NEW x \in Users, NEW s \in Statuses, UpdateStatus(x, s) PROVE account[u].session
    <2>1. account[x] \in Account /\ Exists(x)
      BY <1>3, RowsExist DEF UpdateStatus
    <2> DEFINE written == [account[x] EXCEPT !.status = s]
    <2>2. written \in Account /\ written.session = account[x].session
      BY <2>1 DEF Account
    <2>3. account' = [account EXCEPT ![x] = written]
      BY <1>3 DEF UpdateStatus
    <2> HIDE DEF written
    <2>4. QED
      BY <1>2, <2>1, <2>2, <2>3
  <1>4. ASSUME NEW x \in Users, NEW role \in Roles, UpdateRole(x, role) PROVE account[u].session
    <2>1. account[x] \in Account /\ Exists(x)
      BY <1>4, RowsExist DEF UpdateRole
    <2> DEFINE written == [account[x] EXCEPT !.role = role]
    <2>2. written \in Account /\ written.session = account[x].session
      BY <2>1 DEF Account
    <2>3. account' = [account EXCEPT ![x] = written]
      BY <1>4 DEF UpdateRole
    <2> HIDE DEF written
    <2>4. QED
      BY <1>2, <2>1, <2>2, <2>3
  <1>5. ASSUME NEW x \in Users, Logout(x) PROVE account[u].session
    <2>1. account[x] \in Account /\ Exists(x) /\ FALSE \in BOOLEAN
      BY <1>5, RowsExist DEF Logout, Open
    <2> DEFINE written == [account[x] EXCEPT !.session = FALSE]
    <2>2. written \in Account /\ written.session = FALSE
      BY <2>1, RowWritten
    <2>3. account' = [account EXCEPT ![x] = written]
      BY <1>5 DEF Logout
    <2> HIDE DEF written
    <2>4. QED
      BY <1>2, <2>1, <2>2, <2>3
  <1>6. ASSUME NEW x \in Users, Age(x) PROVE account[u].session
    <2>1. account[x] \in Account /\ Exists(x) /\ "old" \in Ages
      BY <1>6, RowsExist DEF Age, Ages
    <2>2. CASE account' = [account EXCEPT ![x] = [account[x] EXCEPT !.login = "old"]]
      <3> DEFINE written == [account[x] EXCEPT !.login = "old"]
      <3>1. written \in Account /\ written.session = account[x].session
        BY <2>1 DEF Account
      <3>2. account' = [account EXCEPT ![x] = written]
        BY <2>2
      <3> HIDE DEF written
      <3>3. QED
        BY <1>2, <2>1, <3>1, <3>2
    <2>3. CASE account' = [account EXCEPT ![x] = [account[x] EXCEPT !.password = "old"]]
      <3> DEFINE written == [account[x] EXCEPT !.password = "old"]
      <3>1. written \in Account /\ written.session = account[x].session
        BY <2>1 DEF Account
      <3>2. account' = [account EXCEPT ![x] = written]
        BY <2>3
      <3> HIDE DEF written
      <3>3. QED
        BY <1>2, <2>1, <3>1, <3>2
    <2>4. QED
      BY <1>6, <2>2, <2>3 DEF Age
  <1>7. ASSUME NEW x \in Users, NEW r \in Requests, NEW new \in {NewUser, NewAdmin}, RegisterUser(r, x, new)
        PROVE  account[u].session
    <2>1. account[x] = None /\ account' = [account EXCEPT ![x] = new]
      BY <1>7 DEF RegisterUser
    <2>2. u # x
      BY <2>1 DEF Exists
    <2>3. account'[u] = account[u]
      BY <2>1, <2>2 DEF SessionsInvariant, SessionsTypeOK
    <2>4. QED
      BY <2>3
  <1>8. ASSUME NEW r \in Requests, Count(r) \/ Block(r) \/ Reset(r) \/ WritePassword(r) \/ Revoke(r) \/ DeleteUser(r)
        PROVE  account[u].session
    <2>1. call[r].pc # "idle"
      BY <1>8 DEF Count, Block, Reset, WritePassword, Revoke, DeleteUser
    <2>2. PICK x \in Users : x = call[r].user
      BY <2>1, RequestOf
    <2>3. Exists(x) /\ account[x] \in Account
      BY <1>8, <2>2, RowsExist DEF Count, Block, Reset, WritePassword, Revoke, DeleteUser
    <2>4. PICK written \in Account \cup {Deleted} :
             account' = [account EXCEPT ![x] = written] /\ (written \in Account => (written.session => account[x].session))
      <3>1. CASE Count(r)
        <4> DEFINE n == account[x].failures + 1
                   new == [account[x] EXCEPT !.failures = n]
        <4>1. n \in Nat
          BY <2>3, RowsExist
        <4>2. new \in Account /\ new.session = account[x].session
          BY <2>3, <4>1 DEF Account
        <4>3. account' = [account EXCEPT ![x] = new]
          BY <2>2, <3>1 DEF Count
        <4> HIDE DEF new
        <4>4. QED
          BY <4>2, <4>3
      <3>2. CASE Block(r)
        <4> DEFINE new == [account[x] EXCEPT !.status = "BLOCKED"]
        <4>1. new \in Account /\ new.session = account[x].session
          BY <2>3, RowWritten DEF Statuses
        <4>2. account' = [account EXCEPT ![x] = new]
          BY <2>2, <3>2 DEF Block
        <4> HIDE DEF new
        <4>3. QED
          BY <4>1, <4>2
      <3>3. CASE Reset(r)
        <4> DEFINE new == [account[x] EXCEPT !.failures = 0, !.login = "recent"]
        <4>1. new \in Account /\ new.session = account[x].session
          BY <2>3 DEF Account, Ages
        <4>2. account' = [account EXCEPT ![x] = new]
          BY <2>2, <3>3 DEF Reset
        <4> HIDE DEF new
        <4>3. QED
          BY <4>1, <4>2
      <3>4. CASE WritePassword(r)
        <4> DEFINE new == [account[x] EXCEPT !.password = "recent"]
        <4>1. new \in Account /\ new.session = account[x].session
          BY <2>3, RowWritten DEF Ages
        <4>2. account' = [account EXCEPT ![x] = new]
          BY <2>2, <3>4 DEF WritePassword
        <4> HIDE DEF new
        <4>3. QED
          BY <4>1, <4>2
      <3>5. CASE Revoke(r)
        <4> DEFINE new == [account[x] EXCEPT !.session = FALSE]
        <4>1. new \in Account /\ new.session = FALSE
          BY <2>3, RowWritten
        <4>2. account' = [account EXCEPT ![x] = new]
          BY <2>2, <3>5 DEF Revoke
        <4> HIDE DEF new
        <4>3. QED
          BY <4>1, <4>2
      <3>6. CASE DeleteUser(r)
        BY <2>2, <3>6 DEF DeleteUser, SessionsInvariant, AccountsAssumption, AccountAssumption
      <3>7. QED
        BY <1>8, <3>1, <3>2, <3>3, <3>4, <3>5, <3>6
    <2>5. QED
      BY <1>2, <2>3, <2>4
  <1>9. ASSUME NEW r \in Requests, NEW x \in Users,
               LoginRead(r, x) \/ AdminLoginRead(r, x) \/ RefreshRead(r, x) \/ ChangePasswordRead(r, x) \/ DeleteRead(r, x)
        PROVE  UNCHANGED account
    BY <1>9 DEF LoginRead, AdminLoginRead, Compared, RefreshRead, ChangePasswordRead, DeleteRead
  <1>10. ASSUME NEW r \in Requests, RegisterCart(r) \/ Abandon(r)
         PROVE  UNCHANGED account
    BY <1>10 DEF RegisterCart, Abandon
  <1>11. CASE UsersNext
    BY <1>1, <1>3, <1>4, <1>9, <1>11 DEF UsersNext
  <1>12. CASE ~UsersNext
    BY <1>1, <1>5, <1>6, <1>7, <1>8, <1>9, <1>10, <1>12 DEF SessionsNext
  <1>13. QED
    BY <1>11, <1>12

(* Who was logged out has a session again only by a login, or by a request *)
(* that the logout overtook (auth.service.ts:239).                         *)
THEOREM SessionsComeFromLogins == AccountsAssumption => (AccountsSpec => SessionOnlyByLogin)
  <1> SUFFICES ASSUME AccountsAssumption PROVE AccountsSpec => SessionOnlyByLogin
    OBVIOUS
  <1> DEFINE ByLogin(u) ==
          Exists(u) /\ Exists(u)' /\ ~account[u].session /\ account'[u].session =>
             \E r \in InFlight(u) :
                /\ call'[r] = NoCall
                /\ r \in overtaken \/ (call[r].pc = "sign" /\ Open(u))
  <1>1. SessionsInvariant /\ [AccountsNext]_accountsVars => [\A u \in Users : ByLogin(u)]_<<sessionVars, ops>>
    <2> SUFFICES ASSUME SessionsInvariant, [AccountsNext]_accountsVars,
                        ~(UNCHANGED <<sessionVars, ops>>), NEW u \in Users,
                        Exists(u), Exists(u)', ~account[u].session, account'[u].session
                 PROVE  \E r \in InFlight(u) :
                           /\ call'[r] = NoCall
                           /\ r \in overtaken \/ (call[r].pc = "sign" /\ Open(u))
      OBVIOUS
    <2>1. call \in [Requests -> Call] /\ account \in [Users -> Account \cup {None, Deleted}]
      BY DEF SessionsInvariant, SessionsTypeOK
    <2>2. account' # account
      OBVIOUS
    <2>3. SessionsNext \/ \E r \in Requests : DeleteUser(r)
      BY <2>2 DEF AccountsNext, DeleteUserAndBook, accountsVars, sessionVars
    <2>4. PICK r \in Requests : Sign(r) \/ Rotate(r)
      BY <2>3, OthersStartNone
    <2>5. call[r].pc \in {"sign", "rotate"} /\ call' = [call EXCEPT ![r] = NoCall] /\ RequestKnows(r)
      BY <2>4 DEF Sign, Rotate, Done, SessionsInvariant
    <2>6. PICK x \in Users : x = call[r].user
      BY <2>5, RequestOf
    <2>7. x = u
      <3>1. account' = [account EXCEPT ![x] = [account[x] EXCEPT !.session = TRUE]] \/
            account' = [account EXCEPT ![x] = [account[x] EXCEPT !.session = TRUE, !.login = "recent"]]
        BY <2>4, <2>6 DEF Sign, Rotate
      <3>2. x # u => account'[u] = account[u]
        BY <2>1, <3>1
      <3>3. QED
        BY <3>2
    <2>8. r \in InFlight(u) /\ call'[r] = NoCall
      BY <2>1, <2>5, <2>6, <2>7 DEF InFlight
    <2>9. r \in overtaken \/ (call[r].pc = "sign" /\ Open(u))
      BY <2>5, <2>6, <2>7 DEF RequestKnows
    <2>10. QED
      BY <2>8, <2>9
  <1>2. AccountsSpec => []SessionsInvariant
    BY SessionsHold
  <1>3. QED
    BY <1>1, <1>2, PTL DEF AccountsSpec, SessionOnlyByLogin

-----------------------------------------------------------------------------
(* The book of a user: the ids in it, and those that are the default.      *)
IdsIn(b)     == {b[i].id : i \in DOMAIN b}
Chosen(b)    == {b[i].id : i \in {j \in DOMAIN b : b[j].isDefault}}
OneChosen(b) == b = <<>> \/ \E a \in AddressIds : Chosen(b) = {a}
Distinct(b)  == \A i, j \in DOMAIN b : b[i].id = b[j].id => i = j

(* Which of its fields a request uses.                                     *)
VisitShape(q) ==
    /\ q.pc = "idle" <=> q = NoVisit
    /\ q # NoVisit => q.user \in Users
    /\ q.pc \in {"write", "delete", "promote", "clear"} => q.id \in AddressIds
    /\ q.pc = "clear" => q.default = "yes"

(* Requests of one user that are in flight together are crowded, and their *)
(* user is disturbed.                                                      *)
Crowding(v) ==
    /\ visit[v] = NoVisit => v \notin crowded
    /\ v \in crowded => visit[v].user \in disturbed
    /\ visit[v] # NoVisit /\ v \notin crowded => \A w \in Visitors \ {v} : visit[w].user # visit[v].user

(* What a request that is alone with its user knows of the book: what it   *)
(* has cleared, and, of a user who is not disturbed, that there was one    *)
(* default before.                                                         *)
Cleared(q, b) ==
    /\ q.pc \in {"count", "insert"} /\ q.default = "yes" => Chosen(b) = {}
    /\ q.pc = "write" /\ q.default = "yes" => Chosen(b) \subseteq {q.id}

Undisturbed(q, b, gone) ==
    /\ q.pc \in {"count", "insert", "write"} /\ q.default # "yes" => OneChosen(b)
    /\ q.pc = "insert" /\ q.default # "yes" => b # <<>> \/ gone
    /\ q.pc \in {"clear", "delete"} => OneChosen(b)
    /\ q.pc = "delete" /\ q.id \in IdsIn(b) => (q.default = "yes" <=> q.id \in Chosen(b))
    /\ q.pc \in {"oldest", "promote"} => Chosen(b) = {}

Expects(q, b, gone, calm) == Cleared(q, b) /\ (calm => Undisturbed(q, b, gone))

BookKnown(u) ==
    /\ Distinct(book[u]) /\ IdsIn(book[u]) \subseteq used
    /\ Visiting(u) = {} /\ u \notin disturbed => OneChosen(book[u])
    /\ \A v \in Visitors \ crowded :
          visit[v].user = u => Expects(visit[v], book[u], account[u] = Deleted, u \notin disturbed)

BookInvariant ==
    /\ None \notin Users
    /\ book \in [Users -> Seq(Address)] /\ used \subseteq AddressIds
    /\ visit \in [Visitors -> Visit] /\ crowded \subseteq Visitors /\ disturbed \subseteq Users
    /\ \A v \in Visitors : VisitShape(visit[v]) /\ Crowding(v)
    /\ \A u \in Users : BookKnown(u)

-----------------------------------------------------------------------------
(* What the writes do to a book.                                           *)
Marked(b, ids, flag) ==
    [i \in DOMAIN b |-> IF b[i].id \in ids THEN [b[i] EXCEPT !.isDefault = flag] ELSE b[i]]

LEMMA BookIs ==
    ASSUME NEW b \in Seq(Address)
    PROVE  /\ Len(b) \in Nat /\ DOMAIN b = 1 .. Len(b)
           /\ \A i \in DOMAIN b : b[i] \in Address /\ b[i].id \in AddressIds /\ b[i].isDefault \in BOOLEAN
  <1>1. Len(b) \in Nat /\ DOMAIN b = 1 .. Len(b) /\ b \in [1 .. Len(b) -> Address]
    BY LenProperties
  <1>2. \A x \in Address : x.id \in AddressIds /\ x.isDefault \in BOOLEAN
    BY DEF Address
  <1>3. QED
    BY <1>1, <1>2

LEMMA MarkedIs ==
    ASSUME NEW b \in Seq(Address), Distinct(b), NEW ids, NEW flag \in BOOLEAN
    PROVE  /\ Marked(b, ids, flag) \in Seq(Address) /\ Distinct(Marked(b, ids, flag))
           /\ IdsIn(Marked(b, ids, flag)) = IdsIn(b)
           /\ flag = TRUE => Chosen(Marked(b, ids, flag)) = Chosen(b) \cup (ids \cap IdsIn(b))
           /\ flag = FALSE => Chosen(Marked(b, ids, flag)) = Chosen(b) \ ids
  <1> DEFINE c == Marked(b, ids, flag)
  <1>1. /\ Len(b) \in Nat /\ DOMAIN b = 1 .. Len(b)
        /\ \A i \in DOMAIN b : b[i] \in Address /\ b[i].id \in AddressIds /\ b[i].isDefault \in BOOLEAN
    BY BookIs
  <1>2. ASSUME NEW i \in DOMAIN b
        PROVE  /\ c[i] \in Address /\ c[i].id = b[i].id
               /\ c[i].isDefault = IF b[i].id \in ids THEN flag ELSE b[i].isDefault
    BY <1>1 DEF Marked, Address
  <1>3. DOMAIN c = DOMAIN b
    BY DEF Marked
  <1>4. c \in Seq(Address)
    <2>1. c = [i \in 1 .. Len(b) |-> c[i]]
      BY <1>1 DEF Marked
    <2> HIDE DEF c
    <2>2. QED
      BY <1>1, <1>2, <2>1
  <1> HIDE DEF c
  <1>5. Distinct(c)
    BY <1>2, <1>3 DEF Distinct
  <1>6. IdsIn(c) = IdsIn(b)
    BY <1>2, <1>3 DEF IdsIn
  <1>7. flag = TRUE => Chosen(c) = Chosen(b) \cup (ids \cap IdsIn(b))
    BY <1>2, <1>3 DEF Chosen, IdsIn
  <1>8. flag = FALSE => Chosen(c) = Chosen(b) \ ids
    BY <1>2, <1>3 DEF Chosen, IdsIn
  <1>9. QED
    BY <1>4, <1>5, <1>6, <1>7, <1>8 DEF c

LEMMA AppendIs ==
    ASSUME NEW b \in Seq(Address), Distinct(b), NEW a \in AddressIds, a \notin IdsIn(b), NEW flag \in BOOLEAN
    PROVE  LET c == Append(b, [id |-> a, isDefault |-> flag])
           IN  /\ c \in Seq(Address) /\ c # <<>> /\ Distinct(c) /\ IdsIn(c) = IdsIn(b) \cup {a}
               /\ Chosen(c) = IF flag THEN Chosen(b) \cup {a} ELSE Chosen(b)
  <1> DEFINE x == [id |-> a, isDefault |-> flag]
             c == Append(b, x)
  <1>1. /\ Len(b) \in Nat /\ DOMAIN b = 1 .. Len(b)
        /\ \A i \in DOMAIN b : b[i] \in Address /\ b[i].id \in AddressIds /\ b[i].isDefault \in BOOLEAN
    BY BookIs
  <1>2. x \in Address /\ x.id = a /\ x.isDefault = flag
    BY DEF Address
  <1> HIDE DEF x
  <1>3. /\ c \in Seq(Address) /\ c # <<>> /\ Len(c) = Len(b) + 1 /\ DOMAIN c = 1 .. Len(b) + 1
        /\ c[Len(b) + 1] = x /\ \A i \in 1 .. Len(b) : c[i] = b[i]
    BY <1>1, <1>2, AppendProperties, LenProperties
  <1> HIDE DEF c
  <1>4. DOMAIN c = DOMAIN b \cup {Len(b) + 1} /\ Len(b) + 1 \notin DOMAIN b
    BY <1>1, <1>3
  <1>5. \A i \in DOMAIN b : b[i].id # a
    BY DEF IdsIn
  <1>6. Distinct(c)
    BY <1>1, <1>2, <1>3, <1>4, <1>5 DEF Distinct
  <1>7. IdsIn(c) = IdsIn(b) \cup {a}
    BY <1>1, <1>2, <1>3, <1>4 DEF IdsIn
  <1>8. Chosen(c) = IF flag THEN Chosen(b) \cup {a} ELSE Chosen(b)
    BY <1>1, <1>2, <1>3, <1>4 DEF Chosen
  <1>9. QED
    BY <1>3, <1>6, <1>7, <1>8 DEF c, x

LEMMA WithoutIs ==
    ASSUME NEW b \in Seq(Address), Distinct(b), NEW k \in DOMAIN b
    PROVE  /\ Without(b, k) \in Seq(Address) /\ Distinct(Without(b, k))
           /\ IdsIn(Without(b, k)) = IdsIn(b) \ {b[k].id}
           /\ Chosen(Without(b, k)) = Chosen(b) \ {b[k].id}
  <1> DEFINE c == Without(b, k)
             at(j) == IF j < k THEN j ELSE j + 1
  <1>1. /\ Len(b) \in Nat /\ DOMAIN b = 1 .. Len(b) /\ k \in 1 .. Len(b) /\ Len(b) - 1 \in Nat
        /\ \A i \in DOMAIN b : b[i] \in Address /\ b[i].id \in AddressIds /\ b[i].isDefault \in BOOLEAN
    <2>1. /\ Len(b) \in Nat /\ DOMAIN b = 1 .. Len(b)
          /\ \A i \in DOMAIN b : b[i] \in Address /\ b[i].id \in AddressIds /\ b[i].isDefault \in BOOLEAN
      BY BookIs
    <2>2. QED
      BY <2>1
  <1>2. DOMAIN c = 1 .. Len(b) - 1 /\ \A j \in 1 .. Len(b) - 1 : c[j] = b[at(j)]
    BY DEF Without
  <1>3. \A j \in 1 .. Len(b) - 1 : at(j) \in DOMAIN b /\ at(j) # k
    BY <1>1
  <1>4. \A i \in DOMAIN b \ {k} : \E j \in 1 .. Len(b) - 1 : at(j) = i
    <2>1. ASSUME NEW i \in DOMAIN b \ {k} PROVE \E j \in 1 .. Len(b) - 1 : at(j) = i
      <3>1. CASE i < k
        BY <1>1, <3>1
      <3>2. CASE i > k
        <4>1. i - 1 \in 1 .. Len(b) - 1 /\ at(i - 1) = i
          BY <1>1, <3>2
        <4>2. QED
          BY <4>1
      <3>3. QED
        BY <1>1, <3>1, <3>2
    <2>2. QED
      BY <2>1
  <1>5. \A i, j \in 1 .. Len(b) - 1 : at(i) = at(j) => i = j
    BY <1>1
  <1> HIDE DEF at
  <1>6. c \in Seq(Address)
    <2>1. c = [j \in 1 .. Len(b) - 1 |-> c[j]]
      BY DEF Without
    <2>2. \A j \in 1 .. Len(b) - 1 : c[j] \in Address
      BY <1>1, <1>2, <1>3
    <2> HIDE DEF c
    <2>3. QED
      BY <1>1, <2>1, <2>2
  <1> HIDE DEF c
  <1>7. Distinct(c)
    BY <1>2, <1>3, <1>5 DEF Distinct
  <1>8. \A i \in DOMAIN b \ {k} : b[i].id # b[k].id
    BY DEF Distinct
  <1>9. IdsIn(c) = IdsIn(b) \ {b[k].id}
    <2>1. IdsIn(c) \subseteq IdsIn(b) \ {b[k].id}
      BY <1>2, <1>3, <1>8 DEF IdsIn
    <2>2. IdsIn(b) \ {b[k].id} \subseteq IdsIn(c)
      <3>1. ASSUME NEW a \in IdsIn(b) \ {b[k].id} PROVE a \in IdsIn(c)
        <4>1. PICK i \in DOMAIN b \ {k} : a = b[i].id
          BY DEF IdsIn
        <4>2. PICK j \in 1 .. Len(b) - 1 : at(j) = i
          BY <1>4
        <4>3. QED
          BY <1>2, <4>1, <4>2 DEF IdsIn
      <3>2. QED
        BY <3>1
    <2>3. QED
      BY <2>1, <2>2
  <1>10. Chosen(c) = Chosen(b) \ {b[k].id}
    <2>1. Chosen(c) \subseteq Chosen(b) \ {b[k].id}
      BY <1>2, <1>3, <1>8 DEF Chosen
    <2>2. Chosen(b) \ {b[k].id} \subseteq Chosen(c)
      <3>1. ASSUME NEW a \in Chosen(b) \ {b[k].id} PROVE a \in Chosen(c)
        <4>1. PICK i \in DOMAIN b \ {k} : a = b[i].id /\ b[i].isDefault
          BY DEF Chosen
        <4>2. PICK j \in 1 .. Len(b) - 1 : at(j) = i
          BY <1>4
        <4>3. QED
          BY <1>2, <4>1, <4>2 DEF Chosen
      <3>2. QED
        BY <3>1
    <2>3. QED
      BY <2>1, <2>2
  <1>11. QED
    BY <1>6, <1>7, <1>9, <1>10 DEF c

LEMMA EmptyIs ==
    /\ <<>> \in Seq(Address) /\ Distinct(<<>>) /\ IdsIn(<<>>) = {} /\ Chosen(<<>>) = {} /\ OneChosen(<<>>)
  BY DEF Distinct, IdsIn, Chosen, OneChosen

LEMMA ChosenAreIn ==
    ASSUME NEW b \in Seq(Address)
    PROVE  /\ Chosen(b) \subseteq IdsIn(b) /\ IdsIn(b) \subseteq AddressIds
           /\ OneChosen(b) /\ IdsIn(b) # {} => \E a \in AddressIds : Chosen(b) = {a}
           /\ b = <<>> \/ IdsIn(b) # {}
  <1>1. /\ Len(b) \in Nat /\ DOMAIN b = 1 .. Len(b)
        /\ \A i \in DOMAIN b : b[i] \in Address /\ b[i].id \in AddressIds /\ b[i].isDefault \in BOOLEAN
    BY BookIs
  <1>2. Chosen(b) \subseteq IdsIn(b) /\ IdsIn(b) \subseteq AddressIds
    BY <1>1 DEF Chosen, IdsIn
  <1>3. b = <<>> => IdsIn(b) = {}
    BY EmptyIs
  <1>4. b # <<>> => b[1].id \in IdsIn(b)
    <2>1. b # <<>> => 1 \in DOMAIN b
      BY <1>1, EmptySeq
    <2>2. QED
      BY <2>1 DEF IdsIn
  <1>5. QED
    BY <1>2, <1>3, <1>4 DEF OneChosen

(* The operators of the model, as those of one book.                       *)
LEMMA BookOf ==
    ASSUME BookInvariant, NEW u \in Users
    PROVE  /\ book[u] \in Seq(Address) /\ Distinct(book[u]) /\ IdsIn(book[u]) \subseteq used
           /\ IdsOf(u) = IdsIn(book[u]) /\ Defaults(u) = Chosen(book[u])
           /\ \A a : IsDefault(u, a) <=> a \in Chosen(book[u])
  <1>1. book[u] \in Seq(Address) /\ Distinct(book[u]) /\ IdsIn(book[u]) \subseteq used
    BY DEF BookInvariant, BookKnown
  <1>2. IdsOf(u) = IdsIn(book[u])
    BY DEF IdsOf, IdsIn
  <1>3. \A a : IsDefault(u, a) <=> a \in Chosen(book[u])
    BY DEF IsDefault, Chosen
  <1>4. Chosen(book[u]) \subseteq IdsIn(book[u])
    BY <1>1, ChosenAreIn
  <1>5. Defaults(u) = Chosen(book[u])
    BY <1>2, <1>3, <1>4 DEF Defaults
  <1>6. QED
    BY <1>1, <1>2, <1>3, <1>5

(* The book of one user becomes b, and no other is written.                *)
Becomes(u, b) ==
    /\ book' \in [Users -> Seq(Address)] /\ book'[u] = b
    /\ \A x \in Users \ {u} : book'[x] = book[x]

LEMMA SetToIs ==
    ASSUME BookInvariant, NEW u \in Users, NEW ids, NEW flag \in BOOLEAN, book' = SetTo(u, ids, flag)
    PROVE  Becomes(u, Marked(book[u], ids, flag))
  <1>1. book \in [Users -> Seq(Address)]
    BY DEF BookInvariant
  <1>2. Marked(book[u], ids, flag) \in Seq(Address)
    BY BookOf, MarkedIs
  <1>3. book' = [book EXCEPT ![u] = Marked(book[u], ids, flag)]
    BY DEF SetTo, Marked
  <1> HIDE DEF Marked
  <1>4. QED
    BY <1>1, <1>2, <1>3 DEF Becomes

LEMMA SameBook ==
    ASSUME BookInvariant, NEW u \in Users, UNCHANGED book
    PROVE  Becomes(u, book[u])
  BY DEF BookInvariant, Becomes

-----------------------------------------------------------------------------
(* A request goes on, or leaves, with a book of its user that it, or its   *)
(* end, may expect.                                                        *)
LEMMA VisitStep ==
    ASSUME BookInvariant, UNCHANGED account, NEW v \in Visitors, NEW u \in Users, NEW q \in Visit, NEW b,
           visit[v] # NoVisit, visit[v].user = u,
           visit' = [visit EXCEPT ![v] = q], Becomes(u, b), used \subseteq used', used' \subseteq AddressIds,
           VisitShape(q), q # NoVisit => q.user = u,
           crowded' = IF q = NoVisit THEN crowded \ {v} ELSE crowded,
           disturbed' \subseteq Users, \A x \in Users \ {u} : x \in disturbed' <=> x \in disturbed,
           u \in disturbed /\ u \notin disturbed' => v \notin crowded /\ q = NoVisit,
           Distinct(b), IdsIn(b) \subseteq used',
           q # NoVisit /\ v \notin crowded => Expects(q, b, account[u] = Deleted, u \notin disturbed'),
           q = NoVisit /\ v \notin crowded /\ u \notin disturbed' => OneChosen(b)
    PROVE  BookInvariant'
  <1>1. /\ visit \in [Visitors -> Visit] /\ crowded \subseteq Visitors /\ None \notin Users
        /\ \A w \in Visitors : VisitShape(visit[w]) /\ Crowding(w)
        /\ \A x \in Users : BookKnown(x)
    BY DEF BookInvariant
  <1>2. NoVisit.user = None
    BY DEF NoVisit
  <1>3. /\ visit' \in [Visitors -> Visit] /\ visit'[v] = q
        /\ \A w \in Visitors \ {v} : visit'[w] = visit[w]
    BY <1>1
  <1>4. \A w \in Visitors : VisitShape(visit'[w])
    BY <1>1, <1>3
  <1>5. ASSUME NEW w \in Visitors \ {v}, w \notin crowded, visit[w] # NoVisit PROVE visit[w].user # u
    BY <1>1, <1>5 DEF Crowding
  <1>6. ASSUME NEW w \in Visitors PROVE Crowding(w)'
    <2>1. visit'[w] = NoVisit => w \notin crowded'
      BY <1>1, <1>3 DEF Crowding
    <2>2. w \in crowded' => visit'[w].user \in disturbed'
      <3>1. CASE w = v
        <4>1. w \in crowded' => q # NoVisit /\ v \in crowded
          BY <3>1
        <4>2. v \in crowded => u \in disturbed
          BY <1>1 DEF Crowding
        <4>3. QED
          BY <1>3, <3>1, <4>1, <4>2
      <3>2. CASE w # v
        <4>1. w \in crowded' => w \in crowded /\ visit[w].user \in disturbed /\ visit[w].user \in Users
          BY <1>1, <3>2 DEF Crowding, BookInvariant
        <4>2. u \in disturbed /\ u \notin disturbed' => visit[w].user # u
          BY <1>1, <3>2 DEF Crowding
        <4>3. QED
          BY <1>3, <3>2, <4>1, <4>2
      <3>3. QED
        BY <3>1, <3>2
    <2>3. ASSUME visit'[w] # NoVisit, w \notin crowded', NEW x \in Visitors \ {w}
          PROVE  visit'[x].user # visit'[w].user
      <3>1. w \notin crowded
        BY <1>3, <2>3
      <3>2. visit[w] # NoVisit /\ visit'[w].user = visit[w].user
        BY <1>3, <2>3
      <3>3. visit[x].user # visit[w].user
        BY <1>1, <3>1, <3>2 DEF Crowding
      <3>4. visit[w].user \in Users
        BY <1>1, <3>2 DEF VisitShape
      <3>5. QED
        BY <1>1, <1>2, <1>3, <3>2, <3>3, <3>4
    <2>4. QED
      BY <2>1, <2>2, <2>3 DEF Crowding
  <1>7. ASSUME NEW x \in Users \ {u} PROVE BookKnown(x)'
    <2>1. book'[x] = book[x] /\ (x \in disturbed' <=> x \in disturbed) /\ account' = account
      BY DEF Becomes
    <2>2. Visiting(x)' = Visiting(x)
      <3>1. \A w \in Visitors : visit'[w].user = x <=> visit[w].user = x
        BY <1>1, <1>2, <1>3
      <3>2. QED
        BY <3>1 DEF Visiting
    <2>3. ASSUME NEW w \in Visitors \ crowded', visit'[w].user = x
          PROVE  visit'[w] = visit[w] /\ w \in Visitors \ crowded /\ visit[w].user = x
      BY <1>1, <1>2, <1>3, <2>3
    <2>4. BookKnown(x)
      BY <1>1
    <2>5. Distinct(book'[x]) /\ IdsIn(book'[x]) \subseteq used'
      BY <2>1, <2>4 DEF BookKnown
    <2>6. Visiting(x)' = {} /\ x \notin disturbed' => OneChosen(book'[x])
      BY <2>1, <2>2, <2>4 DEF BookKnown
    <2>7. ASSUME NEW w \in Visitors \ crowded', visit'[w].user = x
          PROVE  Expects(visit'[w], book'[x], account'[x] = Deleted, x \notin disturbed')
      <3>1. Expects(visit[w], book[x], account[x] = Deleted, x \notin disturbed)
        BY <2>3, <2>4, <2>7 DEF BookKnown
      <3>2. visit'[w] = visit[w] /\ account'[x] = account[x]
        BY <2>1, <2>3, <2>7
      <3>3. QED
        BY <2>1, <3>1, <3>2
    <2>8. QED
      BY <2>5, <2>6, <2>7 DEF BookKnown
  <1>8. BookKnown(u)'
    <2>1. book'[u] = b /\ account'[u] = account[u]
      BY DEF Becomes
    <2>2. Visiting(u)' = {} => q = NoVisit
      <3>1. visit'[v].user = u => Visiting(u)' # {}
        BY DEF Visiting
      <3>2. QED
        BY <1>3, <3>1
    <2>3. Visiting(u)' = {} /\ u \notin disturbed' => OneChosen(b)
      <3>1. v \in crowded => u \in disturbed
        BY <1>1 DEF Crowding
      <3>2. QED
        BY <2>2, <3>1
    <2>4. ASSUME NEW w \in Visitors \ crowded', visit'[w].user = u
          PROVE  Expects(visit'[w], b, account[u] = Deleted, u \notin disturbed')
      <3>1. w = v
        <4>1. CASE w # v
          <5>1. w \notin crowded /\ visit[w] # NoVisit /\ visit[w].user = u
            BY <1>1, <1>2, <1>3, <2>4, <4>1
          <5>2. QED
            BY <1>5, <4>1, <5>1
        <4>2. QED
          BY <4>1
      <3>2. q # NoVisit
        BY <1>1, <1>2, <1>3, <2>4, <3>1
      <3>3. QED
        BY <1>3, <2>4, <3>1, <3>2
    <2>5. QED
      BY <2>1, <2>3, <2>4 DEF BookKnown
  <1>9. book' \in [Users -> Seq(Address)] /\ crowded' \subseteq Visitors
    BY <1>1 DEF Becomes
  <1>10. QED
    BY <1>1, <1>3, <1>4, <1>6, <1>7, <1>8, <1>9 DEF BookInvariant

(* A request enters; alone with its user, it expects what it starts with.  *)
LEMMA EnterStep ==
    ASSUME BookInvariant, UNCHANGED <<account, used>>, NEW v \in Visitors, NEW u \in Users, NEW q \in Visit, NEW b,
           Enter(v, q), q # NoVisit, q.user = u, VisitShape(q),
           Becomes(u, b), Distinct(b), IdsIn(b) = IdsIn(book[u]),
           Expects(q, b, account[u] = Deleted, u \notin disturbed /\ Visiting(u) = {})
    PROVE  BookInvariant'
  <1>1. /\ visit \in [Visitors -> Visit] /\ crowded \subseteq Visitors /\ None \notin Users
        /\ disturbed \subseteq Users
        /\ \A w \in Visitors : VisitShape(visit[w]) /\ Crowding(w)
        /\ \A x \in Users : BookKnown(x)
    BY DEF BookInvariant
  <1>2. /\ visit[v] = NoVisit /\ visit' = [visit EXCEPT ![v] = q]
        /\ Visiting(u) = {} => crowded' = crowded /\ disturbed' = disturbed
        /\ Visiting(u) # {} => crowded' = crowded \cup Visiting(u) \cup {v} /\ disturbed' = disturbed \cup {u}
    BY DEF Enter
  <1>3. /\ visit' \in [Visitors -> Visit] /\ visit'[v] = q
        /\ \A w \in Visitors \ {v} : visit'[w] = visit[w]
    BY <1>1, <1>2
  <1>4. NoVisit.user = None
    BY DEF NoVisit
  <1>5. \A w \in Visitors : VisitShape(visit'[w])
    BY <1>1, <1>3
  <1>6. v \notin crowded
    BY <1>1, <1>2 DEF Crowding
  <1>7. Visiting(u) = {w \in Visitors : visit[w].user = u}
    BY DEF Visiting
  <1>8. ASSUME NEW w \in Visitors PROVE Crowding(w)'
    <2>1. visit'[w] = NoVisit => w \notin crowded'
      <3>1. visit'[w] = NoVisit => w # v /\ visit[w] = NoVisit /\ w \notin crowded /\ w \notin Visiting(u)
        BY <1>1, <1>3, <1>4, <1>7 DEF Crowding
      <3>2. QED
        BY <1>2, <3>1
    <2>2. w \in crowded' => visit'[w].user \in disturbed'
      <3>1. w \in crowded => visit[w].user \in disturbed /\ w # v
        BY <1>1, <1>6 DEF Crowding
      <3>2. QED
        BY <1>2, <1>3, <1>7, <3>1
    <2>3. ASSUME visit'[w] # NoVisit, w \notin crowded', NEW x \in Visitors \ {w}
          PROVE  visit'[x].user # visit'[w].user
      <3>1. w \notin crowded /\ (w # v => visit'[w] = visit[w])
        BY <1>2, <1>3, <2>3
      <3>2. CASE w = v
        <4>1. Visiting(u) = {}
          BY <1>2, <2>3, <3>2
        <4>2. QED
          BY <1>3, <1>7, <3>2, <4>1
      <3>3. CASE w # v
        <4>1. visit[w].user # u
          BY <1>2, <1>7, <2>3, <3>1, <3>3
        <4>2. visit[x].user # visit[w].user
          BY <1>1, <2>3, <3>1, <3>3 DEF Crowding
        <4>3. QED
          BY <1>3, <3>1, <3>3, <4>1, <4>2
      <3>4. QED
        BY <3>2, <3>3
    <2>4. QED
      BY <2>1, <2>2, <2>3 DEF Crowding
  <1>9. ASSUME NEW x \in Users \ {u} PROVE BookKnown(x)'
    <2>1. book'[x] = book[x] /\ (x \in disturbed' <=> x \in disturbed) /\ account' = account /\ used' = used
      BY <1>2 DEF Becomes
    <2>2. Visiting(x)' = Visiting(x)
      <3>1. \A w \in Visitors : visit'[w].user = x <=> visit[w].user = x
        BY <1>1, <1>2, <1>3, <1>4
      <3>2. QED
        BY <3>1 DEF Visiting
    <2>3. ASSUME NEW w \in Visitors \ crowded', visit'[w].user = x
          PROVE  visit'[w] = visit[w] /\ w \in Visitors \ crowded /\ visit[w].user = x
      BY <1>2, <1>3, <2>3
    <2>4. BookKnown(x)
      BY <1>1
    <2>5. Distinct(book'[x]) /\ IdsIn(book'[x]) \subseteq used'
      BY <2>1, <2>4 DEF BookKnown
    <2>6. Visiting(x)' = {} /\ x \notin disturbed' => OneChosen(book'[x])
      BY <2>1, <2>2, <2>4 DEF BookKnown
    <2>7. ASSUME NEW w \in Visitors \ crowded', visit'[w].user = x
          PROVE  Expects(visit'[w], book'[x], account'[x] = Deleted, x \notin disturbed')
      <3>1. Expects(visit[w], book[x], account[x] = Deleted, x \notin disturbed)
        BY <2>3, <2>4, <2>7 DEF BookKnown
      <3>2. visit'[w] = visit[w] /\ account'[x] = account[x]
        BY <2>1, <2>3, <2>7
      <3>3. QED
        BY <2>1, <3>1, <3>2
    <2>8. QED
      BY <2>5, <2>6, <2>7 DEF BookKnown
  <1>10. BookKnown(u)'
    <2>1. book'[u] = b /\ account'[u] = account[u] /\ used' = used
      BY DEF Becomes
    <2>2. Visiting(u)' # {}
      BY <1>3 DEF Visiting
    <2>3. ASSUME NEW w \in Visitors \ crowded', visit'[w].user = u
          PROVE  w = v /\ Visiting(u) = {} /\ (u \notin disturbed' => u \notin disturbed)
      BY <1>2, <1>3, <1>7, <2>3
    <2>4. ASSUME NEW w \in Visitors \ crowded', visit'[w].user = u
          PROVE  Expects(visit'[w], b, account[u] = Deleted, u \notin disturbed')
      <3>1. visit'[w] = q /\ (u \notin disturbed' <=> u \notin disturbed /\ Visiting(u) = {})
        BY <1>2, <1>3, <2>3, <2>4
      <3>2. QED
        BY <3>1
    <2>5. Distinct(b) /\ IdsIn(b) \subseteq used
      BY <1>1 DEF BookKnown
    <2>6. QED
      BY <2>1, <2>2, <2>4, <2>5 DEF BookKnown
  <1>11. book' \in [Users -> Seq(Address)] /\ crowded' \subseteq Visitors /\ disturbed' \subseteq Users
         /\ used' \subseteq AddressIds
    BY <1>1, <1>2, <1>7 DEF Becomes, BookInvariant
  <1>12. QED
    BY <1>1, <1>3, <1>5, <1>8, <1>9, <1>10, <1>11 DEF BookInvariant

-----------------------------------------------------------------------------
LEMMA NoVisitIs ==
    /\ NoVisit \in Visit /\ NoVisit.pc = "idle" /\ NoVisit.user = None /\ VisitShape(NoVisit)
  BY DEF NoVisit, Visit, VisitStage, Flags, VisitShape

LEMMA VisitOf ==
    ASSUME BookInvariant, NEW v \in Visitors
    PROVE  /\ visit \in [Visitors -> Visit] /\ visit[v] \in Visit /\ VisitShape(visit[v])
           /\ visit[v].pc # "idle" => visit[v] # NoVisit /\ visit[v].user \in Users
           /\ disturbed \subseteq Users /\ used \subseteq AddressIds
           /\ v \in crowded => visit[v].user \in disturbed
           /\ v \notin crowded /\ visit[v].user \in Users =>
                 Expects(visit[v], book[visit[v].user], account[visit[v].user] = Deleted,
                         visit[v].user \notin disturbed)
  <1>1. /\ visit \in [Visitors -> Visit] /\ VisitShape(visit[v]) /\ Crowding(v)
        /\ disturbed \subseteq Users /\ used \subseteq AddressIds
        /\ \A u \in Users : BookKnown(u)
    BY DEF BookInvariant
  <1>2. visit[v] # NoVisit => visit[v].user \in Users
    BY <1>1 DEF VisitShape
  <1>3. visit[v].pc # "idle" => visit[v] # NoVisit
    BY NoVisitIs
  <1>4. QED
    BY <1>1, <1>2, <1>3 DEF Crowding, BookKnown

(* A new request.                                                          *)
NewVisit(pc, u, a, default) == [pc |-> pc, user |-> u, id |-> a, default |-> default]

LEMMA NewVisitIs ==
    ASSUME NEW pc \in VisitStage \ {"idle"}, NEW u \in Users, NEW a \in AddressIds \cup {None}, NEW default \in Flags,
           pc \in {"write", "delete", "promote", "clear"} => a \in AddressIds, pc = "clear" => default = "yes"
    PROVE  LET q == NewVisit(pc, u, a, default)
           IN  /\ q \in Visit /\ q.pc = pc /\ q.user = u /\ q.id = a /\ q.default = default
               /\ q # NoVisit /\ VisitShape(q)
  <1> DEFINE q == NewVisit(pc, u, a, default)
  <1>1. q \in Visit /\ q.pc = pc /\ q.user = u /\ q.id = a /\ q.default = default
    BY DEF NewVisit, Visit
  <1> HIDE DEF q
  <1>2. q # NoVisit
    BY <1>1, NoVisitIs
  <1>3. VisitShape(q)
    BY <1>1, <1>2 DEF VisitShape
  <1>4. QED
    BY <1>1, <1>2, <1>3 DEF q

(* A user of whom no request is in flight has one default, unless disturbed*)
LEMMA QuietUser ==
    ASSUME BookInvariant, NEW u \in Users, u \notin disturbed /\ Visiting(u) = {}
    PROVE  OneChosen(book[u])
  BY DEF BookInvariant, BookKnown

LEMMA CreateAddressStep ==
    ASSUME BookInvariant, UNCHANGED account, NEW v \in Visitors, NEW u \in Users, NEW default \in {"yes", "no"},
           CreateAddress(v, u, default)
    PROVE  BookInvariant'
  <1> DEFINE q == NewVisit("count", u, None, default)
             c == Marked(book[u], IdsOf(u), FALSE)
             b == IF default = "yes" THEN c ELSE book[u]
  <1>1. Enter(v, q) /\ UNCHANGED <<account, used>>
    BY DEF CreateAddress, NewVisit
  <1>2. q \in Visit /\ q.pc = "count" /\ q.user = u /\ q.default = default /\ q # NoVisit /\ VisitShape(q)
    BY NewVisitIs DEF VisitStage, Flags
  <1>3. book[u] \in Seq(Address) /\ Distinct(book[u]) /\ IdsOf(u) = IdsIn(book[u])
        /\ Chosen(book[u]) \subseteq IdsIn(book[u])
    BY BookOf, ChosenAreIn
  <1>4. Becomes(u, b)
    BY SetToIs, SameBook DEF CreateAddress
  <1>5. Distinct(b) /\ IdsIn(b) = IdsIn(book[u]) /\ (default = "yes" => Chosen(b) = {})
        /\ (default # "yes" => b = book[u])
    <2>1. Distinct(c) /\ IdsIn(c) = IdsIn(book[u]) /\ Chosen(c) = Chosen(book[u]) \ (IdsOf(u))
      BY <1>3, MarkedIs
    <2> HIDE DEF c
    <2>2. QED
      BY <1>3, <2>1
  <1> HIDE DEF q, b
  <1>6. Cleared(q, b)
    BY <1>2, <1>5 DEF Cleared
  <1>7. u \notin disturbed /\ Visiting(u) = {} => Undisturbed(q, b, account[u] = Deleted)
    BY <1>2, <1>5, QuietUser DEF Undisturbed
  <1>8. Expects(q, b, account[u] = Deleted, u \notin disturbed /\ Visiting(u) = {})
    BY <1>6, <1>7 DEF Expects
  <1>9. QED
    BY <1>1, <1>2, <1>4, <1>5, <1>8, EnterStep

LEMMA UpdateAddressStep ==
    ASSUME BookInvariant, UNCHANGED account, NEW v \in Visitors, NEW u \in Users, NEW a \in AddressIds,
           NEW default \in Flags, UpdateAddress(v, u, a, default)
    PROVE  BookInvariant'
  <1> DEFINE q == NewVisit("write", u, a, default)
             c == Marked(book[u], IdsOf(u) \ {a}, FALSE)
             b == IF default = "yes" THEN c ELSE book[u]
  <1>1. Enter(v, q) /\ UNCHANGED <<account, used>>
    BY DEF UpdateAddress, NewVisit
  <1>2. /\ q \in Visit /\ q.pc = "write" /\ q.user = u /\ q.id = a /\ q.default = default
        /\ q # NoVisit /\ VisitShape(q)
    BY NewVisitIs DEF VisitStage
  <1>3. book[u] \in Seq(Address) /\ Distinct(book[u]) /\ IdsOf(u) = IdsIn(book[u])
        /\ Chosen(book[u]) \subseteq IdsIn(book[u])
    BY BookOf, ChosenAreIn
  <1>4. Becomes(u, b)
    BY SetToIs, SameBook DEF UpdateAddress
  <1>5. Distinct(b) /\ IdsIn(b) = IdsIn(book[u]) /\ (default = "yes" => Chosen(b) \subseteq {a})
        /\ (default # "yes" => b = book[u])
    <2>1. Distinct(c) /\ IdsIn(c) = IdsIn(book[u]) /\ Chosen(c) = Chosen(book[u]) \ (IdsOf(u) \ {a})
      BY <1>3, MarkedIs
    <2> HIDE DEF c
    <2>2. QED
      BY <1>3, <2>1
  <1> HIDE DEF q, b
  <1>6. Cleared(q, b)
    BY <1>2, <1>5 DEF Cleared
  <1>7. u \notin disturbed /\ Visiting(u) = {} => Undisturbed(q, b, account[u] = Deleted)
    BY <1>2, <1>5, QuietUser DEF Undisturbed
  <1>8. Expects(q, b, account[u] = Deleted, u \notin disturbed /\ Visiting(u) = {})
    BY <1>6, <1>7 DEF Expects
  <1>9. QED
    BY <1>1, <1>2, <1>4, <1>5, <1>8, EnterStep

LEMMA SetDefaultStep ==
    ASSUME BookInvariant, UNCHANGED account, NEW v \in Visitors, NEW u \in Users, NEW a \in AddressIds,
           SetDefault(v, u, a) \/ DeleteAddress(v, u, a)
    PROVE  BookInvariant'
  <1>1. PICK pc \in {"clear", "delete"}, default \in {"yes", "no"} :
           /\ Enter(v, NewVisit(pc, u, a, default)) /\ UNCHANGED <<book, used>>
           /\ pc = "clear" => default = "yes"
           /\ pc = "delete" => (default = "yes" <=> IsDefault(u, a))
    BY DEF SetDefault, DeleteAddress, NewVisit
  <1> DEFINE q == NewVisit(pc, u, a, default)
  <1>2. /\ q \in Visit /\ q.pc = pc /\ q.user = u /\ q.id = a /\ q.default = default
        /\ q # NoVisit /\ VisitShape(q)
    BY <1>1, NewVisitIs DEF VisitStage, Flags
  <1>3. Enter(v, q)
    BY <1>1
  <1> HIDE DEF q
  <1>4. Distinct(book[u]) /\ (IsDefault(u, a) <=> a \in Chosen(book[u]))
    BY BookOf
  <1>5. Becomes(u, book[u])
    BY <1>1, SameBook
  <1>6. Cleared(q, book[u])
    BY <1>2 DEF Cleared
  <1>7. u \notin disturbed /\ Visiting(u) = {} => Undisturbed(q, book[u], account[u] = Deleted)
    BY <1>1, <1>2, <1>4, QuietUser DEF Undisturbed
  <1>8. Expects(q, book[u], account[u] = Deleted, u \notin disturbed /\ Visiting(u) = {})
    BY <1>6, <1>7 DEF Expects
  <1>9. QED
    BY <1>1, <1>2, <1>3, <1>4, <1>5, <1>8, EnterStep

-----------------------------------------------------------------------------
LEMMA AdvanceStep ==
    ASSUME BookInvariant, UNCHANGED account, NEW v \in Visitors, NEW u \in Users, visit[v].user = u,
           visit[v].pc # "idle", NEW q \in Visit, q # NoVisit, q.user = u, VisitShape(q), Advance(v, q),
           NEW b, Becomes(u, b), Distinct(b), IdsIn(b) \subseteq IdsIn(book[u]),
           v \notin crowded => Expects(q, b, account[u] = Deleted, u \notin disturbed)
    PROVE  BookInvariant'
  <1>1. visit' = [visit EXCEPT ![v] = q] /\ used' = used /\ crowded' = crowded /\ disturbed' = disturbed
    BY DEF Advance
  <1>2. visit[v] # NoVisit /\ disturbed \subseteq Users /\ used \subseteq AddressIds
    BY VisitOf
  <1>3. IdsIn(book[u]) \subseteq used
    BY BookOf
  <1>4. /\ used \subseteq used' /\ used' \subseteq AddressIds /\ IdsIn(b) \subseteq used'
        /\ disturbed' \subseteq Users /\ \A x \in Users \ {u} : x \in disturbed' <=> x \in disturbed
        /\ u \in disturbed /\ u \notin disturbed' => v \notin crowded /\ q = NoVisit
        /\ crowded' = IF q = NoVisit THEN crowded \ {v} ELSE crowded
    BY <1>1, <1>2, <1>3
  <1>5. /\ q # NoVisit /\ v \notin crowded => Expects(q, b, account[u] = Deleted, u \notin disturbed')
        /\ q = NoVisit /\ v \notin crowded /\ u \notin disturbed' => OneChosen(b)
    BY <1>1
  <1>6. QED
    BY <1>1, <1>2, <1>4, <1>5, VisitStep

LEMMA LeaveStep ==
    ASSUME BookInvariant, UNCHANGED account, NEW v \in Visitors, NEW u \in Users, visit[v].user = u,
           visit[v].pc # "idle", visit' = [visit EXCEPT ![v] = NoVisit], crowded' = crowded \ {v},
           disturbed' \in {disturbed, disturbed \cup {u}, disturbed \ {u}},
           u \in disturbed /\ u \notin disturbed' => v \notin crowded,
           NEW b, Becomes(u, b), Distinct(b), used \subseteq used', used' \subseteq AddressIds,
           IdsIn(b) \subseteq used', v \notin crowded /\ u \notin disturbed' => OneChosen(b)
    PROVE  BookInvariant'
  <1>1. visit[v] # NoVisit /\ disturbed \subseteq Users /\ VisitShape(NoVisit) /\ NoVisit \in Visit
    BY VisitOf, NoVisitIs
  <1> DEFINE q == NoVisit
  <1>2. /\ disturbed' \subseteq Users /\ \A x \in Users \ {u} : x \in disturbed' <=> x \in disturbed
        /\ u \in disturbed /\ u \notin disturbed' => v \notin crowded /\ q = NoVisit
        /\ crowded' = IF q = NoVisit THEN crowded \ {v} ELSE crowded
        /\ q # NoVisit => q.user = u
        /\ visit' = [visit EXCEPT ![v] = q]
        /\ q \in Visit /\ VisitShape(q)
    BY <1>1
  <1>3. /\ q # NoVisit /\ v \notin crowded => Expects(q, b, account[u] = Deleted, u \notin disturbed')
        /\ q = NoVisit /\ v \notin crowded /\ u \notin disturbed' => OneChosen(b)
    OBVIOUS
  <1> HIDE DEF q
  <1>4. QED
    BY <1>1, <1>2, <1>3, VisitStep

LEMMA NextStage ==
    ASSUME NEW q \in Visit, NEW pc \in VisitStage
    PROVE  /\ [q EXCEPT !.pc = pc] = NewVisit(pc, q.user, q.id, q.default)
           /\ q.id \in AddressIds \cup {None} /\ q.default \in Flags
  BY DEF Visit, NewVisit

LEMMA CountAddressesStep ==
    ASSUME BookInvariant, UNCHANGED account, NEW v \in Visitors, CountAddresses(v)
    PROVE  BookInvariant'
  <1>1. visit[v].pc = "count" /\ UNCHANGED book
    BY DEF CountAddresses
  <1>2. PICK u \in Users : u = visit[v].user
    BY <1>1, VisitOf
  <1>3. visit[v] \in Visit
    BY VisitOf
  <1> DEFINE d == IF book[u] = <<>> THEN "yes" ELSE visit[v].default
             q == NewVisit("insert", u, visit[v].id, d)
  <1>4. Advance(v, [visit[v] EXCEPT !.pc = "insert", !.default = d])
    BY <1>2 DEF CountAddresses
  <1>5. visit[v].id \in AddressIds \cup {None} /\ visit[v].default \in Flags
    BY <1>3, NextStage DEF VisitStage
  <1>6. d \in Flags
    BY <1>5 DEF Flags
  <1>7. Advance(v, q)
    <2> HIDE DEF d
    <2>1. PICK r : r = [visit[v] EXCEPT !.pc = "insert"]
      OBVIOUS
    <2>2. r = NewVisit("insert", u, visit[v].id, visit[v].default)
      BY <1>2, <1>3, <2>1, NextStage DEF VisitStage
    <2>3. PICK e : e = d
      OBVIOUS
    <2>4. [visit[v] EXCEPT !.pc = "insert", !.default = e] = [r EXCEPT !.default = e]
      BY <2>1
    <2>5. [r EXCEPT !.default = e] = NewVisit("insert", u, visit[v].id, e)
      BY <2>2 DEF NewVisit
    <2>6. QED
      BY <1>4, <2>3, <2>4, <2>5
  <1>8. q \in Visit /\ q.pc = "insert" /\ q.user = u /\ q.default = d /\ q # NoVisit /\ VisitShape(q)
    <2> HIDE DEF d
    <2>1. QED
      BY <1>5, <1>6, NewVisitIs DEF VisitStage
  <1>9. Distinct(book[u]) /\ Becomes(u, book[u])
    BY <1>1, BookOf, SameBook
  <1> HIDE DEF q
  <1>10. ASSUME v \notin crowded PROVE Expects(q, book[u], account[u] = Deleted, u \notin disturbed)
    <2>1. Expects(visit[v], book[u], account[u] = Deleted, u \notin disturbed)
      BY <1>2, <1>10, VisitOf
    <2>2. Cleared(visit[v], book[u])
          /\ (u \notin disturbed => Undisturbed(visit[v], book[u], account[u] = Deleted))
      BY <2>1 DEF Expects
    <2>3. Cleared(q, book[u])
      BY <1>1, <1>8, <2>2, EmptyIs DEF Cleared
    <2>4. ASSUME u \notin disturbed PROVE Undisturbed(q, book[u], account[u] = Deleted)
      BY <1>1, <1>8, <2>2, <2>4 DEF Undisturbed
    <2>5. QED
      BY <2>3, <2>4 DEF Expects
  <1>11. visit[v].user = u /\ visit[v].pc # "idle" /\ IdsIn(book[u]) \subseteq IdsIn(book[u])
    BY <1>1, <1>2
  <1>12. QED
    BY <1>7, <1>8, <1>9, <1>10, <1>11, AdvanceStep

LEMMA InsertAddressStep ==
    ASSUME BookInvariant, UNCHANGED account, NEW v \in Visitors, NEW a \in AddressIds, InsertAddress(v, a)
    PROVE  BookInvariant'
  <1>1. visit[v].pc = "insert" /\ Exists(visit[v].user) /\ a \notin used
    BY DEF InsertAddress
  <1>2. PICK u \in Users : u = visit[v].user
    BY <1>1, VisitOf
  <1>3. PICK flag \in BOOLEAN : flag = (visit[v].default = "yes")
    OBVIOUS
  <1> DEFINE b == Append(book[u], [id |-> a, isDefault |-> flag])
  <1>4. book[u] \in Seq(Address) /\ Distinct(book[u]) /\ IdsIn(book[u]) \subseteq used
    BY BookOf
  <1>5. /\ b \in Seq(Address) /\ b # <<>> /\ Distinct(b) /\ IdsIn(b) = IdsIn(book[u]) \cup {a}
        /\ Chosen(b) = IF flag THEN Chosen(book[u]) \cup {a} ELSE Chosen(book[u])
    BY <1>1, <1>4, AppendIs
  <1>6. book' = [book EXCEPT ![u] = b] /\ used' = used \cup {a}
    BY <1>2, <1>3 DEF InsertAddress
  <1>7. /\ visit' = [visit EXCEPT ![v] = NoVisit] /\ crowded' = crowded \ {v}
        /\ disturbed' = IF flag /\ v \notin crowded THEN disturbed \ {u} ELSE disturbed
    BY <1>2, <1>3 DEF InsertAddress
  <1> HIDE DEF b
  <1>8. Becomes(u, b)
    BY <1>5, <1>6 DEF BookInvariant, Becomes
  <1>9. ASSUME v \notin crowded, u \notin disturbed' PROVE OneChosen(b)
    <2>1. Expects(visit[v], book[u], account[u] = Deleted, u \notin disturbed)
      BY <1>2, <1>9, VisitOf
    <2>2. Cleared(visit[v], book[u])
          /\ (u \notin disturbed => Undisturbed(visit[v], book[u], account[u] = Deleted))
      BY <2>1 DEF Expects
    <2>3. CASE flag
      BY <1>1, <1>3, <1>5, <2>2, <2>3 DEF Cleared, OneChosen
    <2>4. CASE ~flag
      <3>1. account[u] # Deleted
        BY <1>1, <1>2 DEF Exists
      <3>2. OneChosen(book[u]) /\ book[u] # <<>>
        BY <1>1, <1>3, <1>7, <1>9, <2>2, <2>4, <3>1 DEF Undisturbed
      <3>3. QED
        BY <1>5, <2>4, <3>2 DEF OneChosen
    <2>5. QED
      BY <2>3, <2>4
  <1>10. /\ used \subseteq used' /\ used' \subseteq AddressIds /\ IdsIn(b) \subseteq used'
         /\ disturbed' \in {disturbed, disturbed \cup {u}, disturbed \ {u}}
         /\ u \in disturbed /\ u \notin disturbed' => v \notin crowded
    BY <1>4, <1>5, <1>6, <1>7, VisitOf
  <1>11. visit[v].user = u /\ visit[v].pc # "idle"
    BY <1>1, <1>2
  <1>12. QED
    BY <1>5, <1>7, <1>8, <1>9, <1>10, <1>11, LeaveStep

LEMMA WriteAddressStep ==
    ASSUME BookInvariant, UNCHANGED account, NEW v \in Visitors, WriteAddress(v)
    PROVE  BookInvariant'
  <1>1. visit[v].pc = "write" /\ visit[v].id \in IdsOf(visit[v].user)
    BY DEF WriteAddress
  <1>2. PICK u \in Users : u = visit[v].user
    BY <1>1, VisitOf
  <1>3. PICK a \in AddressIds : a = visit[v].id
    BY <1>1, VisitOf DEF VisitShape
  <1>4. PICK flag \in BOOLEAN : flag = (visit[v].default = "yes")
    OBVIOUS
  <1> DEFINE c == Marked(book[u], {a}, flag)
             b == IF visit[v].default = "keep" THEN book[u] ELSE c
  <1>5. /\ book[u] \in Seq(Address) /\ Distinct(book[u]) /\ IdsIn(book[u]) \subseteq used
        /\ a \in IdsIn(book[u]) /\ (IsDefault(u, a) <=> a \in Chosen(book[u]))
    BY <1>1, <1>2, <1>3, BookOf
  <1>6. Becomes(u, b)
    <2>1. CASE visit[v].default = "keep"
      BY <1>2, <2>1, SameBook DEF WriteAddress
    <2>2. CASE visit[v].default # "keep"
      <3>1. book' = SetTo(u, {a}, flag)
        BY <1>2, <1>3, <1>4, <2>2 DEF WriteAddress
      <3>2. QED
        BY <2>2, <3>1, SetToIs
    <2>3. QED
      BY <2>1, <2>2
  <1>7. /\ Distinct(c) /\ IdsIn(c) = IdsIn(book[u])
        /\ flag => Chosen(c) = Chosen(book[u]) \cup {a}
        /\ ~flag => Chosen(c) = Chosen(book[u]) \ {a}
    <2>1. /\ Distinct(c) /\ IdsIn(c) = IdsIn(book[u])
          /\ flag = TRUE => Chosen(c) = Chosen(book[u]) \cup ({a} \cap IdsIn(book[u]))
          /\ flag = FALSE => Chosen(c) = Chosen(book[u]) \ {a}
      BY <1>5, MarkedIs
    <2> HIDE DEF c
    <2>2. QED
      BY <1>5, <2>1
  <1> HIDE DEF c
  <1>8. Distinct(b) /\ IdsIn(b) = IdsIn(book[u])
    BY <1>5, <1>7
  <1>9. /\ visit' = [visit EXCEPT ![v] = NoVisit] /\ crowded' = crowded \ {v} /\ used' = used
        /\ disturbed' = IF visit[v].default = "no" /\ IsDefault(u, a) THEN disturbed \cup {u}
                        ELSE IF visit[v].default = "yes" /\ v \notin crowded THEN disturbed \ {u}
                        ELSE disturbed
    BY <1>2, <1>3 DEF WriteAddress
  <1>10. ASSUME v \notin crowded, u \notin disturbed' PROVE OneChosen(b)
    <2>1. Expects(visit[v], book[u], account[u] = Deleted, u \notin disturbed)
      BY <1>2, <1>10, VisitOf
    <2>2. Cleared(visit[v], book[u])
          /\ (u \notin disturbed => Undisturbed(visit[v], book[u], account[u] = Deleted))
      BY <2>1 DEF Expects
    <2>3. CASE flag
      <3>1. Chosen(c) = {a} /\ b = c
        BY <1>1, <1>3, <1>4, <1>7, <2>2, <2>3 DEF Cleared
      <3>2. QED
        BY <3>1 DEF OneChosen
    <2>4. CASE ~flag
      <3>1. u \notin disturbed /\ OneChosen(book[u])
        BY <1>1, <1>4, <1>9, <1>10, <2>2, <2>4 DEF Undisturbed
      <3>2. CASE visit[v].default = "keep"
        BY <3>1, <3>2
      <3>3. CASE visit[v].default # "keep"
        <4>1. visit[v].default = "no"
          BY <1>4, <2>4, <3>3, VisitOf DEF Visit, Flags
        <4>2. a \notin Chosen(book[u])
          BY <1>5, <1>9, <1>10, <4>1
        <4>3. Chosen(c) = Chosen(book[u]) /\ b = c
          BY <1>7, <2>4, <3>3, <4>2
        <4>4. \E x \in AddressIds : Chosen(book[u]) = {x}
          BY <1>5, <3>1, ChosenAreIn
        <4>5. QED
          BY <4>3, <4>4 DEF OneChosen
      <3>4. QED
        BY <3>2, <3>3
    <2>5. QED
      BY <2>3, <2>4
  <1> HIDE DEF b
  <1>11. /\ used \subseteq used' /\ used' \subseteq AddressIds /\ IdsIn(b) \subseteq used'
         /\ disturbed' \in {disturbed, disturbed \cup {u}, disturbed \ {u}}
         /\ u \in disturbed /\ u \notin disturbed' => v \notin crowded
    BY <1>5, <1>8, <1>9, VisitOf
  <1>12. visit[v].user = u /\ visit[v].pc # "idle"
    BY <1>1, <1>2
  <1>13. QED
    BY <1>6, <1>8, <1>9, <1>10, <1>11, <1>12, LeaveStep

LEMMA ClearDefaultsStep ==
    ASSUME BookInvariant, UNCHANGED account, NEW v \in Visitors, ClearDefaults(v)
    PROVE  BookInvariant'
  <1>1. visit[v].pc = "clear" /\ visit[v].default = "yes" /\ visit[v].id \in AddressIds
    BY VisitOf DEF ClearDefaults, VisitShape
  <1>2. PICK u \in Users : u = visit[v].user
    BY <1>1, VisitOf
  <1> DEFINE q == NewVisit("write", u, visit[v].id, "yes")
             b == Marked(book[u], IdsOf(u), FALSE)
  <1>3. q \in Visit /\ q.pc = "write" /\ q.user = u /\ q.default = "yes" /\ q # NoVisit /\ VisitShape(q)
    BY <1>1, NewVisitIs DEF VisitStage, Flags
  <1>4. Advance(v, q)
    <2>1. [visit[v] EXCEPT !.pc = "write"] = q
      <3>1. visit[v] \in Visit /\ "write" \in VisitStage
        BY VisitOf DEF VisitStage
      <3>2. [visit[v] EXCEPT !.pc = "write"] = NewVisit("write", visit[v].user, visit[v].id, visit[v].default)
        BY <3>1, NextStage
      <3>3. QED
        BY <1>1, <1>2, <3>2
    <2>2. QED
      BY <2>1 DEF ClearDefaults
  <1>5. Becomes(u, b)
    BY <1>2, SetToIs DEF ClearDefaults
  <1>6. Distinct(b) /\ IdsIn(b) = IdsIn(book[u]) /\ Chosen(b) = {}
    <2>1. book[u] \in Seq(Address) /\ Distinct(book[u]) /\ IdsOf(u) = IdsIn(book[u])
          /\ Chosen(book[u]) \subseteq IdsIn(book[u])
      BY BookOf, ChosenAreIn
    <2>2. Distinct(b) /\ IdsIn(b) = IdsIn(book[u]) /\ Chosen(b) = Chosen(book[u]) \ IdsOf(u)
      BY <2>1, MarkedIs
    <2> HIDE DEF b
    <2>3. QED
      BY <2>1, <2>2
  <1> HIDE DEF q, b
  <1>7. Expects(q, b, account[u] = Deleted, u \notin disturbed)
    BY <1>3, <1>6 DEF Expects, Cleared, Undisturbed
  <1>8. visit[v].user = u /\ visit[v].pc # "idle" /\ IdsIn(b) \subseteq IdsIn(book[u])
    BY <1>1, <1>2, <1>6
  <1>9. QED
    BY <1>3, <1>4, <1>5, <1>6, <1>7, <1>8, AdvanceStep

LEMMA DropAddressStep ==
    ASSUME BookInvariant, UNCHANGED account, NEW v \in Visitors, DropAddress(v)
    PROVE  BookInvariant'
  <1>1. visit[v].pc = "delete" /\ visit[v].id \in AddressIds
    BY VisitOf DEF DropAddress, VisitShape
  <1>2. PICK u \in Users : u = visit[v].user
    BY <1>1, VisitOf
  <1>3. PICK k \in DOMAIN book[u] : /\ book[u][k].id = visit[v].id
                                    /\ book' = [book EXCEPT ![u] = Without(book[u], k)]
    BY <1>2 DEF DropAddress
  <1> DEFINE b == Without(book[u], k)
             a == visit[v].id
  <1>4. book[u] \in Seq(Address) /\ Distinct(book[u]) /\ IdsIn(book[u]) \subseteq used /\ a \in IdsIn(book[u])
    BY <1>3, BookOf DEF IdsIn
  <1>5. b \in Seq(Address) /\ Distinct(b) /\ IdsIn(b) = IdsIn(book[u]) \ {a} /\ Chosen(b) = Chosen(book[u]) \ {a}
    BY <1>3, <1>4, WithoutIs
  <1>6. book' = [book EXCEPT ![u] = b]
    BY <1>3
  <1> HIDE DEF b
  <1>7. Becomes(u, b)
    BY <1>5, <1>6 DEF BookInvariant, Becomes
  <1>8. ASSUME v \notin crowded, u \notin disturbed
        PROVE  /\ \E x \in AddressIds : Chosen(book[u]) = {x}
               /\ visit[v].default = "yes" <=> a \in Chosen(book[u])
    <2>1. Expects(visit[v], book[u], account[u] = Deleted, u \notin disturbed)
      BY <1>2, <1>8, VisitOf
    <2>2. Undisturbed(visit[v], book[u], account[u] = Deleted)
      BY <1>8, <2>1 DEF Expects
    <2>3. OneChosen(book[u]) /\ (visit[v].default = "yes" <=> a \in Chosen(book[u]))
      BY <1>1, <1>4, <2>2 DEF Undisturbed
    <2>4. QED
      BY <1>4, <2>3, ChosenAreIn
  <1>9. visit[v].user = u /\ visit[v].pc # "idle" /\ IdsIn(b) \subseteq IdsIn(book[u])
    BY <1>1, <1>2, <1>5
  <1>10. CASE visit[v].default = "yes"
    <2> DEFINE q == NewVisit("oldest", u, a, "yes")
    <2>1. q \in Visit /\ q.pc = "oldest" /\ q.user = u /\ q # NoVisit /\ VisitShape(q)
      BY <1>1, NewVisitIs DEF VisitStage, Flags
    <2>2. Advance(v, q)
      <3>1. [visit[v] EXCEPT !.pc = "oldest"] = q
        <4>1. visit[v] \in Visit /\ "oldest" \in VisitStage
          BY VisitOf DEF VisitStage
        <4>2. [visit[v] EXCEPT !.pc = "oldest"] = NewVisit("oldest", visit[v].user, visit[v].id, visit[v].default)
          BY <4>1, NextStage
        <4>3. QED
          BY <1>2, <1>10, <4>2
      <3>2. QED
        BY <1>10, <3>1 DEF DropAddress
    <2> HIDE DEF q
    <2>3. ASSUME v \notin crowded PROVE Expects(q, b, account[u] = Deleted, u \notin disturbed)
      <3>1. u \notin disturbed => Chosen(b) = {}
        BY <1>5, <1>8, <1>10, <2>3
      <3>2. QED
        BY <2>1, <3>1 DEF Expects, Cleared, Undisturbed
    <2>4. QED
      BY <1>5, <1>7, <1>9, <2>1, <2>2, <2>3, AdvanceStep
  <1>11. CASE visit[v].default # "yes"
    <2>1. Leave(v, FALSE)
      BY <1>11 DEF DropAddress
    <2>2. ASSUME v \notin crowded, u \notin disturbed' PROVE OneChosen(b)
      <3>1. u \notin disturbed
        BY <2>1, <2>2 DEF Leave
      <3>2. Chosen(b) = Chosen(book[u])
        BY <1>5, <1>8, <1>11, <2>2, <3>1
      <3>3. QED
        BY <1>8, <2>2, <3>1, <3>2 DEF OneChosen
    <2>3. /\ used \subseteq used' /\ used' \subseteq AddressIds /\ IdsIn(b) \subseteq used'
          /\ disturbed' \in {disturbed, disturbed \cup {u}, disturbed \ {u}}
          /\ u \in disturbed /\ u \notin disturbed' => v \notin crowded
          /\ visit' = [visit EXCEPT ![v] = NoVisit] /\ crowded' = crowded \ {v}
      BY <1>4, <1>5, <2>1, VisitOf DEF Leave
    <2>4. QED
      BY <1>5, <1>7, <1>9, <2>2, <2>3, LeaveStep
  <1>12. QED
    BY <1>10, <1>11

LEMMA FindOldestStep ==
    ASSUME BookInvariant, UNCHANGED account, NEW v \in Visitors, FindOldest(v)
    PROVE  BookInvariant'
  <1>1. visit[v].pc = "oldest" /\ UNCHANGED book
    BY DEF FindOldest
  <1>2. PICK u \in Users : u = visit[v].user
    BY <1>1, VisitOf
  <1>3. book[u] \in Seq(Address) /\ Distinct(book[u]) /\ IdsIn(book[u]) \subseteq used /\ Becomes(u, book[u])
    BY <1>1, BookOf, SameBook
  <1>4. visit[v].user = u /\ visit[v].pc # "idle" /\ IdsIn(book[u]) \subseteq IdsIn(book[u])
    BY <1>1, <1>2
  <1>5. CASE book[u] = <<>>
    <2>1. Leave(v, FALSE) /\ OneChosen(book[u])
      BY <1>2, <1>5 DEF FindOldest, OneChosen
    <2>2. /\ used \subseteq used' /\ used' \subseteq AddressIds /\ IdsIn(book[u]) \subseteq used'
          /\ disturbed' \in {disturbed, disturbed \cup {u}, disturbed \ {u}}
          /\ u \in disturbed /\ u \notin disturbed' => v \notin crowded
          /\ visit' = [visit EXCEPT ![v] = NoVisit] /\ crowded' = crowded \ {v}
      BY <1>3, <2>1, VisitOf DEF Leave
    <2>3. QED
      BY <1>3, <1>4, <2>1, <2>2, LeaveStep
  <1>6. CASE book[u] # <<>>
    <2>1. PICK a \in AddressIds : a = Head(book[u]).id
      <3>1. Head(book[u]) \in Address
        BY <1>3, <1>6, HeadTailProperties
      <3>2. QED
        BY <3>1 DEF Address
    <2> DEFINE q == NewVisit("promote", u, a, visit[v].default)
    <2>2. q \in Visit /\ q.pc = "promote" /\ q.user = u /\ q # NoVisit /\ VisitShape(q)
      <3>1. visit[v].default \in Flags
        BY VisitOf DEF Visit
      <3>2. "promote" \in VisitStage \ {"idle"}
        BY DEF VisitStage
      <3>3. QED
        BY <3>1, <3>2, NewVisitIs
    <2>3. Advance(v, q)
      <3>1. PICK r : r = [visit[v] EXCEPT !.pc = "promote"]
        OBVIOUS
      <3>2. r = NewVisit("promote", u, visit[v].id, visit[v].default)
        BY <1>2, <3>1, VisitOf, NextStage DEF VisitStage
      <3>3. [visit[v] EXCEPT !.pc = "promote", !.id = a] = [r EXCEPT !.id = a]
        BY <3>1
      <3>4. [r EXCEPT !.id = a] = q
        BY <3>2 DEF NewVisit
      <3>5. Advance(v, [visit[v] EXCEPT !.pc = "promote", !.id = a])
        BY <1>2, <1>6, <2>1 DEF FindOldest
      <3>6. QED
        BY <3>3, <3>4, <3>5
    <2> HIDE DEF q
    <2>4. ASSUME v \notin crowded PROVE Expects(q, book[u], account[u] = Deleted, u \notin disturbed)
      <3>1. Expects(visit[v], book[u], account[u] = Deleted, u \notin disturbed)
        BY <1>2, <2>4, VisitOf
      <3>2. u \notin disturbed => Chosen(book[u]) = {}
        BY <1>1, <3>1 DEF Expects, Undisturbed
      <3>3. QED
        BY <2>2, <3>2 DEF Expects, Cleared, Undisturbed
    <2>5. QED
      BY <1>3, <1>4, <2>2, <2>3, <2>4, AdvanceStep
  <1>7. QED
    BY <1>5, <1>6

LEMMA PromoteStep ==
    ASSUME BookInvariant, UNCHANGED account, NEW v \in Visitors, Promote(v)
    PROVE  BookInvariant'
  <1>1. visit[v].pc = "promote" /\ visit[v].id \in AddressIds /\ visit[v].id \in IdsOf(visit[v].user)
    BY VisitOf DEF Promote, VisitShape
  <1>2. PICK u \in Users : u = visit[v].user
    BY <1>1, VisitOf
  <1> DEFINE a == visit[v].id
             b == Marked(book[u], {a}, TRUE)
  <1>3. Becomes(u, b)
    BY <1>2, SetToIs DEF Promote
  <1>4. /\ book[u] \in Seq(Address) /\ Distinct(book[u]) /\ IdsIn(book[u]) \subseteq used
        /\ a \in IdsIn(book[u])
    BY <1>1, <1>2, BookOf
  <1>5. Distinct(b) /\ IdsIn(b) = IdsIn(book[u]) /\ Chosen(b) = Chosen(book[u]) \cup {a}
    <2>1. Distinct(b) /\ IdsIn(b) = IdsIn(book[u]) /\ Chosen(b) = Chosen(book[u]) \cup ({a} \cap IdsIn(book[u]))
      BY <1>4, MarkedIs
    <2> HIDE DEF b
    <2>2. QED
      BY <1>4, <2>1
  <1> HIDE DEF b
  <1>6. Leave(v, FALSE)
    BY DEF Promote
  <1>7. ASSUME v \notin crowded, u \notin disturbed' PROVE OneChosen(b)
    <2>1. u \notin disturbed
      BY <1>6, <1>7 DEF Leave
    <2>2. Expects(visit[v], book[u], account[u] = Deleted, u \notin disturbed)
      BY <1>2, <1>7, VisitOf
    <2>3. Chosen(book[u]) = {}
      BY <1>1, <2>1, <2>2 DEF Expects, Undisturbed
    <2>4. QED
      BY <1>1, <1>5, <2>3 DEF OneChosen
  <1>8. /\ used \subseteq used' /\ used' \subseteq AddressIds /\ IdsIn(b) \subseteq used'
        /\ disturbed' \in {disturbed, disturbed \cup {u}, disturbed \ {u}}
        /\ u \in disturbed /\ u \notin disturbed' => v \notin crowded
        /\ visit' = [visit EXCEPT ![v] = NoVisit] /\ crowded' = crowded \ {v}
    BY <1>4, <1>5, <1>6, VisitOf DEF Leave
  <1>9. visit[v].user = u /\ visit[v].pc # "idle"
    BY <1>1, <1>2
  <1>10. QED
    BY <1>3, <1>5, <1>7, <1>8, <1>9, LeaveStep

LEMMA AbandonVisitStep ==
    ASSUME BookInvariant, UNCHANGED account, NEW v \in Visitors, AbandonVisit(v)
    PROVE  BookInvariant'
  <1>1. visit[v] # NoVisit /\ UNCHANGED <<book, used>>
    BY DEF AbandonVisit
  <1>2. visit[v].pc # "idle"
    BY <1>1, VisitOf DEF VisitShape
  <1>3. PICK u \in Users : u = visit[v].user
    BY <1>2, VisitOf
  <1>4. Distinct(book[u]) /\ IdsIn(book[u]) \subseteq used /\ Becomes(u, book[u])
    BY <1>1, BookOf, SameBook
  <1>5. /\ visit' = [visit EXCEPT ![v] = NoVisit] /\ crowded' = crowded \ {v}
        /\ disturbed' = disturbed \cup {u}
    BY <1>3 DEF AbandonVisit
  <1>6. /\ used \subseteq used' /\ used' \subseteq AddressIds /\ IdsIn(book[u]) \subseteq used'
        /\ disturbed' \in {disturbed, disturbed \cup {u}, disturbed \ {u}}
        /\ u \in disturbed /\ u \notin disturbed' => v \notin crowded
        /\ v \notin crowded /\ u \notin disturbed' => OneChosen(book[u])
    BY <1>1, <1>4, <1>5, VisitOf
  <1>7. QED
    BY <1>2, <1>3, <1>4, <1>5, <1>6, LeaveStep

-----------------------------------------------------------------------------
LEMMA VisitKeepsBook ==
    ASSUME BookInvariant, UNCHANGED account, VisitNext
    PROVE  BookInvariant'
  <1>1. ASSUME NEW v \in Visitors, CountAddresses(v) \/ WriteAddress(v) \/ ClearDefaults(v) \/ DropAddress(v)
        PROVE  BookInvariant'
    BY <1>1, CountAddressesStep, WriteAddressStep, ClearDefaultsStep, DropAddressStep
  <1>2. ASSUME NEW v \in Visitors,
               FindOldest(v) \/ Promote(v) \/ AbandonVisit(v) \/ \E a \in AddressIds : InsertAddress(v, a)
        PROVE  BookInvariant'
    BY <1>2, FindOldestStep, PromoteStep, AbandonVisitStep, InsertAddressStep
  <1>3. ASSUME NEW v \in Visitors, NEW u \in Users, NEW a \in AddressIds,
               \/ \E default \in Flags : UpdateAddress(v, u, a, default)
               \/ SetDefault(v, u, a) \/ DeleteAddress(v, u, a)
        PROVE  BookInvariant'
    BY <1>3, UpdateAddressStep, SetDefaultStep
  <1>4. ASSUME NEW v \in Visitors, NEW u \in Users, NEW default \in {"yes", "no"}, CreateAddress(v, u, default)
        PROVE  BookInvariant'
    BY <1>4, CreateAddressStep
  <1>5. QED
    BY <1>1, <1>2, <1>3, <1>4 DEF VisitNext

(* Nobody comes back: who was deleted stays so.                            *)
LEMMA DeletedStays ==
    ASSUME SessionsInvariant, SessionsNext, NEW u \in Users, account[u] = Deleted
    PROVE  account'[u] = Deleted
  <1>1. None # Deleted /\ account \in [Users -> Account \cup {None, Deleted}]
    BY DEF SessionsInvariant, AccountsAssumption, SessionsAssumption, SessionsTypeOK
  <1>2. ~Exists(u)
    BY DEF Exists
  <1>3. ASSUME NEW x, NEW written, x # u, account' = [account EXCEPT ![x] = written] PROVE account'[u] = Deleted
    BY <1>1, <1>3
  <1>4. ASSUME NEW x \in Users, \/ \E s \in Statuses : UpdateStatus(x, s)
                                \/ \E role \in Roles : UpdateRole(x, role)
                                \/ \E r \in Requests : DeleteRead(r, x)
        PROVE  account'[u] = Deleted
    BY <1>2, <1>3, <1>4 DEF UpdateStatus, UpdateRole, DeleteRead
  <1>5. ASSUME NEW x \in Users, Logout(x) \/ Age(x) PROVE account'[u] = Deleted
    BY <1>2, <1>3, <1>5 DEF Logout, Age, Open
  <1>6. ASSUME NEW x \in Users, NEW r \in Requests,
               \/ \E new \in {NewUser, NewAdmin} : RegisterUser(r, x, new)
               \/ LoginRead(r, x) \/ AdminLoginRead(r, x) \/ RefreshRead(r, x) \/ ChangePasswordRead(r, x)
        PROVE  account'[u] = Deleted
    BY <1>1, <1>3, <1>6 DEF RegisterUser, LoginRead, AdminLoginRead, Compared, RefreshRead, ChangePasswordRead
  <1>7. ASSUME NEW r \in Requests, Count(r) \/ Block(r) \/ Reset(r) \/ Sign(r) PROVE account'[u] = Deleted
    BY <1>2, <1>3, <1>7 DEF Count, Block, Reset, Sign
  <1>8. ASSUME NEW r \in Requests, RegisterCart(r) \/ Rotate(r) \/ WritePassword(r) \/ Revoke(r) \/ Abandon(r)
        PROVE  account'[u] = Deleted
    BY <1>2, <1>3, <1>8 DEF RegisterCart, Rotate, WritePassword, Revoke, Abandon
  <1>9. QED
    BY <1>4, <1>5, <1>6, <1>7, <1>8 DEF SessionsNext, UsersNext

(* A book that is neither written nor visited only needs to know of its    *)
(* user what it knew.                                                      *)
LEMMA Unvisited ==
    ASSUME BookInvariant, UNCHANGED <<used, visit, crowded, disturbed>>,
           NEW x, book' \in [Users -> Seq(Address)], \A u \in Users \ {x} : book'[u] = book[u],
           x \in Users => book'[x] = <<>> /\ account'[x] = Deleted,
           \A u \in Users \ {x} : account[u] = Deleted => account'[u] = Deleted
    PROVE  BookInvariant'
  <1>1. ASSUME NEW v \in Visitors PROVE VisitShape(visit'[v]) /\ Crowding(v)'
    BY DEF BookInvariant, Crowding
  <1>2. ASSUME NEW u \in Users \ {x} PROVE BookKnown(u)'
    <2>1. BookKnown(u) /\ book'[u] = book[u] /\ Visiting(u)' = Visiting(u)
      BY DEF BookInvariant, Visiting
    <2>2. ASSUME NEW v \in Visitors \ crowded, visit[v].user = u
          PROVE  Expects(visit[v], book[u], account'[u] = Deleted, u \notin disturbed)
      <3>1. Expects(visit[v], book[u], account[u] = Deleted, u \notin disturbed)
        BY <2>1, <2>2 DEF BookKnown
      <3>2. QED
        BY <3>1 DEF Expects, Undisturbed
    <2>3. QED
      BY <2>1, <2>2 DEF BookKnown
  <1>3. ASSUME x \in Users PROVE BookKnown(x)'
    <2>1. book'[x] = <<>> /\ account'[x] = Deleted
      BY <1>3
    <2>2. ASSUME NEW v \in Visitors PROVE Expects(visit[v], <<>>, account'[x] = Deleted, x \notin disturbed)
      BY <2>1, EmptyIs DEF Expects, Cleared, Undisturbed
    <2>3. QED
      BY <2>1, <2>2, EmptyIs DEF BookKnown
  <1>4. QED
    BY <1>1, <1>2, <1>3 DEF BookInvariant

LEMMA BookStart ==
    ASSUME AccountsAssumption, AccountsInit
    PROVE  BookInvariant
  <1>1. /\ book = [u \in Users |-> <<>>] /\ used = {} /\ visit = [v \in Visitors |-> NoVisit]
        /\ crowded = {} /\ disturbed = {} /\ None \notin Users
    BY DEF AccountsInit, AccountsAssumption, SessionsAssumption
  <1>2. \A v \in Visitors : visit[v] = NoVisit /\ VisitShape(visit[v]) /\ Crowding(v)
    BY <1>1, NoVisitIs DEF Crowding
  <1>3. \A u \in Users : BookKnown(u)
    BY <1>1, <1>2, EmptyIs, NoVisitIs DEF BookKnown
  <1>4. book \in [Users -> Seq(Address)] /\ visit \in [Visitors -> Visit]
    BY <1>1, EmptyIs, NoVisitIs
  <1>5. QED
    BY <1>1, <1>2, <1>3, <1>4 DEF BookInvariant

LEMMA AccountsKeepBook ==
    ASSUME SessionsInvariant, BookInvariant, [AccountsNext]_accountsVars
    PROVE  BookInvariant'
  <1>1. CASE VisitNext /\ UNCHANGED sessionVars
    BY <1>1, VisitKeepsBook DEF sessionVars
  <1>2. CASE SessionsNext /\ UNCHANGED bookVars
    <2>1. \A u \in Users : account[u] = Deleted => account'[u] = Deleted
      BY <1>2, DeletedStays
    <2>2. PICK x : x \notin Users
      BY DEF BookInvariant
    <2>3. /\ UNCHANGED <<book, used, visit, crowded, disturbed>> /\ book \in [Users -> Seq(Address)]
      BY <1>2 DEF bookVars, BookInvariant
    <2>4. QED
      BY <2>1, <2>2, <2>3, Unvisited
  <1>3. ASSUME NEW r \in Requests, DeleteUserAndBook(r) PROVE BookInvariant'
    <2>1. PICK x : x = call[r].user
      OBVIOUS
    <2>2. /\ account' = [account EXCEPT ![x] = Deleted] /\ book' = [book EXCEPT ![x] = <<>>]
          /\ UNCHANGED <<used, visit, crowded, disturbed>>
      BY <1>3, <2>1 DEF DeleteUserAndBook, DeleteUser
    <2>3. account \in [Users -> Account \cup {None, Deleted}] /\ book \in [Users -> Seq(Address)]
      BY DEF SessionsInvariant, SessionsTypeOK, BookInvariant
    <2>4. /\ book' \in [Users -> Seq(Address)] /\ \A u \in Users \ {x} : book'[u] = book[u]
          /\ x \in Users => book'[x] = <<>> /\ account'[x] = Deleted
          /\ \A u \in Users \ {x} : account[u] = Deleted => account'[u] = Deleted
      BY <2>2, <2>3, EmptyIs
    <2>5. QED
      BY <2>2, <2>4, Unvisited
  <1>4. CASE UNCHANGED accountsVars
    <2>1. UNCHANGED <<account, book, used, visit, crowded, disturbed>>
      BY <1>4 DEF accountsVars, sessionVars, bookVars
    <2>2. PICK x : x \notin Users
      BY DEF BookInvariant
    <2>3. book \in [Users -> Seq(Address)] /\ \A u \in Users : account[u] = Deleted => account'[u] = Deleted
      BY <2>1 DEF BookInvariant
    <2>4. QED
      BY <2>1, <2>2, <2>3, Unvisited
  <1>5. QED
    BY <1>1, <1>2, <1>3, <1>4 DEF AccountsNext

LEMMA DefaultsAreKnown ==
    ASSUME BookInvariant
    PROVE  OneDefault
  <1> SUFFICES ASSUME NEW u \in Users, Visiting(u) = {} /\ u \notin disturbed
               PROVE  book[u] = <<>> \/ Cardinality(Defaults(u)) = 1
    BY DEF OneDefault
  <1>1. OneChosen(book[u]) /\ Defaults(u) = Chosen(book[u])
    BY QuietUser, BookOf
  <1>2. \A a : Cardinality({a}) = 1
    BY FS_Singleton
  <1>3. QED
    BY <1>1, <1>2 DEF OneChosen

LEMMA AccountsTyped ==
    ASSUME SessionsInvariant, BookInvariant
    PROVE  AccountsTypeOK
  BY DEF SessionsInvariant, BookInvariant, AccountsTypeOK

(* What the requests about addresses know holds in every behaviour.        *)
THEOREM BookHolds == AccountsAssumption => (AccountsSpec => [](AccountsTypeOK /\ BookInvariant))
  <1> SUFFICES ASSUME AccountsAssumption PROVE AccountsSpec => [](AccountsTypeOK /\ BookInvariant)
    OBVIOUS
  <1>1. AccountsInit => BookInvariant
    BY BookStart
  <1>2. SessionsInvariant /\ BookInvariant /\ [AccountsNext]_accountsVars => BookInvariant'
    BY AccountsKeepBook
  <1>3. SessionsInvariant /\ BookInvariant => AccountsTypeOK /\ BookInvariant
    BY AccountsTyped
  <1>4. AccountsSpec => []SessionsInvariant
    BY SessionsHold
  <1>5. QED
    BY <1>1, <1>2, <1>3, <1>4, PTL DEF AccountsSpec

(* A user with addresses has one default, and one only, when no request    *)
(* about them is in flight; unless requests of the user overlapped or      *)
(* failed, or the flag was taken away, and none has been set since         *)
(* (users.service.ts:422).                                                 *)
THEOREM DefaultsAreSingle == AccountsAssumption => (AccountsSpec => []OneDefault)
  <1> SUFFICES ASSUME AccountsAssumption PROVE AccountsSpec => []OneDefault
    OBVIOUS
  <1>1. AccountsTypeOK /\ BookInvariant => OneDefault
    BY DefaultsAreKnown
  <1>2. AccountsSpec => [](AccountsTypeOK /\ BookInvariant)
    BY BookHolds
  <1>3. QED
    BY <1>1, <1>2, PTL
=============================================================================
