----------------------------- MODULE Catalogue ------------------------------
(***************************************************************************)
(* ProductsService (src/modules/products/products.service.ts): creating,   *)
(* editing and removing products and their variants, beside the shoppers   *)
(* who put them into carts, order them and cancel.                         *)
(*                                                                         *)
(* An edit reads the product, decides from what it read what has changed,  *)
(* and writes later.  It deletes all variants and inserts those it was     *)
(* sent under new ids: whatever named a variant then names none (the       *)
(* foreign keys SET NULL).  A removal counts the order items first and     *)
(* deletes later.                                                          *)
(***************************************************************************)
EXTENDS Integers, FiniteSets

CONSTANTS
    Products,   \* ids of products; never used twice
    VariantIds, \* ids of variants; never used twice
    Skus,       \* codes of variants, unique in the table
    LineIds,    \* ids of cart items
    OrderIds,   \* ids of orders, each of one unit
    Editors,    \* requests of sellers and administrators in flight together
    MaxStock,   \* bound: the largest stock entered
    MaxEdits,   \* bound: operations of editors
    None,       \* SQL NULL, an absent field, an absent row
    Deleted     \* a row that was deleted

ASSUME CatalogueAssumption ==
    /\ MaxStock \in Nat /\ MaxEdits \in Nat
    /\ None \notin Products \cup VariantIds \cup Int
    /\ None # Deleted /\ Deleted \notin Int

Stocks  == 0 .. MaxStock
Variant == [product : Products, sku : Skus, stock : Nat]
Row     == [variant : VariantIds \cup {None}, stock : Int, reserved : Int]
Line    == [product : Products, variant : VariantIds \cup {None}]
Order   == [product : Products \cup {None}, variant : VariantIds \cup {None},
            cancelled : BOOLEAN]
(* The variants a form holds: for some codes, a stock                      *)
Form    == UNION {[s -> Stocks] : s \in SUBSET Skus}

ASSUME RowsAssumption ==
    \A x \in {None, Deleted} : x \notin Variant /\ x \notin Row /\ x \notin Line /\ x \notin Order

VARIABLES
    product,    \* product[p]: the column stockQuantity, None or Deleted
    variant,    \* variant[v]: the row of product_variants, None or Deleted
    row,        \* row[p]: the row of inventory filed under p, or None
    line,       \* line[l]: the cart item, None or Deleted
    order,      \* order[o]: its only item, or None
    edit,       \* edit[e]: the request of e in flight
    edits,      \* operations counted against MaxEdits
    moved,      \* history: moved[p], units sold and returned since row and column agreed
    blurred,    \* history: products whose row has counted a variant, or whose
                \* column an edit wrote back after it had changed
    unseen      \* history: orders placed while a removal was under way

history == <<edits, moved, blurred, unseen>>
vars == <<product, variant, row, line, order, edit, history>>

(* When the product was read: seen, the column; matched, the variants      *)
(* whose codes were sent                                                   *)
Edit == [pc : {"idle", "update", "remove", "removeVariant"},
         product : Products \cup {None}, variant : VariantIds \cup {None},
         seen : Int \cup {None}, matched : SUBSET Variant,
         stock : Nat \cup {None}, form : Form \cup {None}]

Idle == [pc |-> "idle", product |-> None, variant |-> None, seen |-> None, matched |-> {},
         stock |-> None, form |-> None]

OnSale(p) == product[p] \notin {None, Deleted}
IsVariant(v) == variant[v] \notin {None, Deleted}
VariantsOf(p) == {v \in VariantIds : IsVariant(v) /\ variant[v].product = p}
IsLine(l) == line[l] \notin {None, Deleted}
RowsFor(v) == {p \in Products : row[p] # None /\ row[p].variant = v}
NewRow(v, s) == [variant |-> v, stock |-> s, reserved |-> 0]

EditAllowed == edits < MaxEdits /\ edits' = edits + 1

-----------------------------------------------------------------------------
(* Ids for the variants of a form, and the table with them in place of     *)
(* those of p.  The code of a variant is sent, or generated from the       *)
(* product's and the variant's name; one that another product has makes    *)
(* the insert fail.                                                        *)

Fresh == {v \in VariantIds : variant[v] = None}

Numberings(f) == {n \in [DOMAIN f -> Fresh] : \A s, t \in DOMAIN f : n[s] = n[t] => s = t}

Taken(p) == {variant[v].sku : v \in {w \in VariantIds : IsVariant(w)} \ VariantsOf(p)}

WithVariants(p, f, n) == [v \in VariantIds |->
    IF v \in VariantsOf(p) THEN Deleted
    ELSE IF \E s \in DOMAIN f : n[s] = v
      THEN LET s == CHOOSE s \in DOMAIN f : n[s] = v
           IN  [product |-> p, sku |-> s, stock |-> f[s]]
    ELSE variant[v]]

(* What named one of the variants in gone                                  *)
Unnamed(x, gone) == IF x.variant \in gone THEN [x EXCEPT !.variant = None] ELSE x

ForgetVariants(gone) ==
    /\ line' = [l \in LineIds |-> IF IsLine(l) THEN Unnamed(line[l], gone) ELSE line[l]]
    /\ order' = [o \in OrderIds |-> IF order[o] = None THEN None ELSE Unnamed(order[o], gone)]

-----------------------------------------------------------------------------
(* create: one transaction.  A row of inventory is made for the product    *)
(* when it has stock and for each variant whose code was sent and that has *)
(* stock; but there can be only one row for a product.                     *)
Create(p, s, f, sent) ==
    LET stocked == {k \in sent : f[k] > 0}
    IN  /\ product[p] = None
        /\ EditAllowed
        /\ Cardinality(stocked) + (IF s > 0 THEN 1 ELSE 0) <= 1
        /\ DOMAIN f \cap Taken(p) = {}
        /\ \E n \in Numberings(f) :
              /\ variant' = WithVariants(p, f, n)
              /\ row' = IF s > 0 THEN [row EXCEPT ![p] = NewRow(None, s)]
                        ELSE IF stocked # {}
                          THEN [row EXCEPT ![p] = NewRow(n[CHOOSE k \in stocked : TRUE],
                                                         f[CHOOSE k \in stocked : TRUE])]
                        ELSE row
        /\ product' = [product EXCEPT ![p] = s]
        /\ blurred' = IF stocked # {} THEN blurred \cup {p} ELSE blurred
        /\ UNCHANGED <<line, order, edit, moved, unseen>>

-----------------------------------------------------------------------------
(* update: the product is read, then one transaction writes it.            *)

(* A variant is matched by the code that was sent: one whose code is       *)
(* generated is compared with none, even when it had that code before.     *)
Matched(p, sent) == {x \in {variant[v] : v \in VariantsOf(p)} : x.sku \in sent}

UpdateRead(e, p, s, f, sent) ==
    /\ edit[e] = Idle /\ OnSale(p)
    /\ EditAllowed
    /\ edit' = [edit EXCEPT ![e] = [Idle EXCEPT !.pc = "update", !.product = p,
          !.seen = product[p], !.matched = Matched(p, sent),
          !.stock = s, !.form = f]]
    /\ UNCHANGED <<product, variant, row, line, order, moved, blurred, unseen>>

(* If the stock of a variant that is matched has changed, the sync with    *)
(* the inventory looks for the row of the id that the transaction has just *)
(* deleted, finds none and inserts one, which the keys of the table        *)
(* refuse: the whole edit fails.                                           *)
NoVariantStockChanged(q) == \A x \in q.matched : x.stock = q.form[x.sku]

StockChanged(q) == q.stock # None /\ q.stock # q.seen

Fail(e) ==
    /\ edit' = [edit EXCEPT ![e] = Idle]
    /\ UNCHANGED <<product, variant, row, line, order, history>>

(* Mutant: a changed stock is written to the product only.                 *)
UnsyncedRow(q, r) == IF r = None /\ StockChanged(q) THEN NewRow(None, q.stock) ELSE r

(* The row of p after the write, whichever sku it counted                  *)
SyncedRow(q, r) ==
    IF ~StockChanged(q) THEN r
    ELSE IF r = None THEN NewRow(None, q.stock)
    ELSE [r EXCEPT !.stock = q.stock]

Commit(e) ==
    LET q == edit[e]
        p == q.product
        gone == IF q.form = None THEN {} ELSE VariantsOf(p)
    IN  /\ product' = IF q.stock = None THEN product ELSE [product EXCEPT ![p] = q.stock]
        /\ row' = [row EXCEPT ![p] =
              SyncedRow(q, IF row[p] = None THEN None ELSE Unnamed(row[p], gone))]
        /\ IF q.form = None THEN UNCHANGED variant
           ELSE \E n \in Numberings(q.form) : variant' = WithVariants(p, q.form, n)
        /\ ForgetVariants(gone)
        /\ moved' = IF StockChanged(q) THEN [moved EXCEPT ![p] = 0] ELSE moved
        /\ blurred' = IF q.stock = q.seen /\ q.seen # product[p] THEN blurred \cup {p}
                      ELSE blurred
        /\ edit' = [edit EXCEPT ![e] = Idle]
        /\ UNCHANGED <<edits, unseen>>

(* Mutant: the stock of the variants is not compared.                      *)
UpdateUncompared(e) ==
    LET q == edit[e]
    IN  /\ q.pc = "update"
        /\ \/ /\ OnSale(q.product)
              /\ q.form # None => DOMAIN q.form \cap Taken(q.product) = {}
              /\ Commit(e)
           \/ /\ ~OnSale(q.product)
              /\ Fail(e)

UpdateWrite(e) ==
    LET q == edit[e]
    IN  /\ q.pc = "update"
        /\ \/ /\ OnSale(q.product) /\ NoVariantStockChanged(q)
              /\ q.form # None => DOMAIN q.form \cap Taken(q.product) = {}
              /\ Commit(e)
           \/ /\ \/ ~OnSale(q.product) \/ ~NoVariantStockChanged(q)
                 \/ q.form # None /\ DOMAIN q.form \cap Taken(q.product) # {}
              /\ Fail(e)

-----------------------------------------------------------------------------
(* remove: refused when the product was ever ordered; then a transaction   *)
(* deletes it with all that is filed under it.  The items of an order that *)
(* was placed in between keep no product.                                  *)

(* Mutant: the orders of the product are not counted.                      *)
RemoveUncounted(e, p) ==
    /\ edit[e] = Idle /\ OnSale(p)
    /\ EditAllowed
    /\ edit' = [edit EXCEPT ![e] = [Idle EXCEPT !.pc = "remove", !.product = p]]
    /\ UNCHANGED <<product, variant, row, line, order, moved, blurred, unseen>>

RemoveCount(e, p) ==
    /\ edit[e] = Idle /\ OnSale(p)
    /\ EditAllowed
    /\ \A o \in OrderIds : order[o] # None => order[o].product # p
    /\ edit' = [edit EXCEPT ![e] = [Idle EXCEPT !.pc = "remove", !.product = p]]
    /\ UNCHANGED <<product, variant, row, line, order, moved, blurred, unseen>>

RemoveWrite(e) ==
    LET p == edit[e].product
    IN  /\ edit[e].pc = "remove"
        /\ IF ~OnSale(p) THEN Fail(e)
           ELSE /\ product' = [product EXCEPT ![p] = Deleted]
                /\ variant' = [v \in VariantIds |->
                      IF v \in VariantsOf(p) THEN Deleted ELSE variant[v]]
                /\ row' = [row EXCEPT ![p] = None]
                /\ line' = [l \in LineIds |->
                      IF IsLine(l) /\ line[l].product = p THEN Deleted ELSE line[l]]
                /\ order' = [o \in OrderIds |->
                      IF order[o] # None /\ order[o].product = p
                        THEN [order[o] EXCEPT !.product = None, !.variant = None]
                        ELSE order[o]]
                /\ edit' = [edit EXCEPT ![e] = Idle]
                /\ UNCHANGED history

-----------------------------------------------------------------------------
(* addVariants makes no row of inventory; removeVariant, like remove,      *)
(* counts the orders first.                                                *)

AddVariant(p, v, k, s) ==
    /\ OnSale(p) /\ v \in Fresh
    /\ \A w \in VariantIds : IsVariant(w) => variant[w].sku # k
    /\ EditAllowed
    /\ variant' = [variant EXCEPT ![v] = [product |-> p, sku |-> k, stock |-> s]]
    /\ UNCHANGED <<product, row, line, order, edit, moved, blurred, unseen>>

RemoveVariantCount(e, v) ==
    /\ edit[e] = Idle /\ IsVariant(v)
    /\ EditAllowed
    /\ \A o \in OrderIds : order[o] # None => order[o].variant # v
    /\ edit' = [edit EXCEPT ![e] = [Idle EXCEPT !.pc = "removeVariant", !.variant = v]]
    /\ UNCHANGED <<product, variant, row, line, order, moved, blurred, unseen>>

RemoveVariantWrite(e) ==
    LET v == edit[e].variant
    IN  /\ edit[e].pc = "removeVariant"
        /\ IF ~IsVariant(v) THEN Fail(e)
           ELSE /\ variant' = [variant EXCEPT ![v] = Deleted]
                /\ row' = [p \in Products |->
                      IF row[p] = None THEN None ELSE Unnamed(row[p], {v})]
                /\ ForgetVariants({v})
                /\ edit' = [edit EXCEPT ![e] = Idle]
                /\ UNCHANGED <<product, edits, moved, blurred, unseen>>

-----------------------------------------------------------------------------
(* Shoppers.  CartsService.addToCart makes the row that is missing;        *)
(* OrdersService.create takes the unit from the row alone, and cancel      *)
(* returns it to the column alone (see Orders).                            *)

Found(p, v) == IF v = None THEN (IF row[p] = None THEN {} ELSE {p}) ELSE RowsFor(v)

OffersVariant(p, v) == OnSale(p) /\ (v # None => IsVariant(v) /\ variant[v].product = p)

Available(r) == r.stock - r.reserved

AddToCart(l, p, v) ==
    LET made == NewRow(v, IF v = None THEN product[p] ELSE variant[v].stock)
    IN  /\ line[l] = None /\ OffersVariant(p, v)
        /\ IF Found(p, v) = {}
             THEN /\ row[p] = None /\ Available(made) >= 1
                  /\ row' = [row EXCEPT ![p] = made]
                  /\ moved' = [moved EXCEPT ![p] = 0]
                  /\ blurred' = IF v = None THEN blurred ELSE blurred \cup {p}
             ELSE /\ \A x \in Found(p, v) : Available(row[x]) >= 1
                  /\ UNCHANGED <<row, moved, blurred>>
        /\ line' = [line EXCEPT ![l] = [product |-> p, variant |-> v]]
        /\ UNCHANGED <<product, variant, order, edit, edits, unseen>>

(* The cart of the buyer loses the lines that name what was ordered.       *)
Place(o, p, v) ==
    /\ order[o] = None /\ OffersVariant(p, v)
    /\ \E x \in Found(p, v) :
          /\ Available(row[x]) >= 1
          /\ row' = [row EXCEPT ![x] = [row[x] EXCEPT !.stock = row[x].stock - 1,
                                                      !.reserved = row[x].reserved - 1]]
          /\ moved' = [moved EXCEPT ![x] = moved[x] + 1]
    /\ order' = [order EXCEPT ![o] = [product |-> p, variant |-> v, cancelled |-> FALSE]]
    /\ line' = [l \in LineIds |->
          IF IsLine(l) /\ line[l].product = p /\ line[l].variant \in {None, v}
            THEN Deleted ELSE line[l]]
    /\ unseen' = IF \E e \in Editors : edit[e].pc = "remove" /\ edit[e].product = p
                   THEN unseen \cup {o} ELSE unseen
    /\ UNCHANGED <<product, variant, edit, edits, blurred>>

Cancel(o) ==
    LET v == order[o].variant
        p == order[o].product
    IN  /\ order[o] # None /\ ~order[o].cancelled
        /\ order' = [order EXCEPT ![o] = [order[o] EXCEPT !.cancelled = TRUE]]
        /\ IF v # None
             THEN /\ variant' = [variant EXCEPT ![v] =
                        [variant[v] EXCEPT !.stock = variant[v].stock + 1]]
                  /\ UNCHANGED <<product, moved>>
             ELSE IF p # None
               THEN /\ product' = [product EXCEPT ![p] = product[p] + 1]
                    /\ moved' = [moved EXCEPT ![p] = moved[p] + 1]
                    /\ UNCHANGED variant
               ELSE UNCHANGED <<product, variant, moved>>
        /\ UNCHANGED <<row, line, edit, edits, blurred, unseen>>

Init ==
    /\ product = [p \in Products |-> None]
    /\ variant = [v \in VariantIds |-> None]
    /\ row = [p \in Products |-> None]
    /\ line = [l \in LineIds |-> None]
    /\ order = [o \in OrderIds |-> None]
    /\ edit = [e \in Editors |-> Idle]
    /\ edits = 0
    /\ moved = [p \in Products |-> 0]
    /\ blurred = {} /\ unseen = {}

VariantsNext ==
    \/ \E p \in Products, v \in VariantIds, k \in Skus, s \in Stocks : AddVariant(p, v, k, s)
    \/ \E e \in Editors :
          \/ \E v \in VariantIds : RemoveVariantCount(e, v)
          \/ RemoveVariantWrite(e)

Next ==
    \/ VariantsNext
    \/ \E p \in Products :
          \/ \E s \in Stocks, f \in Form : \E sent \in SUBSET DOMAIN f : Create(p, s, f, sent)
          \/ \E e \in Editors :
                \/ \E s \in Stocks \cup {None} :
                      \/ UpdateRead(e, p, s, None, {})
                      \/ \E f \in Form : \E sent \in SUBSET DOMAIN f : UpdateRead(e, p, s, f, sent)
                \/ RemoveCount(e, p)
          \/ \E v \in VariantIds \cup {None} :
                \/ \E l \in LineIds : AddToCart(l, p, v)
                \/ \E o \in OrderIds : Place(o, p, v)
    \/ \E e \in Editors : UpdateWrite(e) \/ RemoveWrite(e)
    \/ \E o \in OrderIds : Cancel(o)

Spec == Init /\ [][Next]_vars

-----------------------------------------------------------------------------
TypeOK ==
    /\ product \in [Products -> Int \cup {None, Deleted}]
    /\ variant \in [VariantIds -> Variant \cup {None, Deleted}]
    /\ row \in [Products -> Row \cup {None}]
    /\ line \in [LineIds -> Line \cup {None, Deleted}]
    /\ order \in [OrderIds -> Order \cup {None}]
    /\ edit \in [Editors -> Edit]
    /\ edits \in Nat /\ moved \in [Products -> Int]
    /\ blurred \subseteq Products /\ unseen \subseteq OrderIds

(* The stock shown with a product exceeds what the inventory holds by just *)
(* the units sold and returned since the two were last written together:   *)
(* a sale lowers only the one and a return raises only the other.  This    *)
(* breaks when the row counts a variant, which update() overwrites with    *)
(* the product's stock, or keeps for the product once the variant is gone; *)
(* and when a form holds the stock of before another edit (products.       *)
(* service.ts:627): the column is written back, the row is not.            *)
ColumnAheadBySales ==
    \A p \in Products \ blurred :
        OnSale(p) /\ row[p] # None => product[p] = row[p].stock + moved[p]

(* An edit keeps the stock of the variants it keeps, whatever its form     *)
(* says: one that changes it fails (products.service.ts:915), unless it    *)
(* read the variants before another edit replaced them, or its form did    *)
(* not send the variant's code, which was generated again: then the stock  *)
(* is overwritten, and the inventory never hears of it.                    *)
VariantStockSurvivesEdit ==
    [][\A v, w \in VariantIds :
          /\ IsVariant(v) /\ variant'[v] = Deleted
          /\ variant[w] = None /\ variant'[w] # None
          /\ variant[v].sku = variant'[w].sku
          => \/ variant[v].stock = variant'[w].stock
             \/ \E e \in Editors : edit[e] # edit'[e] /\ variant[v] \notin edit[e].matched]_vars

(* An order loses its product only if it was placed between the two steps  *)
(* of its removal.                                                         *)
OrderedProductKept ==
    \A o \in OrderIds \ unseen : order[o] # None => order[o].product # None
=============================================================================
