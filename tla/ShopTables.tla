----------------------------- MODULE ShopTables -----------------------------
(***************************************************************************)
(* The tables of prisma/schema.prisma that the shopping services share,    *)
(* with what the database itself enforces on them (unique keys).  A        *)
(* service module extends this one with its in-flight requests and its     *)
(* operations; Storefront composes the services on one set of tables.      *)
(*                                                                         *)
(* A "sku" is what a cart line or an order item names: a product, or one   *)
(* of its variants.  Two quantities are kept for it, in different tables:  *)
(*   inventory[p]  the row of table `inventory`: stock and reserved units. *)
(*                 productId is unique in that table, so a product has at  *)
(*                 most one row, which may carry one of its variants;      *)
(*   mirror[k]     the stockQuantity column of `products` (for a product)  *)
(*                 or of `product_variants` (for a variant).               *)
(***************************************************************************)
EXTENDS Integers

CONSTANTS
    Products,   \* ids of products
    Variants,   \* ids of product variants
    VariantOf,  \* VariantOf[v] is the product of variant v
    StoreOf,    \* StoreOf[p] is the store that sells product p
    Users,      \* ids of users
    LineIds,    \* ids of cart items
    OrderIds,   \* ids of orders
    None,       \* SQL NULL, and the absence of a row
    Deleted     \* a cart item that was deleted: its id is never used again

Skus == Products \cup Variants

ASSUME SkuAssumption ==
    /\ Products \cap Variants = {}
    /\ None \notin Skus \cup Users \cup LineIds
    /\ None # Deleted
    /\ VariantOf \in [Variants -> Products]

VARIABLES
    inventory,  \* inventory[p]: the inventory row filed under p, or None
    mirror,     \* mirror[k]: stockQuantity of the product or variant itself
    lines,      \* lines[l]: the cart item with id l, None before and Deleted after
    orders      \* orders[o]: the order with id o, or None

tables == <<inventory, mirror, lines, orders>>

ProductOf(k) == IF k \in Variants THEN VariantOf[k] ELSE k
VariantIn(k) == IF k \in Variants THEN k ELSE None

-----------------------------------------------------------------------------
(* Table inventory *)

Row == [variant : Variants \cup {None}, stock : Int, reserved : Int]

ASSUME RowAssumption == None \notin Row

(* findUnique by productId for a product, by variantId for a variant: the  *)
(* row of a product is found whatever variant it carries.                  *)
IsRowOf(p, k) ==
    /\ inventory[p] # None
    /\ k = p \/ (k \in Variants /\ inventory[p].variant = k)

RowsOf(k) == {p \in Products : IsRowOf(p, k)}
HasRow(k) == RowsOf(k) # {}
RowOf(k) == CHOOSE p \in Products : IsRowOf(p, k)

(* A row for k can be inserted under product p when neither unique key     *)
(* (productId, variantId) is taken.                                        *)
RowInsertable(p, k) ==
    /\ inventory[p] = None
    /\ k \in Variants => ~HasRow(k)

(* Mutant: the row is filed as the row of a variant whatever it is for.    *)
RowNamingSku(k, s, r) == [variant |-> k, stock |-> s, reserved |-> r]

NewRow(k, s, r) == [variant |-> VariantIn(k), stock |-> s, reserved |-> r]

Available(row) == row.stock - row.reserved

-----------------------------------------------------------------------------
(* Table cart_items: reservationExpires is null ("none"), in the future    *)
(* ("held") or in the past ("expired").                                    *)

Expiry == {"none", "held", "expired"}
Line == [user : Users, sku : Skus, quantity : Int, expires : Expiry]

ASSUME LineAssumption == None \notin Line /\ Deleted \notin Line

IsLine(l) == lines[l] \notin {None, Deleted}

LinesOf(u) == {l \in LineIds : IsLine(l) /\ lines[l].user = u}

(* The lines of u that name exactly sku k *)
LinesFor(u, k) == {l \in LinesOf(u) : lines[l].sku = k}

-----------------------------------------------------------------------------
(* Table orders with order_items: items[k] is the number of units of k in  *)
(* all the items of the order.                                             *)

OrderStatus == {"PENDING", "PROCESSING", "SHIPPED", "DELIVERED",
                "CANCELLED", "RETURNED", "REFUNDED"}

Order == [owner : Users \cup {None}, status : OrderStatus, items : [Skus -> Nat]]

ASSUME OrderAssumption == None \notin Order

(* Units of an order that were taken from the row filed under p *)
UnitsFrom(items, p) ==
    items[p] + (IF inventory[p].variant \in Variants
                  THEN items[inventory[p].variant] ELSE 0)

-----------------------------------------------------------------------------
TablesOK ==
    /\ inventory \in [Products -> Row \cup {None}]
    /\ mirror \in [Skus -> Int]
    /\ lines \in [LineIds -> Line \cup {None, Deleted}]
    /\ orders \in [OrderIds -> Order \cup {None}]
=============================================================================
