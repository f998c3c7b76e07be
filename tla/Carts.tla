------------------------------- MODULE Carts --------------------------------
(***************************************************************************)
(* CartsService (src/modules/carts/carts.service.ts).                      *)
(*                                                                         *)
(* addToCart is one Serializable transaction and the deletions are single  *)
(* statements: one step each.  updateCartItem reads the line before its    *)
(* transaction, and mergeAnonymousCart runs Read Committed, so that what   *)
(* it read may be overwritten before it commits: two steps each.  No       *)
(* operation of the service changes reservedQuantity: the statements that  *)
(* did are commented out in the code.                                      *)
(***************************************************************************)
EXTENDS ShopTables

CONSTANTS
    CartCalls,   \* updateCartItem and mergeAnonymousCart calls in flight together
    MaxLineQty,  \* bound: units in one cart line, and in one request
    MaxInStock   \* bound: units available of a sku that is still added to carts

ASSUME CartsAssumption == MaxLineQty \in Nat /\ MaxInStock \in Nat

VARIABLE cart   \* cart[c]: the call served by c

CartCall == [pc : {"idle", "update", "merge"},
             user : Users \cup {None},
             line : LineIds \cup {None},        \* updateCartItem: the line
             seen : Int,                        \* ... and its quantity when read
             stock : Int,                       \* ... and the mirror of its sku when read
             want : Nat,                        \* ... and the quantity asked for
             found : [Skus -> LineIds \cup {None}],   \* merge: the line found for a sku
             write : [Skus -> Int]]             \* merge: quantity to write for it, or 0

NoCall == [pc |-> "idle", user |-> None, line |-> None, seen |-> 0, stock |-> 0, want |-> 0,
           found |-> [k \in Skus |-> None], write |-> [k \in Skus |-> 0]]

-----------------------------------------------------------------------------
(* addToCart: the row of the sku is created from the mirror when missing;  *)
(* the units added, not those already in the line, are checked.  Without a *)
(* variant the lookup leaves variantId undefined, so that it matches any   *)
(* line of the product, whatever its variant.                              *)

Matching(u, k) ==
    IF k \in Variants THEN LinesFor(u, k)
    ELSE {l \in LinesOf(u) : ProductOf(lines[l].sku) = k}

(* Inventory once the row of k exists; the guard is for the unique keys *)
WithRow(k) ==
    IF HasRow(k) THEN inventory
    ELSE [inventory EXCEPT ![ProductOf(k)] = NewRow(k, mirror[k], 0)]

InStock(k) == IF HasRow(k) THEN Available(inventory[RowOf(k)]) ELSE mirror[k]

(* The line: found, or inserted.                                           *)
(* Mutant: a line that is found is overwritten, not added to.              *)
Overwrite(u, k, n) ==
    IF Matching(u, k) # {}
      THEN \E l \in Matching(u, k) :
              lines' = [lines EXCEPT ![l] = [lines[l] EXCEPT !.quantity = n, !.expires = "held"]]
      ELSE \E l \in LineIds :
              /\ lines[l] = None
              /\ lines' = [lines EXCEPT ![l] =
                    [user |-> u, sku |-> k, quantity |-> n, expires |-> "held"]]

Put(u, k, n) ==
    IF Matching(u, k) # {}
      THEN \E l \in Matching(u, k) :
              /\ lines[l].quantity + n <= MaxLineQty
              /\ lines' = [lines EXCEPT ![l] =
                    [lines[l] EXCEPT !.quantity = @ + n, !.expires = "held"]]
      ELSE \E l \in LineIds :
              /\ lines[l] = None
              /\ lines' = [lines EXCEPT ![l] =
                    [user |-> u, sku |-> k, quantity |-> n, expires |-> "held"]]

AddToCart(u, k, n) ==
    /\ HasRow(k) \/ RowInsertable(ProductOf(k), k)
    /\ n <= InStock(k) /\ InStock(k) <= MaxInStock
    /\ inventory' = WithRow(k)
    /\ Put(u, k, n)
    /\ UNCHANGED <<mirror, orders, cart>>

-----------------------------------------------------------------------------
(* updateCartItem: the line is read first; the transaction checks the      *)
(* units against the row, crediting the quantity read, or without a row    *)
(* against the mirror read, and overwrites.                                *)

UpdateItemRead(c, l, n) ==
    /\ cart[c] = NoCall
    /\ IsLine(l)
    /\ cart' = [cart EXCEPT ![c] = [NoCall EXCEPT !.pc = "update", !.user = lines[l].user,
                     !.line = l, !.seen = lines[l].quantity, !.stock = mirror[lines[l].sku],
                     !.want = n]]
    /\ UNCHANGED tables

RoomFor(k, q) ==
    IF HasRow(k) THEN Available(inventory[RowOf(k)]) + q.seen ELSE q.stock

UpdateItemCommit(c) ==
    LET l == cart[c].line
    IN  /\ cart[c].pc = "update"
        /\ cart' = [cart EXCEPT ![c] = NoCall]
        /\ IF IsLine(l) /\ cart[c].want <= RoomFor(lines[l].sku, cart[c])
             THEN lines' = [lines EXCEPT ![l].quantity = cart[c].want]
             ELSE UNCHANGED lines
        /\ UNCHANGED <<inventory, mirror, orders>>

-----------------------------------------------------------------------------
(* removeCartItem and clearCart delete; the release is commented out.      *)

RemoveItem(l) ==
    /\ IsLine(l)
    /\ lines' = [lines EXCEPT ![l] = Deleted]
    /\ UNCHANGED <<inventory, mirror, orders, cart>>

ClearCart(u) ==
    /\ LinesOf(u) # {}
    /\ lines' = [l \in LineIds |-> IF l \in LinesOf(u) THEN Deleted ELSE lines[l]]
    /\ UNCHANGED <<inventory, mirror, orders, cart>>

-----------------------------------------------------------------------------
(* mergeAnonymousCart: an anonymous line of n[k] units is cut down to the  *)
(* mirror of k and dropped when nothing is left.  The others are added to  *)
(* the user's line for exactly k, or become a line without an expiry.      *)

Merged(n, k) == IF n[k] <= mirror[k] THEN n[k] ELSE mirror[k]

FoundLines(u, k) == IF LinesFor(u, k) = {} THEN {None} ELSE LinesFor(u, k)

MergeRead(c, u, n) ==
    /\ cart[c] = NoCall
    /\ \E k \in Skus : Merged(n, k) > 0
    /\ \E found \in [Skus -> LineIds \cup {None}] :
          /\ \A k \in Skus : IF Merged(n, k) > 0 THEN found[k] \in FoundLines(u, k)
                                               ELSE found[k] = None
          /\ LET write == [k \in Skus |->
                    IF Merged(n, k) <= 0 THEN 0
                    ELSE Merged(n, k) + (IF found[k] = None THEN 0
                                         ELSE lines[found[k]].quantity)]
             IN  /\ \A k \in Skus : write[k] <= MaxLineQty
                 /\ cart' = [cart EXCEPT ![c] = [NoCall EXCEPT !.pc = "merge", !.user = u,
                                 !.found = found, !.write = write]]
    /\ UNCHANGED tables

(* The commit fails, and nothing is merged, when a line found is gone or   *)
(* when a new line breaks the unique key (cart, product, variant); that    *)
(* key does not tell two lines without a variant apart.                    *)
Mergeable(q) ==
    \A k \in Skus : q.write[k] > 0 =>
        IF q.found[k] = None THEN k \in Variants => LinesFor(q.user, k) = {}
                             ELSE IsLine(q.found[k])

(* fresh gives an unused id to each sku that needs a new line *)
MergeCommit(c) ==
    LET q == cart[c]
        added == {k \in Skus : q.write[k] > 0 /\ q.found[k] = None}
    IN  /\ q.pc = "merge"
        /\ cart' = [cart EXCEPT ![c] = NoCall]
        /\ IF ~Mergeable(q) THEN UNCHANGED lines
           ELSE \E fresh \in [added -> {l \in LineIds : lines[l] = None}] :
                   /\ \A j, k \in added : fresh[j] = fresh[k] => j = k
                   /\ lines' = [l \in LineIds |->
                        IF \E k \in added : fresh[k] = l
                        THEN LET k == CHOOSE k \in added : fresh[k] = l
                             IN  [user |-> q.user, sku |-> k, quantity |-> q.write[k],
                                  expires |-> "none"]
                        ELSE IF \E k \in Skus : q.write[k] > 0 /\ q.found[k] = l
                        THEN LET k == CHOOSE k \in Skus : q.write[k] > 0 /\ q.found[k] = l
                             IN  [lines[l] EXCEPT !.quantity = q.write[k]]
                        ELSE lines[l]]
        /\ UNCHANGED <<inventory, mirror, orders>>

(* The server dies, or the transaction fails *)
AbandonCartCall(c) ==
    /\ cart[c] # NoCall
    /\ cart' = [cart EXCEPT ![c] = NoCall]
    /\ UNCHANGED tables

(* Half an hour passes for a line *)
Expire(l) ==
    /\ IsLine(l) /\ lines[l].expires = "held"
    /\ lines' = [lines EXCEPT ![l].expires = "expired"]
    /\ UNCHANGED <<inventory, mirror, orders, cart>>

-----------------------------------------------------------------------------
CartsInit ==
    /\ lines = [l \in LineIds |-> None]
    /\ cart = [c \in CartCalls |-> NoCall]

CartsNext ==
    \/ \E u \in Users, k \in Skus, n \in 1..MaxLineQty : AddToCart(u, k, n)
    \/ \E c \in CartCalls, l \in LineIds, n \in 1..MaxLineQty : UpdateItemRead(c, l, n)
    \/ \E c \in CartCalls : UpdateItemCommit(c)
    \/ \E l \in LineIds : RemoveItem(l)
    \/ \E u \in Users : ClearCart(u)
    \/ \E c \in CartCalls, u \in Users, n \in [Skus -> 0..MaxLineQty] : MergeRead(c, u, n)
    \/ \E c \in CartCalls : MergeCommit(c)
    \/ \E c \in CartCalls : AbandonCartCall(c)
    \/ \E l \in LineIds : Expire(l)

CartsTypeOK == cart \in [CartCalls -> CartCall]
=============================================================================
