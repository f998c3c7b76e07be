-------------------------- MODULE InventoryService --------------------------
(***************************************************************************)
(* InventoryService (src/modules/inventory/inventory.service.ts): restocks *)
(* and corrections of the stock.                                           *)
(*                                                                         *)
(* createLog() and update() are sequences of independent statements: they  *)
(* compute the new stock from a row read earlier and write it as it is.    *)
(* updateInventory() (POST /update) and addStock() (POST /add) increment   *)
(* the row inside a transaction; the former has read, when the sku had no  *)
(* row, the mirror it starts the new row from.                             *)
(***************************************************************************)
EXTENDS ShopTables

CONSTANTS
    Updates,     \* createLog, update and updateInventory calls in flight together
    Deltas,      \* quantities that a log or an increment may ask for
    Targets,     \* stock quantities that an update may ask for
    Reserves,    \* reserved quantities that an update may ask for
    MaxUpdates   \* bound: calls of the service in a behaviour

ASSUME InventoryAssumption ==
    /\ Deltas \subseteq Int /\ Targets \cup Reserves \subseteq Nat /\ MaxUpdates \in Nat
    /\ None \notin Int

VARIABLES
    upd,      \* upd[c]: the call served by c
    logged,   \* logged[k]: sum of quantityChanged in the logs of k this service wrote
    blurred,  \* history: products whose row a call wrote otherwise than by
              \* adding what it logged to the stock of the time
    started   \* calls started so far

inventoryVars == <<upd, logged, blurred, started>>

UpdateStage == {"idle", "set", "log", "read", "write", "sync", "final", "create"}

(* sku is what the call is about and product where a row would be filed;   *)
(* delta is the quantity logged; target and reserve what an update asks    *)
(* for, None when it does not; seen the stock of the row when read, None   *)
(* when there was no row; local the value computed, to be written.         *)
Update == [pc : UpdateStage, sku : Skus \cup {None}, product : Products \cup {None},
           delta : Int, target : Int \cup {None}, reserve : Nat \cup {None},
           seen : Int \cup {None}, local : Int, setting : BOOLEAN]

NoUpdate == [pc |-> "idle", sku |-> None, product |-> None, delta |-> 0, target |-> None,
             reserve |-> None, seen |-> None, local |-> 0, setting |-> FALSE]

StockSeen(k) == IF HasRow(k) THEN inventory[RowOf(k)].stock ELSE None

(* Mutant: no clamp.                                                       *)
Unclamped(n) == n

AtLeastZero(n) == IF n < 0 THEN 0 ELSE n

Start == started < MaxUpdates /\ started' = started + 1

Blur(c) ==
    LET k == upd[c].sku
    IN  IF HasRow(k) THEN blurred \cup {RowOf(k)} ELSE blurred

-----------------------------------------------------------------------------
(* createLog: log the change; read the row; write the stock, never below   *)
(* zero; copy the value written to the mirror.                             *)

CreateLog(c, k, d) ==
    /\ upd[c] = NoUpdate /\ Start
    /\ logged' = [logged EXCEPT ![k] = @ + d]
    /\ upd' = [upd EXCEPT ![c] = [NoUpdate EXCEPT !.pc = "read", !.sku = k,
                                     !.product = ProductOf(k), !.delta = d]]
    /\ UNCHANGED <<tables, blurred>>

LogRead(c) ==
    LET s == StockSeen(upd[c].sku)
    IN  /\ upd[c].pc = "read"
        /\ upd' = [upd EXCEPT ![c].pc = "write", ![c].seen = s,
                      ![c].local = AtLeastZero(upd[c].delta + (IF s = None THEN 0 ELSE s))]
        /\ UNCHANGED <<tables, logged, blurred, started>>

(* The write is exact when it adds to the stock of this moment *)
Exact(q) == q.seen # None /\ q.local = inventory[RowOf(q.sku)].stock + q.delta

LogWrite(c) ==
    LET q == upd[c]
    IN  /\ q.pc = "write"
        /\ q.seen = None => RowInsertable(q.product, q.sku)
        /\ inventory' = IF q.seen = None
                          THEN [inventory EXCEPT ![q.product] = NewRow(q.sku, q.local, 0)]
                          ELSE [inventory EXCEPT ![RowOf(q.sku)].stock = q.local]
        /\ blurred' = IF Exact(q) THEN blurred ELSE Blur(c)
        /\ upd' = [upd EXCEPT ![c].pc = "sync"]
        /\ UNCHANGED <<mirror, lines, orders, logged, started>>

LogSync(c) ==
    /\ upd[c].pc = "sync"
    /\ mirror' = [mirror EXCEPT ![upd[c].sku] = upd[c].local]
    /\ upd' = [upd EXCEPT ![c] = IF upd[c].setting THEN [@ EXCEPT !.pc = "final"] ELSE NoUpdate]
    /\ UNCHANGED <<inventory, lines, orders, logged, blurred, started>>

-----------------------------------------------------------------------------
(* update and updateVariant: read the row; write the stock asked for; when *)
(* it differs from the stock read, createLog the difference, which adds it *)
(* to the row once more; copy the stock asked for to the mirror.           *)

SetRead(c, k, s, n) ==
    /\ upd[c] = NoUpdate /\ Start
    /\ upd' = [upd EXCEPT ![c] = [NoUpdate EXCEPT !.pc = "set", !.sku = k, !.setting = TRUE,
                    !.product = ProductOf(k), !.target = s, !.reserve = n, !.seen = StockSeen(k),
                    !.delta = IF s = None THEN 0
                              ELSE IF HasRow(k) THEN s - StockSeen(k) ELSE s]]
    /\ UNCHANGED <<tables, logged, blurred>>

SetWrite(c) ==
    LET q == upd[c]
        after == IF q.target # None THEN q.target
                 ELSE IF q.seen = None THEN 0 ELSE StockSeen(q.sku)
    IN  /\ q.pc = "set"
        /\ q.seen = None => RowInsertable(q.product, q.sku)
        /\ inventory' = IF q.seen = None
                          THEN [inventory EXCEPT ![q.product] =
                                   NewRow(q.sku, after, IF q.reserve = None THEN 0 ELSE q.reserve)]
                          ELSE [inventory EXCEPT ![RowOf(q.sku)].stock = after,
                                   ![RowOf(q.sku)].reserved = IF q.reserve = None THEN @
                                                              ELSE q.reserve]
        /\ blurred' = IF q.target = None THEN blurred ELSE Blur(c)
        /\ upd' = [upd EXCEPT ![c].pc = IF q.delta = 0 THEN "final" ELSE "log",
                              ![c].target = after]
        /\ UNCHANGED <<mirror, lines, orders, logged, started>>

SetLog(c) ==
    /\ upd[c].pc = "log"
    /\ logged' = [logged EXCEPT ![upd[c].sku] = @ + upd[c].delta]
    /\ upd' = [upd EXCEPT ![c].pc = "read"]
    /\ UNCHANGED <<tables, blurred, started>>

SetFinal(c) ==
    /\ upd[c].pc = "final"
    /\ mirror' = [mirror EXCEPT ![upd[c].sku] = upd[c].target]
    /\ upd' = [upd EXCEPT ![c] = NoUpdate]
    /\ UNCHANGED <<inventory, lines, orders, logged, blurred, started>>

-----------------------------------------------------------------------------
(* updateInventory: a row that exists and the mirror are incremented       *)
(* together.  Otherwise a row is filed under the product named in the      *)
(* request, which need not be the variant's.                               *)

Increment(k, d) ==
    /\ HasRow(k) /\ Start
    /\ inventory' = [inventory EXCEPT ![RowOf(k)].stock = @ + d]
    /\ mirror' = [mirror EXCEPT ![k] = @ + d]
    /\ logged' = [logged EXCEPT ![k] = @ + d]
    /\ UNCHANGED <<lines, orders, upd, blurred>>

CreateRead(c, p, k, d) ==
    /\ upd[c] = NoUpdate /\ ~HasRow(k) /\ Start
    /\ k \in Products => p = k
    /\ upd' = [upd EXCEPT ![c] = [NoUpdate EXCEPT !.pc = "create", !.sku = k, !.product = p,
                                     !.delta = d, !.local = mirror[k] + d]]
    /\ UNCHANGED <<tables, logged, blurred>>

CreateCommit(c) ==
    LET q == upd[c]
    IN  /\ q.pc = "create"
        /\ RowInsertable(q.product, q.sku)
        /\ inventory' = [inventory EXCEPT ![q.product] = NewRow(q.sku, q.local, 0)]
        /\ mirror' = [mirror EXCEPT ![q.sku] = @ + q.delta]
        /\ logged' = [logged EXCEPT ![q.sku] = @ + q.delta]
        /\ upd' = [upd EXCEPT ![c] = NoUpdate]
        /\ UNCHANGED <<lines, orders, blurred, started>>

(* Mutant: the stock added replaces that of the row.                       *)
ReplaceStock(p, d) ==
    /\ d >= 1 /\ Start
    /\ inventory' = IF HasRow(p) THEN [inventory EXCEPT ![p].stock = d]
                    ELSE [inventory EXCEPT ![p] = NewRow(p, d, 0)]
    /\ logged' = [logged EXCEPT ![p] = @ + d]
    /\ UNCHANGED <<mirror, lines, orders, upd, blurred>>

(* addStock of a product: the row is created or incremented, the mirror is *)
(* left alone.  With a variant, building the reply fails and the           *)
(* transaction is rolled back.                                             *)
AddStock(p, d) ==
    /\ d >= 1 /\ Start
    /\ inventory' = IF HasRow(p) THEN [inventory EXCEPT ![p].stock = @ + d]
                    ELSE [inventory EXCEPT ![p] = NewRow(p, d, 0)]
    /\ logged' = [logged EXCEPT ![p] = @ + d]
    /\ UNCHANGED <<mirror, lines, orders, upd, blurred>>

(* The server dies, or a statement fails: always when a row cannot be      *)
(* inserted any more.  What was logged stays logged.                       *)
AbandonUpdate(c) ==
    /\ upd[c] # NoUpdate
    /\ blurred' = IF upd[c].pc \in {"read", "write"} THEN Blur(c) ELSE blurred
    /\ upd' = [upd EXCEPT ![c] = NoUpdate]
    /\ UNCHANGED <<tables, logged, started>>

-----------------------------------------------------------------------------
(* What the shop is shown of a sku: getProductInventory,                   *)
(* getVariantInventory and the availability made of them.                  *)

AvailableQuantity(k) ==
    IF HasRow(k) THEN Available(inventory[RowOf(k)]) ELSE mirror[k]

StockStatus(k) ==
    CASE AvailableQuantity(k) <= 0      -> "OUT_OF_STOCK"
      [] AvailableQuantity(k) \in 1 .. 4 -> "LOW_STOCK"
      [] OTHER                          -> "IN_STOCK"

-----------------------------------------------------------------------------
InventoryInit ==
    /\ upd = [c \in Updates |-> NoUpdate]
    /\ logged = [k \in Skus |-> 0]
    /\ blurred = {}
    /\ started = 0

(* POST /logs and the two endpoints that restock, which log a RESTOCK.     *)
RestockNext ==
    \E c \in Updates :
        \/ \E k \in Skus, d \in Deltas : CreateLog(c, k, d)
        \/ LogRead(c) \/ LogWrite(c) \/ LogSync(c)

(* PATCH of the inventory of a product or of a variant.                    *)
SetNext ==
    \E c \in Updates :
        \/ \E k \in Skus, s \in Targets \cup {None}, n \in Reserves \cup {None} : SetRead(c, k, s, n)
        \/ SetWrite(c) \/ SetLog(c) \/ SetFinal(c)

(* POST /update and POST /add; and any request may fail.                   *)
InventoryNext ==
    \/ RestockNext \/ SetNext
    \/ \E k \in Skus, d \in Deltas \ {0} :
          \/ Increment(k, d)
          \/ \E c \in Updates, p \in Products : CreateRead(c, p, k, d)
    \/ \E p \in Products, d \in Deltas : AddStock(p, d)
    \/ \E c \in Updates : CreateCommit(c) \/ AbandonUpdate(c)

InventoryTypeOK ==
    /\ upd \in [Updates -> Update]
    /\ logged \in [Skus -> Int]
    /\ blurred \subseteq Products
    /\ started \in Nat
=============================================================================
