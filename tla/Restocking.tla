----------------------------- MODULE Restocking -----------------------------
(***************************************************************************)
(* The shop of Storefront with the inventory service open: restocks and    *)
(* corrections of the stock (InventoryService) while orders are placed     *)
(* (OrdersService.create) and cart lines reserve and expire.  They write   *)
(* the same inventory row, the first mostly without a transaction, the     *)
(* others inside a Serializable one, which protects it from other          *)
(* Serializable ones only.                                                 *)
(***************************************************************************)
EXTENDS Storefront, InventoryService

ASSUME RestockingAssumption == IsFiniteSet(Updates) /\ IsFiniteSet(Skus)

restockingVars == <<vars, inventoryVars>>

RestockingInit == Init /\ InventoryInit

RestockingNext ==
    \/ Next          /\ UNCHANGED inventoryVars
    \/ InventoryNext /\ UNCHANGED <<orderVars, cart, cleanupVars>>

RestockingSpec == RestockingInit /\ [][RestockingNext]_restockingVars

-----------------------------------------------------------------------------
RestockingTypeOK == TypeOK /\ InventoryTypeOK

(* What createLog has logged and not yet added to the row, and what the    *)
(* logs say of the skus of the row                                         *)
Unapplied(p) == [c \in Updates |->
    IF upd[c].pc \in {"read", "write"} /\ IsRowOf(p, upd[c].sku) THEN upd[c].delta ELSE 0]

LoggedFor(p) == [k \in Skus |-> IF IsRowOf(p, k) THEN logged[k] ELSE 0]

(* The row of a product holds its opening stock, plus what the logs say,   *)
(* less what was ordered, up to the logs that a call has written and not   *)
(* yet applied; unless the row was set by update(), clamped at zero, or    *)
(* written from a stock that another request had changed since it was read *)
(* (createLog, inventory.service.ts:598), or a call stopped half way.      *)
StockMatchesLedger ==
    \A p \in Stocked \ blurred :
        inventory[p].stock + SumFunction(Unapplied(p))
          = InitStock[p] + SumFunction(LoggedFor(p)) - SumFunction(Taken(p))

(* "Don't allow negative stock" (inventory.service.ts:570): no log takes a *)
(* row below zero, whatever is written between its read and its write;     *)
(* orders and the raw increments of POST /update do.                       *)
NegativeOnlyBySaleOrIncrement ==
    [][\A p \in Products :
          inventory[p] # None /\ inventory'[p].stock < 0
              /\ inventory'[p].stock < inventory[p].stock
          => orders' # orders \/ (started' # started /\ upd' = upd)]_restockingVars

(* "Returns real-time availability" (inventory.controller.ts:368): but a   *)
(* sale takes its units from the stock and from what is reserved alike, so *)
(* the status shown of a sku with a row gets worse by a call of the        *)
(* inventory service only, however many units are ordered.                 *)
Worse(before, after) ==
    \/ before = "IN_STOCK" /\ after # "IN_STOCK"
    \/ before = "LOW_STOCK" /\ after = "OUT_OF_STOCK"

StatusWorsensOnlyByInventory ==
    [][\A k \in Skus : HasRow(k) /\ Worse(StockStatus(k), StockStatus(k)')
          => upd' # upd \/ started' # started]_restockingVars
=============================================================================
