----------------------------- MODULE Storefront -----------------------------
(***************************************************************************)
(* The shopping services on one database: carts, orders and the cleanup of *)
(* expired reservations, with their requests interleaved step by step.     *)
(* Stock is set up before the shop opens: the inventory service, which     *)
(* changes it later, has modules of its own (Restocking).                  *)
(***************************************************************************)
EXTENDS Orders, Carts, ReservationCleanup, FiniteSets, Functions

CONSTANTS
    InitStock,      \* units in stock of the products that have a row at the start
    InitMirror      \* stockQuantity of every product and variant at the start

ASSUME StorefrontAssumption ==
    /\ InitStock \in [DOMAIN InitStock -> Nat] /\ DOMAIN InitStock \subseteq Products
    /\ InitMirror \in [Skus -> Nat]
    /\ IsFiniteSet(OrderIds) /\ IsFiniteSet(Requests)

vars == <<tables, orderVars, cart, cleanupVars>>

Stocked == DOMAIN InitStock

Init ==
    /\ inventory = [p \in Products |->
          IF p \in Stocked THEN NewRow(p, InitStock[p], 0) ELSE None]
    /\ mirror = InitMirror
    /\ OrdersInit
    /\ CartsInit
    /\ CleanupInit

Next ==
    \/ OrdersNext  /\ UNCHANGED <<cart, cleanupVars>>
    \/ CartsNext   /\ UNCHANGED <<orderVars, cleanupVars>>
    \/ CleanupNext /\ UNCHANGED <<orderVars, cart>>

(* The cron keeps firing and a run that started goes on; no customer is    *)
(* obliged to do anything.                                                 *)
Fairness == \A i \in Crons : WF_vars(CleanupRun(i) /\ UNCHANGED <<orderVars, cart>>)

Spec == Init /\ [][Next]_vars /\ Fairness

-----------------------------------------------------------------------------
TypeOK == TablesOK /\ OrdersTypeOK /\ CartsTypeOK /\ CleanupTypeOK

(* Selling leaves what can be sold unchanged: an order lowers stock and    *)
(* reserved units alike (orders.service.ts:558) and neither carts nor      *)
(* cancellations touch reserved units, so that stock - reserved, which     *)
(* every availability check reads, never goes down while the shop is open; *)
(* it goes up only when a cleanup run releases an expired cart line.       *)
AvailabilityMovesOnlyByCleanup ==
    [][\A p \in Products : inventory[p] # None =>
          \/ Available(inventory'[p]) = Available(inventory[p])
          \/ todo' # todo /\ Available(inventory'[p]) > Available(inventory[p])]_vars

(* Units that the orders placed took from the row filed under p            *)
Taken(p) == [o \in OrderIds |->
    IF orders[o] = None THEN 0 ELSE UnitsFrom(orders[o].items, p)]

(* The stock of a product is what it had at the start less the units of    *)
(* every order ever placed on its row: no sale is lost or counted twice,   *)
(* and a cancelled order never gives its units back to the row that        *)
(* orders are checked against (restoreInventoryForOrder writes the mirror).*)
StockIsOpeningLessOrdered ==
    \A p \in Stocked : inventory[p].stock = InitStock[p] - SumFunction(Taken(p))

(* The RETURN logs of an order bracket its cancellations: every committed  *)
(* cancel() has logged all its units, whatever crashed, and no request     *)
(* logs an item that it did not void, nor logs it twice.                   *)
ReturnsBracketed ==
    \A o \in OrderIds, k \in Skus : orders[o] # None =>
        LET units == orders[o].items[k]
        IN  /\ cancels[o] * units <= returned[o][k]
            /\ returned[o][k] <= voids[o] * units

(* Units of k in the RETURN logs, and in the orders voided, by order       *)
Logged(k) == [o \in OrderIds |-> returned[o][k]]
Voided(k) == [o \in OrderIds |->
    IF orders[o] = None THEN 0 ELSE voids[o] * orders[o].items[k]]

(* The mirror of a sku holds its opening units, those of the RETURN logs,  *)
(* and those that a request put back and had not logged when it stopped or *)
(* that it is about to log: never fewer than the logs explain, never more  *)
(* than the voided orders account for.                                     *)
MirrorExplainedByReturns ==
    \A k \in Skus :
        /\ mirror[k] >= InitMirror[k] + SumFunction(Logged(k))
        /\ mirror[k] <= InitMirror[k] + SumFunction(Voided(k))

(* A delivered, cancelled or refunded order changes status only at the     *)
(* hands of a request that read it before it became so.                    *)
TerminalLeftOnlyByStaleRequest ==
    [][\A o \in OrderIds :
          orders[o] # None /\ orders[o].status \in Terminal
            /\ orders'[o].status # orders[o].status
          => \E r \in Requests : /\ req[r].order = o
                                 /\ req[r].pc \in {"write", "cancel"}
                                 /\ req[r].seen \notin Terminal]_vars

(* The units of a cart line go down only because its user asked for fewer  *)
(* (updateCartItem), or because a merge wrote a sum it had computed from a *)
(* quantity that another request has changed since.                        *)
LineFallsOnlyByUpdateOrStaleMerge ==
    [][\A l \in LineIds :
          IsLine(l) /\ IsLine(l)' /\ lines'[l].quantity < lines[l].quantity
          => \E c \in CartCalls :
                /\ cart'[c] = NoCall
                /\ \/ cart[c].pc = "update" /\ cart[c].line = l
                   \/ /\ cart[c].pc = "merge"
                      /\ cart[c].found[lines[l].sku] = l
                      /\ cart[c].write[lines[l].sku] < lines[l].quantity]_vars

(* No cart line keeps an expired reservation for ever, unless one of the   *)
(* expired lines is of a sku that has no inventory row, which makes every  *)
(* run that meets it fail.                                                 *)
NoRowToRelease == \E l \in ExpiredLines : ~HasRow(lines[l].sku)

ExpiredLinesReleased ==
    \A l \in LineIds : l \in ExpiredLines ~> (l \notin ExpiredLines \/ NoRowToRelease)

-----------------------------------------------------------------------------
(* What the repository says of the program and the code does not do: each  *)
(* is checked by a run that finds it violated.                             *)

(* "Set up proper inventory tracking to avoid overselling"                 *)
(* (docs/PRODUCT_MANAGEMENT_GUIDE.md:400): no more units are ordered than  *)
(* a row holds.                                                            *)
StockNeverNegative ==
    \A p \in Products : inventory[p] # None => inventory[p].stock >= 0
=============================================================================
