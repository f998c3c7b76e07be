------------------------------- MODULE Orders -------------------------------
(***************************************************************************)
(* OrdersService (src/modules/orders/orders.service.ts).                   *)
(*                                                                         *)
(* create() is one Serializable transaction, hence one step.  update() is  *)
(* a sequence of independent statements and cancel() reads before its      *)
(* transaction, so each is several steps of a request in flight: what a    *)
(* request read, it acts on later, when another request may have written.  *)
(* The server may die between two steps of a request; a transaction that   *)
(* has not committed then leaves nothing behind.                           *)
(***************************************************************************)
EXTENDS ShopTables, Sequences

CONSTANTS
    Requests,        \* update() and cancel() calls that can be in flight together
    UpdateStatuses,  \* statuses an update request may ask for
    CreateStatuses,  \* statuses a create request may ask for
    MaxQty,          \* bound: units in one item of an order
    MaxEntries,      \* bound: items of one order that name the same sku
    MaxTimeline,     \* bound: timeline entries of an order
    MaxVoids         \* bound: requests that void the same order

ASSUME OrdersAssumption ==
    /\ UpdateStatuses \subseteq OrderStatus /\ CreateStatuses \subseteq OrderStatus
    /\ MaxQty \in Nat /\ MaxEntries \in Nat /\ MaxTimeline \in Nat /\ MaxVoids \in Nat

VARIABLES
    req,       \* req[r]: the update() or cancel() call served by r
    timeline,  \* timeline[o]: statuses in table order_timeline, oldest first
    returned,  \* returned[o][k]: units of k in the RETURN logs noted with order o
    voids,     \* history: requests that wrote CANCELLED or RETURNED over another status
    cancels    \* history: transactions of cancel() committed for an order

orderVars == <<req, timeline, returned, voids, cancels>>

(* No update() and no cancel() once the order was read in one of these *)
Terminal == {"DELIVERED", "CANCELLED", "REFUNDED"}
(* update() to one of these puts the units back *)
Voiding == {"CANCELLED", "RETURNED"}

Stage == {"idle", "write", "restore", "log", "timeline", "cancel"}

Request == [pc : Stage,
            order : OrderIds \cup {None},
            seen : OrderStatus \cup {None},    \* status read at the start
            new : OrderStatus \cup {None},     \* status asked for
            pending : SUBSET Skus,             \* items still to be put back
            sku : Skus \cup {None}]            \* item put back, not yet logged

Idle == [pc |-> "idle", order |-> None, seen |-> None, new |-> None,
         pending |-> {}, sku |-> None]

SkusIn(o) == {k \in Skus : orders[o].items[k] > 0}

-----------------------------------------------------------------------------
(* create: n items of q[k] units for each sku k asked for.  Every item is  *)
(* checked on its own against the row as it was before the order; then     *)
(* each one lowers the stock AND the reserved units of its row.            *)

Sellable(k, n) == HasRow(k) /\ n <= Available(inventory[RowOf(k)])

SameStore(items) ==
    \A j, k \in Skus : items[j] > 0 /\ items[k] > 0
        => StoreOf[ProductOf(j)] = StoreOf[ProductOf(k)]

(* Mutant: only the reserved units are lowered.                            *)
SoldWithoutStock(items) ==
    [p \in Products |->
        IF inventory[p] = None THEN None
        ELSE [inventory[p] EXCEPT !.reserved = @ - UnitsFrom(items, p)]]

(* Mutant: only the stock is lowered.                                      *)
SoldWithoutReserved(items) ==
    [p \in Products |->
        IF inventory[p] = None THEN None
        ELSE [inventory[p] EXCEPT !.stock = @ - UnitsFrom(items, p)]]

Sold(items) ==
    [p \in Products |->
        IF inventory[p] = None THEN None
        ELSE [inventory[p] EXCEPT !.stock = @ - UnitsFrom(items, p),
                                  !.reserved = @ - UnitsFrom(items, p)]]

(* The buyer's cart lines that create() deletes: a line of an ordered      *)
(* product, whose variant (when it has one) is ordered too.                *)
OrderedLines(u, items) ==
    {l \in LinesOf(u) :
        LET k == lines[l].sku
        IN  /\ \E j \in Skus : items[j] > 0 /\ ProductOf(j) = ProductOf(k)
            /\ k \in Variants => items[k] > 0}

CreateOrder(o, u, q, n, s) ==
    LET items == [k \in Skus |-> n * q[k]]
    IN  /\ orders[o] = None
        /\ \E k \in Skus : items[k] > 0
        /\ \A k \in Skus : q[k] > 0 => Sellable(k, q[k])
        /\ SameStore(items)
        /\ orders' = [orders EXCEPT ![o] = [owner |-> u, status |-> s, items |-> items]]
        /\ inventory' = Sold(items)
        /\ lines' = [l \in LineIds |-> IF l \in OrderedLines(u, items) THEN Deleted ELSE lines[l]]
        /\ timeline' = [timeline EXCEPT ![o] = <<"PENDING">>]
        /\ UNCHANGED <<mirror, req, returned, voids, cancels>>

-----------------------------------------------------------------------------
(* update: read and guard; write the status; put the units back; timeline. *)

Open(o) == orders[o] # None /\ orders[o].status \notin Terminal

(* Bounds of the model, not of the code *)
Bounded(o) == Len(timeline[o]) < MaxTimeline /\ voids[o] < MaxVoids

UpdateRead(r, o, s) ==
    /\ req[r] = Idle
    /\ Open(o) /\ Bounded(o)
    /\ req' = [req EXCEPT ![r] = [Idle EXCEPT !.pc = "write", !.order = o,
                                              !.seen = orders[o].status, !.new = s]]
    /\ UNCHANGED <<tables, timeline, returned, voids, cancels>>

(* Mutant: the units are put back even when the status did not change.     *)
AfterAnyWrite(q) ==
    IF q.new \in Voiding
      THEN [q EXCEPT !.pc = "restore", !.pending = SkusIn(q.order)]
      ELSE [q EXCEPT !.pc = "timeline"]

AfterWrite(q) ==
    IF q.new = q.seen THEN Idle
    ELSE IF q.new \in Voiding
      THEN [q EXCEPT !.pc = "restore", !.pending = SkusIn(q.order)]
      ELSE [q EXCEPT !.pc = "timeline"]

UpdateWrite(r) ==
    LET q == req[r]
    IN  /\ q.pc = "write"
        /\ orders' = [orders EXCEPT ![q.order].status = q.new]
        /\ req' = [req EXCEPT ![r] = AfterWrite(q)]
        /\ voids' = IF q.new \in Voiding /\ q.new # q.seen
                      THEN [voids EXCEPT ![q.order] = @ + 1] ELSE voids
        /\ UNCHANGED <<inventory, mirror, lines, timeline, returned, cancels>>

(* Mutant: the units are taken once more instead of put back.              *)
TakeItem(r) ==
    LET q == req[r]
    IN  /\ q.pc = "restore"
        /\ \E k \in q.pending :
              /\ mirror' = [mirror EXCEPT ![k] = @ - orders[q.order].items[k]]
              /\ req' = [req EXCEPT ![r] = [q EXCEPT !.pc = "log", !.sku = k]]
        /\ UNCHANGED <<inventory, lines, orders, timeline, returned, voids, cancels>>

(* restoreInventoryForOrder: the units go back to the mirror of the sku,   *)
(* never to its inventory row; a statement of its own logs the RETURN.     *)
RestoreItem(r) ==
    LET q == req[r]
    IN  /\ q.pc = "restore"
        /\ \E k \in q.pending :
              /\ mirror' = [mirror EXCEPT ![k] = @ + orders[q.order].items[k]]
              /\ req' = [req EXCEPT ![r] = [q EXCEPT !.pc = "log", !.sku = k]]
        /\ UNCHANGED <<inventory, lines, orders, timeline, returned, voids, cancels>>

(* Mutant: the RETURN log has the sign of a sale.                          *)
LogReturnAsSale(r) ==
    LET q == req[r]
        rest == q.pending \ {q.sku}
    IN  /\ q.pc = "log"
        /\ returned' = [returned EXCEPT ![q.order][q.sku] = @ - orders[q.order].items[q.sku]]
        /\ req' = [req EXCEPT ![r] = [q EXCEPT !.pc = IF rest = {} THEN "timeline" ELSE "restore",
                                               !.pending = rest, !.sku = None]]
        /\ UNCHANGED <<tables, timeline, voids, cancels>>

LogReturn(r) ==
    LET q == req[r]
        rest == q.pending \ {q.sku}
    IN  /\ q.pc = "log"
        /\ returned' = [returned EXCEPT ![q.order][q.sku] = @ + orders[q.order].items[q.sku]]
        /\ req' = [req EXCEPT ![r] = [q EXCEPT !.pc = IF rest = {} THEN "timeline" ELSE "restore",
                                               !.pending = rest, !.sku = None]]
        /\ UNCHANGED <<tables, timeline, voids, cancels>>

AddTimelineEntry(r) ==
    LET q == req[r]
    IN  /\ q.pc = "timeline"
        /\ timeline' = [timeline EXCEPT ![q.order] = Append(@, q.new)]
        /\ req' = [req EXCEPT ![r] = Idle]
        /\ UNCHANGED <<tables, returned, voids, cancels>>

-----------------------------------------------------------------------------
(* cancel: read and guard; then one transaction writes the status, puts    *)
(* the units back, logs them and adds the timeline entry.                  *)

CancelRead(r, o) ==
    /\ req[r] = Idle
    /\ Open(o) /\ Bounded(o)
    /\ req' = [req EXCEPT ![r] = [Idle EXCEPT !.pc = "cancel", !.order = o,
                                              !.seen = orders[o].status, !.new = "CANCELLED"]]
    /\ UNCHANGED <<tables, timeline, returned, voids, cancels>>

CancelCommit(r) ==
    LET o == req[r].order
    IN  /\ req[r].pc = "cancel"
        /\ orders' = [orders EXCEPT ![o].status = "CANCELLED"]
        /\ mirror' = [k \in Skus |-> mirror[k] + orders[o].items[k]]
        /\ returned' = [returned EXCEPT ![o] = [k \in Skus |-> @[k] + orders[o].items[k]]]
        /\ timeline' = [timeline EXCEPT ![o] = Append(@, "CANCELLED")]
        /\ req' = [req EXCEPT ![r] = Idle]
        /\ voids' = [voids EXCEPT ![o] = @ + 1]
        /\ cancels' = [cancels EXCEPT ![o] = @ + 1]
        /\ UNCHANGED <<inventory, lines>>

(* The process that serves r dies, or one of its statements fails *)
Abandon(r) ==
    /\ req[r] # Idle
    /\ req' = [req EXCEPT ![r] = Idle]
    /\ UNCHANGED <<tables, timeline, returned, voids, cancels>>

-----------------------------------------------------------------------------
OrdersInit ==
    /\ orders = [o \in OrderIds |-> None]
    /\ req = [r \in Requests |-> Idle]
    /\ timeline = [o \in OrderIds |-> <<>>]
    /\ returned = [o \in OrderIds |-> [k \in Skus |-> 0]]
    /\ voids = [o \in OrderIds |-> 0]
    /\ cancels = [o \in OrderIds |-> 0]

OrdersStep(r) ==
    \/ \E o \in OrderIds, s \in UpdateStatuses : UpdateRead(r, o, s)
    \/ UpdateWrite(r)
    \/ RestoreItem(r)
    \/ LogReturn(r)
    \/ AddTimelineEntry(r)
    \/ \E o \in OrderIds : CancelRead(r, o)
    \/ CancelCommit(r)
    \/ Abandon(r)

OrdersNext ==
    \/ \E o \in OrderIds, u \in Users \cup {None}, q \in [Skus -> 0..MaxQty],
          n \in 1..MaxEntries, s \in CreateStatuses : CreateOrder(o, u, q, n, s)
    \/ \E r \in Requests : OrdersStep(r)

OrdersTypeOK ==
    /\ req \in [Requests -> Request]
    /\ timeline \in [OrderIds -> Seq(OrderStatus)]
    /\ returned \in [OrderIds -> [Skus -> Nat]]
    /\ voids \in [OrderIds -> Nat]
    /\ cancels \in [OrderIds -> Nat]
=============================================================================
