------------------------- MODULE ReservationCleanup -------------------------
(***************************************************************************)
(* ReservationCleanupService                                               *)
(* (src/modules/scheduler/reservation-cleanup.service.ts): every five      *)
(* minutes a run reads the cart lines whose reservation has expired, then  *)
(* takes them one by one, each in a Serializable transaction.  The run     *)
(* acts on the lines as it read them, and the first failure ends it.       *)
(* Nothing keeps two runs apart: each instance of the server has its cron. *)
(***************************************************************************)
EXTENDS ShopTables

CONSTANTS
    Crons,      \* instances of the server whose cron runs the cleanup
    MaxStops    \* bound: runs ended by a crash or a serialization conflict

ASSUME CleanupAssumption == MaxStops \in Nat

VARIABLES
    todo,   \* todo[i]: lines the current run of i has read and not yet processed
    stops   \* runs ended so far by a crash or a conflict

cleanupVars == <<todo, stops>>

Snapshot == [line : LineIds, sku : Skus, quantity : Int]

ExpiredLines == {l \in LineIds : IsLine(l) /\ lines[l].expires = "expired"}

(* The cron fires.  A run that found nothing ends at once. *)
StartCleanup(i) ==
    /\ todo[i] = {} /\ ExpiredLines # {}
    /\ todo' = [todo EXCEPT ![i] =
          {[line |-> l, sku |-> lines[l].sku, quantity |-> lines[l].quantity] :
              l \in ExpiredLines}]
    /\ UNCHANGED <<tables, stops>>

(* The transaction for one line needs the line and the inventory row *)
Releasable(s) == IsLine(s.line) /\ HasRow(s.sku)

(* Mutant: the units are reserved once more instead of released.           *)
ReserveExpired(i, s) ==
    /\ s \in todo[i] /\ Releasable(s)
    /\ lines' = [lines EXCEPT ![s.line].expires = "none"]
    /\ inventory' = [inventory EXCEPT ![RowOf(s.sku)].reserved = @ + s.quantity]
    /\ todo' = [todo EXCEPT ![i] = @ \ {s}]
    /\ UNCHANGED <<mirror, orders, stops>>

(* Mutant: a line is skipped when its row has too few reserved units.      *)
ReleaseReserved(i, s) ==
    /\ s \in todo[i] /\ Releasable(s)
    /\ todo' = [todo EXCEPT ![i] = @ \ {s}]
    /\ IF inventory[RowOf(s.sku)].reserved < s.quantity THEN UNCHANGED <<inventory, lines>>
       ELSE /\ lines' = [lines EXCEPT ![s.line].expires = "none"]
            /\ inventory' = [inventory EXCEPT ![RowOf(s.sku)].reserved = @ - s.quantity]
    /\ UNCHANGED <<mirror, orders, stops>>

ReleaseExpired(i, s) ==
    /\ s \in todo[i] /\ Releasable(s)
    /\ lines' = [lines EXCEPT ![s.line].expires = "none"]
    /\ inventory' = [inventory EXCEPT ![RowOf(s.sku)].reserved = @ - s.quantity]
    /\ todo' = [todo EXCEPT ![i] = @ \ {s}]
    /\ UNCHANGED <<mirror, orders, stops>>

(* No line or no row to update: the run ends, with lines left *)
CleanupFails(i, s) ==
    /\ s \in todo[i] /\ ~Releasable(s)
    /\ todo' = [todo EXCEPT ![i] = {}]
    /\ UNCHANGED <<tables, stops>>

(* The server dies, or a transaction conflicts with another: the run ends *)
CleanupStops(i) ==
    /\ todo[i] # {} /\ stops < MaxStops
    /\ todo' = [todo EXCEPT ![i] = {}]
    /\ stops' = stops + 1
    /\ UNCHANGED tables

CleanupRun(i) ==
    \/ StartCleanup(i)
    \/ \E s \in todo[i] : ReleaseExpired(i, s)
    \/ \E s \in todo[i] : CleanupFails(i, s)

CleanupInit ==
    /\ todo = [i \in Crons |-> {}]
    /\ stops = 0

CleanupNext == \E i \in Crons : CleanupRun(i) \/ CleanupStops(i)

CleanupTypeOK ==
    /\ todo \in [Crons -> SUBSET Snapshot]
    /\ stops \in Nat
=============================================================================
