------------------------------ MODULE Activity ------------------------------
(* Tracking of what visitors do: AnalyticsService.trackActivity,            *)
(* trackBatchActivities and updateBrowsingHistory. (markConversion sets a   *)
(* flag of the entries that nothing reads; it is left out.)                 *)
(* Activities are inserted first; then, for each product view among them,   *)
(* the browsing history is read and an entry inserted or incremented, in    *)
(* statements of their own; an error of any of them is caught, and logged.  *)
(* Products and accounts are removed meanwhile, and their entries with      *)
(* them. Module Jobs composes this with the nightly job that deletes old    *)
(* entries.                                                                 *)
EXTENDS Integers, Sequences, FiniteSets, Functions

CONSTANTS Users,      \* signed-in users
          Guest,      \* requests without an account
          Products,   \* ids that clients send; some may be of no product
          RowIds,     \* bound: keys of browsing_history, never used twice
          Visits,     \* requests to track activities, in flight
          MaxViews,   \* bound: product views ever tracked
          MaxBatch,   \* bound: product views of one request
          None, Deleted

ASSUME ActivityAssumption ==
  /\ Guest \notin Users /\ Users \cap Products = {}
  /\ None \notin RowIds /\ Deleted # None
  /\ MaxViews \in Nat /\ MaxBatch \in Nat \ {0}
  /\ IsFiniteSet(RowIds) /\ IsFiniteSet(Visits) /\ Visits # {}

VARIABLES history,  \* browsing_history
          existing, \* the products and accounts that have a row
          visits,   \* what each request still has to do
          tracked,  \* ghost: PRODUCT_VIEW activities ever stored, per viewer and product
          missed,   \* ghost: views lost to the writes and deletions of others
          refused,  \* ghost: views of something that has no row
          failed,   \* ghost: views lost to an error of the database
          expired   \* ghost: views counted by entries that were deleted

activityVars == <<history, existing, visits, tracked, missed, refused, failed, expired>>

Viewers == Users \cup {Guest}
Keys == Viewers \X Products

(* An entry; old says that it was created more than 90 days ago. *)
Entry == [viewer : Viewers, product : Products, count : Nat, old : BOOLEAN]

ASSUME EntryAssumption == None \notin Entry /\ Deleted \notin Entry

Visit == [viewer : Viewers, left : Seq(Products), stage : {"idle", "find", "write"},
          found : RowIds \cup {None}]

NoVisit == [viewer |-> Guest, left |-> <<>>, stage |-> "idle", found |-> None]

KeyOf(r) == <<history[r].viewer, history[r].product>>
Rows == {r \in RowIds : history[r] \notin {None, Deleted}}
Unused == {r \in RowIds : history[r] = None}
RowsOf(k) == {r \in Rows : KeyOf(r) = k}

(* How many views a set of entries counts. *)
Views(rows) == SumFunction([r \in RowIds |-> IF r \in rows THEN history[r].count ELSE 0])

(* The two foreign keys of an entry. *)
Referenced(k) == k[2] \in existing /\ (k[1] = Guest \/ k[1] \in existing)

ActivityTypeOK ==
  /\ history \in [RowIds -> Entry \cup {None, Deleted}]
  /\ existing \subseteq Users \cup Products
  /\ visits \in [Visits -> Visit]
  /\ tracked \in [Keys -> Nat]
  /\ missed \in [Keys -> Nat] /\ refused \in [Keys -> Nat] /\ failed \in [Keys -> Nat]
  /\ expired \in [Keys -> Nat]

ActivityInit ==
  /\ history = [r \in RowIds |-> None]
  /\ \E products \in SUBSET Products : existing = Users \cup products
  /\ visits = [v \in Visits |-> NoVisit]
  /\ tracked = [k \in Keys |-> 0]
  /\ missed = [k \in Keys |-> 0]
  /\ refused = [k \in Keys |-> 0]
  /\ failed = [k \in Keys |-> 0]
  /\ expired = [k \in Keys |-> 0]

-----------------------------------------------------------------------------

(* How often p is viewed in a list of views. *)
Times(p, views) == Cardinality({i \in DOMAIN views : views[i] = p})

(* The activities of the request are stored by one statement, whose product
   ids are not looked at; other kinds of activity leave nothing that is
   modelled. *)
Track(v, viewer, views) ==
  /\ visits[v].stage = "idle"
  /\ viewer = Guest \/ viewer \in existing
  /\ SumFunction(tracked) + Len(views) <= MaxViews
  /\ visits' = [visits EXCEPT ![v] =
       [viewer |-> viewer, left |-> views, stage |-> "find", found |-> None]]
  /\ tracked' = [k \in Keys |->
       tracked[k] + (IF k[1] = viewer THEN Times(k[2], views) ELSE 0)]
  /\ UNCHANGED <<history, existing, missed, refused, failed, expired>>

(* findUnique by user and product, for a signed-in user only. *)
Find(v) ==
  LET k == <<visits[v].viewer, Head(visits[v].left)>>
  IN /\ visits[v].stage = "find"
     /\ \E r \in IF k[1] = Guest \/ RowsOf(k) = {} THEN {None} ELSE RowsOf(k) :
          visits' = [visits EXCEPT ![v].stage = "write", ![v].found = r]
     /\ UNCHANGED <<history, existing, tracked, missed, refused, failed, expired>>

(* The next view of the request, or its end. *)
Advance(v) ==
  visits' = [visits EXCEPT ![v] =
    IF Len(visits[v].left) = 1
    THEN NoVisit
    ELSE [visits[v] EXCEPT !.left = Tail(@), !.stage = "find", !.found = None]]

(* The entry that was found is incremented by the database, if it is there. *)
Increment(v) ==
  LET r == visits[v].found
  IN /\ visits[v].stage = "write" /\ r # None
     /\ r \in Rows
     /\ history' = [history EXCEPT ![r].count = @ + 1]
     /\ Advance(v)
     /\ UNCHANGED <<existing, tracked, missed, refused, failed, expired>>

(* userId and productId are unique together, except for guests, whose
   userId is NULL. *)
Insertable(k) == k[1] = Guest \/ RowsOf(k) = {}

Insert(v) ==
  LET k == <<visits[v].viewer, Head(visits[v].left)>>
  IN /\ visits[v].stage = "write" /\ visits[v].found = None
     /\ Insertable(k) /\ Referenced(k)
     /\ Unused # {}
     /\ history' = [history EXCEPT ![CHOOSE r \in Unused : TRUE] =
          [viewer |-> k[1], product |-> k[2], count |-> 1, old |-> FALSE]]
     /\ Advance(v)
     /\ UNCHANGED <<existing, tracked, missed, refused, failed, expired>>

(* The entry was deleted, or inserted by another request, since it was looked
   for. *)
Missing(v) ==
  LET k == <<visits[v].viewer, Head(visits[v].left)>>
  IN /\ visits[v].stage = "write"
     /\ IF visits[v].found = None
        THEN ~ Insertable(k)
        ELSE visits[v].found \notin Rows
     /\ missed' = [missed EXCEPT ![k] = @ + 1]
     /\ UNCHANGED <<history, existing, tracked, refused, failed, expired>>

(* What a miss would do if the error were not caught there. *)
MissEndsVisit(v) == Missing(v) /\ visits' = [visits EXCEPT ![v] = NoVisit]

(* The error is logged, the view is lost and the request goes on. *)
Miss(v) == Missing(v) /\ Advance(v)

(* The product was removed, or never was, or the account is gone: the entry
   violates a foreign key, of guests as well. *)
Refuse(v) ==
  LET k == <<visits[v].viewer, Head(visits[v].left)>>
  IN /\ visits[v].stage = "write" /\ visits[v].found = None
     /\ Insertable(k) /\ ~ Referenced(k)
     /\ refused' = [refused EXCEPT ![k] = @ + 1]
     /\ Advance(v)
     /\ UNCHANGED <<history, existing, tracked, missed, failed, expired>>

(* Any other error of the read or of the write. *)
Fail(v) ==
  LET k == <<visits[v].viewer, Head(visits[v].left)>>
  IN /\ visits[v].stage # "idle"
     /\ k[1] # Guest \/ visits[v].stage = "write"
     /\ failed' = [failed EXCEPT ![k] = @ + 1]
     /\ Advance(v)
     /\ UNCHANGED <<history, existing, tracked, missed, refused, expired>>

(* Ninety days after an entry was created; views do not renew it. *)
Grow(r) ==
  /\ r \in Rows /\ ~ history[r].old
  /\ history' = [history EXCEPT ![r].old = TRUE]
  /\ UNCHANGED <<existing, visits, tracked, missed, refused, failed, expired>>

DeleteEntries(gone) ==
  /\ history' = [r \in RowIds |-> IF r \in gone THEN Deleted ELSE history[r]]
  /\ expired' = [k \in Keys |-> expired[k] + Views(gone \cap RowsOf(k))]
  /\ UNCHANGED <<visits, tracked, missed, refused, failed>>

(* The cleanup job deletes the entries that are old. *)
DeleteOldEntries == DeleteEntries({r \in Rows : history[r].old}) /\ UNCHANGED existing

(* A product or an account is removed for good, and its entries with it; what
   else has to hold for a removal is not looked at here. *)
Remove(x) ==
  /\ x \in existing
  /\ existing' = existing \ {x}
  /\ DeleteEntries({r \in Rows : x \in {history[r].viewer, history[r].product}})

ViewLists == UNION {[1 .. n -> Products] : n \in 1 .. MaxBatch}

VisitStep(v) == Find(v) \/ Increment(v) \/ Insert(v) \/ Miss(v) \/ Refuse(v) \/ Fail(v)

ActivityNext ==
  \/ \E v \in Visits, viewer \in Viewers, views \in ViewLists : Track(v, viewer, views)
  \/ \E v \in Visits : VisitStep(v)
  \/ \E r \in RowIds : Grow(r)
  \/ \E x \in Users \cup Products : Remove(x)

-----------------------------------------------------------------------------

(* Views of k that requests in flight have still to write. *)
InFlight(k) ==
  SumFunction([v \in Visits |->
    IF visits[v].viewer = k[1] THEN Times(k[2], visits[v].left) ELSE 0])

(* Views of k that were stored as activities and never counted. *)
Uncounted(k) == missed[k] + refused[k] + failed[k]

(* Every product view stored as an activity is counted once by a history entry,
   is about to be, was counted by an entry that was deleted, or is lost. Apart
   from errors of the database it is lost only if the product or the account is
   not there, or, by a signed-in user, at most once per other request in flight
   when an entry is first written, and once per request in flight when one is
   deleted (updateBrowsingHistory, lines 296 to 354). *)
ViewsAccountedFor ==
  \A k \in Keys :
    /\ tracked[k] = Views(RowsOf(k)) + InFlight(k) + Uncounted(k) + expired[k]
    /\ refused[k] > 0 => ~ Referenced(k)
    /\ k[1] = Guest => missed[k] = 0
    /\ missed[k] <= (Cardinality(Visits) - 1) * (1 + expired[k])
                    + Cardinality(Visits) * expired[k]
=============================================================================
