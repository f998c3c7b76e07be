----------------------------- MODULE Profiling ------------------------------
(***************************************************************************)
(* UserProfilingService (src/modules/recommendations/services): the cron   *)
(* job that profiles the active users every two hours and counts them into *)
(* segments, over the users and orders of module Reviews.                  *)
(*                                                                         *)
(* The orders of a user are read with id, total and placedAt, and the      *)
(* calculations that follow ask each of them for createdAt: they throw for *)
(* everybody with a delivered order.  A batch of users is profiled at      *)
(* once and fails as soon as one of them throws; the others of the batch   *)
(* go on, and no further batch is started.  Profiles and segments are      *)
(* kept in the memory of the process.  (The methods that answer and        *)
(* refresh single profiles are called by nothing.)                         *)
(***************************************************************************)
EXTENDS Reviews

CONSTANTS
    Runs,       \* runs of the job, which may overlap
    BatchSize,
    Habits,     \* what a user's activities of the last 30 days can come to
    MaxRuns     \* bound: runs started

(* A habit in tenths: engagement, and the part of the risk of leaving that *)
(* comes from inactivity; sensitive: coupons and deals were looked at.     *)
(* Somebody without activities (they went with the user) counts as gone.   *)
Habit == [engagement : 0 .. 10, inactivity : 0 .. 5, sensitive : BOOLEAN]
NoActivity == [engagement |-> 0, inactivity |-> 10, sensitive |-> FALSE]

ProfilingAssumption ==
    /\ Habits \subseteq Habit
    /\ BatchSize \in Nat \ {0} /\ MaxRuns \in Nat

VARIABLES
    profile,    \* profileCache: profile[u], or None
    segments,   \* segmentCache: users counted per segment, or None
    task,       \* task[c][u]: run c's calculation for user u
    todo,       \* todo[c]: users of run c whose batch has not been started
    running,    \* runs that have not failed or ended
    started     \* runs counted against MaxRuns

profilingVars == <<profile, segments, task, todo, running, started>>

(* ltv: lifetime value; frequency: purchases per month.                    *)
Profile == [engagement : 0 .. 10, sensitive : BOOLEAN, ltv : Nat, risk : 0 .. 10,
            frequency : 0 .. 1]

(* The reads of the user's purchases that a calculation still has to make. *)
ToRead == {"none", "segment", "value", "churn", "metrics", "store", "thrown"}
Task == [step : ToRead, habit : Habits \cup {NoActivity}, profile : Profile]
NoProfile == [engagement |-> 0, sensitive |-> FALSE, ltv |-> 0, risk |-> 0, frequency |-> 0]
NoTask == [step |-> "none", habit |-> NoActivity, profile |-> NoProfile]

Purchases(u) == ByUser(u) \cap delivered

(* Mutant: createdAt is selected too; what a purchase is worth.            *)
ThrowsNever(S) == FALSE
Worth == 2000

(* purchases[0].createdAt.getTime()                                        *)
Throws(S) == S # {}

-----------------------------------------------------------------------------
SegmentIds == {"high-value-customers", "at-risk-customers", "new-prospects", "price-sensitive"}

Matches(p, s) ==
    CASE s = "high-value-customers" -> p.ltv > 1000 /\ p.risk < 3
      [] s = "at-risk-customers"    -> p.risk > 7 /\ p.ltv > 100
      [] s = "new-prospects"        -> p.frequency = 0 /\ p.engagement > 5
      [] s = "price-sensitive"      -> p.sensitive

-----------------------------------------------------------------------------
(* updateUserProfiles: the users with activities are listed.               *)
StartRun(c) ==
    /\ c \notin running /\ started < MaxRuns
    /\ \A u \in Users : task[c][u].step = "none"
    /\ \E active \in SUBSET users : todo' = [todo EXCEPT ![c] = active]
    /\ running' = running \cup {c}
    /\ started' = started + 1
    /\ UNCHANGED <<profile, segments, task>>

Busy(c) == \E u \in Users : task[c][u].step # "none"

(* processBatchProfiles: the activities of every user of the batch are     *)
(* read; a deleted user has none.                                          *)
NextBatch(c) ==
    /\ c \in running /\ ~Busy(c) /\ todo[c] # {}
    /\ \E batch \in SUBSET todo[c] :
          /\ Cardinality(batch) =
                IF Cardinality(todo[c]) < BatchSize THEN Cardinality(todo[c]) ELSE BatchSize
          /\ todo' = [todo EXCEPT ![c] = @ \ batch]
          /\ \E habit \in [batch -> Habits \cup {NoActivity}] :
                /\ \A u \in batch : habit[u] = NoActivity <=> u \notin users
                /\ task' = [task EXCEPT ![c] = [u \in Users |->
                      IF u \in batch THEN [NoTask EXCEPT !.step = "segment", !.habit = habit[u]]
                      ELSE task[c][u]]]
    /\ UNCHANGED <<profile, segments, running, started>>

Calculation(c, u, t) ==
    /\ task' = [task EXCEPT ![c] = [task[c] EXCEPT ![u] = t]]
    /\ UNCHANGED <<profile, segments, todo, running, started>>

(* Every purchase that is read makes the calculation throw where it asks   *)
(* for its date; else r goes on with the next read.                        *)
ReadPurchases(c, u, step, throws, next) ==
    /\ task[c][u].step = step
    /\ Calculation(c, u, IF throws THEN [NoTask EXCEPT !.step = "thrown"] ELSE next)

(* calculateBehavioralSegment: the dates are compared from three on.       *)
BehavioralSegment(c, u) ==
    LET t == task[c][u]
        S == Purchases(u)
    IN  ReadPurchases(c, u, "segment", Cardinality(S) >= 3 /\ Throws(S),
              [t EXCEPT !.step = "value", !.profile =
                  [NoProfile EXCEPT !.engagement = t.habit.engagement,
                                    !.sensitive = t.habit.sensitive]])

(* predictLifetimeValue: 500 at most for who has bought nothing.           *)
PredictLifetimeValue(c, u) ==
    LET t == task[c][u]
        S == Purchases(u)
    IN  ReadPurchases(c, u, "value", Throws(S),
              [t EXCEPT !.step = "churn", !.profile =
                  [t.profile EXCEPT !.ltv =
                      IF S = {} THEN 50 * t.habit.engagement ELSE Worth * Cardinality(S)]])

(* assessChurnRisk: what comes of inactivity, and of no recent purchase.   *)
AssessChurnRisk(c, u) ==
    LET t == task[c][u]
    IN  ReadPurchases(c, u, "churn", Throws(Purchases(u)),
              [t EXCEPT !.step = "metrics", !.profile =
                  [t.profile EXCEPT !.risk = t.habit.inactivity]])

CalculatePurchaseMetrics(c, u) ==
    LET t == task[c][u]
        S == Purchases(u)
    IN  ReadPurchases(c, u, "metrics", Throws(S),
              [t EXCEPT !.step = "store", !.profile =
                  [t.profile EXCEPT !.frequency = IF S = {} THEN 0 ELSE 1]])

(* profileCache.set                                                        *)
Store(c, u) ==
    /\ task[c][u].step = "store"
    /\ profile' = [profile EXCEPT ![u] = task[c][u].profile]
    /\ task' = [task EXCEPT ![c] = [task[c] EXCEPT ![u] = NoTask]]
    /\ UNCHANGED <<segments, todo, running, started>>

(* Promise.all rejects and updateUserProfiles ends; the calculations for   *)
(* other users of the batch go on.                                         *)
Fail(c, u) ==
    /\ task[c][u].step = "thrown"
    /\ task' = [task EXCEPT ![c] = [task[c] EXCEPT ![u] = NoTask]]
    /\ running' = running \ {c}
    /\ todo' = [todo EXCEPT ![c] = {}]
    /\ UNCHANGED <<profile, segments, started>>

(* updateUserSegments, after the last batch: in one go, over all profiles  *)
(* there are.                                                              *)
UpdateUserSegments(c) ==
    /\ c \in running /\ ~Busy(c) /\ todo[c] = {}
    /\ segments' = [s \in SegmentIds |->
          Cardinality({u \in Users : profile[u] # None /\ Matches(profile[u], s)})]
    /\ running' = running \ {c}
    /\ UNCHANGED <<profile, task, todo, started>>

(* The process restarts with empty caches.                                 *)
Restart ==
    /\ profile' = [u \in Users |-> None]
    /\ segments' = None
    /\ task' = [c \in Runs |-> [u \in Users |-> NoTask]]
    /\ todo' = [c \in Runs |-> {}]
    /\ running' = {}
    /\ UNCHANGED <<started>>

ProfilingInit ==
    /\ profile = [u \in Users |-> None]
    /\ segments = None
    /\ task = [c \in Runs |-> [u \in Users |-> NoTask]]
    /\ todo = [c \in Runs |-> {}]
    /\ running = {}
    /\ started = 0

Calculate(c, u) ==
    \/ BehavioralSegment(c, u) \/ PredictLifetimeValue(c, u) \/ AssessChurnRisk(c, u)
    \/ CalculatePurchaseMetrics(c, u) \/ Store(c, u) \/ Fail(c, u)

ProfilingStep ==
    \/ Restart
    \/ \E c \in Runs :
          \/ StartRun(c) \/ NextBatch(c) \/ UpdateUserSegments(c)
          \/ \E u \in Users : Calculate(c, u)

(* Orders are delivered and users deleted in between; what is reviewed is  *)
(* nothing to the job.                                                     *)
ProfilingNext ==
    \/ ProfilingStep /\ UNCHANGED reviewsVars
    \/ /\ (\E o \in Orders : SetDelivered(o)) \/ (\E u \in Users : DeleteUser(u))
       /\ Overtakes
       /\ UNCHANGED profilingVars

ProfilingSpec == ReviewsInit /\ ProfilingInit /\ [][ProfilingNext]_<<reviewsVars, profilingVars>>

-----------------------------------------------------------------------------
(* Who has bought something is never in a customer segment: the segments   *)
(* of customers of high value and of customers at risk stay empty whatever *)
(* is bought, because the calculation throws for every user with a         *)
(* delivered order (user-profiling.service.ts:532 selects placedAt and     *)
(* :353 asks for createdAt).                                               *)
CustomersAreNeverCounted ==
    segments # None =>
        segments["high-value-customers"] = 0 /\ segments["at-risk-customers"] = 0
=============================================================================
