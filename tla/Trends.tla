------------------------------- MODULE Trends -------------------------------
(***************************************************************************)
(* MLTrendDetectionService (src/modules/recommendations/services): the     *)
(* cron job that every hour classifies what happens to a product as a      *)
(* trend and looks for the days on which it happens.                       *)
(*                                                                         *)
(* The series of a product is grouped by createdAt, a timestamp and not a  *)
(* day: an entry counts the activities of one instant, which are several   *)
(* only when one request tracked them together.  What the job finds stays  *)
(* in the memory of the process and is never taken out of it.  (Its        *)
(* geographic and demographic parts have no data and no effect.)           *)
(***************************************************************************)
EXTENDS Integers, Sequences, FiniteSets, FiniteSetsExt, Functions

CONSTANTS
    Tracked,    \* ids of products
    Short, Mid, Long, \* entries of the three windows: 1, 7 and 30 in the code
    Bins,       \* Bins[s]: bins of season s, 7 days of the week and so on
    Threshold,  \* Threshold[s]: the amplitude that s takes, in hundredths
    Batches,    \* sizes of what one request tracks of a product
    MaxTracked, \* bound: requests that track
    MaxDetections, \* bound: runs of the job
    Unknown     \* no trend, no season

Seasons == DOMAIN Bins

(* What the instance assumes of the constants.                             *)
TrendsAssumption ==
    /\ Short \in Nat \ {0} /\ Mid \in Nat \ {0} /\ Long \in Nat \ {0}
    /\ Bins \in [Seasons -> Nat \ {0}] /\ Threshold \in [Seasons -> 1 .. 99]
    /\ Batches \subseteq Nat \ {0}
    /\ MaxTracked \in Nat /\ MaxDetections \in Nat

VARIABLES
    series,     \* series[p]: activities per instant of the last 30 days
    tally,      \* tally[p][s]: activities of the last year per bin of s
    trend,      \* trendCache
    season,     \* seasonalCache: the confidence in season s of p
    listed,     \* products that the running job has still to analyse
    phase,      \* "idle", "series", "seasons"
    detections, \* runs counted against MaxDetections
    requests,   \* requests counted against MaxTracked
    batched,    \* history: products with several activities at one instant
    basis       \* history: basis[p][s]: how many activities season[p][s] is of

trendsVars == <<series, tally, trend, season, listed, phase, detections, requests,
                batched, basis>>

Trend == [type : {"rising", "falling", "stable", "volatile"},
          direction : {"up", "down", "stable"},
          sure : BOOLEAN,       \* confidence above 0.5, which makes it a prediction
          spike : BOOLEAN,      \* factor viral_spike
          entries : Nat]        \* history: how long the series was

NoTally == [s \in Seasons |-> [b \in 1 .. Bins[s] |-> 0]]

Count(s) == SumFunction(s)
Squares(s) == SumFunction([i \in DOMAIN s |-> s[i] * s[i]])
Latest(s, n) == SubSeq(s, IF Len(s) > n THEN Len(s) - n + 1 ELSE 1, Len(s))
Before(s, n) == SubSeq(s, 1, IF Len(s) > n THEN Len(s) - n ELSE 0)

-----------------------------------------------------------------------------
(* calculateTrendMetrics, in hundredths: slope and volatility of a recent  *)
(* window against a longer one.  A window of one entry has neither.        *)
Root(a, b) == CHOOSE k \in 0 .. 1000 : k * k * b <= 10000 * a /\ (k + 1) * (k + 1) * b > 10000 * a

Metrics(recent, historical) ==
    LET n == Len(recent)
        m == Len(historical)
    IN  IF n < 2 \/ m < 2 THEN [slope |-> 0, volatility |-> 0]
        ELSE [slope |-> (100 * (Count(recent) * m - Count(historical) * n)) \div (n * m * m),
              volatility |-> Root(n * Squares(recent) - Count(recent) * Count(recent),
                                  Count(recent) * Count(recent))]

(* determineTrendType: the averages of the three windows.                  *)
TrendType(s) ==
    LET short == Metrics(Latest(s, Short), Latest(s, Mid))
        mid   == Metrics(Latest(s, Mid), Latest(s, Long))
        long  == Metrics(Latest(s, Long), s)
        slope == short.slope + mid.slope + long.slope
    IN  IF short.volatility + mid.volatility + long.volatility > 150 THEN "volatile"
        ELSE IF slope > 30 THEN "rising"
        ELSE IF slope < -30 THEN "falling"
        ELSE "stable"

(* predictTrendDirection: the last three entries against the three before; *)
(* without any before, the change is not a number and counts as none.      *)
Change(s) ==
    LET recent == Latest(s, 3)
        older  == Latest(Before(s, 3), 3)
    IN  IF Len(s) <= 3 THEN 0
        ELSE (100 * (Count(recent) * Len(older) - Count(older) * 3)) \div (Count(older) * 3)

Direction(s) == IF Change(s) > 10 THEN "up" ELSE IF Change(s) < -10 THEN "down" ELSE "stable"
Sure(s) == Change(s) > 50 \/ Change(s) < -50

(* identifyTrendFactors: the highest of the last week against that of the  *)
(* week before, which is minus infinity when there was none, as is that of *)
(* a series of which nothing is left.                                      *)
Spike(s) ==
    LET recent == Latest(s, Mid)
        older  == Latest(Before(s, Mid), Mid)
    IN  s # <<>> /\ (older = <<>> \/ 2 * Max(Range(recent)) > 3 * Max(Range(older)))

TrendOf(s) == [type |-> TrendType(s), direction |-> Direction(s), sure |-> Sure(s),
               spike |-> Spike(s), entries |-> Len(s)]

(* detectWeeklyPattern and its siblings: how far the fullest bin is above  *)
(* the emptiest, in hundredths.                                            *)
Confidence(t, s) ==
    LET high == Max({t[b] : b \in DOMAIN t})
        low  == Min({t[b] : b \in DOMAIN t})
        amplitude == IF high = 0 THEN 0 ELSE (100 * (high - low)) \div high
    IN  IF amplitude > Threshold[s] THEN amplitude ELSE 0

Activities(p, s) == SumFunction(tally[p][s])

-----------------------------------------------------------------------------
Enters(p, n) == series' = [series EXCEPT ![p] = Append(@, n)]
AddToLast(p, n) ==
    series[p] # <<>> /\ series' = [series EXCEPT ![p] = [@ EXCEPT ![Len(@)] = @ + n]]
Several(p) == batched' = batched \cup {p}

(* Mutant: an entry of the series is a day, and days have several.         *)
StampDay(p, n) ==
    /\ Enters(p, n) \/ AddToLast(p, n)
    /\ IF n > 1 THEN Several(p) ELSE UNCHANGED batched

(* AnalyticsService: one request tracks n activities of p, all at the same *)
(* instant, which is that of an entry of its own unless the request before *)
(* was handled in the same millisecond.                                    *)
Stamp(p, n) ==
    \/ Enters(p, n) /\ IF n > 1 THEN Several(p) ELSE UNCHANGED batched
    \/ AddToLast(p, n) /\ Several(p)

Days == {bin \in [Seasons -> 1 .. Max({Bins[s] : s \in Seasons})] : \A s \in Seasons : bin[s] <= Bins[s]}

Track(p, n) ==
    /\ requests < MaxTracked
    /\ requests' = requests + 1
    /\ Stamp(p, n)
    /\ \E bin \in Days :
          tally' = [tally EXCEPT ![p] = [s \in Seasons |->
              [tally[p][s] EXCEPT ![bin[s]] = @ + n]]]
    /\ UNCHANGED <<trend, season, listed, phase, detections, basis>>

(* Thirty days after they were tracked, and a year after.                  *)
Forget(p) ==
    /\ series[p] # <<>>
    /\ series' = [series EXCEPT ![p] = Tail(@)]
    /\ UNCHANGED <<tally, trend, season, listed, phase, detections, requests, batched, basis>>

ForgetYear(p) ==
    /\ series[p] = <<>> /\ tally[p] # NoTally
    /\ tally' = [tally EXCEPT ![p] = NoTally]
    /\ UNCHANGED <<series, trend, season, listed, phase, detections, requests, batched, basis>>

-----------------------------------------------------------------------------
(* detectTrends: the products active in the last 30 days, one by one.      *)
Detect ==
    /\ phase = "idle" /\ detections < MaxDetections
    /\ detections' = detections + 1
    /\ phase' = "series"
    /\ listed' = {p \in Tracked : series[p] # <<>>}
    /\ UNCHANGED <<series, tally, trend, season, requests, batched, basis>>

AnalyzeProductTrend(p) ==
    /\ phase = "series" /\ p \in listed
    /\ trend' = [trend EXCEPT ![p] = TrendOf(series[p])]
    /\ listed' = listed \ {p}
    /\ UNCHANGED <<series, tally, season, phase, detections, requests, batched, basis>>

(* Then the products active in the last year.  An error of the database    *)
(* ends the one part and not the other.                                    *)
DetectSeasons ==
    /\ phase = "series"
    /\ phase' = "seasons"
    /\ listed' = {p \in Tracked : tally[p] # NoTally}
    /\ UNCHANGED <<series, tally, trend, season, detections, requests, batched, basis>>

(* A season that is found replaces the one of before; one that is not      *)
(* found leaves it.                                                        *)
AnalyzeSeasonalPattern(p) ==
    LET found == {s \in Seasons : Confidence(tally[p][s], s) > 30}
    IN  /\ phase = "seasons" /\ p \in listed
        /\ season' = [season EXCEPT ![p] = [s \in Seasons |->
              IF s \in found THEN Confidence(tally[p][s], s) ELSE season[p][s]]]
        /\ basis' = [basis EXCEPT ![p] = [s \in Seasons |->
              IF s \in found THEN Activities(p, s) ELSE basis[p][s]]]
        /\ listed' = listed \ {p}
        /\ UNCHANGED <<series, tally, trend, phase, detections, requests, batched>>

Finish ==
    /\ phase = "seasons"
    /\ phase' = "idle"
    /\ listed' = {}
    /\ UNCHANGED <<series, tally, trend, season, detections, requests, batched, basis>>

NoSeason == [s \in Seasons |-> Unknown]

TrendsInit ==
    /\ series = [p \in Tracked |-> <<>>]
    /\ tally = [p \in Tracked |-> NoTally]
    /\ trend = [p \in Tracked |-> Unknown]
    /\ season = [p \in Tracked |-> NoSeason]
    /\ listed = {}
    /\ phase = "idle"
    /\ detections = 0 /\ requests = 0
    /\ batched = {}
    /\ basis = [p \in Tracked |-> [s \in Seasons |-> 0]]

TrendsNext ==
    \/ Detect \/ DetectSeasons \/ Finish
    \/ \E p \in Tracked :
          \/ Forget(p) \/ ForgetYear(p)
          \/ AnalyzeProductTrend(p) \/ AnalyzeSeasonalPattern(p)
          \/ \E n \in Batches : Track(p, n)

TrendsSpec == TrendsInit /\ [][TrendsNext]_trendsVars

-----------------------------------------------------------------------------
(* generateTrendPredictions: what is sure of trends that may be long gone. *)
Predictions == {p \in Tracked : trend[p] # Unknown /\ trend[p].sure}

TrendsTypeOK ==
    /\ series \in [Tracked -> Seq(Nat)]
    /\ trend \in [Tracked -> Trend \cup {Unknown}]
    /\ season \in [Tracked -> [Seasons -> 0 .. 100 \cup {Unknown}]]
    /\ listed \subseteq Tracked /\ batched \subseteq Tracked
    /\ phase \in {"idle", "series", "seasons"}

(* What few activities come to.  As long as no two activities of a product *)
(* were tracked at one instant, it is stable, predicted to remain so and   *)
(* of no volatility, however many there are and however they grow from day *)
(* to day (ml-trend-detection.service.ts:349 asks for daily counts, :351   *)
(* groups by timestamp).  All the same it is a viral spike from the first  *)
(* entry until the week before has entries too (:460); nothing at all is   *)
(* none.  And what has fewer activities in a year than a season has days   *)
(* is seasonal with full confidence (:552).                                *)
FewActivities ==
    \A p \in Tracked :
        /\ p \notin batched /\ trend[p] # Unknown =>
              /\ trend[p].type = "stable" /\ trend[p].direction = "stable"
              /\ p \notin Predictions
              /\ trend[p].spike <=> trend[p].entries \in 1 .. Mid
        /\ \A s \in Seasons :
              basis[p][s] \in 1 .. Bins[s] - 1 => season[p][s] = 100
=============================================================================
