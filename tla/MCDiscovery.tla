---------------------------- MODULE MCDiscovery -----------------------------
(* Reviews with Profiling, which reads its users and orders, Recommend and *)
(* Trends for TLC.  None of them writes what another reads while that is   *)
(* at work within these bounds, so a behaviour explores one of them.       *)
EXTENDS Integers, Sequences, FiniteSets, Functions, TLC

CONSTANTS u1, u2, o1, o2, o3, p1, p2, p3, c1, c2, b1, None,
          Users, Orders, Products, BuyerOf, ItemsOf, Ratings, Requests, Readers, MaxOps,
          MaxOffered,
          Runs, BatchSize, Habits, MaxRuns,
          CategoryOf, BrandOf, Rating, TopRated, Age, Interval, Shelf, Baskets, InBasket,
          Earlier, Limit, Questions, MaxMoves,
          Tracked, Short, Mid, Long, Bins, Threshold, Batches, MaxTracked, MaxDetections,
          Unknown

VARIABLES topic,
          users, delivered, review, stats, call, ops, behind, stale, page,
          profile, segments, task, todo, running, started,
          open, placed, cancelled, active, viewed, ask, cache, moves, hidden,
          series, tally, trend, season, listed, phase, detections, requests, batched, basis

MCBuyerOf == [o \in Orders |-> IF o = o3 THEN u2 ELSE u1]
MCItemsOf == [o \in Orders |-> IF o = o1 THEN {p1, p2} ELSE {p1}]

MCCategoryOf == (p1 :> c1 @@ p2 :> c1 @@ p3 :> c2)
MCBrandOf == (p1 :> b1 @@ p2 :> None @@ p3 :> None)
MCRating == (p1 :> 2 @@ p2 :> 1 @@ p3 :> 1)
MCAge == (p1 :> 1 @@ p2 :> 2 @@ p3 :> 3)
MCInterval == (p1 :> 1 @@ p2 :> 2 @@ p3 :> 1)
MCInBasket == (o1 :> {p1, p2} @@ o2 :> {p1, p3})

About(kind, p, c) == [kind |-> kind, subject |-> p, category |-> c]
MCQuestions == {About("together", p3, None), About("trending", None, c1),
                About("recent", None, None), About("new", None, c1)}

MCHabits == {[engagement |-> 10, inactivity |-> 0, sensitive |-> FALSE],
             [engagement |-> 6, inactivity |-> 5, sensitive |-> TRUE]}

MCBins == [weekly |-> 2]
MCThreshold == [weekly |-> 20]

INSTANCE Profiling
INSTANCE Recommend WITH Products <- Shelf, Orders <- Baskets, ItemsOf <- InBasket
INSTANCE Trends

ASSUME DiscoveryAssumption ==
    ReviewsAssumption /\ ProfilingAssumption /\ RecommendAssumption /\ TrendsAssumption

reviewVars == <<users, delivered, review, stats, call, ops, behind, stale, page>>
profileVars == <<profile, segments, task, todo, running, started>>
shownVars == <<open, placed, cancelled, active, viewed, ask, cache, moves, hidden>>
foundVars == <<series, tally, trend, season, listed, phase, detections, requests, batched, basis>>
allVars == <<reviewVars, profileVars, shownVars, foundVars, topic>>

MCInit ==
    /\ ReviewsInit /\ ProfilingInit /\ RecommendInit /\ TrendsInit
    /\ topic \in {"reviews", "offers", "profiling", "recommend", "trends"}

(* With readers, of two orders of one user rated alike.                    *)
FewOrders ==
    /\ delivered \subseteq {o1, o2} /\ ops <= MaxOffered
    /\ \A r \in Requests : call[r].rating \in {None, 5}

MCNext ==
    /\ UNCHANGED topic
    /\ \/ topic = "offers" /\ ReviewsNext /\ FewOrders'
          /\ UNCHANGED <<profileVars, shownVars, foundVars>>
       \/ topic = "reviews" /\ ReviewsNext /\ UNCHANGED page /\ UNCHANGED <<profileVars, shownVars, foundVars>>
       \/ topic = "profiling" /\ ProfilingNext /\ UNCHANGED <<shownVars, foundVars>>
       \/ topic = "recommend" /\ RecommendNext /\ UNCHANGED <<reviewVars, profileVars, foundVars>>
       \/ topic = "trends" /\ TrendsNext /\ UNCHANGED <<reviewVars, profileVars, shownVars>>

MCSpec == MCInit /\ [][MCNext]_allVars

Symmetry == Permutations(Requests) \cup Permutations(Runs)
=============================================================================
