----------------------------- MODULE Recommend ------------------------------
(***************************************************************************)
(* RecommendationsService (src/modules/recommendations) behind the cache   *)
(* of its controller.                                                      *)
(*                                                                         *)
(* A request that is not answered from the cache makes up to four reads,   *)
(* each a query of its own: a list that comes out empty falls back to      *)
(* another kind, and the products that were picked are read again for      *)
(* their details.  Products are hidden and shown in between.  The rows of  *)
(* product_recommendations that the service would answer with first are    *)
(* written by nothing in the repository, so there are none.                *)
(* Products are asked for with their details (includeProduct), as they are *)
(* by default; without them the recently viewed include hidden ones.       *)
(***************************************************************************)
EXTENDS Integers, Sequences, FiniteSets, Functions

CONSTANTS
    Products,   \* ids of products
    CategoryOf, \* CategoryOf[p]
    BrandOf,    \* BrandOf[p], or None
    Rating,     \* Rating[p]: average and number of reviews, in one order
    TopRated,   \* products rated 4 and more by 5 reviews and more
    Age,        \* Age[p]: how long ago p was created
    Interval,   \* Interval[p]: days since the first activity of the week on p
    Orders,     \* ids of orders
    ItemsOf,    \* ItemsOf[o]: the products in o, one of each
    Earlier,    \* orders placed before the behaviour starts
    Limit,      \* how many recommendations are asked for
    Requests,   \* requests in flight together
    Questions,  \* bound: what is asked, a subset of Keys
    MaxMoves,   \* bound: changes to the shop
    None        \* no product, no category, no answer

Categories == {CategoryOf[p] : p \in Products}

(* What the URL asks, the key of the cache.  similar and together are      *)
(* about a product; trending, best, top and new may be of one category;    *)
(* personal and recent are of a visitor, here always the same one.         *)
Related == {"similar", "together"}
Visitor == {"personal", "recent"}
Ranked == {"trending", "best", "top", "new"}
Kinds == Related \cup Visitor \cup Ranked

Keys ==
    [kind : Related, subject : Products, category : {None}]
    \cup [kind : Visitor, subject : {None}, category : {None}]
    \cup [kind : Ranked, subject : {None}, category : Categories \cup {None}]

(* What the instance assumes of the constants.                             *)
RecommendAssumption ==
    /\ None \notin Products \cup Categories /\ IsFiniteSet(Products)
    /\ DOMAIN BrandOf = Products
    /\ Rating \in [Products -> Nat] /\ Age \in [Products -> Nat]
    /\ Interval \in [Products -> Nat \ {0}]
    /\ TopRated \subseteq Products
    /\ ItemsOf \in [Orders -> SUBSET Products] /\ Earlier \subseteq Orders
    /\ Limit \in Nat \ {0} /\ MaxMoves \in Nat
    /\ Questions \subseteq Keys

VARIABLES
    open,       \* products that are PUBLIC and active
    placed,     \* orders of the last 30 days
    cancelled,  \* those of them that are CANCELLED or REFUNDED
    active,     \* active[p]: views, clicks and carts of p in the last week
    viewed,     \* the visitor's browsing history, the latest first
    ask,        \* ask[r]: request r
    cache,      \* cache[k]: the answer kept for k, or None
    moves,      \* changes counted against MaxMoves
    hidden      \* history: products hidden since cache[k] was read

shopVars == <<open, placed, cancelled, active, viewed>>
recommendVars == <<open, placed, cancelled, active, viewed, ask, cache, moves, hidden>>

(* The read that a request makes next: of its kind, of one it falls back   *)
(* to, of the products bought along with the subject, of the details.      *)
Reads == {"similar", "orders", "group", "active", "recent", "best", "top", "new", "details"}

(* picked: what was chosen before its details are read; among: the orders  *)
(* with the subject; list: the answer; kept: products open from when the   *)
(* request came in until its last read; gone: products hidden since.       *)
NoRequest == [pc |-> "idle", key |-> None, picked |-> <<>>, among |-> {}, list |-> <<>>,
              kept |-> {}, gone |-> {}]

Answers == UNION {[1 .. n -> Products] : n \in 0 .. Limit}

Request == [pc : Reads \cup {"answered"}, key : Keys, picked : Answers,
            among : SUBSET Orders, list : Answers, kept : SUBSET Products,
            gone : SUBSET Products]

-----------------------------------------------------------------------------
(* orderBy and take: the first of S; rows that compare equal come in any   *)
(* order.                                                                  *)
Firsts(S, Before(_, _)) ==
    LET n == IF Cardinality(S) < Limit THEN Cardinality(S) ELSE Limit
    IN  {s \in Injection(1 .. n, S) :
            /\ \A i, j \in 1 .. n : i < j => ~Before(s[j], s[i])
            /\ \A p \in S \ Range(s), i \in 1 .. n : ~Before(p, s[i])}

In(category) == {p \in Products : category = None \/ CategoryOf[p] = category}

(* The same category or the same brand; two products without a brand have  *)
(* the same one.                                                           *)
Alike(p) == {q \in Products \ {p} : CategoryOf[q] = CategoryOf[p] \/ BrandOf[q] = BrandOf[p]}

With(p) == {o \in placed : p \in ItemsOf[o]}

(* How often p was sold.                                                   *)
Sold(p) == Cardinality(With(p) \ cancelled)

(* Views per day; the more views the better when they are as many a day.   *)
Faster(p, q) ==
    LET vp == active[p] * Interval[q]
        vq == active[q] * Interval[p]
    IN  vp > vq \/ (vp = vq /\ active[p] > active[q])

(* filter: the elements of s that are in S, in their order; the nth is the *)
(* one with n of them up to it.                                            *)
Rank(I, i) == Cardinality({j \in I : j <= i})

Kept(s, S) ==
    LET I == {i \in DOMAIN s : s[i] \in S}
    IN  [n \in 1 .. Cardinality(I) |-> s[CHOOSE i \in I : Rank(I, i) = n]]

-----------------------------------------------------------------------------
(* A request that the cache does not answer.                               *)

(* getPersonalizedRecommendations: nothing is stored for the visitor, and  *)
(* the preferences of a user are not looked at: what is trending.          *)
Personal == "active"

First == [similar |-> "similar", together |-> "orders", personal |-> Personal,
          recent |-> "recent", trending |-> "active", best |-> "best", top |-> "top",
          new |-> "new"]

Ask(r, k) ==
    /\ ask[r] = NoRequest
    /\ cache[k] = None
    /\ ask' = [ask EXCEPT ![r] = [NoRequest EXCEPT
                  !.pc = First[k.kind], !.key = k, !.kept = open]]
    /\ UNCHANGED <<open, placed, cancelled, active, viewed, cache, moves, hidden>>

(* Another read follows, or none: the list is the answer.                  *)
Go(r, q) == ask' = [ask EXCEPT ![r] = q] /\ UNCHANGED <<shopVars, cache, moves, hidden>>

Reply(r, q, s) == Go(r, [q EXCEPT !.pc = "answered", !.among = {}, !.list = s])

(* The answer is sent, and the interceptor keeps it.                       *)
Keep(r) ==
    LET q == ask[r]
    IN  /\ q.pc = "answered"
        /\ ask' = [ask EXCEPT ![r] = NoRequest]
        /\ cache' = [cache EXCEPT ![q.key] = q.list]
        /\ hidden' = [hidden EXCEPT ![q.key] = q.gone]
        /\ UNCHANGED <<shopVars, moves>>

Reading(r, pc) == ask[r].pc = pc

-----------------------------------------------------------------------------
(* getSimilarProducts: by rating, among the products that are alike.       *)
ReadSimilar(r) ==
    /\ Reading(r, "similar")
    /\ \E s \in Firsts(open \cap Alike(ask[r].key.subject),
                       LAMBDA p, q : Rating[p] > Rating[q]) : Reply(r, ask[r], s)

(* getFrequentlyBoughtTogether: the orders with the product, whatever has  *)
(* become of them.                                                         *)
ReadOrders(r) ==
    LET with == With(ask[r].key.subject)
    IN  /\ Reading(r, "orders")
        /\ Go(r, [ask[r] EXCEPT !.pc = IF with = {} THEN "similar" ELSE "group",
                                !.among = with])

(* What else is in those orders, the most frequent first.                  *)
Beside(p, os) == {q \in Products \ {p} : \E o \in os : q \in ItemsOf[o]}
Often(p, os) == Cardinality({o \in os : p \in ItemsOf[o]})

(* Mutant: nothing bought along with the product is the answer.            *)
ReadGroupEmpty(r) ==
    LET q == ask[r]
    IN  /\ Reading(r, "group")
        /\ \E s \in Firsts(open \cap Beside(q.key.subject, q.among),
                           LAMBDA x, y : Often(x, q.among) > Often(y, q.among)) :
              Go(r, [q EXCEPT !.pc = "details", !.picked = s])

ReadGroup(r) ==
    LET q == ask[r]
    IN  /\ Reading(r, "group")
        /\ \E s \in Firsts(open \cap Beside(q.key.subject, q.among),
                           LAMBDA x, y : Often(x, q.among) > Often(y, q.among)) :
              Go(r, [q EXCEPT !.pc = IF s = <<>> THEN "similar" ELSE "details",
                              !.picked = s])

(* getTrendingProducts: the most active, hidden or not and of whatever     *)
(* category; the bestsellers when nothing was active.                      *)
ReadActive(r) ==
    /\ Reading(r, "active")
    /\ \E s \in Firsts({p \in Products : active[p] > 0}, Faster) :
          Go(r, [ask[r] EXCEPT !.pc = IF s = <<>> THEN "best" ELSE "details",
                               !.picked = s])

(* getBestsellerProducts: what was sold twice or more; the top rated when  *)
(* nothing was.                                                            *)
ReadBest(r) ==
    LET q == ask[r]
    IN  /\ Reading(r, "best")
        /\ \E s \in Firsts({p \in open \cap In(q.key.category) : Sold(p) >= 2},
                           LAMBDA x, y : Sold(x) > Sold(y)) :
              Go(r, [q EXCEPT !.pc = IF s = <<>> THEN "top" ELSE "details",
                              !.picked = s])

(* Mutant: the details are read whether or not the product is hidden.      *)
ReadDetailsOfAll(r) ==
    /\ Reading(r, "details")
    /\ Reply(r, ask[r], Kept(ask[r].picked, In(ask[r].key.category)))

(* The details of what was picked; what is hidden by now, or of another    *)
(* category, falls out and nothing takes its place.                        *)
ReadDetails(r) ==
    /\ Reading(r, "details")
    /\ Reply(r, ask[r], Kept(ask[r].picked, open \cap In(ask[r].key.category)))

(* getTopRatedProducts and getNewArrivals: one read each.                  *)
ReadTop(r) ==
    /\ Reading(r, "top")
    /\ \E s \in Firsts(open \cap In(ask[r].key.category) \cap TopRated,
                       LAMBDA p, q : Rating[p] > Rating[q]) : Reply(r, ask[r], s)

ReadNew(r) ==
    /\ Reading(r, "new")
    /\ \E s \in Firsts(open \cap In(ask[r].key.category),
                       LAMBDA p, q : Age[p] < Age[q]) : Reply(r, ask[r], s)

(* getRecentlyViewed: the latest entries of the history, then those of     *)
(* them that are open, each product once.                                  *)
Once(s) == Kept([i \in DOMAIN s |-> IF \E j \in 1 .. i - 1 : s[j] = s[i] THEN None ELSE s[i]],
                Products)

ReadRecent(r) ==
    /\ Reading(r, "recent")
    /\ LET latest == SubSeq(viewed, 1, IF Len(viewed) < Limit THEN Len(viewed) ELSE Limit)
       IN  Reply(r, ask[r], Once(Kept(latest, open)))

-----------------------------------------------------------------------------
(* The rest of the shop, and the clock.                                    *)
Move == moves < MaxMoves /\ moves' = moves + 1

(* updateProduct or remove hides a product; updateProduct shows it.        *)
Hide(p) ==
    /\ p \in open /\ Move
    /\ open' = open \ {p}
    /\ ask' = [r \in Requests |->
          IF ask[r] = NoRequest THEN ask[r]
          ELSE IF ask[r].pc = "answered" THEN [ask[r] EXCEPT !.gone = @ \cup {p}]
          ELSE [ask[r] EXCEPT !.kept = @ \ {p}]]
    /\ hidden' = [k \in Questions |-> IF cache[k] = None THEN {} ELSE hidden[k] \cup {p}]
    /\ UNCHANGED <<placed, cancelled, active, viewed, cache>>

Show(p) ==
    /\ p \notin open /\ Move
    /\ open' = open \cup {p}
    /\ UNCHANGED <<placed, cancelled, active, viewed, ask, cache, hidden>>

Place(o) ==
    /\ o \notin placed /\ ItemsOf[o] \subseteq open /\ Move
    /\ placed' = placed \cup {o}
    /\ UNCHANGED <<open, cancelled, active, viewed, ask, cache, hidden>>

Cancel(o) ==
    /\ o \in placed \ cancelled /\ Move
    /\ cancelled' = cancelled \cup {o}
    /\ UNCHANGED <<open, placed, active, viewed, ask, cache, hidden>>

(* A product is opened by the visitor.                                     *)
View(p) ==
    /\ p \in open /\ Move
    /\ active' = [active EXCEPT ![p] = @ + 1]
    /\ viewed' = <<p>> \o viewed
    /\ UNCHANGED <<open, placed, cancelled, ask, cache, hidden>>

Expire(k) ==
    /\ cache[k] # None
    /\ cache' = [cache EXCEPT ![k] = None]
    /\ hidden' = [hidden EXCEPT ![k] = {}]
    /\ UNCHANGED <<shopVars, ask, moves>>

RecommendInit ==
    /\ open = Products
    /\ placed = Earlier /\ cancelled = {}
    /\ active = [p \in Products |-> 0]
    /\ viewed = <<>>
    /\ ask = [r \in Requests |-> NoRequest]
    /\ cache = [k \in Questions |-> None]
    /\ moves = 0
    /\ hidden = [k \in Questions |-> {}]

Read(r) ==
    \/ ReadSimilar(r) \/ ReadOrders(r) \/ ReadGroup(r)
    \/ ReadActive(r) \/ ReadBest(r) \/ ReadDetails(r)
    \/ ReadTop(r) \/ ReadNew(r) \/ ReadRecent(r)

RecommendNext ==
    \/ \E r \in Requests : Read(r) \/ Keep(r)
    \/ \E r \in Requests, k \in Questions : Ask(r, k)
    \/ \E p \in Products : Hide(p) \/ Show(p) \/ View(p)
    \/ \E o \in Orders : Place(o) \/ Cancel(o)
    \/ \E k \in Questions : Expire(k)

RecommendSpec == RecommendInit /\ [][RecommendNext]_recommendVars

-----------------------------------------------------------------------------
RecommendTypeOK ==
    /\ open \subseteq Products
    /\ cancelled \subseteq placed /\ placed \subseteq Orders
    /\ active \in [Products -> Nat] /\ viewed \in Seq(Products)
    /\ ask \in [Requests -> Request \cup {NoRequest}]
    /\ cache \in [Questions -> Answers \cup {None}]
    /\ moves \in 0 .. MaxMoves
    /\ hidden \in [Questions -> SUBSET Products]

(* Whatever is answered, from the cache or not, lists a product at most    *)
(* once, never the one it is about, and only products that are open or     *)
(* were hidden after the last read of the answer: what is hidden while the *)
(* answer is put together does not slip in (recommendations.service.ts:481,*)
(* :641 and :985).                                                         *)
ListsOpenProducts ==
    \A k \in Questions :
        cache[k] # None =>
            /\ Range(cache[k]) \subseteq (open \cup hidden[k]) \ {k.subject}
            /\ IsInjective(cache[k])

(* What the last kind of the chain that a request falls back along has to  *)
(* offer.                                                                  *)
LastResort(k) ==
    IF k.kind \in Related THEN Alike(k.subject) ELSE TopRated \cap In(k.category)

(* A list that may fall back is empty only when all that it had picked,    *)
(* before anything else was tried, was hidden meanwhile or is of another   *)
(* category, or when nothing at the end of the chain stayed open while it  *)
(* was put together.  (So trending is empty, and the bestsellers are not   *)
(* tried, when the week's most active products are hidden,                 *)
(* recommendations.service.ts:619 and :641.)                               *)
EmptyOnlyIfNothingStayed ==
    \A r \in Requests :
        LET q == ask[r]
        IN  q.pc = "answered" /\ q.list = <<>>
                /\ q.key.kind \in Related \cup {"trending", "personal", "best"} =>
              IF q.picked # <<>>
                THEN Range(q.picked) \cap q.kept \cap In(q.key.category) = {}
                ELSE LastResort(q.key) \cap q.kept = {}
=============================================================================
