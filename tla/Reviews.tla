------------------------------ MODULE Reviews -------------------------------
(***************************************************************************)
(* ReviewsService (src/modules/reviews/reviews.service.ts) and the rating  *)
(* it keeps on the product.                                                *)
(*                                                                         *)
(* A change of a review is one transaction: it writes the review, adds up  *)
(* the reviews of the product and writes the result to the product.  It    *)
(* runs at the default isolation of PostgreSQL, Read Committed: the sum    *)
(* sees what is committed and the transaction's own write, and the write   *)
(* to the product waits for another's but does not notice it.              *)
(***************************************************************************)
EXTENDS Integers, FiniteSets, Functions

CONSTANTS
    Users,      \* ids of users
    Orders,     \* ids of orders
    Products,   \* ids of products
    BuyerOf,    \* BuyerOf[o]: the user who placed o
    ItemsOf,    \* ItemsOf[o]: the products in o
    Ratings,    \* ratings that are given
    Requests,   \* requests in flight together
    Readers,    \* users who look for something to review
    MaxOps,     \* bound: requests that change a review
    None        \* no review, nothing held

(* What the instance assumes of the constants.                             *)
ReviewsAssumption ==
    /\ BuyerOf \in [Orders -> Users] /\ ItemsOf \in [Orders -> SUBSET Products]
    /\ Ratings \subseteq 1 .. 5 /\ MaxOps \in Nat
    /\ Readers \subseteq Users
    /\ IsFiniteSet(Orders) /\ None \notin Int \cup Orders \cup Products

VARIABLES
    users,      \* users who have not been deleted
    delivered,  \* orders whose status is DELIVERED
    review,     \* review[o][p]: the rating given to p from o, or None (committed)
    stats,      \* stats[p]: averageRating and reviewCount of p
    call,       \* call[r]: request r, in flight or idle
    ops,        \* operations counted against MaxOps
    behind,     \* history: requests that added up before another's commit
    stale,      \* history: products whose rating was written behind, or not at all
    page        \* page[u]: the list of products that u is offered to review

storedVars == <<users, delivered, review, stats, call, ops, behind, stale>>
reviewsVars == <<storedVars, page>>

(* averageRating is sum / count, and 0 without a review                    *)
Stats == [sum : Nat, count : Nat]

(* rating: that the review is about to have, None to delete it             *)
ReviewStage == {"idle", "create", "update", "remove", "written", "added"}
Call == [pc : ReviewStage, order : Orders \cup {None}, product : Products \cup {None},
         rating : Ratings \cup {None}, stats : Stats]
Idle == [pc |-> "idle", order |-> None, product |-> None, rating |-> None,
         stats |-> [sum |-> 0, count |-> 0]]

(* The list is made from the delivered orders, which are read first, and   *)
(* the reviews of the user, and taken up later.                            *)
Page == [pc : {"closed", "orders", "offers"}, orders : SUBSET Orders,
         offers : SUBSET (Orders \X Products),
         since : SUBSET (Orders \X Products)]  \* history: what has changed after it was read
Closed == [pc |-> "closed", orders |-> {}, offers |-> {}, since |-> {}]

ByUser(u) == {o \in Orders : BuyerOf[o] = u /\ u \in users}
Rated(x, p) == {o \in Orders : x[o][p] # None}

Goto(r, q) == call' = [call EXCEPT ![r] = q]
Begin == ops < MaxOps /\ ops' = ops + 1

-----------------------------------------------------------------------------
(* updateProductRatingStats, the aggregate.                                *)

Aggregate(x, p) ==
    [sum |-> SumFunctionOnSet([o \in Orders |-> x[o][p]], Rated(x, p)),
     count |-> Cardinality(Rated(x, p))]

(* getProductReviewStats: what the page of the reviews shows.              *)
ProductReviewStats(p) == Aggregate(review, p)

-----------------------------------------------------------------------------
(* create: the order is checked, then the unique key, before the           *)
(* transaction.                                                            *)

CanReview(u, o, p) ==
    /\ o \in ByUser(u) /\ o \in delivered /\ p \in ItemsOf[o]
    /\ review[o][p] = None

CreateRead(r, u, o, p, i) ==
    /\ call[r] = Idle /\ CanReview(u, o, p)
    /\ Begin
    /\ Goto(r, [Idle EXCEPT !.pc = "create", !.order = o, !.product = p, !.rating = i])
    /\ UNCHANGED <<users, delivered, review, stats, behind, stale>>

(* update with a rating (one without changes no rating), and remove: by    *)
(* the author, or for remove an administrator.                             *)
ChangeRead(r, o, p, pc, i) ==
    /\ call[r] = Idle /\ review[o][p] # None
    /\ Begin
    /\ Goto(r, [Idle EXCEPT !.pc = pc, !.order = o, !.product = p, !.rating = i])
    /\ UNCHANGED <<users, delivered, review, stats, behind, stale>>

(* The first statement of the transaction waits for whoever is writing the *)
(* same review; an insert fails when there is one by then or the user has  *)
(* gone, an update or a delete when there is none.                         *)
Writing(q, o, p) == q.pc \in {"written", "added"} /\ q.order = o /\ q.product = p

Write(r) ==
    LET q == call[r]
    IN  /\ q.pc \in {"create", "update", "remove"}
        /\ \A s \in Requests : ~Writing(call[s], q.order, q.product)
        /\ Goto(r, IF q.pc = "create" /\ review[q.order][q.product] = None
                      /\ BuyerOf[q.order] \in users
                     THEN [q EXCEPT !.pc = "written"]
                   ELSE IF q.pc # "create" /\ review[q.order][q.product] # None
                     THEN [q EXCEPT !.pc = "written"]
                   ELSE Idle)
        /\ UNCHANGED <<users, delivered, review, stats, ops, behind, stale>>

After(q) == [review EXCEPT ![q.order] = [review[q.order] EXCEPT ![q.product] = q.rating]]

(* Mutant: the reviews are added up without the one just written.          *)
AddUpOthers(r) ==
    LET q == call[r]
    IN  /\ q.pc = "written"
        /\ Goto(r, [q EXCEPT !.pc = "added", !.stats = Aggregate(review, q.product)])
        /\ UNCHANGED <<users, delivered, review, stats, ops, behind, stale>>

AddUp(r) ==
    LET q == call[r]
    IN  /\ q.pc = "written"
        /\ Goto(r, [q EXCEPT !.pc = "added", !.stats = Aggregate(After(q), q.product)])
        /\ UNCHANGED <<users, delivered, review, stats, ops, behind, stale>>

AddedUp(ps) == {s \in Requests : call[s].pc = "added" /\ call[s].product \in ps}

(* product.update and the commit: nobody sees one without the other.       *)
Commit(r) ==
    LET q == call[r]
    IN  /\ q.pc = "added"
        /\ review' = After(q)
        /\ stats' = [stats EXCEPT ![q.product] = q.stats]
        /\ stale' = IF r \in behind THEN stale \cup {q.product} ELSE stale \ {q.product}
        /\ behind' = (behind \cup AddedUp({q.product})) \ {r}
        /\ Goto(r, Idle)
        /\ UNCHANGED <<users, delivered, ops>>

(* The request fails or the server stops; the transaction is rolled back.  *)
Rollback(r) ==
    /\ call[r] # Idle
    /\ Goto(r, Idle)
    /\ behind' = behind \ {r}
    /\ UNCHANGED <<users, delivered, review, stats, ops, stale>>

-----------------------------------------------------------------------------
(* OrdersService moves orders to DELIVERED, and from there to RETURNED.    *)
SetDelivered(o) ==
    /\ delivered' = IF o \in delivered THEN delivered \ {o} ELSE delivered \cup {o}
    /\ UNCHANGED <<users, review, stats, call, ops, behind, stale>>

(* UsersService.deleteUser: the foreign key takes the reviews along, the   *)
(* products are not touched.                                               *)
DeleteUser(u) ==
    LET gone == {p \in Products : \E o \in ByUser(u) : review[o][p] # None}
    IN  /\ u \in users
        /\ \A r \in Requests : call[r].pc \in {"written", "added"} => BuyerOf[call[r].order] # u
        /\ users' = users \ {u}
        /\ review' = [o \in Orders |->
              IF o \in ByUser(u) THEN [p \in Products |-> None] ELSE review[o]]
        /\ stale' = stale \cup gone
        /\ behind' = behind \cup AddedUp(gone)
        /\ UNCHANGED <<delivered, stats, call, ops>>

ReviewsInit ==
    /\ users = Users
    /\ delivered = {}
    /\ review = [o \in Orders |-> [p \in Products |-> None]]
    /\ stats = [p \in Products |-> [sum |-> 0, count |-> 0]]
    /\ call = [r \in Requests |-> Idle]
    /\ ops = 0
    /\ behind = {} /\ stale = {}
    /\ page = [u \in Readers |-> Closed]

ReviewsStep ==
    \/ \E o \in Orders : SetDelivered(o)
    \/ \E u \in Users : DeleteUser(u)
    \/ \E r \in Requests :
          \/ Write(r) \/ AddUp(r) \/ Commit(r) \/ Rollback(r)
          \/ \E o \in Orders, p \in Products :
                \/ \E u \in Users, i \in Ratings : CreateRead(r, u, o, p, i)
                \/ \E i \in Ratings : ChangeRead(r, o, p, "update", i)
                \/ ChangeRead(r, o, p, "remove", None)

-----------------------------------------------------------------------------
(* getReviewEligibleProducts: two queries, and a list that the user may    *)
(* take up as long as it is open.                                          *)

Shows(u, g) ==
    /\ page' = [page EXCEPT ![u] = g]
    /\ UNCHANGED storedVars

ListOrders(u) ==
    /\ page[u] = Closed /\ u \in users
    /\ Shows(u, [Closed EXCEPT !.pc = "orders", !.orders = ByUser(u) \cap delivered])

(* Mutant: what was reviewed is offered again.                             *)
ListOffersAgain(u) ==
    /\ page[u].pc = "orders"
    /\ Shows(u, [page[u] EXCEPT !.pc = "offers",
          !.offers = {x \in page[u].orders \X Products : x[2] \in ItemsOf[x[1]]}])

(* A product is offered until it is reviewed from whatever order.          *)
ListOffers(u) ==
    /\ page[u].pc = "orders"
    /\ Shows(u, [page[u] EXCEPT !.pc = "offers",
          !.offers = {x \in page[u].orders \X Products :
              x[2] \in ItemsOf[x[1]] /\ \A o \in ByUser(u) : review[o][x[2]] = None}])

ClosePage(u) == page[u] # Closed /\ Shows(u, Closed)

(* What changes after it was read: orders from the first query on, reviews *)
(* from the second on.                                                     *)
Overtakes ==
    page' = [u \in Readers |-> IF page[u] = Closed THEN Closed
       ELSE [page[u] EXCEPT !.since = page[u].since \cup {x \in Orders \X Products :
          \/ (x[1] \in delivered) # (x[1] \in delivered')
          \/ page[u].pc = "offers" /\ review'[x[1]][x[2]] # review[x[1]][x[2]]}]]

ReviewsNext ==
    \/ ReviewsStep /\ Overtakes
    \/ \E u \in Readers : ListOrders(u) \/ ListOffers(u) \/ ClosePage(u)

ReviewsSpec == ReviewsInit /\ [][ReviewsNext]_reviewsVars

-----------------------------------------------------------------------------
ReviewsTypeOK ==
    /\ users \subseteq Users /\ delivered \subseteq Orders
    /\ review \in [Orders -> [Products -> Ratings \cup {None}]]
    /\ stats \in [Products -> Stats]
    /\ call \in [Requests -> Call]
    /\ ops \in Nat
    /\ behind \subseteq Requests /\ stale \subseteq Products
    /\ page \in [Readers -> Page]

(* The rating that a product shows is that of its reviews                  *)
(* (reviews.service.ts:763), unless the last change of one of its reviews  *)
(* was added up before another was committed, or a user was deleted with   *)
(* a review of it; the next change that is left alone puts it right.       *)
RatingIsOfReviews == \A p \in Products \ stale : stats[p] = ProductReviewStats(p)

(* Nobody is offered to review what create() then refuses, unless the order *)
(* was returned after it had been read, or the review was written by       *)
(* another request after the reviews had been read (reviews.service.ts:653).*)
(* And what could be reviewed and is not offered was reviewed by the user   *)
(* from another order, then or now, or has changed since in that way.      *)
OffersAreOpen ==
    \A u \in Readers \cap users :
        page[u].pc = "offers" => \A o \in Orders, p \in Products :
            <<o, p>> \notin page[u].since =>
                /\ <<o, p>> \in page[u].offers => CanReview(u, o, p)
                /\ CanReview(u, o, p) /\ <<o, p>> \notin page[u].offers =>
                      \E other \in ByUser(u) \ {o} :
                          review[other][p] # None \/ <<other, p>> \in page[u].since
=============================================================================
