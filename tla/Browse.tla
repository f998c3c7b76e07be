------------------------------- MODULE Browse -------------------------------
(***************************************************************************)
(* What shoppers see of the taxonomy: the listing of ProductsService       *)
(* (findAll), its filter options (getAvailableFilters), the products of    *)
(* a category's page (CategoriesService.getCategoryProductsRecursive) and  *)
(* the navigation.  All of them only read.                                 *)
(*                                                                         *)
(* A listing of a whole subtree reads its categories one query at a time,  *)
(* the children of all that it has found at once, and looks for products   *)
(* afterwards: administrators move categories meanwhile.                   *)
(***************************************************************************)
EXTENDS Taxonomy

CONSTANTS
    Shoppers,   \* listings in flight together
    Sellers,    \* ids of sellers
    SellerOf,   \* SellerOf[p]: whose product p is
    OpenShops,  \* products whose store is approved and not on vacation
    Terms,      \* what may be searched for
    Hits        \* Hits[t]: the products the filter options find for t

ASSUME BrowseAssumption ==
    /\ OpenShops \subseteq Products
    /\ SellerOf \in [Products -> Sellers] /\ Hits \in [Terms -> SUBSET Products]

VARIABLE visit  \* visit[s]: the walk of shopper s through a subtree, or None

browseVars == <<vars, visit>>

(* pending[c]: reads of the children of c still to come, 2 for several     *)
Visit == [category : Cats, found : SUBSET Cats, pending : [Cats -> 0 .. 2],
          moved : SUBSET Cats,  \* history: categories that have changed their parent since
          failed : BOOLEAN]

-----------------------------------------------------------------------------
(* getCategoryAndDescendantsIds: the category is looked up, then the       *)
(* children of each category that is found, all of them concurrently.      *)

Visits(s, v) ==
    /\ visit' = [visit EXCEPT ![s] = v]
    /\ UNCHANGED vars

Enter(s, c) ==
    /\ visit[s] = None /\ parent[c] # None
    /\ Visits(s, [category |-> c, found |-> IF Exists(c) THEN {c} ELSE {},
                  pending |-> [d \in Cats |-> IF d = c /\ Exists(c) THEN 1 ELSE 0],
                  moved |-> {}, failed |-> FALSE])

(* Mutant: the children are not read in their turn.                        *)
ReadChildrenOnly(s, c) ==
    /\ visit[s] # None /\ visit[s].pending[c] > 0
    /\ Visits(s, [visit[s] EXCEPT !.found = visit[s].found \cup Children(c),
                                  !.pending = [d \in Cats |-> 0]])

ReadChildren(s, c) ==
    LET v == visit[s]
        More(n) == IF n = 0 THEN 1 ELSE 2
        Fewer(n) == IF n = 2 THEN {1, 2} ELSE {0}
    IN  /\ v # None /\ v.pending[c] > 0
        /\ \E n \in Fewer(v.pending[c]) :
              LET left == [v.pending EXCEPT ![c] = n]
              IN  Visits(s, [v EXCEPT !.found = v.found \cup Children(c),
                       !.pending = [d \in Cats |-> IF d \in Children(c) THEN More(left[d])
                                                   ELSE left[d]]])

(* Any of its queries may fail: then the category alone is taken.          *)
ReadFails(s) ==
    LET v == visit[s]
    IN  /\ v # None /\ \E c \in Cats : v.pending[c] > 0
        /\ Visits(s, [v EXCEPT !.found = {v.category}, !.pending = [c \in Cats |-> 0],
                               !.failed = TRUE])

Walked(v) == v # None /\ \A c \in Cats : v.pending[c] = 0

(* The products are looked for among what was found, and shown.            *)
ShowFound(s) ==
    /\ Walked(visit[s])
    /\ Visits(s, None)

BrowseInit == Init /\ visit = [s \in Shoppers |-> None]

BrowseNext ==
    \/ /\ Next
       /\ visit' = [s \in Shoppers |->
             IF visit[s] = None THEN None
             ELSE [visit[s] EXCEPT !.moved = visit[s].moved
                                             \cup {c \in Cats : parent'[c] # parent[c]}]]
    \/ \E s \in Shoppers :
          \/ \E c \in Cats : Enter(s, c) \/ ReadChildren(s, c)
          \/ ReadFails(s) \/ ShowFound(s)

BrowseSpec == BrowseInit /\ [][BrowseNext]_browseVars

-----------------------------------------------------------------------------
(* The queries for products.  Conditions on their other columns, which     *)
(* are alike in all of them, are left out.                                 *)

Filed(x) == {p \in Products : place[p].category \in x \/ place[p].sub \in x}

Viewers == {"guest", "customer"} \cup Sellers

(* findAll of a subtree: the condition on the categories replaces that on  *)
(* what was searched for.  A guest sees what is open, a seller what is its *)
(* own; a customer, who is signed in, and an administrator see everything. *)
FindAll(x, viewer) ==
    {p \in Filed(x) : /\ viewer = "guest" => p \in OpenShops
                      /\ viewer \in Sellers => SellerOf[p] = viewer}

(* The products that getAvailableFilters counts: here what is searched for *)
(* replaces the categories, a category that is gone is no condition at     *)
(* all, and anyone sees everything.                                        *)
FilterBase(x, search) ==
    IF search # None THEN Hits[search] ELSE IF x = {} THEN Products ELSE Filed(x)

(* getCategoryProductsRecursive: in spite of its name the category alone.  *)
CategoryProducts(c) == Filed({c})

-----------------------------------------------------------------------------
(* A category and all below it: the least set that has the category and    *)
(* the children of its members; and those that are left when nothing is    *)
(* said of the categories in moved.                                        *)
DescendantsPast(c, moved) ==
    {d \in Cats : \A s \in SUBSET Cats :
        c \in s /\ (\A x \in Cats \ moved : parent[x] \in s => x \in s) => d \in s}

Descendants(c) == DescendantsPast(c, {})

OnCycle(c) == parent[c] \in Descendants(c)

(* getCategoryTree: the navigation is built down from the top categories.  *)
TopCategories == {r \in Cats : parent[r] = Root}
CategoryTree == UNION {Descendants(r) : r \in TopCategories}

(* getParentTree: the breadcrumb of a category, itself and all above it.   *)
ParentTree(c) ==
    {a \in Cats : \A s \in SUBSET Cats :
        c \in s /\ (\A x \in s : parent[x] \in Cats => parent[x] \in s) => a \in s}

(* What a walk of many reads makes of a subtree that changes under it.     *)
(* Everything is shown that was filed below the category all the time: a   *)
(* product is missed only if a read failed, or its category or one above   *)
(* it was moved after the walk had begun, though it may never have left    *)
(* the subtree (products.service.ts:1941).  And nothing strays in: what is *)
(* shown is filed below the category now, or below one that was moved.  The*)
(* page of a category and, unless one searches, the filters show no less;  *)
(* the listing of a seller or a guest leaves out what is not for them.     *)
ShownUnlessMoved ==
    \A s \in Shoppers :
        LET v == visit[s]
            For(p, viewer) == /\ viewer = "guest" => p \in OpenShops
                              /\ viewer \in Sellers => SellerOf[p] = viewer
            Stayed(p) == p \in Filed(DescendantsPast(v.category, v.moved))
            Strayed(c) == \E a \in ParentTree(c) : a \in v.moved
        IN  Walked(v) =>
              /\ \A p \in Products : ~v.failed /\ Stayed(p) =>
                    /\ p \in FilterBase(v.found, None)
                    /\ \A viewer \in Viewers : For(p, viewer) => p \in FindAll(v.found, viewer)
              /\ CategoryProducts(v.category) \subseteq FilterBase(v.found, None)
              /\ overtaken \/ \A c \in v.found : c \in Descendants(v.category) \/ Strayed(c)

(* The navigation has every category, and the breadcrumb of each starts at *)
(* one top category, unless a move was overtaken: then a circle of         *)
(* categories hangs from no top category, is not shown, and its breadcrumb *)
(* does not end (categories.service.ts:341).                               *)
NavigationIsWhole ==
    overtaken \/ \A c \in Cats : Exists(c) =>
        c \in CategoryTree /\ \E r \in Cats : ParentTree(c) \cap TopCategories = {r}
=============================================================================
