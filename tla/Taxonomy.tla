------------------------------ MODULE Taxonomy ------------------------------
(***************************************************************************)
(* CategoriesService, BrandsService and the templates of                   *)
(* SpecificationsService (src/modules/categories, brands, specifications), *)
(* with the products that are filed under categories and brands.           *)
(*                                                                         *)
(* A move of a category climbs from the new parent to the root, one read   *)
(* at a time, to see that it does not pass the category itself, and writes *)
(* afterwards.  A removal counts the products, then the children, and      *)
(* deletes afterwards; the foreign keys of what came in between SET NULL.  *)
(***************************************************************************)
EXTENDS Integers, FiniteSets

CONSTANTS
    Cats,       \* ids of categories; never used twice
    Brands,     \* ids of brands; never used twice
    Products,   \* ids of products
    Editors,    \* requests of administrators in flight together
    MaxEdits,   \* bound: operations
    Root,       \* SQL NULL in parentId: a category at the top
    None,       \* SQL NULL elsewhere, and a row not inserted yet
    Deleted     \* a row that was deleted

ASSUME TaxonomyAssumption ==
    /\ IsFiniteSet(Cats) /\ MaxEdits \in Nat
    /\ {Root, None, Deleted} \cap (Cats \cup Brands) = {}
    /\ Root # None /\ Root # Deleted /\ None # Deleted

VARIABLES
    parent,     \* parent[c]: its parent or Root; None before, Deleted after
    brand,      \* brand[b]: "none", "live" or "deleted"
    place,      \* place[p]: the category, subcategory and brand of product p
    templated,  \* categories with a specification template
    call,       \* call[e]: the request of e in flight
    edits,      \* operations counted against MaxEdits
    overtaken,  \* history: an ancestor was moved after a move had climbed past it
    slipped     \* history: categories and products put under what was being removed

vars == <<parent, brand, place, templated, call, edits, overtaken, slipped>>

Place == [category : Cats \cup {None}, sub : Cats \cup {None}, brand : Brands \cup {None}]

(* A move has read the parent of every category of its path; "climb": the  *)
(* parent of at is read next.                                              *)
Stage == {"idle", "climb", "move", "children", "delete", "deleteBrand"}
Call == [pc : Stage, cat : Cats \cup {None}, to : Cats \cup {None},
         at : Cats \cup {None}, path : SUBSET (Cats \X (Cats \cup {Root, Deleted})),
         brand : Brands \cup {None}]
Idle == [pc |-> "idle", cat |-> None, to |-> None, at |-> None, path |-> {}, brand |-> None]

Exists(c) == parent[c] \notin {None, Deleted}
Children(c) == {d \in Cats : parent[d] = c}
FiledUnder(c) == {p \in Products : place[p].category = c \/ place[p].sub = c}
OfBrand(b) == {p \in Products : place[p].brand = b}

EditAllowed == edits < MaxEdits /\ edits' = edits + 1
Goto(e, q) == call' = [call EXCEPT ![e] = q]

BeingRemoved(c) == \E e \in Editors : call[e].pc \in {"children", "delete"} /\ call[e].cat = c
Slip(x, under) == slipped' = IF \E c \in under : BeingRemoved(c) THEN slipped \cup {x}
                             ELSE slipped

-----------------------------------------------------------------------------
(* Categories.  create: the parent is looked up and the category inserted; *)
(* the foreign key detects a parent removed in between, and a slug taken   *)
(* in between the unique key: one step.                                    *)

Create(c, p) ==
    /\ parent[c] = None
    /\ p # Root => Exists(p)
    /\ EditAllowed
    /\ parent' = [parent EXCEPT ![c] = p]
    /\ Slip(c, {p})
    /\ UNCHANGED <<brand, place, templated, call, overtaken>>

(* update with a parentId of null checks nothing.                          *)
MoveToRoot(c) ==
    /\ Exists(c)
    /\ EditAllowed
    /\ parent' = [parent EXCEPT ![c] = Root]
    /\ UNCHANGED <<brand, place, templated, call, overtaken, slipped>>

MoveStart(e, c, p) ==
    /\ call[e] = Idle
    /\ Exists(c) /\ Exists(p) /\ c # p
    /\ EditAllowed
    /\ Goto(e, [Idle EXCEPT !.pc = "climb", !.cat = c, !.to = p, !.at = p])
    /\ UNCHANGED <<parent, brand, place, templated, overtaken, slipped>>

(* preventCircularReference, one round of its loop: the move is refused    *)
(* when the category or one already visited is met, and accepted at the    *)
(* root or when the category read has been deleted.                        *)
Visited(q) == {q.cat} \cup {x[1] : x \in q.path}

(* Mutant: only the new parent itself is looked at.                        *)
ClimbOnce(e) ==
    LET q == call[e]
    IN  /\ q.pc = "climb"
        /\ Goto(e, [q EXCEPT !.path = {<<q.at, parent[q.at]>>}, !.pc = "move", !.at = None])
        /\ UNCHANGED <<parent, brand, place, templated, edits, overtaken, slipped>>

Climb(e) ==
    LET q == call[e]
        above == parent[q.at]
    IN  /\ q.pc = "climb"
        /\ Goto(e, IF q.at \in Visited(q) THEN Idle
                   ELSE [q EXCEPT !.path = q.path \cup {<<q.at, above>>},
                                  !.pc = IF above \in Cats THEN "climb" ELSE "move",
                                  !.at = IF above \in Cats THEN above ELSE None])
        /\ UNCHANGED <<parent, brand, place, templated, edits, overtaken, slipped>>

(* The foreign key refuses a parent that was deleted.                      *)
Move(e) ==
    LET q == call[e]
    IN  /\ q.pc = "move"
        /\ Goto(e, Idle)
        /\ IF Exists(q.cat) /\ Exists(q.to)
             THEN /\ parent' = [parent EXCEPT ![q.cat] = q.to]
                  /\ overtaken' = (overtaken \/ \E x \in q.path : parent[x[1]] # x[2])
                  /\ Slip(q.cat, {q.to})
             ELSE UNCHANGED <<parent, overtaken, slipped>>
        /\ UNCHANGED <<brand, place, templated, edits>>

-----------------------------------------------------------------------------
(* remove: products are counted, children are counted, the row is deleted. *)

(* Mutant: the products of subcategories are not counted.                  *)
RemoveCountOwn(e, c) ==
    /\ call[e] = Idle /\ Exists(c)
    /\ \A p \in Products : place[p].category # c
    /\ EditAllowed
    /\ Goto(e, [Idle EXCEPT !.pc = "children", !.cat = c])
    /\ UNCHANGED <<parent, brand, place, templated, overtaken, slipped>>

RemoveCountProducts(e, c) ==
    /\ call[e] = Idle /\ Exists(c) /\ FiledUnder(c) = {}
    /\ EditAllowed
    /\ Goto(e, [Idle EXCEPT !.pc = "children", !.cat = c])
    /\ UNCHANGED <<parent, brand, place, templated, overtaken, slipped>>

RemoveCountChildren(e) ==
    LET q == call[e]
    IN  /\ q.pc = "children"
        /\ Goto(e, IF Children(q.cat) = {} THEN [q EXCEPT !.pc = "delete"] ELSE Idle)
        /\ UNCHANGED <<parent, brand, place, templated, edits, overtaken, slipped>>

(* A template refuses the delete; a child becomes a root, a product keeps  *)
(* no category.                                                            *)
RemoveDelete(e) ==
    LET c == call[e].cat
    IN  /\ call[e].pc = "delete"
        /\ Goto(e, Idle)
        /\ IF Exists(c) /\ c \notin templated
             THEN /\ parent' = [d \in Cats |-> IF d = c THEN Deleted
                                               ELSE IF parent[d] = c THEN Root ELSE parent[d]]
                  /\ place' = [p \in Products |-> [place[p] EXCEPT
                        !.category = IF place[p].category = c THEN None ELSE place[p].category,
                        !.sub = IF place[p].sub = c THEN None ELSE place[p].sub]]
             ELSE UNCHANGED <<parent, place>>
        /\ UNCHANGED <<brand, templated, edits, overtaken, slipped>>

-----------------------------------------------------------------------------
(* Brands: the products are counted, the row is deleted.                   *)

CreateBrand(b) ==
    /\ brand[b] = "none"
    /\ EditAllowed
    /\ brand' = [brand EXCEPT ![b] = "live"]
    /\ UNCHANGED <<parent, place, templated, call, overtaken, slipped>>

RemoveBrandCount(e, b) ==
    /\ call[e] = Idle /\ brand[b] = "live" /\ OfBrand(b) = {}
    /\ EditAllowed
    /\ Goto(e, [Idle EXCEPT !.pc = "deleteBrand", !.brand = b])
    /\ UNCHANGED <<parent, brand, place, templated, overtaken, slipped>>

RemoveBrandDelete(e) ==
    LET b == call[e].brand
    IN  /\ call[e].pc = "deleteBrand"
        /\ Goto(e, Idle)
        /\ brand' = [brand EXCEPT ![b] = "deleted"]
        /\ place' = [p \in Products |->
              [place[p] EXCEPT !.brand = IF place[p].brand = b THEN None ELSE place[p].brand]]
        /\ UNCHANGED <<parent, templated, edits, overtaken, slipped>>

-----------------------------------------------------------------------------
(* createSpecificationTemplate, deleteSpecificationTemplate: the unique    *)
(* and the foreign key make each one step.                                 *)

AddTemplate(c) ==
    /\ Exists(c) /\ c \notin templated
    /\ EditAllowed
    /\ templated' = templated \cup {c}
    /\ UNCHANGED <<parent, brand, place, call, overtaken, slipped>>

DeleteTemplate(c) ==
    /\ c \in templated
    /\ templated' = templated \ {c}
    /\ UNCHANGED <<parent, brand, place, call, edits, overtaken, slipped>>

(* ProductsService.create and update: connect fails on a missing row.      *)
File(p, w) ==
    /\ \A c \in {w.category, w.sub} \ {None} : Exists(c)
    /\ w.brand # None => brand[w.brand] = "live"
    /\ w # place[p]
    /\ EditAllowed
    /\ place' = [place EXCEPT ![p] = w]
    /\ Slip(p, {w.category, w.sub} \ {None})
    /\ UNCHANGED <<parent, brand, templated, call, overtaken>>

Init ==
    /\ parent = [c \in Cats |-> None]
    /\ brand = [b \in Brands |-> "none"]
    /\ place = [p \in Products |-> [category |-> None, sub |-> None, brand |-> None]]
    /\ templated = {}
    /\ call = [e \in Editors |-> Idle]
    /\ edits = 0
    /\ overtaken = FALSE /\ slipped = {}

CategoriesNext ==
    \/ \E c \in Cats :
          \/ \E p \in Cats \cup {Root} : Create(c, p)
          \/ MoveToRoot(c)
          \/ \E e \in Editors :
                \/ \E p \in Cats : MoveStart(e, c, p)
                \/ RemoveCountProducts(e, c)
    \/ \E e \in Editors : Climb(e) \/ Move(e) \/ RemoveCountChildren(e) \/ RemoveDelete(e)

TemplatesNext == \E c \in Cats : AddTemplate(c) \/ DeleteTemplate(c)

(* (A brand may also be renamed, on which nothing here depends.)           *)
BrandsNext ==
    \/ \E b \in Brands : CreateBrand(b) \/ \E e \in Editors : RemoveBrandCount(e, b)
    \/ \E e \in Editors : RemoveBrandDelete(e)

Next ==
    \/ CategoriesNext \/ TemplatesNext \/ BrandsNext
    \/ \E p \in Products, w \in Place : File(p, w)

Spec == Init /\ [][Next]_vars

-----------------------------------------------------------------------------
TypeOK ==
    /\ parent \in [Cats -> Cats \cup {Root, None, Deleted}]
    /\ brand \in [Brands -> {"none", "live", "deleted"}]
    /\ place \in [Products -> Place]
    /\ templated \subseteq Cats
    /\ call \in [Editors -> Call]
    /\ edits \in Nat
    /\ overtaken \in BOOLEAN /\ slipped \subseteq Cats \cup Products

(* A set of categories in which everyone has its parent: a cycle, and what *)
(* hangs from it.  getCategoryTree starts at the roots and never shows it; *)
(* getParentTree never ends in it.                                         *)
Rootless(s) == s # {} /\ \A c \in s : parent[c] \in s

(* The categories form a tree.  preventCircularReference is not part of    *)
(* the write (categories.service.ts:220): two moves can each pass it and   *)
(* close a circle together.  It takes a category on the path that was      *)
(* climbed to have been moved since; then, and only then, the tree breaks. *)
TreeUnlessOvertaken == overtaken \/ \A s \in SUBSET Cats : ~Rootless(s)

(* A category or product that was filed under a category loses its place   *)
(* to a removal only if it was put there while the removal was counting    *)
(* (categories.service.ts:254).                                            *)
PlaceLostOnlyIfSlipped ==
    [][\A e \in Editors :
          call[e].pc = "delete" /\ call'[e] = Idle =>
             /\ \A d \in Cats : parent[d] = call[e].cat /\ parent'[d] = Root => d \in slipped
             /\ \A p \in FiledUnder(call[e].cat) : place'[p] # place[p] => p \in slipped]_vars
=============================================================================
