--------------------------- MODULE TaxonomyProofs ---------------------------
(***************************************************************************)
(* The categories form a tree unless a move was overtaken, and nothing     *)
(* loses its place unless it slipped under a category that was being       *)
(* removed; a walk through what is below a category ends as long as it is  *)
(* a tree, and shows all that did not move.  And the showcase: tags and    *)
(* images are those of one edit, and wishes are answered truly, unless a   *)
(* request was overtaken.  For any number of categories, products, tags,   *)
(* images and requests.                                                    *)
(***************************************************************************)
EXTENDS Browse, Sums, FiniteSetTheorems, TLAPS

(* A parent is a row: the foreign key.                                     *)
ParentsExist == \A c \in Cats : parent[c] \in Cats => Exists(parent[c])

(* Which of its fields a request uses.                                     *)
Armed(q) ==
    /\ q.pc \in {"climb", "move"} => q.cat \in Cats /\ q.to \in Cats
    /\ q.pc = "climb" => q.at \in Cats /\ parent[q.at] # None
    /\ q.pc \in {"children", "delete"} => q.cat \in Cats
    /\ q.pc = "deleteBrand" => q.brand \in Brands

(* The path that a move has climbed leads from the new parent to at, and   *)
(* in the end out of the categories, past the category itself; said of     *)
(* every set of categories that has the new parent and, with a category of *)
(* the path, the parent that was read.                                     *)
Closed(s, path) == \A x \in path : x[1] \in s => x[2] \in s

Climbed(q) ==
    /\ q.pc \in {"climb", "move"} => \A x \in q.path : x[1] # q.cat
    /\ q.pc = "climb" => \A s \in SUBSET Cats : q.to \in s /\ Closed(s, q.path) => q.at \in s
    /\ q.pc = "move" => \A s \in SUBSET Cats : ~(q.to \in s /\ Closed(s, q.path))

(* What is left under a category whose removal has counted slipped there.  *)
Counted(q) ==
    /\ q.pc \in {"children", "delete"} => FiledUnder(q.cat) \subseteq slipped
    /\ q.pc = "delete" => Children(q.cat) \subseteq slipped

IInv ==
    /\ TypeOK
    /\ ParentsExist
    /\ \A e \in Editors : Armed(call[e]) /\ Climbed(call[e]) /\ Counted(call[e])
    /\ TreeUnlessOvertaken

-----------------------------------------------------------------------------
LEMMA ConstantsDiffer ==
    /\ Root \notin Cats /\ None \notin Cats /\ Deleted \notin Cats
    /\ Root \notin Brands /\ None \notin Brands /\ Deleted \notin Brands
    /\ Root # None /\ Root # Deleted /\ None # Deleted /\ MaxEdits \in Nat
  BY TaxonomyAssumption DEF TaxonomyAssumption

LEMMA IdleIsCall ==
    /\ Idle \in Call /\ Idle.pc = "idle"
    /\ \A c \in Cats : [Idle EXCEPT !.pc = "children", !.cat = c] \in Call
    /\ \A b \in Brands : [Idle EXCEPT !.pc = "deleteBrand", !.brand = b] \in Call
    /\ \A c, p \in Cats : [Idle EXCEPT !.pc = "climb", !.cat = c, !.to = p, !.at = p] \in Call
  BY DEF Idle, Call, Stage

THEOREM Initially == Init => IInv
  <1> SUFFICES ASSUME Init PROVE IInv
    OBVIOUS
  <1> USE ConstantsDiffer, IdleIsCall DEF Init
  <1>1. TypeOK
    BY DEF TypeOK, Place
  <1>2. ParentsExist
    BY DEF ParentsExist
  <1>3. \A e \in Editors : Armed(call[e]) /\ Climbed(call[e]) /\ Counted(call[e])
    BY DEF Armed, Climbed, Counted
  <1>4. TreeUnlessOvertaken
    BY DEF TreeUnlessOvertaken, Rootless
  <1>5. QED
    BY <1>1, <1>2, <1>3, <1>4 DEF IInv

(* Nobody's request changes but that of e, which becomes q.                *)
LEMMA GotoOne ==
    ASSUME NEW e \in Editors, NEW q \in Call, call \in [Editors -> Call], Goto(e, q)
    PROVE  /\ call' \in [Editors -> Call]
           /\ call'[e] = q
           /\ \A f \in Editors : f # e => call'[f] = call[f]
  BY DEF Goto

LEMMA Editing ==
    ASSUME EditAllowed, edits \in Nat PROVE edits' \in Nat
  BY DEF EditAllowed

(* Whatever slips stays; only what is put somewhere slips.                 *)
LEMMA Slips ==
    ASSUME NEW x \in Cats \cup Products, NEW under, Slip(x, under), slipped \subseteq Cats \cup Products
    PROVE  /\ slipped \subseteq slipped' /\ slipped' \subseteq Cats \cup Products
           /\ \A e \in Editors : call[e].pc \in {"children", "delete"} /\ call[e].cat \in under
                 => x \in slipped'
  BY DEF Slip, BeingRemoved

-----------------------------------------------------------------------------
(* Types.                                                                  *)
LEMMA TypeStep == IInv /\ [Next]_vars => TypeOK'
  <1> SUFFICES ASSUME IInv, [Next]_vars PROVE TypeOK'
    OBVIOUS
  <1> USE ConstantsDiffer DEF IInv, TypeOK
  <1>1. ASSUME NEW c \in Cats, NEW p \in Cats \cup {Root}, Create(c, p) PROVE TypeOK'
    BY <1>1, Editing, Slips DEF Create, Exists
  <1>2. ASSUME NEW c \in Cats, MoveToRoot(c) PROVE TypeOK'
    BY <1>2, Editing DEF MoveToRoot
  <1>3. ASSUME NEW e \in Editors, NEW c \in Cats, NEW p \in Cats, MoveStart(e, c, p) PROVE TypeOK'
    BY <1>3, Editing, IdleIsCall, GotoOne DEF MoveStart
  <1>4. ASSUME NEW e \in Editors, Climb(e) PROVE TypeOK'
    <2> DEFINE q == call[e]
               above == parent[q.at]
               q1 == IF q.at \in Visited(q) THEN Idle
                     ELSE [q EXCEPT !.path = q.path \cup {<<q.at, above>>},
                                    !.pc = IF above \in Cats THEN "climb" ELSE "move",
                                    !.at = IF above \in Cats THEN above ELSE None]
    <2>1. q \in Call /\ q.pc = "climb" /\ q.at \in Cats /\ above \in Cats \cup {Root, Deleted}
      BY <1>4 DEF Climb, Armed
    <2>2. <<q.at, above>> \in Cats \X (Cats \cup {Root, Deleted})
      BY <2>1
    <2>3. q1 \in Call
      <3>1. CASE q.at \in Visited(q)
        BY <3>1, IdleIsCall
      <3>2. CASE q.at \notin Visited(q)
        <4> DEFINE path == q.path \cup {<<q.at, above>>}
        <4>1. path \in SUBSET (Cats \X (Cats \cup {Root, Deleted}))
          BY <2>1, <2>2 DEF Call
        <4> HIDE DEF path, above, q
        <4>2. \A pc \in Stage, at \in Cats \cup {None} :
                [q EXCEPT !.path = path, !.pc = pc, !.at = at] \in Call
          BY <2>1, <4>1 DEF Call
        <4>3. q1 = [q EXCEPT !.path = path, !.pc = IF above \in Cats THEN "climb" ELSE "move",
                             !.at = IF above \in Cats THEN above ELSE None]
          BY <3>2 DEF path
        <4>4. (IF above \in Cats THEN "climb" ELSE "move") \in Stage
          BY DEF Stage
        <4>5. (IF above \in Cats THEN above ELSE None) \in Cats \cup {None}
          OBVIOUS
        <4> HIDE DEF q1
        <4>6. QED
          BY ONLY <4>2, <4>3, <4>4, <4>5
      <3>3. QED
        BY <3>1, <3>2
    <2>4. Goto(e, q1)
      BY <1>4 DEF Climb
    <2>5. call' \in [Editors -> Call]
      BY <2>3, <2>4, GotoOne
    <2>6. QED
      BY <1>4, <2>5 DEF Climb
  <1>5. ASSUME NEW e \in Editors, Move(e) PROVE TypeOK'
    <2>1. call' \in [Editors -> Call]
      BY <1>5, IdleIsCall, GotoOne DEF Move
    <2>2. call[e].cat \in Cats /\ call[e].to \in Cats
      BY <1>5 DEF Move, Armed
    <2>3. CASE Exists(call[e].cat) /\ Exists(call[e].to)
      BY <1>5, <2>1, <2>2, <2>3, Slips DEF Move
    <2>4. CASE ~(Exists(call[e].cat) /\ Exists(call[e].to))
      BY <1>5, <2>1, <2>4 DEF Move
    <2>5. QED
      BY <2>3, <2>4
  <1>6. ASSUME NEW e \in Editors, NEW c \in Cats, RemoveCountProducts(e, c) PROVE TypeOK'
    BY <1>6, Editing, IdleIsCall, GotoOne DEF RemoveCountProducts
  <1>7. ASSUME NEW e \in Editors, RemoveCountChildren(e) PROVE TypeOK'
    <2>1. [call[e] EXCEPT !.pc = "delete"] \in Call
      BY DEF Call, Stage
    <2>2. call' \in [Editors -> Call]
      BY <1>7, <2>1, IdleIsCall, GotoOne DEF RemoveCountChildren
    <2>3. QED
      BY <1>7, <2>2 DEF RemoveCountChildren
  <1>8. ASSUME NEW e \in Editors, RemoveDelete(e) PROVE TypeOK'
    <2>1. call' \in [Editors -> Call]
      BY <1>8, IdleIsCall, GotoOne DEF RemoveDelete
    <2>2. place' \in [Products -> Place]
      <3>1. \A w \in Place, x \in Cats \cup {None}, y \in Cats \cup {None} :
              [w EXCEPT !.category = x, !.sub = y] \in Place
        BY DEF Place
      <3>2. \A p \in Products :
              /\ place[p] \in Place
              /\ (IF place[p].category = call[e].cat THEN None ELSE place[p].category) \in Cats \cup {None}
              /\ (IF place[p].sub = call[e].cat THEN None ELSE place[p].sub) \in Cats \cup {None}
        BY DEF Place
      <3>3. \/ place' = place
            \/ place' = [p \in Products |-> [place[p] EXCEPT
                  !.category = IF place[p].category = call[e].cat THEN None ELSE place[p].category,
                  !.sub = IF place[p].sub = call[e].cat THEN None ELSE place[p].sub]]
        BY <1>8 DEF RemoveDelete
      <3>4. \A p \in Products : [place[p] EXCEPT
              !.category = IF place[p].category = call[e].cat THEN None ELSE place[p].category,
              !.sub = IF place[p].sub = call[e].cat THEN None ELSE place[p].sub] \in Place
        BY ONLY <3>1, <3>2
      <3>5. place \in [Products -> Place]
        OBVIOUS
      <3>6. QED
        BY ONLY <3>3, <3>4, <3>5
    <2>3. parent' \in [Cats -> Cats \cup {Root, None, Deleted}]
      BY <1>8 DEF RemoveDelete
    <2>4. QED
      BY <1>8, <2>1, <2>2, <2>3 DEF RemoveDelete
  <1>9. ASSUME NEW b \in Brands, CreateBrand(b) PROVE TypeOK'
    BY <1>9, Editing DEF CreateBrand
  <1>10. ASSUME NEW e \in Editors, NEW b \in Brands, RemoveBrandCount(e, b) PROVE TypeOK'
    BY <1>10, Editing, IdleIsCall, GotoOne DEF RemoveBrandCount
  <1>11. ASSUME NEW e \in Editors, RemoveBrandDelete(e) PROVE TypeOK'
    <2>1. call' \in [Editors -> Call]
      BY <1>11, IdleIsCall, GotoOne DEF RemoveBrandDelete
    <2>2. place' \in [Products -> Place]
      <3>1. \A w \in Place, x \in Brands \cup {None} : [w EXCEPT !.brand = x] \in Place
        BY DEF Place
      <3>2. \A p \in Products :
              (IF place[p].brand = call[e].brand THEN None ELSE place[p].brand) \in Brands \cup {None}
        BY DEF Place
      <3>3. \A p \in Products : place[p] \in Place
        OBVIOUS
      <3>4. place' = [p \in Products |-> [place[p] EXCEPT !.brand =
                        IF place[p].brand = call[e].brand THEN None ELSE place[p].brand]]
        BY <1>11 DEF RemoveBrandDelete
      <3>5. QED
        BY ONLY <3>1, <3>2, <3>3, <3>4
    <2>3. QED
      BY <1>11, <2>1, <2>2 DEF RemoveBrandDelete
  <1>12. ASSUME NEW c \in Cats, AddTemplate(c) \/ DeleteTemplate(c) PROVE TypeOK'
    BY <1>12, Editing DEF AddTemplate, DeleteTemplate
  <1>13. ASSUME NEW p \in Products, NEW w \in Place, File(p, w) PROVE TypeOK'
    BY <1>13, Editing, Slips DEF File
  <1>14. CASE UNCHANGED vars
    BY <1>14 DEF vars
  <1>15. QED
    BY <1>1, <1>2, <1>3, <1>4, <1>5, <1>6, <1>7, <1>8, <1>9, <1>10, <1>11, <1>12, <1>13, <1>14
       DEF Next, CategoriesNext, TemplatesNext, BrandsNext

-----------------------------------------------------------------------------
(* What a step makes of the request of f.                                  *)
LEMMA Progress ==
    ASSUME call \in [Editors -> Call], [Next]_vars, NEW f \in Editors
    PROVE  \/ call'[f] = call[f]
           \/ \E c, p \in Cats : MoveStart(f, c, p)
           \/ Climb(f)
           \/ Move(f)
           \/ \E c \in Cats : RemoveCountProducts(f, c)
           \/ RemoveCountChildren(f)
           \/ RemoveDelete(f)
           \/ \E b \in Brands : RemoveBrandCount(f, b)
           \/ RemoveBrandDelete(f)
  <1>1. ASSUME NEW e \in Editors, e # f, NEW q, Goto(e, q) PROVE call'[f] = call[f]
    BY <1>1 DEF Goto
  <1>2. ASSUME NEW e \in Editors,
               \/ \E c, p \in Cats : MoveStart(e, c, p)
               \/ Climb(e) \/ Move(e) \/ RemoveCountChildren(e) \/ RemoveDelete(e)
               \/ \E c \in Cats : RemoveCountProducts(e, c)
               \/ \E b \in Brands : RemoveBrandCount(e, b)
               \/ RemoveBrandDelete(e)
        PROVE  \E q : Goto(e, q)
    BY <1>2 DEF MoveStart, Climb, Move, RemoveCountChildren, RemoveDelete, RemoveCountProducts,
                RemoveBrandCount, RemoveBrandDelete
  <1>3. ASSUME NEW c \in Cats, NEW p \in Cats \cup {Root}, Create(c, p) PROVE UNCHANGED call
    BY <1>3 DEF Create
  <1>4. ASSUME NEW c \in Cats, MoveToRoot(c) \/ AddTemplate(c) \/ DeleteTemplate(c) PROVE UNCHANGED call
    BY <1>4 DEF MoveToRoot, AddTemplate, DeleteTemplate
  <1>5. ASSUME NEW b \in Brands, CreateBrand(b) PROVE UNCHANGED call
    BY <1>5 DEF CreateBrand
  <1>6. ASSUME NEW p \in Products, NEW w \in Place, File(p, w) PROVE UNCHANGED call
    BY <1>6 DEF File
  <1>7. CASE UNCHANGED vars
    BY <1>7 DEF vars
  <1>8. CASE Next
    BY <1>1, <1>2, <1>3, <1>4, <1>5, <1>6, <1>8
       DEF Next, CategoriesNext, TemplatesNext, BrandsNext
  <1>9. QED
    BY <1>7, <1>8

(* Climbing: a set that is closed under what has been read has at; so it   *)
(* has the parent of at, which is the next at, or is outside.              *)
LEMMA ClimbedStep ==
    ASSUME IInv, [Next]_vars, NEW f \in Editors PROVE Climbed(call'[f])
  <1> USE ConstantsDiffer, IdleIsCall
  <1>0. call \in [Editors -> Call] /\ Armed(call[f]) /\ Climbed(call[f])
    BY DEF IInv, TypeOK
  <1>1. CASE call'[f] = call[f]
    BY <1>0, <1>1
  <1>2. ASSUME NEW c \in Cats, NEW p \in Cats, MoveStart(f, c, p) PROVE Climbed(call'[f])
    <2>1. call'[f] = [Idle EXCEPT !.pc = "climb", !.cat = c, !.to = p, !.at = p]
      BY <1>0, <1>2, GotoOne DEF MoveStart
    <2>2. call'[f].pc = "climb" /\ call'[f].to = p /\ call'[f].at = p /\ call'[f].path = {}
      BY <2>1 DEF Idle
    <2>3. QED
      BY <2>2 DEF Climbed
  <1>3. ASSUME Climb(f) PROVE Climbed(call'[f])
    <2> DEFINE q == call[f]
               above == parent[q.at]
               path == q.path \cup {<<q.at, above>>}
    <2>1. q \in Call /\ q.pc = "climb" /\ q.at \in Cats /\ q.cat \in Cats /\ q.to \in Cats
      BY <1>0, <1>3 DEF Climb, Armed
    <2>2. CASE q.at \in Visited(q)
      <3>1. call'[f] = Idle
        BY <1>0, <1>3, <2>2, GotoOne DEF Climb
      <3>2. QED
        BY <3>1 DEF Climbed
    <2>3. CASE q.at \notin Visited(q)
      <3>1. call' = [call EXCEPT ![f] = [q EXCEPT !.path = path,
                        !.pc = IF above \in Cats THEN "climb" ELSE "move",
                        !.at = IF above \in Cats THEN above ELSE None]]
        BY <1>3, <2>3 DEF Climb, Goto
      <3>2. /\ call'[f].path = path /\ call'[f].cat = q.cat /\ call'[f].to = q.to
            /\ call'[f].pc = (IF above \in Cats THEN "climb" ELSE "move")
            /\ call'[f].at = (IF above \in Cats THEN above ELSE None)
        BY <1>0, <2>1, <3>1 DEF Call
      <3>0. <<q.at, above>>[1] = q.at /\ <<q.at, above>>[2] = above
        OBVIOUS
      <3>3. \A x \in path : x[1] # q.cat
        <4>1. q.at # q.cat
          BY <2>3 DEF Visited
        <4>2. \A x \in q.path : x[1] # q.cat
          BY <1>0, <2>1 DEF Climbed
        <4> HIDE DEF q, above
        <4>3. QED
          BY <3>0, <4>1, <4>2
      <3>4. \A s \in SUBSET Cats : q.to \in s /\ Closed(s, path) => above \in s
        <4> SUFFICES ASSUME NEW s \in SUBSET Cats, q.to \in s, Closed(s, path) PROVE above \in s
          OBVIOUS
        <4>1. Closed(s, q.path)
          BY DEF Closed
        <4>2. q.at \in s
          BY <1>0, <2>1, <4>1 DEF Climbed
        <4>3. <<q.at, above>> \in path
          OBVIOUS
        <4> HIDE DEF q, above, path
        <4>4. QED
          BY <3>0, <4>2, <4>3 DEF Closed
      <3> HIDE DEF q, above, path
      <3>5. CASE above \in Cats
        BY <3>2, <3>3, <3>4, <3>5 DEF Climbed
      <3>6. CASE above \notin Cats
        BY <3>2, <3>3, <3>4, <3>6 DEF Climbed
      <3>7. QED
        BY <3>5, <3>6
    <2>4. QED
      BY <2>2, <2>3
  <1>4. ASSUME call'[f].pc \notin {"climb", "move"} PROVE Climbed(call'[f])
    BY <1>4 DEF Climbed
  <1>5. ASSUME \/ Move(f)
               \/ \E c \in Cats : RemoveCountProducts(f, c)
               \/ RemoveCountChildren(f)
               \/ RemoveDelete(f)
               \/ \E b \in Brands : RemoveBrandCount(f, b)
               \/ RemoveBrandDelete(f)
        PROVE  call'[f].pc \notin {"climb", "move"}
    <2>1. Idle.pc = "idle" /\ \A b \in Brands : [Idle EXCEPT !.pc = "deleteBrand", !.brand = b].pc = "deleteBrand"
      BY DEF Idle
    <2>2. \A c \in Cats : [Idle EXCEPT !.pc = "children", !.cat = c].pc = "children"
      BY DEF Idle
    <2>3. [call[f] EXCEPT !.pc = "delete"].pc = "delete"
      BY <1>0 DEF Call
    <2>4. QED
      BY <1>0, <1>5, <2>1, <2>2, <2>3
         DEF Move, RemoveCountProducts, RemoveCountChildren, RemoveDelete, RemoveBrandCount,
             RemoveBrandDelete, Goto
  <1>6. QED
    BY <1>0, <1>1, <1>2, <1>3, <1>4, <1>5, Progress

(* Parents.                                                                *)
LEMMA ParentsStep ==
    ASSUME IInv, [Next]_vars
    PROVE  ParentsExist' /\ \A c \in Cats : parent[c] # None => parent'[c] # None
  <1> USE ConstantsDiffer DEF IInv, TypeOK, ParentsExist, Exists
  <1>1. ASSUME NEW c \in Cats, NEW p \in Cats \cup {Root}, Create(c, p)
        PROVE ParentsExist' /\ \A d \in Cats : parent[d] # None => parent'[d] # None
    BY <1>1 DEF Create
  <1>2. ASSUME NEW c \in Cats, MoveToRoot(c)
        PROVE ParentsExist' /\ \A d \in Cats : parent[d] # None => parent'[d] # None
    BY <1>2 DEF MoveToRoot
  <1>3. ASSUME NEW e \in Editors, Move(e)
        PROVE ParentsExist' /\ \A d \in Cats : parent[d] # None => parent'[d] # None
    BY <1>3 DEF Move, Armed
  <1>4. ASSUME NEW e \in Editors, RemoveDelete(e)
        PROVE ParentsExist' /\ \A d \in Cats : parent[d] # None => parent'[d] # None
    <2> DEFINE c == call[e].cat
    <2>1. CASE UNCHANGED parent
      BY <2>1
    <2>2. CASE parent' = [d \in Cats |-> IF d = c THEN Deleted
                                         ELSE IF parent[d] = c THEN Root ELSE parent[d]]
      <3>1. ASSUME NEW d \in Cats, parent'[d] \in Cats 
                 PROVE parent'[d] = parent[d] /\ parent'[parent[d]] \notin {None, Deleted}
        <4>1. parent'[d] = parent[d] /\ parent[d] # c
          BY <2>2, <3>1
        <4>2. parent'[parent[d]] = IF parent[parent[d]] = c THEN Root ELSE parent[parent[d]]
          BY <2>2, <3>1, <4>1
        <4>3. parent[parent[d]] \notin {None, Deleted}
          BY <3>1, <4>1
        <4>4. parent'[parent[d]] \notin {None, Deleted}
          BY <4>2, <4>3
        <4>5. QED
          BY <4>1, <4>4
      <3>2. QED
        BY <2>2, <3>1
    <2>3. QED
      BY <1>4, <2>1, <2>2 DEF RemoveDelete
  <1>5. CASE UNCHANGED parent
    BY <1>5
  <1>6. QED
    BY <1>1, <1>2, <1>3, <1>4, <1>5
       DEF Next, CategoriesNext, TemplatesNext, BrandsNext, vars, MoveStart, Climb,
           RemoveCountProducts, RemoveCountChildren, AddTemplate, DeleteTemplate, CreateBrand,
           RemoveBrandCount, RemoveBrandDelete, File

(* What is armed stays so: a row that was inserted is not None again.      *)
LEMMA ArmedStep ==
    ASSUME IInv, [Next]_vars, NEW f \in Editors PROVE Armed(call[f])'
  <1> USE ConstantsDiffer, IdleIsCall
  <1>0. call \in [Editors -> Call] /\ Armed(call[f]) /\ ParentsExist
        /\ parent \in [Cats -> Cats \cup {Root, None, Deleted}]
    BY DEF IInv, TypeOK
  <1>a. \A c \in Cats : parent[c] # None => parent'[c] # None
    BY ParentsStep
  <1>1. CASE call'[f] = call[f]
    BY <1>0, <1>a, <1>1 DEF Armed
  <1>2. ASSUME NEW c \in Cats, NEW p \in Cats, MoveStart(f, c, p) PROVE Armed(call[f])'
    <2>1. call'[f] = [Idle EXCEPT !.pc = "climb", !.cat = c, !.to = p, !.at = p]
      BY <1>0, <1>2, GotoOne DEF MoveStart
    <2>2. call'[f].pc = "climb" /\ call'[f].cat = c /\ call'[f].to = p /\ call'[f].at = p
      BY <2>1 DEF Idle
    <2>3. QED
      BY <1>2, <2>2 DEF Armed, MoveStart, Exists
  <1>3. ASSUME Climb(f) PROVE Armed(call[f])'
    <2>1. CASE call'[f] = Idle
      BY <2>1 DEF Armed
    <2>2. CASE call'[f] # Idle
      <3>1. call'[f] = [call[f] EXCEPT !.path = call[f].path \cup {<<call[f].at, parent[call[f].at]>>},
                          !.pc = IF parent[call[f].at] \in Cats THEN "climb" ELSE "move",
                          !.at = IF parent[call[f].at] \in Cats THEN parent[call[f].at] ELSE None]
        BY <1>0, <1>3, <2>2 DEF Climb, Goto
      <3>2. /\ call'[f].cat = call[f].cat /\ call'[f].to = call[f].to
            /\ call'[f].pc = IF parent[call[f].at] \in Cats THEN "climb" ELSE "move"
            /\ call'[f].at = IF parent[call[f].at] \in Cats THEN parent[call[f].at] ELSE None
        BY <1>0, <3>1 DEF Call
      <3>3. call[f].at \in Cats /\ call[f].cat \in Cats /\ call[f].to \in Cats
        BY <1>0, <1>3 DEF Climb, Armed
      <3>4. parent[call[f].at] \in Cats => parent'[parent[call[f].at]] # None
        BY <1>0, <1>a, <3>3 DEF ParentsExist, Exists
      <3>5. QED
        BY <3>2, <3>3, <3>4 DEF Armed
    <2>3. QED
      BY <2>1, <2>2
  <1>4. ASSUME call'[f] = Idle PROVE Armed(call[f])'
    BY <1>4 DEF Armed
  <1>5. ASSUME NEW c \in Cats, RemoveCountProducts(f, c) PROVE Armed(call[f])'
    <2>1. call'[f] = [Idle EXCEPT !.pc = "children", !.cat = c]
      BY <1>0, <1>5, GotoOne DEF RemoveCountProducts
    <2>2. call'[f].pc = "children" /\ call'[f].cat = c
      BY <2>1 DEF Idle
    <2>3. QED
      BY <2>2 DEF Armed
  <1>6. ASSUME RemoveCountChildren(f) PROVE Armed(call[f])'
    <2>1. call'[f] = Idle \/ (call'[f].pc = "delete" /\ call'[f].cat = call[f].cat)
      BY <1>0, <1>6 DEF RemoveCountChildren, Goto, Call
    <2>2. call[f].cat \in Cats
      BY <1>0, <1>6 DEF RemoveCountChildren, Armed
    <2>3. QED
      BY <1>4, <2>1, <2>2 DEF Armed
  <1>7. ASSUME NEW b \in Brands, RemoveBrandCount(f, b) PROVE Armed(call[f])'
    <2>1. call'[f] = [Idle EXCEPT !.pc = "deleteBrand", !.brand = b]
      BY <1>0, <1>7, GotoOne DEF RemoveBrandCount
    <2>2. call'[f].pc = "deleteBrand" /\ call'[f].brand = b
      BY <2>1 DEF Idle
    <2>3. QED
      BY <2>2 DEF Armed
  <1>8. ASSUME Move(f) \/ RemoveDelete(f) \/ RemoveBrandDelete(f) PROVE call'[f] = Idle
    BY <1>0, <1>8, GotoOne DEF Move, RemoveDelete, RemoveBrandDelete
  <1>9. QED
    BY <1>0, <1>1, <1>2, <1>3, <1>4, <1>5, <1>6, <1>7, <1>8, Progress

(* A tree stays a tree.  A set without a root after a move has the         *)
(* category that was moved, so its new parent, so all of the path that was *)
(* climbed and has not changed since; but the path leaves the categories.  *)
LEMMA TreeStep ==
    ASSUME IInv, [Next]_vars PROVE TreeUnlessOvertaken'
  <1> USE ConstantsDiffer DEF TreeUnlessOvertaken
  <1>0. /\ ParentsExist /\ TreeUnlessOvertaken
        /\ parent \in [Cats -> Cats \cup {Root, None, Deleted}]
    BY DEF IInv, TypeOK
  <1>1. ASSUME NEW c \in Cats, NEW p \in Cats \cup {Root}, Create(c, p) PROVE TreeUnlessOvertaken'
    <2>1. /\ parent[c] = None /\ (p # Root => Exists(p))
          /\ parent' = [parent EXCEPT ![c] = p] /\ overtaken' = overtaken
      BY <1>1 DEF Create
    <2>2. ASSUME NEW s \in SUBSET Cats, Rootless(s)' PROVE overtaken
      <3>1. \A d \in s \ {c} : parent[d] \in s \ {c}
        <4> SUFFICES ASSUME NEW d \in s \ {c} PROVE parent[d] \in s \ {c}
          OBVIOUS
        <4>1. parent[d] \in s
          BY <1>0, <2>1, <2>2 DEF Rootless
        <4>2. parent[d] # c
          BY <1>0, <2>1, <4>1 DEF ParentsExist, Exists
        <4>3. QED
          BY <4>1, <4>2
      <3>2. s \ {c} # {}
        <4> SUFFICES ASSUME s = {c} PROVE FALSE
          BY <2>2 DEF Rootless
        <4>1. p = c
          BY <1>0, <2>1, <2>2 DEF Rootless
        <4>2. QED
          BY <2>1, <4>1 DEF Exists
      <3>3. Rootless(s \ {c})
        BY <3>1, <3>2 DEF Rootless
      <3>4. s \ {c} \in SUBSET Cats
        OBVIOUS
      <3>5. QED
        BY <1>0, <3>3, <3>4
    <2>3. QED
      BY <2>1, <2>2
  <1>2. ASSUME NEW c \in Cats, MoveToRoot(c) PROVE TreeUnlessOvertaken'
    <2>1. parent' = [parent EXCEPT ![c] = Root] /\ overtaken' = overtaken
      BY <1>2 DEF MoveToRoot
    <2>2. \A s \in SUBSET Cats : Rootless(s)' => Rootless(s)
      BY <1>0, <2>1 DEF Rootless
    <2>3. QED
      BY <1>0, <2>1, <2>2
  <1>3. ASSUME NEW e \in Editors, Move(e) PROVE TreeUnlessOvertaken'
    <2> DEFINE q == call[e]
    <2>0. Armed(q) /\ Climbed(q) /\ q.pc = "move"
      BY <1>3 DEF IInv, Move
    <2>1. CASE UNCHANGED <<parent, overtaken>>
      BY <1>0, <2>1 DEF Rootless
    <2>2. CASE /\ parent' = [parent EXCEPT ![q.cat] = q.to]
               /\ overtaken' = (overtaken \/ \E x \in q.path : parent[x[1]] # x[2])
      <3>0. q.cat \in Cats /\ q.to \in Cats /\ q.path \in SUBSET (Cats \X (Cats \cup {Root, Deleted}))
        BY <2>0 DEF Armed, IInv, TypeOK, Call
      <3>a. (\A x \in q.path : x[1] # q.cat) /\ \A s \in SUBSET Cats : ~(q.to \in s /\ Closed(s, q.path))
        BY <2>0 DEF Climbed
      <3> HIDE DEF q
      <3>1. SUFFICES ASSUME NEW s \in SUBSET Cats, Rootless(s)', ~overtaken,
                            \A x \in q.path : parent[x[1]] = x[2]
                     PROVE  FALSE
        BY <2>2, <3>1
      <3>2. q.cat \in s
        <4> SUFFICES ASSUME q.cat \notin s PROVE FALSE
          OBVIOUS
        <4>1. Rootless(s)
          BY <1>0, <2>2, <3>1 DEF Rootless
        <4>2. QED
          BY <1>0, <3>1, <4>1
      <3>3. q.to \in s
        BY <1>0, <2>2, <3>0, <3>1, <3>2 DEF Rootless
      <3>4. Closed(s, q.path)
        <4> SUFFICES ASSUME NEW x \in q.path, x[1] \in s PROVE x[2] \in s
          BY DEF Closed
        <4>1. parent'[x[1]] \in s
          BY <3>1 DEF Rootless
        <4>2. x[1] # q.cat /\ parent[x[1]] = x[2]
          BY <3>a, <3>1
        <4>3. QED
          BY <1>0, <2>2, <4>1, <4>2
      <3>5. QED
        BY <3>a, <3>3, <3>4
    <2>3. QED
      BY <1>3, <2>1, <2>2 DEF Move
  <1>4. ASSUME NEW e \in Editors, RemoveDelete(e) PROVE TreeUnlessOvertaken'
    <2>1. overtaken' = overtaken
      BY <1>4 DEF RemoveDelete
    <2>2. \A d \in Cats : parent'[d] = parent[d] \/ parent'[d] \notin Cats
      BY <1>0, <1>4 DEF RemoveDelete
    <2>3. \A s \in SUBSET Cats : Rootless(s)' => Rootless(s)
      BY <2>2 DEF Rootless
    <2>4. QED
      BY <1>0, <2>1, <2>3
  <1>5. CASE UNCHANGED <<parent, overtaken>>
    BY <1>0, <1>5 DEF Rootless
  <1>6. QED
    BY <1>1, <1>2, <1>3, <1>4, <1>5
       DEF Next, CategoriesNext, TemplatesNext, BrandsNext, vars, MoveStart, Climb,
           RemoveCountProducts, RemoveCountChildren, AddTemplate, DeleteTemplate, CreateBrand,
           RemoveBrandCount, RemoveBrandDelete, File

(* Whatever is put under a category whose removal has counted slips.       *)
LEMMA CountedStep ==
    ASSUME IInv, [Next]_vars, NEW f \in Editors PROVE Counted(call[f])'
  <1> USE ConstantsDiffer, IdleIsCall
  <1>0. /\ call \in [Editors -> Call] /\ Armed(call[f]) /\ Counted(call[f])
        /\ parent \in [Cats -> Cats \cup {Root, None, Deleted}]
        /\ place \in [Products -> Place] /\ slipped \subseteq Cats \cup Products
    BY DEF IInv, TypeOK
  (* The request of f is as it was.                                        *)
  <1>1. ASSUME call'[f] = call[f] PROVE Counted(call[f])'
    <2> DEFINE k == call[f].cat
    <2>0. SUFFICES ASSUME call[f].pc \in {"children", "delete"}
                   PROVE  /\ FiledUnder(k)' \subseteq slipped'
                          /\ call[f].pc = "delete" => Children(k)' \subseteq slipped'
      BY <1>1 DEF Counted
    <2>1. /\ FiledUnder(k) \subseteq slipped /\ k \in Cats /\ k' = k
          /\ call[f].pc = "delete" => Children(k) \subseteq slipped
      BY <1>0, <1>1, <2>0 DEF Counted, Armed
    <2> HIDE DEF k
    <2>2. ASSUME UNCHANGED place, slipped \subseteq slipped'
          PROVE  FiledUnder(k)' \subseteq slipped'
      BY <2>1, <2>2 DEF FiledUnder
    <2>3. ASSUME UNCHANGED parent, slipped \subseteq slipped'
          PROVE  call[f].pc = "delete" => Children(k)' \subseteq slipped'
      BY <2>1, <2>3 DEF Children
    <2>4. ASSUME NEW c \in Cats, NEW p \in Cats \cup {Root},
                 parent' = [parent EXCEPT ![c] = p], Slip(c, {p}), UNCHANGED place
          PROVE  /\ FiledUnder(k)' \subseteq slipped'
                 /\ call[f].pc = "delete" => Children(k)' \subseteq slipped'
      <3>1. slipped \subseteq slipped' /\ (p = call[f].cat => c \in slipped')
        BY <1>0, <2>0, <2>4, Slips
      <3>2. call[f].pc = "delete" => Children(k)' \subseteq slipped'
        BY <1>0, <2>1, <2>4, <3>1 DEF Children, k
      <3>3. QED
        BY <2>2, <2>4, <3>1, <3>2
    <2>5. ASSUME NEW c \in Cats, MoveToRoot(c)
          PROVE  /\ FiledUnder(k)' \subseteq slipped'
                 /\ call[f].pc = "delete" => Children(k)' \subseteq slipped'
      <3>1. Children(k)' \subseteq Children(k)
        BY <1>0, <2>1, <2>5 DEF MoveToRoot, Children
      <3>2. QED
        BY <2>1, <2>2, <2>5, <3>1 DEF MoveToRoot
    <2>6. ASSUME NEW e \in Editors, Move(e)
          PROVE  /\ FiledUnder(k)' \subseteq slipped'
                 /\ call[f].pc = "delete" => Children(k)' \subseteq slipped'
      <3>1. call[e].cat \in Cats /\ call[e].to \in Cats
        BY <2>6 DEF IInv, Move, Armed
      <3>2. CASE UNCHANGED <<parent, slipped>>
        BY <2>2, <2>3, <2>6, <3>2 DEF Move
      <3>3. CASE parent' = [parent EXCEPT ![call[e].cat] = call[e].to] /\ Slip(call[e].cat, {call[e].to})
        BY <2>4, <2>6, <3>1, <3>3 DEF Move
      <3>4. QED
        BY <2>6, <3>2, <3>3 DEF Move
    <2>7. ASSUME NEW e \in Editors, RemoveDelete(e)
          PROVE  /\ FiledUnder(k)' \subseteq slipped'
                 /\ call[f].pc = "delete" => Children(k)' \subseteq slipped'
      <3>1. UNCHANGED slipped
        BY <2>7 DEF RemoveDelete
      <3>2. Children(k)' \subseteq Children(k)
        BY <1>0, <2>1, <2>7 DEF RemoveDelete, Children
      <3>3. \A p \in Products : /\ place'[p].category \in {place[p].category, None}
                                /\ place'[p].sub \in {place[p].sub, None}
        <4>1. \A w \in Place : \A x, y :
                 /\ [w EXCEPT !.category = x, !.sub = y].category = x
                 /\ [w EXCEPT !.category = x, !.sub = y].sub = y
          BY DEF Place
        <4>2. \/ place' = place
              \/ place' = [p \in Products |-> [place[p] EXCEPT
                    !.category = IF place[p].category = call[e].cat THEN None ELSE place[p].category,
                    !.sub = IF place[p].sub = call[e].cat THEN None ELSE place[p].sub]]
          BY <2>7 DEF RemoveDelete
        <4>3. \A p \in Products : place[p] \in Place
          BY <1>0
        <4>4. CASE place' = place
          BY ONLY <4>4
        <4>5. CASE place' # place
          <5> TAKE p \in Products
          <5> DEFINE x == IF place[p].category = call[e].cat THEN None ELSE place[p].category
                     y == IF place[p].sub = call[e].cat THEN None ELSE place[p].sub
          <5>1. place'[p] = [place[p] EXCEPT !.category = x, !.sub = y]
            BY <4>2, <4>5
          <5>2. x \in {place[p].category, None} /\ y \in {place[p].sub, None}
            OBVIOUS
          <5> HIDE DEF x, y
          <5>3. place'[p].category = x /\ place'[p].sub = y
            BY ONLY <4>1, <4>3, <5>1
          <5>4. QED
            BY ONLY <5>2, <5>3
        <4>6. QED
          BY <4>4, <4>5
      <3>4. FiledUnder(k)' \subseteq FiledUnder(k)
        BY <2>1, <3>3 DEF FiledUnder
      <3>5. QED
        BY <2>1, <3>1, <3>2, <3>4
    <2>8. ASSUME NEW e \in Editors, RemoveBrandDelete(e)
          PROVE  /\ FiledUnder(k)' \subseteq slipped'
                 /\ call[f].pc = "delete" => Children(k)' \subseteq slipped'
      <3>1. UNCHANGED <<parent, slipped>>
        BY <2>8 DEF RemoveBrandDelete
      <3>2. \A p \in Products : place'[p].category = place[p].category /\ place'[p].sub = place[p].sub
        BY <1>0, <2>8 DEF RemoveBrandDelete, Place
      <3>3. FiledUnder(k)' \subseteq FiledUnder(k)
        BY <2>1, <3>2 DEF FiledUnder
      <3>4. QED
        BY <2>1, <2>3, <3>1, <3>3
    <2>9. ASSUME NEW p \in Products, NEW w \in Place, File(p, w)
          PROVE  /\ FiledUnder(k)' \subseteq slipped'
                 /\ call[f].pc = "delete" => Children(k)' \subseteq slipped'
      <3>1. slipped \subseteq slipped' /\ (k \in {w.category, w.sub} => p \in slipped')
        <4> DEFINE under == {w.category, w.sub} \ {None}
        <4>1. Slip(p, under)
          BY <2>9 DEF File
        <4>2. k \in {w.category, w.sub} => call[f].cat \in under
          BY <2>1 DEF k
        <4> HIDE DEF under
        <4>3. QED
          BY <1>0, <2>0, <4>1, <4>2, Slips
      <3>2. UNCHANGED parent /\ place' = [place EXCEPT ![p] = w]
        BY <2>9 DEF File
      <3>3. FiledUnder(k)' \subseteq FiledUnder(k) \cup {x \in {p} : k \in {w.category, w.sub}}
        BY <1>0, <2>1, <3>2 DEF FiledUnder
      <3>4. QED
        BY <2>1, <2>3, <3>1, <3>2, <3>3
    <2>10. ASSUME NEW c \in Cats, NEW p \in Cats \cup {Root}, Create(c, p)
           PROVE  /\ FiledUnder(k)' \subseteq slipped'
                  /\ call[f].pc = "delete" => Children(k)' \subseteq slipped'
      BY <2>4, <2>10 DEF Create
    <2>11. CASE UNCHANGED <<parent, place, slipped>>
      BY <2>2, <2>3, <2>11
    <2>12. QED
      BY <2>5, <2>6, <2>7, <2>8, <2>9, <2>10, <2>11
         DEF Next, CategoriesNext, TemplatesNext, BrandsNext, vars, MoveStart, Climb,
             RemoveCountProducts, RemoveCountChildren, AddTemplate, DeleteTemplate, CreateBrand,
             RemoveBrandCount
  <1>2. ASSUME call'[f].pc \notin {"children", "delete"} PROVE Counted(call[f])'
    BY <1>2 DEF Counted
  <1>3. ASSUME NEW c \in Cats, RemoveCountProducts(f, c) PROVE Counted(call[f])'
    <2>1. call'[f] = [Idle EXCEPT !.pc = "children", !.cat = c]
      BY <1>0, <1>3, GotoOne DEF RemoveCountProducts
    <2>2. call'[f].pc = "children" /\ call'[f].cat = c
      BY <2>1 DEF Idle
    <2>3. FiledUnder(c) = {} /\ UNCHANGED place
      BY <1>3 DEF RemoveCountProducts
    <2>4. QED
      BY <2>2, <2>3 DEF Counted, FiledUnder
  <1>4. ASSUME RemoveCountChildren(f) PROVE Counted(call[f])'
    <2>1. UNCHANGED <<place, parent, slipped>> /\ call[f].pc = "children"
      BY <1>4 DEF RemoveCountChildren
    <2>2. CASE Children(call[f].cat) = {}
      <3>1. call'[f].pc = "delete" /\ call'[f].cat = call[f].cat
        BY <1>0, <1>4, <2>2 DEF RemoveCountChildren, Goto, Call
      <3>2. QED
        BY <1>0, <2>1, <2>2, <3>1 DEF Counted, FiledUnder, Children
    <2>3. CASE Children(call[f].cat) # {}
      <3>1. call'[f].pc = "idle"
        BY <1>0, <1>4, <2>3 DEF RemoveCountChildren, Goto
      <3>2. QED
        BY <1>2, <3>1
    <2>4. QED
      BY <2>2, <2>3
  <1>5. ASSUME \/ \E c, p \in Cats : MoveStart(f, c, p)
               \/ Climb(f) \/ Move(f) \/ RemoveDelete(f) \/ RemoveBrandDelete(f)
               \/ \E b \in Brands : RemoveBrandCount(f, b)
        PROVE  call'[f].pc \notin {"children", "delete"}
    <2>1. ASSUME NEW c \in Cats, NEW p \in Cats, MoveStart(f, c, p)
          PROVE  call'[f].pc \notin {"children", "delete"}
      <3>1. call'[f] = [Idle EXCEPT !.pc = "climb", !.cat = c, !.to = p, !.at = p]
        BY <1>0, <2>1, GotoOne DEF MoveStart
      <3>2. call'[f].pc = "climb"
        BY ONLY <3>1 DEF Idle
      <3>3. QED
        BY <3>2
    <2>2. ASSUME NEW b \in Brands, RemoveBrandCount(f, b)
          PROVE  call'[f].pc \notin {"children", "delete"}
      <3>1. call'[f] = [Idle EXCEPT !.pc = "deleteBrand", !.brand = b]
        BY <1>0, <2>2, GotoOne DEF RemoveBrandCount
      <3>2. call'[f].pc = "deleteBrand"
        BY ONLY <3>1 DEF Idle
      <3>3. QED
        BY <3>2
    <2>3. CASE Move(f) \/ RemoveDelete(f) \/ RemoveBrandDelete(f)
      <3>1. Goto(f, Idle)
        BY <2>3 DEF Move, RemoveDelete, RemoveBrandDelete
      <3>2. QED
        BY <1>0, <3>1, GotoOne
    <2>4. CASE Climb(f)
      <3>1. CASE call[f].at \in Visited(call[f])
        BY <1>0, <2>4, <3>1, GotoOne DEF Climb
      <3>2. CASE call[f].at \notin Visited(call[f])
        <4>1. call'[f].pc = IF parent[call[f].at] \in Cats THEN "climb" ELSE "move"
          BY <1>0, <2>4, <3>2 DEF Climb, Goto, Call
        <4>2. QED
          BY ONLY <4>1
      <3>3. QED
        BY <3>1, <3>2
    <2>5. QED
      BY <1>5, <2>1, <2>2, <2>3, <2>4
  <1>6. QED
    BY <1>0, <1>1, <1>2, <1>3, <1>4, <1>5, Progress

-----------------------------------------------------------------------------
(* The invariant, and what follows from it.                                *)
THEOREM Invariance == Spec => []IInv
  <1>1. IInv /\ [Next]_vars => IInv'
    <2> SUFFICES ASSUME IInv, [Next]_vars PROVE IInv'
      OBVIOUS
    <2>1. TypeOK' /\ ParentsExist' /\ TreeUnlessOvertaken'
      BY TypeStep, ParentsStep, TreeStep
    <2>2. ASSUME NEW f \in Editors PROVE Armed(call[f])' /\ Climbed(call[f])' /\ Counted(call[f])'
      BY ArmedStep, ClimbedStep, CountedStep DEF Climbed, Closed
    <2>3. QED
      BY <2>1, <2>2 DEF IInv
  <1>2. QED
    BY Initially, <1>1, PTL DEF Spec

(* Types, for any number of categories, brands, products and requests.     *)
THEOREM TypeCorrect == Spec => []TypeOK
  <1>1. IInv => TypeOK
    BY DEF IInv
  <1>2. QED
    BY Invariance, <1>1, PTL

(* preventCircularReference keeps the categories a tree as long as no move *)
(* is overtaken (categories.service.ts:220, :395).                         *)
THEOREM TreeKept == Spec => []TreeUnlessOvertaken
  <1>1. IInv => TreeUnlessOvertaken
    BY DEF IInv
  <1>2. QED
    BY Invariance, <1>1, PTL

(* A removal takes the place of what slipped under its category only       *)
(* (categories.service.ts:254).                                            *)
THEOREM PlacesKept == Spec => PlaceLostOnlyIfSlipped
  <1> DEFINE Lost(e) == call[e].pc = "delete" /\ call'[e] = Idle =>
        /\ \A d \in Cats : parent[d] = call[e].cat /\ parent'[d] = Root => d \in slipped
        /\ \A p \in FiledUnder(call[e].cat) : place'[p] # place[p] => p \in slipped
  <1>1. IInv => \A e \in Editors : Lost(e)
    <2> SUFFICES ASSUME IInv, NEW e \in Editors PROVE Lost(e)
      OBVIOUS
    <2>1. Counted(call[e])
      BY DEF IInv
    <2>2. QED
      BY <2>1 DEF Counted, Children
  <1>2. QED
    BY Invariance, <1>1, PTL DEF Spec, PlaceLostOnlyIfSlipped

-----------------------------------------------------------------------------
(* Browsing.                                                               *)

(* What is below a category has the category, and is closed under children. *)
LEMMA DescendantsClosed ==
    ASSUME NEW c \in Cats
    PROVE  /\ c \in Descendants(c) /\ Descendants(c) \subseteq Cats
           /\ \A x \in Cats : parent[x] \in Descendants(c) => x \in Descendants(c)
  <1> USE DEF Descendants, DescendantsPast
  <1>1. ASSUME NEW x \in Cats, parent[x] \in Descendants(c) PROVE x \in Descendants(c)
    <2> SUFFICES ASSUME NEW s \in SUBSET Cats, c \in s,
                        \A y \in Cats : parent[y] \in s => y \in s
                 PROVE  x \in s
      BY DEF Descendants, DescendantsPast
    <2>1. parent[x] \in s
      BY <1>1 DEF Descendants, DescendantsPast
    <2>2. QED
      BY <2>1
  <1>2. QED
    BY <1>1 DEF Descendants, DescendantsPast

(* All but the category itself have their parent there: the set without a  *)
(* member whose parent is outside would be closed too, and smaller.        *)
LEMMA DescendantsHang ==
    ASSUME NEW c \in Cats, NEW d \in Descendants(c), d # c
    PROVE  parent[d] \in Descendants(c)
  <1> DEFINE below == Descendants(c)
             rest == below \ {d}
  <1> SUFFICES ASSUME parent[d] \notin below PROVE FALSE
    OBVIOUS
  <1>1. rest \in SUBSET Cats /\ c \in rest
    BY DescendantsClosed
  <1>2. ASSUME NEW x \in Cats, parent[x] \in rest PROVE x \in rest
    BY <1>2, DescendantsClosed
  <1>3. d \in rest
    BY <1>1, <1>2 DEF Descendants, DescendantsPast
  <1>4. QED
    BY <1>3

(* getCategoryAndDescendantsIds ends as long as no move was overtaken:     *)
(* below a category on a cycle there is a set without a root.              *)
THEOREM BrowsingEnds == Spec => [](overtaken \/ \A c \in Cats : ~OnCycle(c))
  <1>1. TreeUnlessOvertaken => overtaken \/ \A c \in Cats : ~OnCycle(c)
    <2> SUFFICES ASSUME TreeUnlessOvertaken, ~overtaken, NEW c \in Cats, OnCycle(c) PROVE FALSE
      OBVIOUS
    <2>1. \A d \in Descendants(c) : parent[d] \in Descendants(c)
      BY DescendantsHang DEF OnCycle
    <2>2. Rootless(Descendants(c)) /\ Descendants(c) \in SUBSET Cats
      BY <2>1, DescendantsClosed DEF Rootless
    <2>3. QED
      BY <2>2 DEF TreeUnlessOvertaken
  <1>2. QED
    BY TreeKept, <1>1, PTL

(* The breadcrumb leads up: it has the category and is closed under        *)
(* parents, and nothing else is.                                           *)
LEMMA ParentTreeClimbs ==
    ASSUME NEW c \in Cats
    PROVE  /\ c \in ParentTree(c) /\ ParentTree(c) \subseteq Cats
           /\ \A x \in ParentTree(c) : parent[x] \in Cats => parent[x] \in ParentTree(c)
  <1>1. ASSUME NEW x \in ParentTree(c), parent[x] \in Cats PROVE parent[x] \in ParentTree(c)
    <2> SUFFICES ASSUME NEW s \in SUBSET Cats, c \in s,
                        \A y \in s : parent[y] \in Cats => parent[y] \in s
                 PROVE  parent[x] \in s
      BY <1>1 DEF ParentTree
    <2>1. x \in s
      BY DEF ParentTree
    <2>2. QED
      BY <1>1, <2>1
  <1>2. QED
    BY <1>1 DEF ParentTree

(* The breadcrumb of what is below a top category stays below it, and      *)
(* reaches it: otherwise what is below it and off the breadcrumb would be  *)
(* closed under children.                                                  *)
LEMMA BreadcrumbMeetsTop ==
    ASSUME NEW r \in TopCategories, NEW c \in Descendants(r), Root \notin Cats
    PROVE  ParentTree(c) \cap TopCategories = {r}
  <1>1. /\ r \in Cats /\ parent[r] = Root /\ c \in Cats
        /\ r \in Descendants(r) /\ Descendants(r) \subseteq Cats
    BY DescendantsClosed DEF TopCategories
  <1>2. ParentTree(c) \subseteq Descendants(r)
    <2>1. \A x \in Descendants(r) : parent[x] \in Cats => parent[x] \in Descendants(r)
      BY <1>1, DescendantsHang
    <2>2. QED
      BY <1>1, <2>1 DEF ParentTree
  <1>3. ASSUME NEW t \in TopCategories, t \in ParentTree(c) PROVE t = r
    <2>1. t # r => parent[t] \in Descendants(r)
      BY <1>1, <1>2, <1>3, DescendantsHang
    <2>2. QED
      BY <1>1, <2>1 DEF TopCategories
  <1>4. r \in ParentTree(c)
    <2> DEFINE off == Descendants(r) \ ParentTree(c)
    <2> SUFFICES ASSUME r \notin ParentTree(c) PROVE FALSE
      OBVIOUS
    <2>1. off \in SUBSET Cats /\ r \in off
      BY <1>1
    <2>2. ASSUME NEW x \in Cats, parent[x] \in off PROVE x \in off
      <3>1. x \in Descendants(r)
        BY <1>1, <2>2, DescendantsClosed
      <3>2. x \notin ParentTree(c)
        BY <1>1, <2>2, ParentTreeClimbs
      <3>3. QED
        BY <3>1, <3>2
    <2>3. c \in off
      <3> HIDE DEF off
      <3>1. QED
        BY <2>1, <2>2 DEF Descendants, DescendantsPast
    <2>4. QED
      BY <1>1, <2>3, ParentTreeClimbs
  <1>5. QED
    BY <1>3, <1>4

(* Every category is in the navigation, once, as long as no move was       *)
(* overtaken: the categories that are not shown would hang from each other *)
(* (categories.service.ts:301, :330).                                      *)
THEOREM NavigationShowsAll == Spec => []NavigationIsWhole
  <1>1. IInv => NavigationIsWhole
    <2> SUFFICES ASSUME IInv, ~overtaken, NEW c \in Cats, Exists(c)
                 PROVE  c \in CategoryTree /\ \E r \in Cats : ParentTree(c) \cap TopCategories = {r}
      BY DEF NavigationIsWhole
    <2> DEFINE hidden == {x \in Cats : Exists(x) /\ x \notin CategoryTree}
    <2>1. ASSUME NEW x \in hidden PROVE parent[x] \in hidden
      <3>1. parent[x] \in Cats \cup {Root}
        BY DEF IInv, TypeOK, Exists
      <3>2. parent[x] # Root
        BY DescendantsClosed DEF CategoryTree, TopCategories
      <3>3. Exists(parent[x])
        BY <3>1, <3>2 DEF IInv, ParentsExist
      <3>4. parent[x] \notin CategoryTree
        BY DescendantsClosed DEF CategoryTree, TopCategories
      <3>5. QED
        BY <3>1, <3>2, <3>3, <3>4
    <2>2. hidden = {}
      <3>1. hidden \in SUBSET Cats
        OBVIOUS
      <3> HIDE DEF hidden
      <3>2. QED
        BY <2>1, <3>1 DEF IInv, TreeUnlessOvertaken, Rootless
    <2>3. c \in CategoryTree
      BY <2>2
    <2>4. PICK r \in TopCategories : c \in Descendants(r)
      BY <2>3 DEF CategoryTree
    <2>5. ParentTree(c) \cap TopCategories = {r} /\ r \in Cats
      BY <2>4, BreadcrumbMeetsTop, ConstantsDiffer DEF TopCategories
    <2>6. QED
      BY <2>3, <2>5
  <1>2. QED
    BY Invariance, <1>1, PTL

-----------------------------------------------------------------------------
(* Walks through a subtree while it changes.                               *)

(* A product is filed under rows: the foreign keys.                        *)
FiledExist == \A p \in Products, c \in Cats :
    place[p].category = c \/ place[p].sub = c => Exists(c)

(* A walk has what it started from, unless that was gone; what it has read *)
(* it has read whole, but for what was moved; and what it has hangs from   *)
(* what it has, but for what was moved.                                    *)
WalkingUnder(v, above) == v # None =>
    /\ v \in Visit
    /\ v.category \in v.found \/ (v.found = {} /\ above[v.category] = Deleted)
    /\ \A c \in Cats : v.pending[c] > 0 => c \in v.found
    /\ v.failed \/ \A c \in v.found, x \in Cats \ v.moved :
          v.pending[c] = 0 /\ above[x] = c => x \in v.found
    /\ \A c \in v.found \ v.moved : c = v.category \/ above[c] \in v.found

Walking(v) == WalkingUnder(v, parent)

BrowseInvariant == IInv /\ FiledExist /\ \A s \in Shoppers : Walking(visit[s])

LEMMA FiledStep == IInv /\ FiledExist /\ [Next]_vars => FiledExist'
  <1> SUFFICES ASSUME IInv, FiledExist, [Next]_vars PROVE FiledExist'
    OBVIOUS
  <1>0. /\ TypeOK /\ place \in [Products -> Place] /\ parent \in [Cats -> Cats \cup {Root, None, Deleted}]
        /\ Root # None /\ Root # Deleted /\ None \notin Cats /\ Deleted \notin Cats
    BY ConstantsDiffer DEF IInv, TypeOK
  <1>1. ASSUME NEW p \in Products, NEW w \in Place, File(p, w) PROVE FiledExist'
    BY <1>0, <1>1 DEF File, FiledExist, Exists
  <1>2. ASSUME NEW e \in Editors, RemoveDelete(e) PROVE FiledExist'
    <2>1. CASE UNCHANGED <<parent, place>>
      BY <2>1 DEF FiledExist, Exists
    <2>2. CASE ~UNCHANGED <<parent, place>>
      <3> DEFINE k == call[e].cat
      <3>1. /\ \A d \in Cats : d # k /\ Exists(d) => Exists(d)'
        BY <1>0, <1>2, <2>2 DEF RemoveDelete, Exists
      <3>2. \A p \in Products : place'[p] = [place[p] EXCEPT
               !.category = IF place[p].category = k THEN None ELSE place[p].category,
               !.sub = IF place[p].sub = k THEN None ELSE place[p].sub]
        BY <1>2, <2>2 DEF RemoveDelete
      <3>3. ASSUME NEW p \in Products, NEW c \in Cats, place'[p].category = c \/ place'[p].sub = c
            PROVE  c # k /\ (place[p].category = c \/ place[p].sub = c)
        <4> DEFINE x == IF place[p].category = k THEN None ELSE place[p].category
                   y == IF place[p].sub = k THEN None ELSE place[p].sub
        <4>1. place[p] \in Place /\ place'[p] = [place[p] EXCEPT !.category = x, !.sub = y]
          BY <1>0, <3>2
        <4>2. (x = c => c # k /\ place[p].category = c) /\ (y = c => c # k /\ place[p].sub = c)
          BY <1>0
        <4> HIDE DEF x, y
        <4>3. place'[p].category = x /\ place'[p].sub = y
          BY ONLY <4>1 DEF Place
        <4>4. QED
          BY <3>3, <4>2, <4>3
      <3>4. QED
        BY <3>1, <3>3 DEF FiledExist
    <2>3. QED
      BY <2>1, <2>2
  <1>3. ASSUME NEW e \in Editors, RemoveBrandDelete(e) PROVE FiledExist'
    <2>1. \A p \in Products : place'[p].category = place[p].category /\ place'[p].sub = place[p].sub
      BY <1>0, <1>3 DEF RemoveBrandDelete, Place
    <2>2. QED
      BY <1>3, <2>1 DEF RemoveBrandDelete, FiledExist, Exists
  <1>4. CASE /\ UNCHANGED place
             /\ \A c \in Cats : Exists(c) => Exists(c)'
    BY <1>4 DEF FiledExist
  <1>5. ASSUME NEW c \in Cats, NEW p \in Cats \cup {Root}, Create(c, p) PROVE FiledExist'
    BY <1>0, <1>4, <1>5 DEF Create, Exists
  <1>6. ASSUME NEW c \in Cats, MoveToRoot(c) PROVE FiledExist'
    BY <1>0, <1>4, <1>6 DEF MoveToRoot, Exists
  <1>7. ASSUME NEW e \in Editors, Move(e) PROVE FiledExist'
    <2>1. UNCHANGED place
      BY <1>7 DEF Move
    <2>2. \A c \in Cats : Exists(c) => Exists(c)'
      <3>1. CASE UNCHANGED parent
        BY <3>1 DEF Exists
      <3>2. CASE ~UNCHANGED parent
        <4>1. /\ Exists(call[e].to) /\ call[e].to \in Cats
              /\ parent' = [parent EXCEPT ![call[e].cat] = call[e].to]
          BY <1>7, <3>2 DEF Move, IInv, Armed
        <4>2. QED
          BY <1>0, <4>1 DEF Exists
      <3>3. QED
        BY <3>1, <3>2
    <2>3. QED
      BY <1>4, <2>1, <2>2
  <1>8. CASE UNCHANGED <<parent, place>>
    BY <1>8 DEF FiledExist, Exists
  <1>9. QED
    BY <1>1, <1>2, <1>3, <1>5, <1>6, <1>7, <1>8
       DEF Next, CategoriesNext, TemplatesNext, BrandsNext, vars, MoveStart, Climb,
           RemoveCountProducts, RemoveCountChildren, AddTemplate, DeleteTemplate, CreateBrand,
           RemoveBrandCount

(* A row that was deleted is gone for good: ids are never used twice.      *)
LEMMA GoneForGood ==
    ASSUME IInv, [Next]_vars, NEW c \in Cats, parent[c] = Deleted PROVE parent'[c] = Deleted
  <1>0. /\ parent \in [Cats -> Cats \cup {Root, None, Deleted}]
        /\ None # Deleted /\ Root # Deleted /\ Deleted \notin Cats
    BY ConstantsDiffer DEF IInv, TypeOK
  <1>1. ASSUME NEW d \in Cats, NEW p \in Cats \cup {Root}, Create(d, p) PROVE parent'[c] = Deleted
    BY <1>0, <1>1 DEF Create
  <1>2. ASSUME NEW d \in Cats, MoveToRoot(d) PROVE parent'[c] = Deleted
    BY <1>0, <1>2 DEF MoveToRoot, Exists
  <1>3. ASSUME NEW e \in Editors, Move(e) PROVE parent'[c] = Deleted
    BY <1>0, <1>3 DEF Move, Exists
  <1>4. ASSUME NEW e \in Editors, RemoveDelete(e) PROVE parent'[c] = Deleted
    <2>1. call[e].cat \in Cats
      BY <1>4 DEF IInv, Armed, RemoveDelete
    <2>2. QED
      BY <1>0, <1>4, <2>1 DEF RemoveDelete
  <1>5. CASE UNCHANGED parent
    BY <1>5
  <1>6. QED
    BY <1>1, <1>2, <1>3, <1>4, <1>5
       DEF Next, CategoriesNext, TemplatesNext, BrandsNext, vars, MoveStart, Climb,
           RemoveCountProducts, RemoveCountChildren, AddTemplate, DeleteTemplate, CreateBrand,
           RemoveBrandCount, RemoveBrandDelete, File

(* Administrators: what has changed its parent is in moved.                *)
LEMMA WalkOvertaken ==
    ASSUME IInv, [Next]_vars, NEW v, Walking(v), v # None,
           NEW w, w = [v EXCEPT !.moved = v.moved \cup {c \in Cats : parent'[c] # parent[c]}]
    PROVE  WalkingUnder(w, parent')
  <1> DEFINE m == v.moved \cup {c \in Cats : parent'[c] # parent[c]}
  <1>1. v \in Visit /\ m \subseteq Cats
    BY DEF Walking, WalkingUnder, Visit
  <1>2. w = [v EXCEPT !.moved = m]
    OBVIOUS
  <1>3. \A c \in Cats : c \notin m => c \notin v.moved /\ parent'[c] = parent[c]
    OBVIOUS
  <1> HIDE DEF m
  <1>4. /\ w \in Visit /\ w.category = v.category /\ w.found = v.found
        /\ w.pending = v.pending /\ w.failed = v.failed /\ w.moved = m
    BY ONLY <1>1, <1>2 DEF Visit
  <1>5. w.category \in w.found \/ (w.found = {} /\ parent'[w.category] = Deleted)
    <2>1. v.category \in Cats
      BY <1>1 DEF Visit
    <2>2. QED
      BY <1>4, <2>1, GoneForGood DEF Walking, WalkingUnder
  <1>6. \A c \in Cats : w.pending[c] > 0 => c \in w.found
    BY <1>4 DEF Walking, WalkingUnder
  <1>7. w.failed \/ \A c \in w.found, x \in Cats \ w.moved :
           w.pending[c] = 0 /\ parent'[x] = c => x \in w.found
    BY <1>3, <1>4 DEF Walking, WalkingUnder
  <1>8. \A c \in w.found \ w.moved : c = w.category \/ parent'[c] \in w.found
    <2>1. v.found \subseteq Cats
      BY <1>1 DEF Visit
    <2>2. QED
      BY <1>3, <1>4, <2>1 DEF Walking, WalkingUnder
  <1>9. QED
    BY <1>4, <1>5, <1>6, <1>7, <1>8 DEF Walking, WalkingUnder, Visit

LEMMA WalkBegins ==
    ASSUME NEW s \in Shoppers, NEW c \in Cats, Enter(s, c), TypeOK,
           visit \in [Shoppers -> Visit \cup {None}], ParentsExist
    PROVE  Walking(visit[s])' /\ visit'[s] \in Visit
  <1> DEFINE found == IF Exists(c) THEN {c} ELSE {}
             pending == [d \in Cats |-> IF d = c /\ Exists(c) THEN 1 ELSE 0]
             w == [category |-> c, found |-> found, pending |-> pending, moved |-> {},
                   failed |-> FALSE]
  <1>1. visit'[s] = w /\ UNCHANGED vars /\ parent[c] # None
    BY DEF Enter, Visits
  <1>2. found \subseteq Cats /\ pending \in [Cats -> 0 .. 2]
    OBVIOUS
  <1>3. /\ c \in found \/ (found = {} /\ parent[c] = Deleted)
        /\ \A d \in Cats : pending[d] > 0 => d \in found
        /\ \A d \in found : d = c /\ pending[d] = 1
    BY <1>1 DEF Exists
  <1> HIDE DEF found, pending
  <1>4. /\ w \in Visit /\ w.category = c /\ w.found = found /\ w.pending = pending
        /\ w.moved = {} /\ w.failed = FALSE
    BY <1>2 DEF Visit
  <1> HIDE DEF w
  <1>5. UNCHANGED parent
    BY <1>1 DEF vars
  <1>6. QED
    BY <1>1, <1>3, <1>4, <1>5 DEF Walking, WalkingUnder

LEMMA WalkReads ==
    ASSUME NEW s \in Shoppers, NEW c \in Cats, ReadChildren(s, c), Walking(visit[s]),
           visit \in [Shoppers -> Visit \cup {None}], ParentsExist
    PROVE  Walking(visit[s])' /\ visit'[s] \in Visit
  <1> DEFINE v == visit[s]
  <1>1. v \in Visit /\ v # None /\ v.pending[c] > 0 /\ UNCHANGED vars
    BY DEF ReadChildren, Visits, Walking, WalkingUnder
  <1> DEFINE Fewer(k) == IF k = 2 THEN {1, 2} ELSE {0}
  <1>a. Fewer(v.pending[c]) \subseteq 0 .. 2
    OBVIOUS
  <1>2. PICK n \in Fewer(v.pending[c]) :
           LET left == [v.pending EXCEPT ![c] = n]
               More(k) == IF k = 0 THEN 1 ELSE 2
           IN  visit'[s] = [v EXCEPT !.found = v.found \cup Children(c),
                  !.pending = [d \in Cats |-> IF d \in Children(c) THEN More(left[d]) ELSE left[d]]]
    BY DEF ReadChildren, Visits
  <1> DEFINE found == v.found \cup Children(c)
             left == [v.pending EXCEPT ![c] = n]
             pending == [d \in Cats |-> IF d \in Children(c)
                                        THEN IF left[d] = 0 THEN 1 ELSE 2 ELSE left[d]]
             w == [v EXCEPT !.found = found, !.pending = pending]
  <1>3. visit'[s] = w
    BY <1>2
  <1>4. /\ v.found \subseteq Cats /\ v.pending \in [Cats -> 0 .. 2] /\ v.moved \subseteq Cats
        /\ v.category \in Cats /\ v.failed \in BOOLEAN
    BY <1>1 DEF Visit
  <1>5. left \in [Cats -> 0 .. 2] /\ left[c] = n /\ \A d \in Cats : d # c => left[d] = v.pending[d]
    BY <1>a, <1>4
  <1> HIDE DEF left
  <1>6. found \subseteq Cats /\ pending \in [Cats -> 0 .. 2]
    BY <1>4, <1>5 DEF Children
  <1>7. \A d \in Cats : pending[d] > 0 => d \in found
    BY <1>1, <1>4, <1>5 DEF Walking, WalkingUnder
  <1>8. \A d \in found : pending[d] = 0 => d = c \/ (d \in v.found /\ v.pending[d] = 0)
    BY <1>4, <1>5 DEF Children
  <1>9. c \in v.found
    BY <1>1 DEF Walking, WalkingUnder
  <1>10. v.failed \/ \A d \in found, x \in Cats \ v.moved : pending[d] = 0 /\ parent[x] = d => x \in found
    BY <1>1, <1>8 DEF Walking, WalkingUnder, Children
  <1>11. \A d \in found \ v.moved : d = v.category \/ parent[d] \in found
    BY <1>1, <1>9 DEF Walking, WalkingUnder, Children
  <1>12. v.category \in found
    BY <1>1, <1>9 DEF Walking, WalkingUnder
  <1> HIDE DEF found, pending
  <1>13. /\ w \in Visit /\ w.category = v.category /\ w.found = found /\ w.pending = pending
         /\ w.moved = v.moved /\ w.failed = v.failed
    BY <1>1, <1>6 DEF Visit
  <1> HIDE DEF w
  <1>14. UNCHANGED parent
    BY <1>1 DEF vars
  <1>15. QED
    BY <1>3, <1>7, <1>10, <1>11, <1>12, <1>13, <1>14 DEF Walking, WalkingUnder

LEMMA WalkFails ==
    ASSUME NEW s \in Shoppers, ReadFails(s), Walking(visit[s]),
           visit \in [Shoppers -> Visit \cup {None}]
    PROVE  Walking(visit[s])' /\ visit'[s] \in Visit
  <1> DEFINE v == visit[s]
             none == [c \in Cats |-> 0]
             w == [v EXCEPT !.found = {v.category}, !.pending = none, !.failed = TRUE]
  <1>1. v \in Visit /\ v # None /\ UNCHANGED vars /\ visit'[s] = w
    BY DEF ReadFails, Visits, Walking, WalkingUnder
  <1>2. none \in [Cats -> 0 .. 2] /\ v.category \in Cats /\ \A c \in Cats : none[c] = 0
    BY <1>1 DEF Visit
  <1> HIDE DEF none
  <1>3. /\ w \in Visit /\ w.category = v.category /\ w.found = {v.category} /\ w.pending = none
        /\ w.failed = TRUE
    BY <1>1, <1>2 DEF Visit
  <1> HIDE DEF w
  <1>4. QED
    BY <1>1, <1>2, <1>3 DEF Walking, WalkingUnder, vars

THEOREM BrowseInvariance ==
    BrowseSpec => [](BrowseInvariant /\ visit \in [Shoppers -> Visit \cup {None}])
  <1> DEFINE Typed == visit \in [Shoppers -> Visit \cup {None}]
  <1>1. BrowseInit => BrowseInvariant /\ Typed
    <2> SUFFICES ASSUME BrowseInit PROVE BrowseInvariant /\ Typed
      OBVIOUS
    <2>1. IInv
      BY Initially DEF BrowseInit
    <2>2. FiledExist
      BY ConstantsDiffer DEF BrowseInit, Init, FiledExist
    <2>3. Typed /\ \A s \in Shoppers : Walking(visit[s])
      BY DEF BrowseInit, Walking, WalkingUnder
    <2>4. QED
      BY <2>1, <2>2, <2>3 DEF BrowseInvariant
  <1>2. BrowseInvariant /\ Typed /\ [BrowseNext]_browseVars => BrowseInvariant' /\ Typed'
    <2> SUFFICES ASSUME BrowseInvariant, Typed, [BrowseNext]_browseVars
                 PROVE  BrowseInvariant' /\ Typed'
      OBVIOUS
    <2>0. IInv /\ FiledExist /\ TypeOK /\ ParentsExist
      BY DEF BrowseInvariant, IInv
    <2>1. [Next]_vars
      BY DEF BrowseNext, browseVars, vars, Enter, ReadChildren, ReadFails, ShowFound, Visits
    <2>2. IInv' /\ FiledExist'
      <3>1. TypeOK' /\ ParentsExist' /\ TreeUnlessOvertaken'
        BY <2>0, <2>1, TypeStep, ParentsStep, TreeStep
      <3>2. \A f \in Editors : Armed(call[f])' /\ Climbed(call[f])' /\ Counted(call[f])'
        BY <2>0, <2>1, ArmedStep, ClimbedStep, CountedStep DEF Climbed, Closed
      <3>3. QED
        BY <2>0, <2>1, <3>1, <3>2, FiledStep DEF IInv
    <2>3. ASSUME NEW s \in Shoppers PROVE Walking(visit[s])' /\ visit'[s] \in Visit \cup {None}
      <3>0. Walking(visit[s]) /\ visit[s] \in Visit \cup {None}
        BY DEF BrowseInvariant
      <3>1. ASSUME Next, visit' = [t \in Shoppers |->
                     IF visit[t] = None THEN None
                     ELSE [visit[t] EXCEPT !.moved = visit[t].moved
                                              \cup {c \in Cats : parent'[c] # parent[c]}]]
            PROVE  Walking(visit[s])' /\ visit'[s] \in Visit \cup {None}
        <4>1. CASE visit[s] = None
          BY <3>1, <4>1 DEF Walking, WalkingUnder
        <4>2. CASE visit[s] # None
          <5> DEFINE w == [visit[s] EXCEPT !.moved = visit[s].moved
                                              \cup {c \in Cats : parent'[c] # parent[c]}]
          <5>1. visit'[s] = w
            BY <3>1, <4>2
          <5>2. WalkingUnder(w, parent')
            BY <2>0, <2>1, <3>0, <4>2, WalkOvertaken
          <5>3. w \in Visit \cup {None}
            BY <5>2 DEF WalkingUnder
          <5> HIDE DEF w
          <5>4. QED
            BY <5>1, <5>2, <5>3 DEF Walking, WalkingUnder
        <4>3. QED
          BY <4>1, <4>2
      <3>2. CASE \E c \in Cats : Enter(s, c)
        BY <2>0, <3>2, WalkBegins
      <3>3. CASE \E c \in Cats : ReadChildren(s, c)
        BY <2>0, <3>0, <3>3, WalkReads
      <3>4. CASE ReadFails(s)
        BY <3>0, <3>4, WalkFails
      <3>5. CASE ShowFound(s)
        BY <3>5 DEF ShowFound, Visits, Walking, WalkingUnder
      <3>6. CASE visit'[s] = visit[s] /\ UNCHANGED vars
        BY <3>0, <3>6 DEF Walking, WalkingUnder, vars
      <3>7. ASSUME NEW t \in Shoppers, t # s, NEW w, Visits(t, w)
            PROVE  visit'[s] = visit[s] /\ UNCHANGED vars
        BY <3>7 DEF Visits
      <3>8. ASSUME NEW t \in Shoppers, t # s,
                   \/ \E c \in Cats : Enter(t, c) \/ ReadChildren(t, c)
                   \/ ReadFails(t) \/ ShowFound(t)
            PROVE  visit'[s] = visit[s] /\ UNCHANGED vars
        BY <3>7, <3>8 DEF Enter, ReadChildren, ReadFails, ShowFound
      <3>9. QED
        BY <3>1, <3>2, <3>3, <3>4, <3>5, <3>6, <3>8 DEF BrowseNext, browseVars, vars
    <2>4. Typed'
      <3>1. visit' \in [Shoppers -> Visit \cup {None}]
        <4>1. \E f : visit' = [t \in Shoppers |-> f[t]]
          <5>1. visit = [t \in Shoppers |-> visit[t]]
            OBVIOUS
          <5>2. QED
            BY <5>1 DEF BrowseNext, browseVars, Enter, ReadChildren, ReadFails, ShowFound, Visits
        <4>2. QED
          BY <2>3, <4>1
      <3>2. QED
        BY <3>1
    <2>5. QED
      BY <2>2, <2>3, <2>4 DEF BrowseInvariant
  <1>3. QED
    BY <1>1, <1>2, PTL DEF BrowseSpec

(* All that a walk cannot have missed it has: what it has is closed under  *)
(* the children that were not moved.                                       *)
LEMMA WalkFindsStayed ==
    ASSUME NEW v, Walking(v), Walked(v), ~v.failed, ParentsExist, FiledExist,
           NEW p \in Products, p \in Filed(DescendantsPast(v.category, v.moved))
    PROVE  p \in Filed(v.found)
  <1>1. v \in Visit /\ v.category \in Cats /\ v.found \subseteq Cats /\ \A c \in Cats : v.pending[c] = 0
    BY DEF Walking, WalkingUnder, Walked, Visit
  <1>2. CASE v.category \in v.found
    <2>1. \A x \in Cats \ v.moved : parent[x] \in v.found => x \in v.found
      BY <1>1 DEF Walking, WalkingUnder, Walked
    <2>2. DescendantsPast(v.category, v.moved) \subseteq v.found
      BY <1>1, <1>2, <2>1 DEF DescendantsPast
    <2>3. QED
      BY <2>2 DEF Filed
  <1>3. CASE v.category \notin v.found
    <2>1. parent[v.category] = Deleted
      BY <1>3 DEF Walking, WalkingUnder, Walked
    <2>2. \A x \in Cats : parent[x] # v.category
      BY <1>1, <2>1 DEF ParentsExist, Exists
    <2>3. DescendantsPast(v.category, v.moved) \subseteq {v.category}
      BY <1>1, <2>2 DEF DescendantsPast
    <2>4. QED
      BY <1>1, <2>1, <2>3 DEF Filed, FiledExist, Exists
  <1>4. QED
    BY <1>2, <1>3

(* What strayed in without a move above it would have no root.             *)
LEMMA NothingStrays ==
    ASSUME NEW v, Walking(v), v # None, TreeUnlessOvertaken, ~overtaken, NEW c \in v.found,
           ParentTree(c) \cap v.moved = {}
    PROVE  c \in Descendants(v.category)
  <1> DEFINE stray == {x \in v.found : /\ x \notin Descendants(v.category)
                                       /\ ParentTree(x) \cap v.moved = {}}
  <1>1. v.category \in Cats /\ v.found \subseteq Cats
    BY DEF Walking, WalkingUnder, Visit
  <1>2. ASSUME NEW x \in stray PROVE parent[x] \in stray
    <2>1. x \in Cats /\ x \notin v.moved /\ x # v.category
      BY <1>1, ParentTreeClimbs, DescendantsClosed
    <2>2. parent[x] \in v.found /\ parent[x] \in Cats
      BY <1>1, <2>1 DEF Walking, WalkingUnder
    <2>3. parent[x] \notin Descendants(v.category)
      BY <1>1, <2>1, DescendantsClosed
    <2>4. ParentTree(parent[x]) \subseteq ParentTree(x)
      BY <2>1, <2>2, ParentTreeClimbs DEF ParentTree
    <2>5. QED
      BY <2>2, <2>3, <2>4
  <1>3. stray \in SUBSET Cats /\ (stray # {} => Rootless(stray))
    BY <1>1, <1>2 DEF Rootless
  <1>4. stray = {}
    BY <1>3 DEF TreeUnlessOvertaken
  <1>5. QED
    BY <1>4

(* A shopper is shown all of a subtree but what was moved while it was     *)
(* read, and nothing else but what was moved (products.service.ts:1941),   *)
(* in any number of categories and moves.                                  *)
THEOREM SubtreesAreShown == BrowseSpec => []ShownUnlessMoved
  <1>1. BrowseInvariant => ShownUnlessMoved
    <2> SUFFICES ASSUME BrowseInvariant, NEW s \in Shoppers, Walked(visit[s])
                 PROVE  LET v == visit[s]
                            For(p, viewer) == /\ viewer = "guest" => p \in OpenShops
                                              /\ viewer \in Sellers => SellerOf[p] = viewer
                            Stayed(p) == p \in Filed(DescendantsPast(v.category, v.moved))
                            Strayed(c) == \E a \in ParentTree(c) : a \in v.moved
                        IN  /\ \A p \in Products : ~v.failed /\ Stayed(p) =>
                                  /\ p \in FilterBase(v.found, None)
                                  /\ \A viewer \in Viewers :
                                        For(p, viewer) => p \in FindAll(v.found, viewer)
                            /\ CategoryProducts(v.category) \subseteq FilterBase(v.found, None)
                            /\ overtaken \/ \A c \in v.found :
                                  c \in Descendants(v.category) \/ Strayed(c)
      BY DEF ShownUnlessMoved
    <2> DEFINE v == visit[s]
    <2>0. /\ Walking(v) /\ v # None /\ ParentsExist /\ FiledExist /\ TreeUnlessOvertaken
      BY DEF BrowseInvariant, IInv, Walked
    <2>1. \A x : Filed(x) \subseteq FilterBase(x, None)
      BY DEF FilterBase, Filed
    <2>2. ASSUME NEW p \in Products, ~v.failed, p \in Filed(DescendantsPast(v.category, v.moved))
          PROVE  p \in Filed(v.found)
      BY <2>0, <2>2, WalkFindsStayed
    <2>3. CategoryProducts(v.category) \subseteq FilterBase(v.found, None)
      <3>1. CASE v.category \in v.found
        BY <2>1, <3>1 DEF CategoryProducts, Filed
      <3>2. CASE v.found = {}
        BY <3>2 DEF CategoryProducts, Filed, FilterBase
      <3>3. QED
        BY <2>0, <3>1, <3>2 DEF Walking, WalkingUnder
    <2>4. overtaken \/ \A c \in v.found :
             c \in Descendants(v.category) \/ \E a \in ParentTree(c) : a \in v.moved
      BY <2>0, NothingStrays
    <2>5. QED
      BY <2>1, <2>2, <2>3, <2>4 DEF FindAll
  <1>2. QED
    BY BrowseInvariance, <1>1, PTL

-----------------------------------------------------------------------------
(* Showcase, with the products and the null value of Browse.               *)
CONSTANTS Tags, Images, Users, Requests, MaxSent, MaxAttempts

VARIABLES product, tag, tags, image, wish, job, attempts, asked, mixed, lost

INSTANCE Showcase

(* Tags, images and wishes.  What a request in flight knows, as long as no *)
(* other has overtaken it: a transaction has seen every tag that it will   *)
(* not overwrite, and every image or its position; a removal has counted   *)
(* every product that still asks for the tag; a wish is as it was read.    *)
KnowsTags(q) ==
    /\ q.pc \in {"tags", "commit"} =>
          /\ q.product \in Products /\ product[q.product] # "none"
          /\ q.user = None /\ q.raced \subseteq {"tags", "images"}
    /\ q.pc = "commit" /\ q.send # None /\ "tags" \notin q.raced => tags[q.product] \subseteq q.seen
    /\ q.pc = "deleteTag" =>
          q.tag \in Tags /\ ("tag" \notin q.raced => \A p \in Products : q.tag \notin asked[p] \ lost)

KnowsImages(q) ==
    q.pc \in {"tags", "commit"} /\ q.sent # None /\ "images" \notin q.raced =>
        IF q.locked THEN ImagesOf(q.product) \subseteq q.shown
        ELSE \A i \in ImagesOf(q.product) : image[i].position < q.start

KnowsWish(q) ==
    /\ q.pc \in {"wish", "unwish", "reread", "answered"} => q.product \in Products /\ q.user \in Users
    /\ q.pc = "reread" => q.answer \in {"added", "already"}
    /\ "wish" \notin q.raced =>
          /\ q.pc = "wish" => Listed(q.product) /\ wish[q.user][q.product] = 0
          /\ q.pc \in {"unwish", "reread"} => wish[q.user][q.product] = q.row
          /\ q.pc = "answered" => q.answer \notin {"failed", "missing"}
          /\ q.pc = "answered" /\ q.answer \in {"added", "already"}
                => wish[q.user][q.product] = q.row

ShowcaseInvariant ==
    /\ ShowcaseTypeOK
    /\ \A r \in Requests : KnowsTags(job[r]) /\ KnowsImages(job[r]) /\ KnowsWish(job[r])
    /\ EditsMixOnlyIfOvertaken

(* The records that requests make.                                         *)
LEMMA NewJobs ==
    /\ NoJob \in Job
    /\ \A t \in Tags : [NoJob EXCEPT !.pc = "deleteTag", !.tag = t] \in Job
    /\ \A p \in Products, S, T \in SUBSET Tags :
          [NoJob EXCEPT !.pc = "commit", !.product = p, !.send = S, !.seen = T] \in Job
    /\ \A p \in Products, S \in (SUBSET Tags) \cup {None}, n \in 0 .. MaxSent \cup {None},
          I \in SUBSET Images :
          [NoJob EXCEPT !.pc = "tags", !.product = p, !.locked = TRUE, !.send = S,
                        !.sent = n, !.shown = I] \in Job
    /\ \A p \in Products, n \in 0 .. MaxSent, k \in Nat :
          [NoJob EXCEPT !.pc = "commit", !.product = p, !.sent = n, !.start = k] \in Job
    /\ \A p \in Products, u \in Users, k \in Nat :
          /\ [NoJob EXCEPT !.pc = "wish", !.product = p, !.user = u] \in Job
          /\ [NoJob EXCEPT !.pc = "reread", !.product = p, !.user = u, !.row = k,
                           !.answer = "already"] \in Job
          /\ [NoJob EXCEPT !.pc = "unwish", !.product = p, !.user = u, !.row = k] \in Job
  <1>1. NoJob \in Job
    BY DEF NoJob, Job, JobStage
  <1>2. ASSUME NEW t \in Tags PROVE [NoJob EXCEPT !.pc = "deleteTag", !.tag = t] \in Job
    BY <1>1 DEF NoJob, Job, JobStage
  <1>3. ASSUME NEW p \in Products, NEW S \in SUBSET Tags, NEW T \in SUBSET Tags
        PROVE  [NoJob EXCEPT !.pc = "commit", !.product = p, !.send = S, !.seen = T] \in Job
    BY DEF NoJob, Job, JobStage
  <1>4. ASSUME NEW p \in Products, NEW S \in (SUBSET Tags) \cup {None}, 
               NEW n \in 0 .. MaxSent \cup {None}, NEW I \in SUBSET Images
        PROVE  [NoJob EXCEPT !.pc = "tags", !.product = p, !.locked = TRUE, !.send = S,
                        !.sent = n, !.shown = I] \in Job
    BY DEF NoJob, Job, JobStage
  <1>5. ASSUME NEW p \in Products, NEW n \in 0 .. MaxSent, NEW k \in Nat
        PROVE  [NoJob EXCEPT !.pc = "commit", !.product = p, !.sent = n, !.start = k] \in Job
    BY DEF NoJob, Job, JobStage
  <1>6. ASSUME NEW p \in Products, NEW u \in Users, NEW k \in Nat
        PROVE  /\ [NoJob EXCEPT !.pc = "wish", !.product = p, !.user = u] \in Job
               /\ [NoJob EXCEPT !.pc = "reread", !.product = p, !.user = u, !.row = k,
                                !.answer = "already"] \in Job
               /\ [NoJob EXCEPT !.pc = "unwish", !.product = p, !.user = u, !.row = k] \in Job
    BY DEF NoJob, Job, JobStage
  <1>7. QED
    BY <1>1, <1>2, <1>3, <1>4, <1>5, <1>6

Knows(q) == KnowsTags(q) /\ KnowsImages(q) /\ KnowsWish(q)

(* A request that only asks, or stops, leaves the tables alone, and knows   *)
(* what it has just read.                                                  *)
LEMMA Asking ==
    ASSUME ShowcaseInvariant, NEW r \in Requests, NEW q \in Job, Becomes(r, q), Knows(q),
           attempts' \in Nat, UNCHANGED <<product, tag, tags, image, wish, asked, mixed, lost>>
    PROVE  ShowcaseInvariant'
  <1> USE DEF ShowcaseInvariant
  <1>1. job' = [job EXCEPT ![r] = q] /\ job \in [Requests -> Job]
    BY DEF Becomes, ShowcaseTypeOK
  <1>2. ShowcaseTypeOK'
    BY <1>1 DEF ShowcaseTypeOK
  <1>3. ASSUME NEW s \in Requests PROVE Knows(job[s])'
    <2>1. Knows(job'[s])
      BY <1>1 DEF Knows
    <2>2. PICK k : k = job'[s] /\ Knows(k)
      BY <2>1
    <2>3. KnowsTags(k)' /\ KnowsImages(k)' /\ KnowsWish(k)'
      BY <2>2 DEF Knows, KnowsTags, KnowsImages, KnowsWish, ImagesOf, Listed
    <2>4. QED
      BY <2>2, <2>3 DEF Knows, KnowsTags, KnowsImages, KnowsWish
  <1>4. EditsMixOnlyIfOvertaken'
    BY DEF EditsMixOnlyIfOvertaken, ImagesOf
  <1>5. QED
    BY <1>2, <1>3, <1>4 DEF Knows

(* A finite set has a member for which f is greatest: among the sets of    *)
(* those that are above some p there is a smallest.                        *)
LEMMA Greatest ==
    ASSUME NEW x, IsFiniteSet(x), x # {}, NEW f, \A p \in x : f[p] \in Int
    PROVE  \E p \in x : \A q \in x : f[q] <= f[p]
  <1> DEFINE up(p) == {q \in x : f[q] >= f[p]}
             ups == {up(p) : p \in x}
  <1>1. ups \in SUBSET SUBSET x /\ ups # {}
    OBVIOUS
  <1>2. PICK s \in ups : \A t \in SUBSET s : t \in ups => t = s
    <2> HIDE DEF ups
    <2>1. QED
      BY <1>1, Smallest
  <1>3. PICK p \in x : s = up(p)
    BY <1>2
  <1>4. ASSUME NEW q \in x, ~(f[q] <= f[p]) PROVE FALSE
    <2>1. f[q] > f[p]
      BY <1>4
    <2>2. up(q) \subseteq up(p) /\ up(q) \in ups
      BY <2>1
    <2>3. up(q) = up(p)
      BY <1>2, <1>3, <2>2
    <2>4. p \in up(p) /\ p \notin up(q)
      BY <2>1
    <2>5. QED
      BY <2>3, <2>4
  <1>5. QED
    BY <1>4

(* New images start after the last one there is.                           *)
LEMMA LastPosition ==
    ASSUME ShowcaseAssumption, ShowcaseTypeOK, NEW p \in Products, ImagesOf(p) # {},
           NEW last, last = Max({image[i].position : i \in ImagesOf(p)})
    PROVE  last \in Nat /\ \A i \in ImagesOf(p) : image[i].position <= last
  <1> DEFINE at == [i \in ImagesOf(p) |-> image[i].position]
             positions == {image[i].position : i \in ImagesOf(p)}
  <1>1. IsFiniteSet(ImagesOf(p))
    BY FS_Subset DEF ShowcaseAssumption, ImagesOf
  <1>2. \A i \in ImagesOf(p) : at[i] = image[i].position /\ image[i].position \in Nat
    BY DEF ShowcaseTypeOK, ShowcaseAssumption, ImagesOf, Gone
  <1>3. PICK m \in ImagesOf(p) : \A i \in ImagesOf(p) : image[i].position <= image[m].position
    <2>1. \A i \in ImagesOf(p) : at[i] \in Int
      BY <1>2
    <2> HIDE DEF at
    <2>2. PICK m \in ImagesOf(p) : \A i \in ImagesOf(p) : at[i] <= at[m]
      BY <1>1, <2>1, Greatest
    <2>3. QED
      BY <1>2, <2>2
  <1>4. image[m].position \in positions /\ \A y \in positions : image[m].position >= y /\ y \in Nat
    BY <1>2, <1>3
  <1>5. last \in positions /\ \A y \in positions : last >= y
    <2> HIDE DEF positions
    <2>1. last = Max(positions)
      BY DEF positions
    <2>2. QED
      BY <1>4, <2>1 DEF Max
  <1>6. QED
    BY <1>2, <1>5

LEMMA Begins ==
    ASSUME ShowcaseAssumption, ShowcaseTypeOK, NEW r \in Requests, Starts(r)
    PROVE  attempts' \in Nat
  BY DEF ShowcaseTypeOK, Starts, Allowed

(* The requests and statements that change no table.                       *)
LEMMA Asks ==
    ASSUME ShowcaseAssumption, ShowcaseInvariant, NEW r \in Requests,
           \/ \E t \in Tags : RemoveTagCount(r, t)
           \/ \E p \in Products, S \in SUBSET Tags : UpdateTags(r, p, S)
           \/ \E p \in Products, S \in (SUBSET Tags) \cup {None}, n \in 0 .. MaxSent \cup {None} :
                 Update(r, p, S, n)
           \/ \E p \in Products, n \in 1 .. MaxSent : AddImages(r, p, n)
           \/ \E u \in Users, p \in Products : AddToWishlist(r, u, p) \/ RemoveFromWishlist(r, u, p)
           \/ UpdateTagsOf(r) \/ Rollback(r) \/ RereadWish(r) \/ Leave(r)
    PROVE  ShowcaseInvariant'
  <1> USE DEF Knows
  <1>a. ShowcaseTypeOK /\ attempts \in Nat /\ job[r] \in Job /\ EditsMixOnlyIfOvertaken /\ Knows(job[r])
    BY DEF ShowcaseInvariant, ShowcaseTypeOK
  <1>b. Knows(NoJob)
    BY DEF NoJob, KnowsTags, KnowsImages, KnowsWish
  <1>1. ASSUME NEW t \in Tags, RemoveTagCount(r, t) PROVE ShowcaseInvariant'
    <2> DEFINE q == [NoJob EXCEPT !.pc = "deleteTag", !.tag = t]
    <2>1. \A p \in Products : t \notin asked[p] \ lost
      BY <1>1, <1>a DEF EditsMixOnlyIfOvertaken, RemoveTagCount
    <2>2. Knows(q)
      BY <2>1 DEF NoJob, KnowsTags, KnowsImages, KnowsWish
    <2>3. QED
      BY <1>1, <1>a, <2>2, Asking, NewJobs, Begins DEF RemoveTagCount, Starts
  <1>2. ASSUME NEW p \in Products, NEW S \in SUBSET Tags, UpdateTags(r, p, S)
        PROVE  ShowcaseInvariant'
    <2> DEFINE q == [NoJob EXCEPT !.pc = "commit", !.product = p, !.send = S, !.seen = tags[p]]
    <2>1. q \in Job
      BY <1>a, NewJobs DEF ShowcaseTypeOK
    <2>2. Knows(q)
      BY <1>2 DEF NoJob, KnowsTags, KnowsImages, KnowsWish, UpdateTags, Listed
    <2>3. QED
      BY <1>2, <1>a, <2>1, <2>2, Asking, Begins DEF UpdateTags, Starts
  <1>3. ASSUME NEW p \in Products, NEW S \in (SUBSET Tags) \cup {None},
               NEW n \in 0 .. MaxSent \cup {None}, Update(r, p, S, n)
        PROVE  ShowcaseInvariant'
    <2> DEFINE I == IF n = None THEN {} ELSE ImagesOf(p)
               q == [NoJob EXCEPT !.pc = "tags", !.product = p, !.locked = TRUE, !.send = S,
                                  !.sent = n, !.shown = I]
    <2>1. I \in SUBSET Images /\ (n # None => I = ImagesOf(p))
      BY DEF ImagesOf
    <2> HIDE DEF I
    <2>2. q \in Job
      BY <2>1, NewJobs
    <2>3. Knows(q)
      BY <1>3, <2>1 DEF NoJob, KnowsTags, KnowsImages, KnowsWish, Update, Listed
    <2>4. Becomes(r, q) /\ attempts' \in Nat
      BY <1>3, <1>a, Begins DEF Update, I
    <2>5. QED
      BY <1>3, <2>2, <2>3, <2>4, Asking DEF Update
  <1>4. ASSUME NEW p \in Products, NEW n \in 1 .. MaxSent, AddImages(r, p, n)
        PROVE  ShowcaseInvariant'
    <2> DEFINE k == IF ImagesOf(p) = {} THEN 0 ELSE 1 + Max({image[i].position : i \in ImagesOf(p)})
               q == [NoJob EXCEPT !.pc = "commit", !.product = p, !.sent = n, !.start = k]
    <2>1. k \in Nat /\ \A i \in ImagesOf(p) : image[i].position < k
      <3>1. CASE ImagesOf(p) = {}
        BY <3>1
      <3>2. CASE ImagesOf(p) # {}
        <4>1. PICK last : last = Max({image[i].position : i \in ImagesOf(p)})
          OBVIOUS
        <4>2. last \in Nat /\ \A i \in ImagesOf(p) : image[i].position <= last
          BY <1>a, <3>2, <4>1, LastPosition
        <4>3. \A i \in ImagesOf(p) : image[i].position \in Nat
          BY <1>a DEF ShowcaseTypeOK, ShowcaseAssumption, ImagesOf, Gone
        <4>4. k = 1 + last
          BY <3>2, <4>1
        <4> HIDE DEF k
        <4>5. QED
          BY <4>2, <4>3, <4>4
      <3>3. QED
        BY <3>1, <3>2
    <2>2. Becomes(r, q) /\ attempts' \in Nat
      BY <1>4, <1>a, Begins DEF AddImages
    <2> HIDE DEF k
    <2>3. n \in 0 .. MaxSent
      BY DEF ShowcaseAssumption
    <2>4. q \in Job
      BY <2>1, <2>3, NewJobs
    <2>5. Knows(q)
      BY <1>4, <2>1 DEF NoJob, KnowsTags, KnowsImages, KnowsWish, AddImages, Listed
    <2>6. QED
      BY <1>4, <2>2, <2>4, <2>5, Asking DEF AddImages
  <1>5. ASSUME NEW u \in Users, NEW p \in Products, AddToWishlist(r, u, p)
        PROVE  ShowcaseInvariant'
    <2> DEFINE q1 == [NoJob EXCEPT !.pc = "wish", !.product = p, !.user = u]
               q2 == [NoJob EXCEPT !.pc = "reread", !.product = p, !.user = u,
                                 !.row = wish[u][p], !.answer = "already"]
    <2>1. wish[u][p] \in Nat
      BY <1>a DEF ShowcaseTypeOK
    <2>2. q1 \in Job /\ q2 \in Job
      BY <2>1, NewJobs
    <2>3. wish[u][p] = 0 => Knows(q1)
      BY <1>5 DEF NoJob, KnowsTags, KnowsImages, KnowsWish, AddToWishlist
    <2>4. Knows(q2)
      BY <1>5 DEF NoJob, KnowsTags, KnowsImages, KnowsWish, AddToWishlist
    <2>5. /\ attempts' \in Nat
          /\ wish[u][p] = 0 => Becomes(r, q1)
          /\ wish[u][p] # 0 => Becomes(r, q2)
      BY <1>5, <1>a, Begins DEF AddToWishlist
    <2> HIDE DEF q1, q2
    <2>6. QED
      BY <1>5, <2>2, <2>3, <2>4, <2>5, Asking DEF AddToWishlist
  <1>6. ASSUME NEW u \in Users, NEW p \in Products, RemoveFromWishlist(r, u, p)
        PROVE  ShowcaseInvariant'
    <2> DEFINE q == [NoJob EXCEPT !.pc = "unwish", !.product = p, !.user = u, !.row = wish[u][p]]
    <2>1. wish[u][p] \in Nat
      BY <1>a DEF ShowcaseTypeOK
    <2>2. q \in Job /\ Knows(q)
      BY <2>1, NewJobs DEF NoJob, KnowsTags, KnowsImages, KnowsWish
    <2>3. QED
      BY <1>6, <1>a, <2>2, Asking, Begins DEF RemoveFromWishlist, Starts
  <1>7. ASSUME UpdateTagsOf(r) PROVE ShowcaseInvariant'
    <2> DEFINE T == IF job[r].send = None THEN {} ELSE tags[job[r].product]
               q == [job[r] EXCEPT !.pc = "commit", !.seen = T]
    <2>1. job[r].pc = "tags" /\ job[r].product \in Products /\ tags[job[r].product] \in SUBSET Tags
      BY <1>7, <1>a DEF UpdateTagsOf, KnowsTags, ShowcaseTypeOK
    <2>2. T \in SUBSET Tags /\ (job[r].send # None => T = tags[job[r].product])
      BY <2>1
    <2>3. Becomes(r, q)
      BY <1>7 DEF UpdateTagsOf
    <2> HIDE DEF T
    <2>4. q \in Job
      <3>1. ASSUME NEW j \in Job
            PROVE  [j EXCEPT !.pc = "commit", !.seen = T] \in Job
        BY <2>2 DEF Job, JobStage
      <3>2. QED
        BY <1>a, <3>1
    <2>5. Knows(q)
      BY <1>a, <2>1, <2>2 DEF KnowsTags, KnowsImages, KnowsWish, Job
    <2>6. QED
      BY <1>7, <1>a, <2>3, <2>4, <2>5, Asking DEF UpdateTagsOf
  <1>8. CASE Rollback(r) \/ Leave(r)
    BY <1>8, <1>a, <1>b, NewJobs, Asking DEF Rollback, Leave
  <1>9. ASSUME RereadWish(r) PROVE ShowcaseInvariant'
    <2> DEFINE a == IF wish[job[r].user][job[r].product] = job[r].row THEN job[r].answer ELSE "missing"
               q == [job[r] EXCEPT !.pc = "answered", !.answer = a]
    <2>1. job[r].pc = "reread"
      BY <1>9 DEF RereadWish
    <2>2. /\ a \in {None, "added", "already", "removed", "missing", "failed"}
          /\ a \in {"added", "already"} => wish[job[r].user][job[r].product] = job[r].row
          /\ "wish" \notin job[r].raced => a \in {"added", "already"}
      BY <1>a, <2>1 DEF KnowsWish, Job
    <2>3. Becomes(r, q)
      BY <1>9 DEF RereadWish, Answered
    <2> HIDE DEF a
    <2>4. q \in Job
      <3>1. ASSUME NEW j \in Job
            PROVE  [j EXCEPT !.pc = "answered", !.answer = a] \in Job
        BY <2>2 DEF Job, JobStage
      <3>2. QED
        BY <1>a, <3>1
    <2>5. Knows(q)
      BY <1>a, <2>1, <2>2 DEF KnowsTags, KnowsImages, KnowsWish, Job
    <2>6. QED
      BY <1>9, <1>a, <2>3, <2>4, <2>5, Asking DEF RereadWish
  <1>10. QED
    BY <1>1, <1>2, <1>3, <1>4, <1>5, <1>6, <1>7, <1>8, <1>9

(* A request that others have overtaken is the same but for that.          *)
Overrun(j, k) ==
    /\ k \in Job /\ j.raced \subseteq k.raced
    /\ k.pc = j.pc /\ k.product = j.product /\ k.user = j.user /\ k.locked = j.locked
    /\ k.send = j.send /\ k.seen = j.seen /\ k.sent = j.sent /\ k.shown = j.shown
    /\ k.start = j.start /\ k.tag = j.tag /\ k.row = j.row /\ k.answer = j.answer

LEMMA Raced ==
    ASSUME NEW j \in Job, NEW X \in SUBSET {"tags", "images", "tag", "wish"}
    PROVE  /\ Overrun(j, [j EXCEPT !.raced = @ \cup X])
           /\ [j EXCEPT !.raced = @ \cup X].raced = j.raced \cup X
           /\ Overrun(j, j)
  BY DEF Overrun, Job

LEMMA IdleKnows == ShowcaseTypeOK => Knows(NoJob) /\ Knows(NoJob)'
  BY DEF Knows, NoJob, KnowsTags, KnowsImages, KnowsWish

(* CreateTag, removeTag, removeImage.                                      *)
LEMMA TagCreated ==
    ASSUME ShowcaseAssumption, ShowcaseInvariant, NEW t \in Tags, CreateTag(t)
    PROVE  ShowcaseInvariant'
  <1> USE DEF ShowcaseInvariant, CreateTag
  <1>1. ShowcaseTypeOK'
    BY DEF ShowcaseTypeOK, Allowed
  <1>2. ASSUME NEW s \in Requests PROVE KnowsTags(job[s])' /\ KnowsImages(job[s])' /\ KnowsWish(job[s])'
    BY DEF KnowsTags, KnowsImages, KnowsWish, ImagesOf, Listed
  <1>3. EditsMixOnlyIfOvertaken'
    BY DEF EditsMixOnlyIfOvertaken, ImagesOf
  <1>4. QED
    BY <1>1, <1>2, <1>3

LEMMA TagDeleted ==
    ASSUME ShowcaseAssumption, ShowcaseInvariant, NEW r \in Requests, RemoveTagDelete(r)
    PROVE  ShowcaseInvariant'
  <1> USE DEF ShowcaseInvariant
  <1> DEFINE t == job[r].tag
  <1>a. /\ job[r].pc = "deleteTag" /\ t \in Tags
        /\ job' = [job EXCEPT ![r] = NoJob]
        /\ tag' = [tag EXCEPT ![t] = "deleted"]
        /\ tags' = [p \in Products |-> tags[p] \ {t}]
        /\ lost' = IF "tag" \in job[r].raced THEN lost \cup {t} ELSE lost
        /\ "tag" \notin job[r].raced => \A p \in Products : t \notin asked[p] \ lost
        /\ UNCHANGED <<product, image, wish, attempts, asked, mixed>>
        /\ tags \in [Products -> SUBSET Tags] /\ job \in [Requests -> Job] /\ lost \subseteq Tags
    BY DEF RemoveTagDelete, Becomes, KnowsTags, ShowcaseTypeOK
  <1> HIDE DEF t
  <1>1. ShowcaseTypeOK'
    <2>1. job' \in [Requests -> Job] /\ tags' \in [Products -> SUBSET Tags] /\ lost' \subseteq Tags
      BY <1>a, NewJobs
    <2>2. QED
      BY <1>a, <2>1 DEF ShowcaseTypeOK
  <1>2. ASSUME NEW s \in Requests PROVE Knows(job[s])'
    <2>1. CASE s = r
      <3>1. job'[s] = NoJob
        BY <1>a, <2>1
      <3>2. QED
        BY <3>1, IdleKnows DEF Knows, KnowsTags, KnowsImages, KnowsWish
    <2>2. CASE s # r
      <3>1. PICK k : k = job[s] /\ k = job'[s] /\ Knows(k)
        BY <1>a, <2>2 DEF Knows
      <3>2. KnowsTags(k)'
        BY <3>1, <1>a DEF Knows, KnowsTags
      <3>3. KnowsImages(k)' /\ KnowsWish(k)'
        BY <3>1, <1>a DEF Knows, KnowsImages, KnowsWish, ImagesOf, Listed
      <3>4. QED
        BY <3>1, <3>2, <3>3 DEF Knows, KnowsTags, KnowsImages, KnowsWish
    <2>3. QED
      BY <2>1, <2>2
  <1>3. EditsMixOnlyIfOvertaken'
    BY <1>a DEF EditsMixOnlyIfOvertaken, ImagesOf
  <1>4. QED
    BY <1>1, <1>2, <1>3 DEF Knows

LEMMA ImageRemoved ==
    ASSUME ShowcaseAssumption, ShowcaseInvariant, NEW i \in Images, RemoveImage(i)
    PROVE  ShowcaseInvariant'
  <1> USE DEF ShowcaseInvariant
  <1>a. /\ image' = [image EXCEPT ![i] = Gone] /\ attempts' \in Nat
        /\ UNCHANGED <<product, tag, tags, wish, job, asked, mixed, lost>>
        /\ image \in [Images -> [product : Products, position : Nat] \cup {None, Gone}]
    BY DEF RemoveImage, Allowed, ShowcaseTypeOK
  <1>b. \A p \in Products, x \in Images :
           x \in ImagesOf(p)' => x \in ImagesOf(p) /\ image'[x] = image[x]
    BY <1>a DEF ImagesOf, Gone, ShowcaseAssumption
  <1>1. ShowcaseTypeOK'
    BY <1>a DEF ShowcaseTypeOK
  <1>2. ASSUME NEW s \in Requests PROVE Knows(job[s])'
    <2>1. PICK k : k = job[s] /\ k = job'[s] /\ Knows(k)
      BY <1>a DEF Knows
    <2>2. KnowsTags(k)' /\ KnowsWish(k)'
      BY <2>1, <1>a DEF Knows, KnowsTags, KnowsWish, Listed
    <2>3. KnowsImages(k)'
      <3>1. KnowsTags(k) /\ KnowsImages(k)
        BY <2>1 DEF Knows
      <3>2. \A p \in Products : ImagesOf(p)' \subseteq ImagesOf(p)
        BY <1>b DEF ImagesOf
      <3>3. \A p \in Products : \A x \in ImagesOf(p)' : image'[x] = image[x]
        BY <1>b DEF ImagesOf
      <3>4. QED
        BY <3>1, <3>2, <3>3 DEF KnowsTags, KnowsImages
    <2>4. QED
      BY <2>1, <2>2, <2>3 DEF Knows, KnowsTags, KnowsImages, KnowsWish
  <1>3. EditsMixOnlyIfOvertaken'
    <2>1. \A p \in Products : ImagesOf(p)' \subseteq ImagesOf(p)
      BY <1>b DEF ImagesOf
    <2>2. \A p \in Products : \A x \in ImagesOf(p)' : image'[x] = image[x]
      BY <1>b DEF ImagesOf
    <2>3. QED
      BY <1>a, <2>1, <2>2 DEF EditsMixOnlyIfOvertaken
  <1>4. QED
    BY <1>1, <1>2, <1>3 DEF Knows

(* The commit of q: which images there are afterwards, and where.          *)
Pictured(q, new) ==
    /\ \A x \in Products \ {q.product} : \A i \in ImagesOf(x)' :
          i \in ImagesOf(x) /\ image'[i] = image[i]
    /\ \A i \in ImagesOf(q.product)' : 
          \/ i \in new /\ image'[i].position >= q.start
          \/ i \in ImagesOf(q.product) \ q.shown /\ image'[i] = image[i]
    /\ \A i, j \in new : i # j => image'[i].position # image'[j].position
    /\ q.sent = None => new = {}

LEMMA Pictures ==
    ASSUME ShowcaseAssumption, ShowcaseInvariant, NEW r \in Requests, Commit(r), NEW q, q = job[r]
    PROVE  /\ image' \in [Images -> [product : Products, position : Nat] \cup {None, Gone}]
           /\ \E new \in SUBSET Images : Pictured(q, new)
  <1> DEFINE p == q.product
  <1>1. q \in Job /\ p \in Products /\ q.start \in Nat
    BY DEF ShowcaseInvariant, ShowcaseTypeOK, KnowsTags, Commit, Job
  <1>2. PICK new \in SUBSET {i \in Images : image[i] = None} :
           /\ Cardinality(new) = IF q.sent = None THEN 0 ELSE q.sent
           /\ \E at \in Bijection(new, q.start .. q.start + Cardinality(new) - 1) :
                 image' = [i \in Images |->
                     IF i \in new THEN [product |-> p, position |-> at[i]]
                     ELSE IF i \in q.shown THEN Gone ELSE image[i]]
    BY DEF Commit
  <1>3. IsFiniteSet(new) /\ Cardinality(new) \in Nat /\ new \subseteq Images
    BY <1>2, FS_Subset, FS_CardinalityType DEF ShowcaseAssumption
  <1>4. PICK at \in Bijection(new, q.start .. q.start + Cardinality(new) - 1) :
           image' = [i \in Images |->
                     IF i \in new THEN [product |-> p, position |-> at[i]]
                     ELSE IF i \in q.shown THEN Gone ELSE image[i]]
    BY <1>2
  <1>5. /\ \A i \in new : at[i] \in Nat /\ at[i] >= q.start
        /\ \A i, j \in new : i # j => at[i] # at[j]
    <2> DEFINE n == Cardinality(new)
    <2> HIDE DEF n
    <2>1. n \in Nat /\ at \in Bijection(new, q.start .. q.start + n - 1)
      BY <1>3, <1>4 DEF n
    <2>2. /\ \A i \in new : at[i] \in q.start .. q.start + n - 1
          /\ \A i, j \in new : i # j => at[i] # at[j]
      BY <2>1 DEF Bijection, Injection, Surjection, IsInjective
    <2>3. QED
      BY <1>1, <2>1, <2>2
  <1>6. q.sent = None => new = {}
    BY <1>2, <1>3, FS_EmptySet
  <1>7. image \in [Images -> [product : Products, position : Nat] \cup {None, Gone}]
    BY DEF ShowcaseInvariant, ShowcaseTypeOK
  <1> HIDE DEF p
  <1>8. \A i \in Images : /\ i \in new => image'[i] = [product |-> p, position |-> at[i]]
                          /\ i \notin new => image'[i] = Gone \/ (i \notin q.shown /\ image'[i] = image[i])
    BY <1>4
  <1>9. image' \in [Images -> [product : Products, position : Nat] \cup {None, Gone}]
    <2>1. \A i \in new : [product |-> p, position |-> at[i]] \in [product : Products, position : Nat]
      BY <1>1, <1>5
    <2>2. \A i \in Images : image'[i] \in [product : Products, position : Nat] \cup {None, Gone}
      BY <1>7, <1>8, <2>1
    <2>3. QED
      BY <1>4, <2>2
  <1>10. Pictured(q, new)
    <2>1. None \notin Products /\ Gone.product = None
      BY DEF ShowcaseAssumption, Gone
    <2>2. \A i \in new : image'[i].product = p /\ image'[i].position = at[i]
      <3>1. ASSUME NEW i \in new PROVE image'[i].product = p /\ image'[i].position = at[i]
        <4>1. image'[i] = [product |-> p, position |-> at[i]]
          BY <1>3, <1>8
        <4>2. QED
          BY ONLY <4>1
      <3>2. QED
        BY <3>1
    <2>n. \A i \in Images \ new : image'[i] = Gone \/ (i \notin q.shown /\ image'[i] = image[i])
      BY <1>8
    <2>3. \A x \in Products \ {p} : \A i \in ImagesOf(x)' : i \in ImagesOf(x) /\ image'[i] = image[i]
      BY <2>1, <2>2, <2>n DEF ImagesOf
    <2>4. \A i \in ImagesOf(p)' : 
            \/ i \in new /\ image'[i].position >= q.start
            \/ i \in ImagesOf(p) \ q.shown /\ image'[i] = image[i]
      <3>1. ASSUME NEW i \in Images, i \in ImagesOf(p)'
            PROVE  \/ i \in new /\ image'[i].position >= q.start
                   \/ i \in ImagesOf(p) \ q.shown /\ image'[i] = image[i]
        <4>1. CASE i \in new
          BY <1>5, <2>2, <4>1
        <4>2. CASE i \notin new
          BY <1>1, <2>1, <2>n, <3>1, <4>2 DEF ImagesOf
        <4>3. QED
          BY <4>1, <4>2
      <3>2. QED
        BY <3>1 DEF ImagesOf
    <2>5. \A i, j \in new : i # j => image'[i].position # image'[j].position
      BY <1>5, <2>2
    <2>6. QED
      BY <1>6, <2>3, <2>4, <2>5 DEF Pictured, p
  <1>11. QED
    BY <1>3, <1>9, <1>10

LEMMA Committed ==
    ASSUME ShowcaseAssumption, ShowcaseInvariant, NEW r \in Requests, Commit(r)
    PROVE  ShowcaseInvariant'
  <1>q. PICK q : q = job[r]
    OBVIOUS
  <1> DEFINE p == q.product
  <1>a. /\ q \in Job /\ Knows(q) /\ q.pc = "commit" /\ p \in Products /\ q.raced \subseteq {"tags", "images"}
        /\ q.seen \in SUBSET Tags /\ q.send \in (SUBSET Tags) \cup {None}
    BY <1>q DEF ShowcaseInvariant, ShowcaseTypeOK, Knows, KnowsTags, Commit, Job
  <1>b. PICK new \in SUBSET Images : Pictured(q, new)
    BY <1>q, Pictures
  <1>f. /\ \A x \in Products \ {p} : \A i \in ImagesOf(x)' :
              i \in ImagesOf(x) /\ image'[i] = image[i]
        /\ \A i \in ImagesOf(p)' :
              \/ i \in new /\ image'[i].position >= q.start
              \/ i \in ImagesOf(p) \ q.shown /\ image'[i] = image[i]
        /\ \A i, j \in new : i # j => image'[i].position # image'[j].position
        /\ q.sent = None => new = {}
    BY <1>b DEF Pictured
  <1>c. /\ job' = [s \in Requests |-> IF s = r THEN NoJob
                       ELSE [job[s] EXCEPT !.raced = @ \cup Overtaken(q, s)]]
        /\ tags' = [tags EXCEPT ![p] = IF q.send = None THEN @ ELSE Kept(q) \cup q.send]
        /\ asked' = [asked EXCEPT ![p] = IF q.send = None THEN @ ELSE q.send]
        /\ mixed' = Mixed(q)
        /\ UNCHANGED <<product, tag, wish, attempts, lost>>
        /\ ShowcaseTypeOK /\ EditsMixOnlyIfOvertaken
    BY <1>q DEF Commit, ShowcaseInvariant
  <1>d. Kept(q) = IF q.send = None THEN tags[p] ELSE tags[p] \ q.seen
    BY DEF Kept
  <1>e. ASSUME NEW s \in Requests, s # r
        PROVE  /\ Overrun(job[s], job'[s]) /\ Knows(job[s])
               /\ job'[s].raced = job[s].raced \cup Overtaken(q, s)
    <2>1. Overtaken(q, s) \in SUBSET {"tags", "images", "tag", "wish"}
      BY DEF Overtaken
    <2>2. job[s] \in Job
      BY <1>c DEF ShowcaseTypeOK
    <2>3. job'[s] = [job[s] EXCEPT !.raced = @ \cup Overtaken(q, s)]
      BY <1>c, <1>e
    <2>4. QED
      BY <2>1, <2>2, <2>3, Raced DEF ShowcaseInvariant, Knows
  <1> HIDE DEF p
  <1>1. ShowcaseTypeOK'
    <2>1. job' \in [Requests -> Job]
      <3>1. \A s \in Requests : job'[s] \in Job
        BY <1>c, <1>e, NewJobs DEF Overrun
      <3>2. QED
        BY <1>c, <3>1
    <2>2. tags' \in [Products -> SUBSET Tags] /\ asked' \in [Products -> SUBSET Tags]
      BY <1>a, <1>c, <1>d DEF ShowcaseTypeOK
    <2>3. mixed' \subseteq Products \X {"tags", "images"}
      BY <1>a, <1>c DEF Mixed, ShowcaseTypeOK, p
    <2>4. QED
      BY <1>c, <1>q, <2>1, <2>2, <2>3, Pictures DEF ShowcaseTypeOK
  <1>2. ASSUME NEW s \in Requests PROVE Knows(job[s])'
    <2>1. CASE s = r
      <3>1. job'[s] = NoJob
        BY <1>c, <2>1
      <3>2. QED
        BY <1>c, <3>1, IdleKnows DEF Knows, KnowsTags, KnowsImages, KnowsWish
    <2>2. CASE s # r
      <3>1. PICK j : j = job[s] /\ Knows(j)
        BY <1>e, <2>2
      <3>2. PICK k : k = job'[s] /\ Overrun(j, k) /\ k.raced = j.raced \cup Overtaken(q, s)
        BY <1>e, <2>2, <3>1
      <3>o. Overtaken(q, s) =
              (IF j.product = p /\ j.pc = "commit" /\ q.send # None /\ j.send # None THEN {"tags"} ELSE {})
              \cup (IF j.product = p /\ q.sent # None /\ j.sent # None THEN {"images"} ELSE {})
              \cup (IF j.pc = "deleteTag" /\ q.send # None /\ j.tag \in q.send THEN {"tag"} ELSE {})
        BY <3>1 DEF Overtaken, p
      <3>3. KnowsTags(k)'
        <4>1. KnowsTags(j)
          BY <3>1 DEF Knows
        <4>2. k.pc \in {"tags", "commit"} =>
                 /\ k.product \in Products /\ product'[k.product] # "none"
                 /\ k.user = None /\ k.raced \subseteq {"tags", "images"}
          BY <1>c, <3>2, <3>o, <4>1 DEF KnowsTags, Overrun
        <4>3. ASSUME k.pc = "commit", k.send # None, "tags" \notin k.raced
              PROVE  tags'[k.product] \subseteq k.seen
          <5>1. tags[k.product] \subseteq k.seen /\ k.product \in Products
            BY <3>2, <4>1, <4>3 DEF KnowsTags, Overrun
          <5>2. k.product = p => q.send = None
            BY <3>2, <3>o, <4>3 DEF Overrun
          <5>3. tags'[k.product] = tags[k.product]
            BY <1>c, <5>1, <5>2 DEF ShowcaseTypeOK
          <5>4. QED
            BY <5>1, <5>3
        <4>4. ASSUME k.pc = "deleteTag"
              PROVE  k.tag \in Tags /\ ("tag" \notin k.raced => \A x \in Products : k.tag \notin asked'[x] \ lost')
          <5>1. /\ k.tag = j.tag /\ k.tag \in Tags
                /\ "tag" \notin k.raced => \A x \in Products : k.tag \notin asked[x] \ lost
                /\ "tag" \notin k.raced => q.send = None \/ k.tag \notin q.send
            BY <3>2, <3>o, <4>1, <4>4 DEF KnowsTags, Overrun
          <5>2. \A x \in Products : asked'[x] = IF x = p /\ q.send # None THEN q.send ELSE asked[x]
            BY <1>c DEF ShowcaseTypeOK
          <5>3. lost' = lost
            BY <1>c
          <5>4. QED
            BY <5>1, <5>2, <5>3
        <4>5. QED
          BY <4>2, <4>3, <4>4 DEF KnowsTags
      <3>4. KnowsImages(k)'
        <4>1. SUFFICES ASSUME k.pc \in {"tags", "commit"}, k.sent # None, "images" \notin k.raced
                       PROVE  IF k.locked THEN ImagesOf(k.product)' \subseteq k.shown
                              ELSE \A i \in ImagesOf(k.product)' : image'[i].position < k.start
          BY DEF KnowsImages
        <4>2. /\ k.product \in Products
              /\ IF k.locked THEN ImagesOf(k.product) \subseteq k.shown
                 ELSE \A i \in ImagesOf(k.product) : image[i].position < k.start
          BY <3>1, <3>2, <4>1 DEF Knows, KnowsTags, KnowsImages, Overrun
        <4>3. k.product = p => q.sent = None
          BY <3>2, <3>o, <4>1 DEF Overrun
        <4>4. \A i \in ImagesOf(k.product)' : i \in ImagesOf(k.product) /\ image'[i] = image[i]
          <5>1. CASE k.product = p
            BY <1>f, <4>3, <5>1
          <5>2. CASE k.product # p
            BY <1>f, <4>2, <5>2
          <5>3. QED
            BY <5>1, <5>2
        <4>5. QED
          BY <4>2, <4>4
      <3>5. KnowsWish(k)'
        BY <1>c, <3>1, <3>2 DEF Knows, KnowsWish, Overrun, Listed
      <3>6. QED
        BY <3>2, <3>3, <3>4, <3>5 DEF Knows, KnowsTags, KnowsImages, KnowsWish
    <2>3. QED
      BY <2>1, <2>2
  <1>3. ASSUME NEW x \in Products
        PROVE  /\ asked'[x] \ lost' \subseteq tags'[x]
               /\ <<x, "tags">> \notin mixed' => tags'[x] \subseteq asked'[x]
               /\ <<x, "images">> \notin mixed' =>
                     \A i, j \in ImagesOf(x)' : i # j => image'[i].position # image'[j].position
    <2>1. /\ asked[x] \ lost \subseteq tags[x]
          /\ <<x, "tags">> \notin mixed => tags[x] \subseteq asked[x]
          /\ <<x, "images">> \notin mixed =>
                \A i, j \in ImagesOf(x) : i # j => image[i].position # image[j].position
      BY <1>c DEF EditsMixOnlyIfOvertaken
    <2>2. CASE x # p
      <3>1. tags'[x] = tags[x] /\ asked'[x] = asked[x] /\ lost' = lost
        BY <1>c, <2>2 DEF ShowcaseTypeOK
      <3>2. \A y : <<x, y>> \in mixed => <<x, y>> \in mixed'
        BY <1>c, <2>2 DEF Mixed, p
      <3>3. \A i \in ImagesOf(x)' : i \in ImagesOf(x) /\ image'[i] = image[i]
        BY <1>b, <2>2 DEF Pictured, p
      <3>4. QED
        BY <2>1, <3>1, <3>2, <3>3
    <2>3. CASE x = p
      <3>1. /\ lost' = lost
            /\ tags'[x] = IF q.send = None THEN tags[x] ELSE (tags[x] \ q.seen) \cup q.send
            /\ asked'[x] = IF q.send = None THEN asked[x] ELSE q.send
        BY <1>c, <1>d, <2>3 DEF ShowcaseTypeOK
      <3>2. asked'[x] \ lost' \subseteq tags'[x]
        BY <2>1, <3>1
      <3>3. ASSUME <<x, "tags">> \notin mixed' PROVE tags'[x] \subseteq asked'[x]
        <4>1. "tags" \notin q.raced /\ (q.send = None => <<x, "tags">> \notin mixed)
          BY <1>c, <2>3, <3>3 DEF Mixed, p
        <4>2. q.send # None => tags[x] \subseteq q.seen
          BY <1>a, <2>3, <4>1 DEF Knows, KnowsTags, p
        <4>3. QED
          BY <2>1, <3>1, <4>1, <4>2
      <3>4. ASSUME <<x, "images">> \notin mixed', NEW i \in ImagesOf(x)', NEW j \in ImagesOf(x)', i # j
            PROVE  image'[i].position # image'[j].position
        <4>1. "images" \notin q.raced /\ (q.sent = None \/ ~q.locked => <<x, "images">> \notin mixed)
          BY <1>c, <2>3, <3>4 DEF Mixed, p
        <4>2. /\ \/ i \in new /\ image'[i].position >= q.start
                 \/ i \in ImagesOf(x) \ q.shown /\ image'[i] = image[i]
              /\ \/ j \in new /\ image'[j].position >= q.start
                 \/ j \in ImagesOf(x) \ q.shown /\ image'[j] = image[j]
              /\ i \in new /\ j \in new => image'[i].position # image'[j].position
              /\ q.sent = None => new = {}
          BY <1>f, <2>3, <3>4
        <4>3. CASE q.sent = None
          BY <2>1, <3>4, <4>1, <4>2, <4>3
        <4>4. CASE q.sent # None /\ q.locked
          <5>1. ImagesOf(x) \subseteq q.shown
            BY <1>a, <2>3, <4>1, <4>4 DEF Knows, KnowsImages, p
          <5>2. QED
            BY <4>2, <5>1
        <4>5. CASE q.sent # None /\ ~q.locked
          <5>1. \A y \in ImagesOf(x) : image[y].position < q.start
            BY <1>a, <2>3, <4>1, <4>5 DEF Knows, KnowsImages, p
          <5>2. q.start \in Nat /\ \A y \in ImagesOf(x) : image[y].position \in Nat
            BY <1>a, <1>c DEF ShowcaseTypeOK, ShowcaseAssumption, ImagesOf, Gone, Job
          <5>3. i \in Images /\ j \in Images /\ image'[i].position \in Nat /\ image'[j].position \in Nat
            BY <1>1, <3>4 DEF ShowcaseTypeOK, ShowcaseAssumption, ImagesOf, Gone
          <5>4. QED
            BY <2>1, <3>4, <4>1, <4>2, <4>5, <5>1, <5>2, <5>3
        <4>6. QED
          BY <4>3, <4>4, <4>5
      <3>5. QED
        BY <3>2, <3>3, <3>4
    <2>4. QED
      BY <2>2, <2>3
  <1>4. EditsMixOnlyIfOvertaken'
    BY <1>3 DEF EditsMixOnlyIfOvertaken
  <1>5. QED
    BY <1>1, <1>2, <1>4 DEF Knows, ShowcaseInvariant

(* A wish that r changes under others, who are told.                       *)
LEMMA WishChanged ==
    ASSUME ShowcaseAssumption, ShowcaseInvariant, NEW r \in Requests, NEW u \in Users,
           NEW p \in Products, NEW n \in Nat, NEW q \in Job, OverWish(r, u, p, q),
           wish' = [wish EXCEPT ![u] = [wish[u] EXCEPT ![p] = n]],
           UNCHANGED <<product, tag, tags, image, attempts, asked, mixed, lost>>,
           KnowsTags(q) /\ KnowsImages(q), Knows(q)'
    PROVE  ShowcaseInvariant'
  <1>a. ShowcaseTypeOK /\ EditsMixOnlyIfOvertaken
    BY DEF ShowcaseInvariant
  <1>b. /\ wish' \in [Users -> [Products -> Nat]]
        /\ \A v \in Users, x \in Products : wish'[v][x] # wish[v][x] => v = u /\ x = p
    BY <1>a DEF ShowcaseTypeOK
  <1>1. ASSUME NEW s \in Requests, s # r
        PROVE  /\ Overrun(job[s], job'[s]) /\ Knows(job[s])
               /\ job[s].product = p /\ job[s].user = u => "wish" \in job'[s].raced
               /\ job[s].product # p \/ job[s].user # u => job'[s] = job[s]
    <2>1. job[s] \in Job /\ Knows(job[s])
      BY <1>a DEF ShowcaseTypeOK, ShowcaseInvariant, Knows
    <2>2. CASE job[s].product = p /\ job[s].user = u
      <3>1. PICK j : j = job[s] /\ j \in Job
        BY <2>1
      <3>2. job'[s] = [j EXCEPT !.raced = @ \cup {"wish"}]
        BY <1>1, <2>2, <3>1 DEF OverWish
      <3>3. Overrun(j, job'[s]) /\ job'[s].raced = j.raced \cup {"wish"}
        BY <3>1, <3>2 DEF Overrun, Job
      <3>4. QED
        BY <2>1, <2>2, <3>1, <3>3
    <2>3. CASE ~(job[s].product = p /\ job[s].user = u)
      <3>1. job'[s] = job[s]
        BY <1>1, <2>3 DEF OverWish
      <3>2. QED
        BY <2>1, <2>3, <3>1, Raced
    <2>4. QED
      BY <2>2, <2>3
  <1>2. job'[r] = q
    BY DEF OverWish
  <1>3. ShowcaseTypeOK'
    <2>1. job' \in [Requests -> Job]
      <3>1. \A s \in Requests : job'[s] \in Job
        BY <1>1, <1>2 DEF Overrun
      <3>2. QED
        BY <3>1 DEF OverWish
    <2>2. QED
      BY <1>a, <1>b, <2>1 DEF ShowcaseTypeOK
  <1>4. ASSUME NEW s \in Requests PROVE Knows(job[s])'
    <2>1. CASE s = r
      BY <1>2, <2>1 DEF Knows, KnowsTags, KnowsImages, KnowsWish
    <2>2. CASE s # r
      <3>1. PICK j : j = job[s] /\ Knows(j)
        BY <1>1, <2>2
      <3>2. PICK k : /\ k = job'[s] /\ Overrun(j, k)
                     /\ j.product = p /\ j.user = u => "wish" \in k.raced
                     /\ j.product # p \/ j.user # u => k = j
        BY <1>1, <2>2, <3>1
      <3>3. KnowsTags(k)' /\ KnowsImages(k)'
        <4>1. j.pc \in {"tags", "commit"} => k = j
          BY <3>1, <3>2 DEF Knows, KnowsTags, ShowcaseAssumption
        <4>2. KnowsTags(k) /\ KnowsImages(k)
          BY <3>1, <3>2, <4>1 DEF Knows, KnowsTags, KnowsImages, Overrun
        <4>3. QED
          BY <4>2 DEF KnowsTags, KnowsImages, ImagesOf
      <3>4. KnowsWish(k)'
        <4>1. KnowsWish(k)
          BY <3>1, <3>2 DEF Knows, KnowsWish, Overrun
        <4>2. "wish" \notin k.raced /\ k.product \in Products /\ k.user \in Users
                => wish'[k.user][k.product] = wish[k.user][k.product]
          BY <1>b, <3>2 DEF Overrun
        <4>3. QED
          BY <4>1, <4>2 DEF KnowsWish, Listed
      <3>5. QED
        BY <3>2, <3>3, <3>4 DEF Knows, KnowsTags, KnowsImages, KnowsWish
    <2>3. QED
      BY <2>1, <2>2
  <1>5. EditsMixOnlyIfOvertaken'
    BY <1>a DEF EditsMixOnlyIfOvertaken, ImagesOf
  <1>6. QED
    BY <1>3, <1>4, <1>5 DEF Knows, ShowcaseInvariant

LEMMA WishWritten ==
    ASSUME ShowcaseAssumption, ShowcaseInvariant, NEW r \in Requests,
           InsertWish(r) \/ DeleteWish(r)
    PROVE  ShowcaseInvariant'
  <1>q. PICK q : q = job[r]
    OBVIOUS
  <1>a. /\ q \in Job /\ Knows(q) /\ attempts \in Nat
        /\ q.pc \in {"wish", "unwish"} /\ q.product \in Products /\ q.user \in Users
    BY <1>q DEF ShowcaseInvariant, ShowcaseTypeOK, Knows, KnowsWish, InsertWish, DeleteWish
  <1>b. ASSUME NEW answer \in {"added", "already", "removed", "missing", "failed"}, NEW n \in Nat
        PROVE  /\ Answered(q, answer) \in Job
               /\ [q EXCEPT !.pc = "reread", !.row = n, !.answer = "added"] \in Job
    BY <1>a DEF Answered, Job, JobStage
  <1>1. CASE InsertWish(r) /\ Listed(q.product) /\ wish[q.user][q.product] = 0
    <2> DEFINE k == [q EXCEPT !.pc = "reread", !.row = attempts, !.answer = "added"]
    <2>1. PICK j : j = k /\ j \in Job
      BY <1>a, <1>b
    <2>2. /\ wish' = [wish EXCEPT ![q.user] = [wish[q.user] EXCEPT ![q.product] = attempts]]
          /\ OverWish(r, q.user, q.product, j)
          /\ UNCHANGED <<product, tag, tags, image, attempts, asked, mixed, lost>>
      BY <1>1, <1>q, <2>1 DEF InsertWish
    <2>3. /\ j.pc = "reread" /\ j.product = q.product /\ j.user = q.user /\ j.row = attempts
          /\ j.answer = "added"
      BY <1>a, <2>1 DEF Job
    <2>4. wish'[j.user][j.product] = j.row
      BY <1>a, <2>2, <2>3 DEF ShowcaseInvariant, ShowcaseTypeOK
    <2>5. KnowsTags(j) /\ KnowsImages(j) /\ Knows(j)'
      BY <1>a, <2>3, <2>4 DEF Knows, KnowsTags, KnowsImages, KnowsWish
    <2>6. QED
      BY <1>a, <2>1, <2>2, <2>5, WishChanged
  <1>2. CASE InsertWish(r) /\ ~(Listed(q.product) /\ wish[q.user][q.product] = 0)
    <2> DEFINE a == IF Listed(q.product) THEN "failed" ELSE "missing"
    <2>1. PICK j : j = Answered(q, a) /\ j \in Job
      BY <1>b
    <2>2. /\ Becomes(r, j) /\ attempts' \in Nat
          /\ UNCHANGED <<product, tag, tags, image, wish, asked, mixed, lost>>
      BY <1>2, <1>a, <1>q, <2>1 DEF InsertWish
    <2>3. "wish" \in q.raced
      BY <1>2, <1>a, <1>q DEF Knows, KnowsWish, InsertWish
    <2>4. /\ j.pc = "answered" /\ j.product = q.product /\ j.user = q.user /\ j.raced = q.raced
      BY <1>a, <2>1 DEF Job, Answered
    <2>5. Knows(j)
      BY <1>a, <2>3, <2>4 DEF Knows, KnowsTags, KnowsImages, KnowsWish
    <2>6. QED
      BY <2>1, <2>2, <2>5, Asking
  <1>3. CASE DeleteWish(r) /\ wish[q.user][q.product] = q.row
    <2>1. PICK j : j = Answered(q, "removed") /\ j \in Job
      BY <1>b, <1>a
    <2>2. /\ wish' = [wish EXCEPT ![q.user] = [wish[q.user] EXCEPT ![q.product] = 0]]
          /\ OverWish(r, q.user, q.product, j)
          /\ UNCHANGED <<product, tag, tags, image, attempts, asked, mixed, lost>>
      BY <1>3, <1>q, <2>1 DEF DeleteWish
    <2>3. j.pc = "answered" /\ j.product = q.product /\ j.user = q.user /\ j.answer = "removed"
      BY <1>a, <2>1 DEF Job, Answered
    <2>4. KnowsTags(j) /\ KnowsImages(j) /\ Knows(j)'
      BY <1>a, <2>3 DEF Knows, KnowsTags, KnowsImages, KnowsWish
    <2>5. QED
      BY <1>a, <2>1, <2>2, <2>4, WishChanged
  <1>4. CASE DeleteWish(r) /\ wish[q.user][q.product] # q.row
    <2>1. PICK j : j = Answered(q, "failed") /\ j \in Job
      BY <1>b, <1>a
    <2>2. /\ Becomes(r, j) /\ attempts' \in Nat
          /\ UNCHANGED <<product, tag, tags, image, wish, asked, mixed, lost>>
      BY <1>4, <1>a, <1>q, <2>1 DEF DeleteWish
    <2>3. "wish" \in q.raced
      BY <1>4, <1>a, <1>q DEF Knows, KnowsWish, DeleteWish
    <2>4. j.pc = "answered" /\ j.product = q.product /\ j.user = q.user /\ j.raced = q.raced
      BY <1>a, <2>1 DEF Job, Answered
    <2>5. Knows(j)
      BY <1>a, <2>3, <2>4 DEF Knows, KnowsTags, KnowsImages, KnowsWish
    <2>6. QED
      BY <2>1, <2>2, <2>5, Asking
  <1>5. QED
    BY <1>1, <1>2, <1>3, <1>4

LEMMA ProductCreated ==
    ASSUME ShowcaseAssumption, ShowcaseInvariant, NEW p \in Products, NEW S \in SUBSET Tags,
           CreateProduct(p, S)
    PROVE  ShowcaseInvariant'
  <1>a. ShowcaseTypeOK /\ EditsMixOnlyIfOvertaken /\ product[p] = "none"
    BY DEF ShowcaseInvariant, CreateProduct
  <1>b. /\ product' = [product EXCEPT ![p] = "live"]
        /\ tags' = [tags EXCEPT ![p] = S] /\ asked' = [asked EXCEPT ![p] = S]
        /\ UNCHANGED <<tag, image, wish, mixed, lost>> /\ attempts' \in Nat
    BY <1>a DEF CreateProduct, Allowed, ShowcaseTypeOK
  <1>1. ASSUME NEW s \in Requests
        PROVE  /\ job'[s] \in Job /\ job[s] \in Job /\ Knows(job[s])
               /\ \/ job'[s] = job[s] /\ ~(job[s].pc = "deleteTag" /\ job[s].tag \in S)
                  \/ job[s].pc = "deleteTag" /\ job'[s].pc = "deleteTag"
                       /\ job'[s].tag = job[s].tag /\ job'[s].raced = {"tag"}
    <2>1. PICK j : j = job[s] /\ j \in Job /\ Knows(j)
      BY <1>a DEF ShowcaseTypeOK, ShowcaseInvariant, Knows
    <2>2. job'[s] = IF j.pc = "deleteTag" /\ j.tag \in S THEN [j EXCEPT !.raced = {"tag"}] ELSE j
      BY <2>1 DEF CreateProduct
    <2>3. [j EXCEPT !.raced = {"tag"}] \in Job
      BY <2>1 DEF Job
    <2>4. CASE j.pc = "deleteTag" /\ j.tag \in S
      <3>1. job'[s] = [j EXCEPT !.raced = {"tag"}]
        BY <2>2, <2>4
      <3>2. job'[s].pc = "deleteTag" /\ job'[s].tag = j.tag /\ job'[s].raced = {"tag"}
        BY <2>1, <2>4, <3>1 DEF Job
      <3>3. QED
        BY <2>1, <2>3, <2>4, <3>1, <3>2
    <2>5. CASE ~(j.pc = "deleteTag" /\ j.tag \in S)
      BY <2>1, <2>2, <2>5
    <2>6. QED
      BY <2>4, <2>5
  <1>2. ShowcaseTypeOK'
    <2>1. job' \in [Requests -> Job]
      BY <1>1 DEF CreateProduct
    <2>2. QED
      BY <1>a, <1>b, <2>1 DEF ShowcaseTypeOK
  <1>3. ASSUME NEW s \in Requests PROVE Knows(job[s])'
    <2>1. PICK j : j = job[s] /\ j \in Job /\ Knows(j)
      BY <1>1
    <2>2. PICK k : /\ k = job'[s]
                   /\ \/ k = j /\ ~(j.pc = "deleteTag" /\ j.tag \in S)
                      \/ j.pc = "deleteTag" /\ k.pc = "deleteTag" /\ k.tag = j.tag /\ k.raced = {"tag"}
      BY <1>1, <2>1
    <2>3. KnowsTags(k)'
      <3>1. CASE k.pc = "deleteTag"
        <4>1. k.tag \in Tags
          BY <2>1, <2>2, <3>1 DEF Knows, KnowsTags
        <4>2. "tag" \notin k.raced => k.tag \notin S /\ \A x \in Products : k.tag \notin asked[x] \ lost
          BY <2>1, <2>2, <3>1 DEF Knows, KnowsTags
        <4>3. \A x \in Products : asked'[x] = IF x = p THEN S ELSE asked[x]
          BY <1>a, <1>b DEF ShowcaseTypeOK
        <4>4. QED
          BY <1>b, <3>1, <4>1, <4>2, <4>3 DEF KnowsTags
      <3>2. CASE k.pc \in {"tags", "commit"}
        <4>1. k = j /\ KnowsTags(k)
          BY <2>1, <2>2, <3>2 DEF Knows
        <4>2. k.product \in Products /\ k.product # p
          BY <1>a, <3>2, <4>1 DEF KnowsTags
        <4>3. product'[k.product] = product[k.product] /\ tags'[k.product] = tags[k.product]
          BY <1>a, <1>b, <4>2 DEF ShowcaseTypeOK
        <4>4. QED
          BY <3>2, <4>1, <4>3 DEF KnowsTags
      <3>3. CASE k.pc \notin {"deleteTag", "tags", "commit"}
        BY <3>3 DEF KnowsTags
      <3>4. QED
        BY <3>1, <3>2, <3>3
    <2>4. KnowsImages(k)'
      <3>1. KnowsImages(k)
        BY <2>1, <2>2 DEF Knows, KnowsImages
      <3>2. QED
        BY <1>b, <3>1 DEF KnowsImages, ImagesOf
    <2>5. KnowsWish(k)'
      <3>1. KnowsWish(k)
        BY <2>1, <2>2 DEF Knows, KnowsWish
      <3>2. \A x \in Products : Listed(x) => Listed(x)'
        BY <1>a, <1>b DEF Listed, ShowcaseTypeOK
      <3>3. QED
        BY <1>b, <3>1, <3>2 DEF KnowsWish
    <2>6. QED
      BY <2>2, <2>3, <2>4, <2>5 DEF Knows, KnowsTags, KnowsImages, KnowsWish
  <1>4. EditsMixOnlyIfOvertaken'
    <2>1. \A x \in Products : /\ tags'[x] = IF x = p THEN S ELSE tags[x]
                              /\ asked'[x] = IF x = p THEN S ELSE asked[x]
      BY <1>a, <1>b DEF ShowcaseTypeOK
    <2>2. QED
      <3>1. ASSUME NEW x \in Products
            PROVE  /\ asked'[x] \ lost' \subseteq tags'[x]
                   /\ <<x, "tags">> \notin mixed' => tags'[x] \subseteq asked'[x]
        BY <1>a, <1>b, <2>1 DEF EditsMixOnlyIfOvertaken
      <3>2. ASSUME NEW x \in Products
            PROVE  <<x, "images">> \notin mixed' =>
                      \A i, j \in ImagesOf(x)' : i # j => image'[i].position # image'[j].position
        BY <1>a, <1>b DEF EditsMixOnlyIfOvertaken, ImagesOf
      <3>3. QED
        BY <3>1, <3>2 DEF EditsMixOnlyIfOvertaken
  <1>5. QED
    BY <1>2, <1>3, <1>4 DEF Knows, ShowcaseInvariant

LEMMA ProductRemoved ==
    ASSUME ShowcaseAssumption, ShowcaseInvariant, NEW p \in Products, RemoveProduct(p)
    PROVE  ShowcaseInvariant'
  <1>a. ShowcaseTypeOK /\ EditsMixOnlyIfOvertaken
    BY DEF ShowcaseInvariant
  <1>b. /\ product' = [product EXCEPT ![p] = "deleted"]
        /\ tags' = [tags EXCEPT ![p] = {}] /\ asked' = [asked EXCEPT ![p] = {}]
        /\ image' = [i \in Images |-> IF i \in ImagesOf(p) THEN Gone ELSE image[i]]
        /\ wish' = [u \in Users |-> [wish[u] EXCEPT ![p] = 0]]
        /\ UNCHANGED <<tag, mixed, lost>> /\ attempts' \in Nat
    BY <1>a DEF RemoveProduct, Allowed, ShowcaseTypeOK
  <1>c. \A x \in Products, i \in Images :
           i \in ImagesOf(x)' => i \in ImagesOf(x) /\ image'[i] = image[i]
    BY <1>b DEF ImagesOf, Gone, ShowcaseAssumption
  <1>d. \A x \in Products : /\ tags'[x] = IF x = p THEN {} ELSE tags[x]
                            /\ asked'[x] = IF x = p THEN {} ELSE asked[x]
                            /\ product'[x] = IF x = p THEN "deleted" ELSE product[x]
                            /\ \A u \in Users : wish'[u][x] = IF x = p THEN 0 ELSE wish[u][x]
    BY <1>a, <1>b DEF ShowcaseTypeOK
  <1>1. ASSUME NEW s \in Requests
        PROVE  /\ Overrun(job[s], job'[s]) /\ Knows(job[s])
               /\ job[s].product = p /\ job[s].user # None => "wish" \in job'[s].raced
               /\ job[s].product # p \/ job[s].user = None => job'[s] = job[s]
    <2>1. job[s] \in Job /\ Knows(job[s])
      BY <1>a DEF ShowcaseTypeOK, ShowcaseInvariant, Knows
    <2>2. CASE job[s].product = p /\ job[s].user # None
      <3>1. PICK j : j = job[s] /\ j \in Job
        BY <2>1
      <3>2. job'[s] = [j EXCEPT !.raced = @ \cup {"wish"}]
        BY <2>2, <3>1 DEF RemoveProduct
      <3>3. Overrun(j, job'[s]) /\ job'[s].raced = j.raced \cup {"wish"}
        BY <3>1, <3>2 DEF Overrun, Job
      <3>4. QED
        BY <2>1, <2>2, <3>1, <3>3
    <2>3. CASE ~(job[s].product = p /\ job[s].user # None)
      <3>1. job'[s] = job[s]
        BY <2>3 DEF RemoveProduct
      <3>2. QED
        BY <2>1, <2>3, <3>1, Raced
    <2>4. QED
      BY <2>2, <2>3
  <1>2. ShowcaseTypeOK'
    <2>1. job' \in [Requests -> Job]
      BY <1>1 DEF RemoveProduct, Overrun
    <2>2. image' \in [Images -> [product : Products, position : Nat] \cup {None, Gone}]
      BY <1>a, <1>b DEF ShowcaseTypeOK
    <2>3. wish' \in [Users -> [Products -> Nat]]
      BY <1>a, <1>b DEF ShowcaseTypeOK
    <2>4. QED
      BY <1>a, <1>b, <2>1, <2>2, <2>3 DEF ShowcaseTypeOK
  <1>3. ASSUME NEW s \in Requests PROVE Knows(job[s])'
    <2>1. PICK j : j = job[s] /\ Knows(j)
      BY <1>1
    <2>2. PICK k : /\ k = job'[s] /\ Overrun(j, k)
                   /\ j.product = p /\ j.user # None => "wish" \in k.raced
                   /\ j.product # p \/ j.user = None => k = j
      BY <1>1, <2>1
    <2>3. k.pc \in {"tags", "commit"} => k = j
      BY <2>1, <2>2 DEF Knows, KnowsTags, Overrun
    <2>4. KnowsTags(k) /\ KnowsImages(k) /\ KnowsWish(k)
      <3>1. KnowsTags(k) /\ KnowsImages(k)
        BY <2>1, <2>2, <2>3 DEF Knows, KnowsTags, KnowsImages, Overrun
      <3>2. KnowsWish(k)
        BY <2>1, <2>2 DEF Knows, KnowsWish, Overrun
      <3>3. QED
        BY <3>1, <3>2
    <2>5. KnowsTags(k)'
      BY <1>b, <1>d, <2>4 DEF KnowsTags
    <2>6. KnowsImages(k)'
      <3>1. k.pc \in {"tags", "commit"} => k.product \in Products
        BY <2>4 DEF KnowsTags
      <3>2. \A x \in Products : \A i \in ImagesOf(x)' : i \in ImagesOf(x) /\ image'[i] = image[i]
        BY <1>c DEF ImagesOf
      <3>3. QED
        BY <2>4, <3>1, <3>2 DEF KnowsImages
    <2>7. KnowsWish(k)'
      <3>1. k.product \in Products /\ k.user \in Users /\ "wish" \notin k.raced => k.product # p
        BY <2>2 DEF Overrun, ShowcaseAssumption
      <3>2. \A x \in Products : x # p => (Listed(x) => Listed(x)')
        BY <1>d DEF Listed
      <3>3. QED
        BY <1>d, <2>4, <3>1, <3>2 DEF KnowsWish
    <2>8. QED
      BY <2>2, <2>5, <2>6, <2>7 DEF Knows, KnowsTags, KnowsImages, KnowsWish
  <1>4. EditsMixOnlyIfOvertaken'
    <2>1. \A x \in Products : \A i \in ImagesOf(x)' : i \in ImagesOf(x) /\ image'[i] = image[i]
      BY <1>c DEF ImagesOf
    <2>2. mixed' = mixed /\ lost' = lost
      BY <1>b
    <2>3. ASSUME NEW x \in Products
          PROVE  /\ asked[x] \ lost \subseteq tags[x]
                 /\ <<x, "tags">> \notin mixed => tags[x] \subseteq asked[x]
                 /\ <<x, "images">> \notin mixed =>
                       \A i, j \in ImagesOf(x) : i # j => image[i].position # image[j].position
      BY <1>a DEF EditsMixOnlyIfOvertaken
    <2>4. QED
      <3>1. ASSUME NEW x \in Products
            PROVE  /\ asked'[x] \ lost' \subseteq tags'[x]
                   /\ <<x, "tags">> \notin mixed' => tags'[x] \subseteq asked'[x]
        BY <1>d, <2>2, <2>3
      <3>2. ASSUME NEW x \in Products
            PROVE  <<x, "images">> \notin mixed' =>
                      \A i, j \in ImagesOf(x)' : i # j => image'[i].position # image'[j].position
        BY <2>1, <2>2, <2>3
      <3>3. QED
        BY <3>1, <3>2 DEF EditsMixOnlyIfOvertaken
  <1>5. QED
    BY <1>2, <1>3, <1>4 DEF Knows, ShowcaseInvariant

(* The invariant of the showcase holds in every behaviour.                 *)
THEOREM ShowcaseHolds == ShowcaseAssumption /\ ShowcaseSpec => []ShowcaseInvariant
  <1> SUFFICES ASSUME ShowcaseAssumption PROVE ShowcaseSpec => []ShowcaseInvariant
    OBVIOUS
  <1>1. ASSUME ShowcaseInit PROVE ShowcaseInvariant
    <2>1. ShowcaseTypeOK
      BY <1>1, NewJobs DEF ShowcaseInit, ShowcaseTypeOK
    <2>2. \A r \in Requests : job[r] = NoJob
      BY <1>1 DEF ShowcaseInit
    <2>3. EditsMixOnlyIfOvertaken
      BY <1>1 DEF ShowcaseInit, EditsMixOnlyIfOvertaken, ImagesOf
    <2>4. QED
      BY <2>1, <2>2, <2>3, IdleKnows DEF ShowcaseInvariant, Knows
  <1>2. ASSUME ShowcaseInvariant, [ShowcaseNext]_showcaseVars
        PROVE  ShowcaseInvariant'
    <2>1. CASE ShowcaseNext
      BY <1>2, <2>1, Asks, TagCreated, TagDeleted, ImageRemoved, Committed, WishWritten,
         ProductCreated, ProductRemoved DEF ShowcaseNext, TagsNext, WishlistNext, ImagesNext
    <2>2. CASE UNCHANGED showcaseVars
      <3>1. ShowcaseTypeOK' /\ EditsMixOnlyIfOvertaken'
        BY <1>2, <2>2 DEF ShowcaseInvariant, ShowcaseTypeOK, EditsMixOnlyIfOvertaken, ImagesOf,
           showcaseVars
      <3>2. \A r \in Requests : KnowsTags(job[r])' /\ KnowsImages(job[r])' /\ KnowsWish(job[r])'
        BY <1>2, <2>2 DEF ShowcaseInvariant, KnowsTags, KnowsImages, KnowsWish, ImagesOf, Listed,
           showcaseVars
      <3>3. QED
        BY <3>1, <3>2 DEF ShowcaseInvariant
    <2>3. QED
      BY <1>2, <2>1, <2>2
  <1>3. QED
    BY <1>1, <1>2, PTL DEF ShowcaseSpec

THEOREM EditsSeeEachOther == ShowcaseAssumption /\ ShowcaseSpec => []EditsMixOnlyIfOvertaken
  <1>1. ShowcaseInvariant => EditsMixOnlyIfOvertaken
    BY DEF ShowcaseInvariant
  <1>2. QED
    BY ShowcaseHolds, <1>1, PTL

THEOREM WishesAreHonest == ShowcaseAssumption /\ ShowcaseSpec => []WishRefusedOnlyIfOvertaken
  <1>1. ShowcaseInvariant => WishRefusedOnlyIfOvertaken
    BY DEF ShowcaseInvariant, KnowsWish, WishRefusedOnlyIfOvertaken
  <1>2. QED
    BY ShowcaseHolds, <1>1, PTL
=============================================================================
