------------------------------ MODULE MCBrowse ------------------------------
(* Browse, and so Taxonomy, and Showcase for TLC.  They share no state: a  *)
(* behaviour explores one of them.                                         *)
EXTENDS Browse, TLC

CONSTANTS p1, p2, s1, s2, Shown, Tags, Images, Users, MaxSent, MaxAttempts

VARIABLES topic, product, tag, tags, image, wish, job, attempts, asked, mixed, lost

MCSellerOf == (p1 :> s1 @@ p2 :> s2)
MCHits == [t \in Terms |-> {p2}]

INSTANCE Showcase WITH Products <- Shown, Requests <- Editors

ASSUME DisplayAssumption == ShowcaseAssumption

shownVars == <<product, tag, tags, image, wish, job, attempts, asked, mixed, lost>>

MCInit ==
    /\ BrowseInit /\ ShowcaseInit
    /\ topic \in {"taxonomy", "showcase"}

MCNext ==
    /\ UNCHANGED topic
    /\ \/ topic = "taxonomy" /\ BrowseNext /\ UNCHANGED shownVars
       \/ topic = "showcase" /\ ShowcaseNext /\ UNCHANGED browseVars

MCSpec == MCInit /\ [][MCNext]_<<browseVars, shownVars, topic>>

Symmetry == Permutations(Cats) \cup Permutations(Editors) \cup Permutations(Tags)
=============================================================================
