---------------------------- MODULE MCStorefront ----------------------------
(* Small shops for TLC: p1 is sold as such and has a row from the start;   *)
(* p2 has a variant v2 and no inventory row until a cart asks for it.      *)
EXTENDS Storefront, TLC

CONSTANTS p1, p2, v2

MCVariantOf == [v \in Variants |-> p2]
MCStoreOf == [p \in Products |-> 1]
MCInitStock == [p \in Products \cap {p1} |-> 1]
MCInitMirror == [k \in Products \cup Variants |-> 1]

(* For the runs without liveness: requests are alike, and so are crons. *)
Symmetry == Permutations(Requests) \cup Permutations(Crons)
=============================================================================
