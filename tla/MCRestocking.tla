---------------------------- MODULE MCRestocking ----------------------------
(* Small shops for TLC: p1 has a row from the start; p2 has a variant v2   *)
(* and no row.                                                             *)
EXTENDS Restocking, TLC

CONSTANTS p1, p2, v2

MCVariantOf == [v \in Variants |-> p2]
MCStoreOf == [p \in Products |-> 1]
MCInitStock == [p \in Products \cap {p1} |-> 1]
MCInitMirror == [k \in Products \cup Variants |-> 1]
MCDeltas == {-2, 1}
Symmetry == Permutations(Updates) \cup Permutations(OrderIds)
=============================================================================
