------------------------------- MODULE MCDeals -------------------------------
(* Instances of Deals for TLC: ids, users and requests are interchangeable. *)
EXTENDS Deals, TLC

Symmetry == Permutations(Calls) \cup Permutations(DealIds) \cup Permutations(Users)
=============================================================================
