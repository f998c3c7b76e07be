---------------------------- MODULE MCCatalogue -----------------------------
(* Instances of Catalogue for TLC: all ids are interchangeable. *)
EXTENDS Catalogue, TLC

Symmetry == Permutations(Products) \cup Permutations(VariantIds) \cup Permutations(Skus)
            \cup Permutations(OrderIds) \cup Permutations(Editors)
=============================================================================
