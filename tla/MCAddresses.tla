---------------------------- MODULE MCAddresses -----------------------------
(* Addresses, and so Sessions, for TLC. *)
EXTENDS TLC

CONSTANTS Users, Requests, Patience, AdminPatience, MaxOps, None, Deleted, AddressIds, Visitors

VARIABLES account, carts, call, ops, guesses, reprieved, overtaken, book, used, visit, crowded, disturbed

INSTANCE Addresses

ASSUME InstanceAssumption == SessionsAssumption /\ AccountAssumption

Symmetry == Permutations(Requests) \cup Permutations(Visitors) \cup Permutations(AddressIds)
=============================================================================
