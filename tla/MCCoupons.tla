----------------------------- MODULE MCCoupons ------------------------------
(* Instances of Coupons for TLC. *)
EXTENDS Coupons, TLC

CONSTANTS p1, p2, o1, o2, u1

MCPriceOf == (p1 :> 2 @@ p2 :> 3)
MCBuyerOf == (o1 :> u1 @@ o2 :> u1)
MCOffers == {[type |-> "PERCENTAGE", value |-> 100, scope |-> {p1}, minimum |-> 2],
             [type |-> "FIXED_AMOUNT", value |-> 3, scope |-> None, minimum |-> None]}

(* A cart whose goods were sent along and cost more than the subtotal, the *)
(* ones outside the scope in a negative quantity, and one of which only    *)
(* the subtotal was sent                                                   *)
MCCarts == {[subtotal |-> 2, items |-> (p1 :> 2 @@ p2 :> -1)], [subtotal |-> 1, items |-> None]}

(* Both orders are placed by the same user                                 *)
Symmetry == Permutations(CouponIds) \cup Permutations(Codes) \cup Permutations(Orders)
=============================================================================
