---------------------------- MODULE MCCoffeeShop ----------------------------
(***************************************************************************)
(* The values that the runs give to the constants of CoffeeShop.           *)
(***************************************************************************)
EXTENDS ShopProperties, TLC

Pickup == [type |-> "PICKUP", price |-> 2, fee |-> 0, points |-> 1,
           promo |-> TRUE, qty |-> 1]
Delivery == [type |-> "DELIVERY", price |-> 1, fee |-> 1, points |-> 0,
             promo |-> FALSE, qty |-> 0]
\* The points pay for all of it: no payment at YuKassa.
Free == [type |-> "PICKUP", price |-> 1, fee |-> 0, points |-> 1,
         promo |-> FALSE, qty |-> 1]
FreeWithPromo == [Free EXCEPT !.promo = TRUE]
Plain == [Pickup EXCEPT !.points = 0, !.promo = FALSE]

PickupOnly == {Pickup}
PlainOnly == {Plain}
FreeOnly == {FreeWithPromo}
PickupOrDelivery == {Plain, Delivery}
AllRequests == {Pickup, Delivery, Free}

\* Sessions are interchangeable (used for safety only).
SessionSymmetry == Permutations(Sessions)
Symmetry == Permutations(Sessions) \cup Permutations(Orders)
=============================================================================
