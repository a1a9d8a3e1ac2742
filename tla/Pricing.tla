------------------------------- MODULE Pricing -------------------------------
(***************************************************************************)
(* The pricing chain of a checkout in kopecks (core-api services/          *)
(* checkout.py) and its twin in services/pricing.py, which the cart and    *)
(* the delivery fee use.                                                   *)
(***************************************************************************)
EXTENDS Integers

Null == -1    \* a column or a choice that is not set

Least(a, b) == IF a <= b THEN a ELSE b

\* A size replaces the base price; modifiers add to it.
UnitPrice(base, size, modifiers) == (IF size = Null THEN base ELSE size) + modifiers

\* promo: a record [type, value], or NoPromocode.
NoPromocode == [type |-> "none", value |-> 0]
RawDiscount(subtotal, promo) ==
  CASE promo.type = "percent" -> (subtotal * promo.value) \div 100
    [] promo.type = "fixed_amount" -> promo.value
    [] OTHER -> 0
Discount(subtotal, promo) == Least(RawDiscount(subtotal, promo), subtotal)

\* checkout.apply_loyalty_points
PointsApplied(amount, requested, balance) ==
  IF requested <= 0 THEN 0
  ELSE LET applied == Least(requested, Least(balance, amount))
       IN IF applied <= 0 THEN 0 ELSE applied

\* pricing.apply_loyalty_points
PointsApplied2(amount, requested, balance) ==
  Least(Least(requested, balance), amount)

\* settings: min_delivery_amount, free_delivery_threshold, delivery_fee.
Deliverable(type, subtotal, settings) ==
  type = "delivery" => subtotal >= settings.min
DeliveryFee(type, subtotal, settings) ==
  IF type # "delivery" \/ subtotal >= settings.freeFrom THEN 0 ELSE settings.fee

OrderTotal(subtotal, discount, points, fee) ==
  LET total == subtotal - discount - points + fee
  IN IF total < 0 THEN 0 ELSE total

EstimatedAccrual(afterPoints, percent) == (afterPoints * percent) \div 100

\* _build_checkout_quote, once everything it depends on has been read.
Quote(subtotal, promo, requested, balance, type, settings) ==
  LET discount == Discount(subtotal, promo)
      points == PointsApplied(subtotal - discount, requested, balance)
      fee == DeliveryFee(type, subtotal, settings)
  IN [subtotal |-> subtotal, discount |-> discount, points |-> points,
      fee |-> fee, total |-> OrderTotal(subtotal, discount, points, fee),
      accrual |-> EstimatedAccrual(subtotal - discount - points, settings.percent)]
=============================================================================
