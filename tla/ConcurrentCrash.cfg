CONSTANTS
  Orders = {o1}
  Sessions = {s1, s2}
  Couriers = {c1}
  Requests <- PickupOrDelivery
  InitialStock = 1
  InitialBalance = 1
  MaxUses = 1
  MaxUsesPerUser = 1
  LoyaltyPercent = 100
  RefundQueue = "payments"
  MaxRetries = 0
  MaxSends = 1
  MaxCrashes = 1
  NoOrder = NoOrder
  NoCourier = NoCourier
SPECIFICATION Spec
SYMMETRY SessionSymmetry
INVARIANT CaptureNotForgotten
INVARIANT MoneyInv
INVARIANT PrepaidBeforeServed
PROPERTY ContractKept
CHECK_DEADLOCK FALSE
