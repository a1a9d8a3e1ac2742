CONSTANTS
  Orders = {o1, o2}
  Sessions = {s1}
  Couriers = {c1}
  Requests <- PickupOnly
  InitialStock = 1
  InitialBalance = 1
  MaxUses = 2
  MaxUsesPerUser = 2
  LoyaltyPercent = 100
  RefundQueue = "payments"
  MaxRetries = 0
  MaxSends = 1
  MaxCrashes = 0
  NoOrder = NoOrder
  NoCourier = NoCourier
SPECIFICATION Spec
INVARIANT TypeOK
CHECK_DEADLOCK FALSE
