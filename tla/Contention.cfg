CONSTANTS
  Orders = {o1, o2}
  Sessions = {s1, s2}
  Couriers = {c1}
  Requests <- FreeOnly
  InitialStock = 2
  InitialBalance = 1
  MaxUses = 1
  MaxUsesPerUser = 1
  LoyaltyPercent = 100
  RefundQueue = "payments"
  MaxRetries = 0
  MaxSends = 1
  MaxCrashes = 0
  NoOrder = NoOrder
  NoCourier = NoCourier
SPECIFICATION Spec
SYMMETRY Symmetry
INVARIANT PromocodeCapHolds
CHECK_DEADLOCK FALSE
