CONSTANTS
  Orders = {o1}
  Sessions = {s1}
  Couriers = {c1}
  Requests <- AllRequests
  InitialStock = 1
  InitialBalance = 1
  MaxUses = 1
  MaxUsesPerUser = 1
  LoyaltyPercent = 100
  RefundQueue = "payments"
  MaxRetries = 1
  MaxSends = 1
  MaxCrashes = 1
  NoOrder = NoOrder
  NoCourier = NoCourier
SPECIFICATION FairSpec
PROPERTY CaptureAdvancesOrder
PROPERTY RefundIsAskedFor
CHECK_DEADLOCK FALSE
