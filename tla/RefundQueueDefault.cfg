CONSTANTS
  Orders = {o1}
  Sessions = {s1}
  Couriers = {c1}
  Requests <- PlainOnly
  InitialStock = 1
  InitialBalance = 1
  MaxUses = 1
  MaxUsesPerUser = 1
  LoyaltyPercent = 100
  RefundQueue = "celery"
  MaxRetries = 0
  MaxSends = 1
  MaxCrashes = 0
  NoOrder = NoOrder
  NoCourier = NoCourier
SPECIFICATION FairSpec
PROPERTY RefundIsAskedFor
CHECK_DEADLOCK FALSE
