CONSTANTS
  Orders = {o1, o2}
  Sessions = {s1, s2}
  Couriers = {c1}
  Requests <- FreeOnly
  InitialStock = 2
  InitialBalance = 1
  MaxUses = 2
  MaxUsesPerUser = 2
  LoyaltyPercent = 100
  RefundQueue = "payments"
  MaxRetries = 0
  MaxSends = 1
  MaxCrashes = 0
  NoOrder = NoOrder
  NoCourier = NoCourier
SPECIFICATION Spec
SYMMETRY SessionSymmetry
INVARIANT BalanceIsLedgerSum
CHECK_DEADLOCK FALSE
