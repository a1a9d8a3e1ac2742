CONSTANTS
  Orders = {o1}
  Sessions = {s1}
  Couriers = {c1}
  Requests <- AllRequests
  InitialStock = 1
  InitialBalance = 1
  MaxUses = 1
  MaxUsesPerUser = 1
  LoyaltyPercent = 100
  RefundQueue = "payments"
  MaxRetries = 1
  MaxSends = 2
  MaxCrashes = 2
  NoOrder = NoOrder
  NoCourier = NoCourier
SPECIFICATION Spec
INVARIANT NoPhantomStock
INVARIANT PointsMovedOnce
INVARIANT LedgerExplainsBalance
INVARIANT UsagesExplainUses
INVARIANT OneOpenRefund
INVARIANT AssignmentFollowsOrder
PROPERTY LegalStatusSteps
CHECK_DEADLOCK FALSE
