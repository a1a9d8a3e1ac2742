CONSTANTS
  Procs = {p1, p2}
  Customers = {c1}
  Bases = {2, 4}
  Sizes = {3}
  Settings <- SettingsDef
  Patches <- PatchesDef
  FirstPromo <- FirstPromoDef
  Balance = 1
  MaxOrders = 2
  MaxEdits = 2
  MaxTime = 2
SPECIFICATION PromocodesSpec
SYMMETRY Symmetry
INVARIANT OrderAddsUp
INVARIANT PerUserLimit
PROPERTY QuotaInForce
PROPERTY EditsKeepRules
CHECK_DEADLOCK FALSE
