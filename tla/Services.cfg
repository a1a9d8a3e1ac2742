CONSTANTS
  Handlers = {p1, p2}
  Windows <- WindowsDef
  Limit <- LimitDef
  Length <- LengthDef
  OtpTtl = 2
  MaxAttempts = 2
  MaxRetries = 1
  MaxMints = 5
  MaxTime = 8
  MaxFaults = 1
  Requests = {p1, p2}
  latteS = latteS
  latteL = latteL
  cake = cake
  Lines = {latteS, latteL, cake}
  NoLine = NoLine
  Item <- ItemDef
  Stocks = {1, 3}
  FirstStock <- FirstStockDef
  QuantityCap = 2
  MaxWatchRetries = 1
  OrderLines <- OrderLinesDef
  MaxStarts = 2
  MaxChanges = 1
  Writers = {w1, w2}
  Notes = {n1, n2, n3}
  Transitions <- TransitionsDef
  MaxSmsRetries = 3
  MaxMisfortunes = 1
  Procs = {p1, p2}
  Owners = {u1}
  Tokens = {t1, t2}
  NoOne = NoOne
  Ips = {i1}
  Roles = {admin, barista}
  LoginLimit = 1
  IpLimit = 2
  MaxStaffChanges = 1
  Editors = {p1, p2}
  Categories = {c1, c2}
  Products = {d1}
  Modifiers = {t1, t2}
  Gone = Gone
  MaxEdits = 3
  Day = 4
  Week = 2
  Prep = 1
  Delivery = 1
  Schedules <- SchedulesDef
  LastTick = 7
  Callers = {p1, p2}
  Places = {t1, t2, a3}
  NoPlace = NoPlace
  Packets <- PacketsDef
  FirstMenus <- FirstMenusDef
  PerPage = 2
  Rows = {1, 2, 3, 4}
  MaxWrites = 4
  Lookups = {p1, p2}
  Texts = {t1, t2}
  CacheDays = 1
  WarnAt = 2
  LastDay = 2
  MaxLookups = 4
  NewOrders = {"o1"}
  MaxUses = 2
SPECIFICATION ServicesSpec
SYMMETRY Symmetry
INVARIANT SmsQuota
INVARIANT CodeSpent
INVARIANT NoLostUpdate
INVARIANT PendingExplained
INVARIANT OneSms
INVARIANT GuessesBounded
INVARIANT OfferedIsSold
INVARIANT ItemAsEdited
INVARIANT AsapIsNearest
INVARIANT DefaultAsAsked
INVARIANT NoRowSkipped
INVARIANT WarnedOnce
PROPERTY ResetTakesFixtures
PROPERTY PassedIsImported
PROPERTY AddedWasOffered
PROPERTY IssuedInStanding
CHECK_DEADLOCK FALSE
