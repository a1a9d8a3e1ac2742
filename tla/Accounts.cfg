CONSTANTS
  Procs = {p1, p2}
  Owners = {u1}
  Tokens = {t1, t2}
  Orders = {o1, o2}
  MaxMade = 2
  NoOne = NoOne
  MaxDeaths = 1
  MaxBalance = 1
SPECIFICATION AccountsSpec
SYMMETRY AllSymmetry
INVARIANT ListedOrStray
 
 
INVARIANT SessionsEnd
PROPERTY LegalUserSteps
CHECK_DEADLOCK FALSE
