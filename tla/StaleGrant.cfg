SPECIFICATION Spec
CONSTANTS
  Accounts = {a, b, c}
  NoAccount = noAccount
  Twins = {}
  Pooled = {a, b, c}
  MaxVersion = 1
  MaxRefreshes = 0
  MaxLogins = 0
  MaxFaults = 1
  MaxCrashes = 0
  MaxCalls = 2
INVARIANT StaleGrantsAreMarked
CHECK_DEADLOCK FALSE
