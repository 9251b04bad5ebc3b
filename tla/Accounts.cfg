SPECIFICATION FairSpec
CONSTANTS
  Accounts = {a, b}
  NoAccount = noAccount
  Twins = {}
  Pooled = {a, b}
  MaxVersion = 1
  MaxRefreshes = 1
  MaxLogins = 2
  MaxFaults = 1
  MaxCrashes = 1
  MaxCalls = 2
INVARIANTS TypeOK SlotsMoveTogether SnapshotsAreTheirOwn
PROPERTIES OverwrittenIsKept JournalSettles JournalEnds
CHECK_DEADLOCK FALSE
