SPECIFICATION Spec
CONSTANTS
  Messages = {m1}
  NoMessage = noMessage
  MaxEntries = 2
  MaxTotal = 2
  MaxAttempts = 2
  MaxConn = 2
  LedgerMax = 2
  MaxRuns = 2
  MaxTakes = 1
INVARIANT PendingHasOwner
PROPERTY AtMostOnce
CHECK_DEADLOCK FALSE
