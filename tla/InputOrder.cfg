SPECIFICATION Spec
CONSTANTS
  Messages = {m1, m2}
  NoMessage = noMessage
  MaxEntries = 2
  MaxTotal = 2
  MaxAttempts = 2
  MaxConn = 2
  LedgerMax = 2
  MaxRuns = 1
  MaxTakes = 0
SYMMETRY MessageSymmetry
INVARIANTS SingleFlight InOrder
CHECK_DEADLOCK FALSE
