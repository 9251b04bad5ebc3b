SPECIFICATION FairSpec
CONSTANTS
  Starter = {s1, s2}
  Stopper = {p1}
  MaxRuns = 3
INVARIANTS EventOrder OneRun AcceptsForARun
PROPERTY CallsEnd
CHECK_DEADLOCK FALSE
