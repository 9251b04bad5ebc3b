SPECIFICATION Spec
CONSTANTS
  Starter = {s1, s2}
  Stopper = {p1}
  MaxRuns = 2
INVARIANT ControlFollowsServer
CHECK_DEADLOCK FALSE
