SPECIFICATION FairSpec
CONSTANTS
  Devices = {d1, d2}
  Desktop = desktop
  NoDevice = noDevice
  Ops = {}
  NoOp = noOp
  Kinds = {}
  CloseKinds = {"transport"}
  Revocable = {}
  MaxEpoch = 2
  MaxLease = 2
  MaxStops = 0
  MaxForces = 1
INVARIANT GraceHasTimer
PROPERTIES TenureAdvances GraceResolves
CHECK_DEADLOCK FALSE
