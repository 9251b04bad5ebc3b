SPECIFICATION FairSpec
CONSTANTS
  Devices = {d1}
  Desktop = desktop
  NoDevice = noDevice
  Ops = {o1, o2}
  NoOp = noOp
  Kinds = {"write", "restart", "remove", "stop"}
  CloseKinds = {}
  Revocable = {}
  MaxEpoch = 1
  MaxLease = 1
  MaxStops = 0
  MaxForces = 0
INVARIANTS NoGhostRun TokensOwned SerialEffects
PROPERTIES AdmittedByHolder TombstoneIsFinal CallsReturn
CHECK_DEADLOCK FALSE
