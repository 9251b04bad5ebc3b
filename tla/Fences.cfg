SPECIFICATION FairSpec
CONSTANTS
  Devices = {d1}
  Desktop = desktop
  NoDevice = noDevice
  Ops = {o1}
  NoOp = noOp
  Kinds = {"write", "resize", "remove", "restart", "stop"}
  CloseKinds = {"transport"}
  Revocable = {d1}
  MaxEpoch = 1
  MaxLease = 1
  MaxStops = 1
  MaxForces = 0
PROPERTIES NoDeviceWriteWhileStopped FencedRestartCloses FencesComplete
CHECK_DEADLOCK FALSE
