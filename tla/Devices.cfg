SPECIFICATION FairSpec
CONSTANTS
  Device = {a, b, c}
  NoDevice = noDevice
  Conn = {k}
  MaxKnown = 2
  MaxTroubles = 2
INVARIANTS TypeOK RevokedDurably ReloadAgrees OnlyDamageLatches CutOnReturn
PROPERTIES TombstonesStay RevokedIsCut
CHECK_DEADLOCK FALSE
