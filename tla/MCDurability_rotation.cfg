SPECIFICATION Spec
CONSTANTS
  a = a
  Keys <- MCKeys
  MaxNum = 1
  None = None
  TTLs <- NoTTLs
  MaxTime = 0
  Requests <- Puts
  Rotations <- Always
  MaxLsn = 2
  MaxCrashes = 1
  MaxTears = 0
PROPERTIES RecoversExactState
CHECK_DEADLOCK FALSE
