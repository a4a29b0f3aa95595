SPECIFICATION Spec
CONSTANTS
  a = a
  Keys <- MCKeys
  MaxNum = 1
  None = None
  TTLs <- MCTTLs
  MaxTime = 2
  Requests <- Mixed
  Rotations <- Either
  MaxLsn = 2
  MaxCrashes = 2
  MaxTears = 1
INVARIANTS RecoveryIsExact SnapshotIsCut
PROPERTIES LiveValuesRecovered
CHECK_DEADLOCK FALSE
