SPECIFICATION FairSpec
CONSTANTS
  a = a  b = b  c = c  text = text
  Keys <- MCKeys
  Texts = {}
  MaxNum = 1
  None = None
  TTLs <- MCTTLs
  MaxTime = 1
  Limit = 2
  HasTier = TRUE
  TierMayFail = FALSE
  Hints = FALSE
  ScanN = 1
  MaxGhosts = 0
INVARIANTS TypeOK ListAndMapAgree WithinLimit OneCopy PromotedStays
PROPERTIES EvictsLeastRecentlyUsed PatchTakesEffect LockReleased ImplementsKVStore
CHECK_DEADLOCK FALSE
