SPECIFICATION AdminSpec
CONSTANTS
  a = a  b = b  c = c  text = text
  Keys <- MCKeys
  Texts <- MCTexts
  MaxNum = 1
  None = None
  TTLs <- MCTTLs
  MaxTime = 1
  Limit = 1
  HasTier = FALSE
  TierMayFail = FALSE
  Hints = TRUE
  ScanN = 2
  MaxGhosts = 2
SYMMETRY KeySymmetry
INVARIANTS ResidentKeysListed
CHECK_DEADLOCK FALSE
