SPECIFICATION Spec
CONSTANTS
  s1 = s1  s2 = s2
  Keys = {1, 2, 3}
  Counts = {1, 2}
  Ring <- MCRing
  Scanners <- MCScanners
  Limit = 2
  None = None
  MaxChanges = 2
INVARIANTS KeysAreFound  VectorsKept SomeoneGoesOn
CHECK_DEADLOCK FALSE
