SPECIFICATION Spec
CONSTANTS
  a = a  b = b  c = c  number = number  text = text
  Keys <- MCKeys
  Val <- MCVal
  Numbers <- MCNumbers
  None = None
  TTLs <- MCTTLs
  MaxTime = 1
  Limit = 2
  MaxUses = 2
SYMMETRY KeySymmetry
INVARIANTS MapsAgree 
PROPERTIES  MissOnlyWhenCrowded ImplementsKVStore
CHECK_DEADLOCK FALSE
