SPECIFICATION Spec
CONSTANTS
  p = p  q = q  timer = timer  request = request
  Pages <- MCPages
  Threads <- MCThreads
  None = None
  Torn = Torn
  MaxLsn = 2
  MaxSnaps = 3
  Keep = 1
SYMMETRY MCSymmetry
INVARIANTS MainIsADump ArchivesLoad RestoresWhatItCan
CHECK_DEADLOCK FALSE
