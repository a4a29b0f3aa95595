SPECIFICATION FairSpec
CONSTANTS
  r1 = r1  r2 = r2  w1 = w1  write = write  evict = evict
  Readers <- MCReaders
  Workers <- MCWorkers
  Writer = write
  Evictor = evict
  None = None
  MaxVersion = 2
  MaxReads = 3
  MaxSpills = 1
INVARIANTS NothingComesBack ReadsAcknowledgedWrites
PROPERTIES ReadsReturn
CHECK_DEADLOCK FALSE
