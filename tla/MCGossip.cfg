SPECIFICATION Spec
CONSTANTS
  n1 = n1  n2 = n2  n3 = n3
  Nodes <- MCNodes
  None = None
  Seeds <- MCSeeds
  Fanout = 3
  Interval = 1
  ProbeTime = 1
  FailureTimeout = 4
  Settled = 6
  MaxFaults = 1
SYMMETRY MCSymmetry
INVARIANTS DownAreDropped UpAreListed
