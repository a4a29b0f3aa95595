SPECIFICATION Spec
CONSTANTS
  k1 = k1  k2 = k2
  Enabling <- MCEnabling
  Keys <- MCKeys
  Rows = {1, 2}
  Cols = {0, 1}
  Hash <- MCHash
  Interval = 5
  MaxK = 2
  Buckets = 2
  BucketTime = 2
  Limits = {1, 2}
  ScanN = 2
  None = None
  Bases = {3}
  MinTTL = 2
  MaxTTL = 9
  DefaultBase = 4
  HalfLife = 2
  MaxStats = 2
  Gaps = {1, 3}
  Policies <- MCPolicies
  NoPolicy = NoPolicy
  Reloads = 1
  Clients = 2
  MaxEvents = 6
  MaxAdmin = 1
INVARIANTS NeverUndercounts HeaviestAreListed WindowCounted ColdGoFirst  AdmitsTheBudget
CHECK_DEADLOCK FALSE
