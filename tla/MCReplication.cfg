SPECIFICATION Spec
CONSTANTS
  a = a  b = b  f = f
  Keys <- TwoKeys
  Followers <- MCFollowers
  None = None
  Ops = {"mset", "delete", "incr"}
  Logs = {TRUE}
  Sheds = {"drop_oldest"}
  Policies = {"last_write_wins"}
  QueueMax = 2
  BatchMax = 2
  MaxLag = 1
  MaxWrites = 2
  MaxRotates = 0
  MaxFaults = 0
INVARIANTS  FollowerIsPrefixOfPuts
CHECK_DEADLOCK FALSE
