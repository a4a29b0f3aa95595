SPECIFICATION FairSpec
CONSTANTS
  a = a  b = b  f = f
  Keys <- OneKey
  Followers <- MCFollowers
  None = None
  Ops = {"set", "delete"}
  Logs = {TRUE, FALSE}
  Sheds = {"drop_oldest"}
  Policies = {"last_write_wins"}
  QueueMax = 1
  BatchMax = 1
  MaxLag = 1
  MaxWrites = 2
  MaxRotates = 1
  MaxFaults = 1
 
PROPERTIES Converges
CHECK_DEADLOCK FALSE
