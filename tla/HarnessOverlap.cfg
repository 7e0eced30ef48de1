SPECIFICATION FairSpec
CONSTANTS
  r1 = r1
  r2 = r2
  m1 = m1
  None = None
  Runs = {r1, r2}
  Messages = {m1}
  Writes = {}
  Posts = {}
  Aborts = {}
  Structs = {}
  CallersWait = FALSE
  MaxReplies = 0
  MaxFaults = 1
  MaxClears = 0
INVARIANTS
  Conservation
PROPERTIES
  RunsSettle
