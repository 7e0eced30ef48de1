SPECIFICATION FairSpec
CONSTANTS
  r1 = r1
  m1 = m1
  m2 = m2
  a1 = a1
  None = None
  Runs = {r1}
  Messages = {m1, m2}
  Writes = {}
  Posts = {}
  Aborts = {a1}
  Structs = {}
  CallersWait = TRUE
  MaxReplies = 0
  MaxFaults = 1
  MaxClears = 1
INVARIANTS
  TypeOK
  Conservation
  AbortWaits
  NoMessageStranded
PROPERTIES
  DeliversInOrder
  AbortsSettle
