SPECIFICATION Spec
CONSTANTS
  r1 = r1
  w1 = w1
  w2 = w2
  s1 = s1
  None = None
  Runs = {r1}
  Messages = {}
  Writes = {w1, w2}
  Posts = {w1}
  Aborts = {}
  Structs = {s1}
  CallersWait = TRUE
  MaxReplies = 2
  MaxFaults = 2
  MaxClears = 0
SYMMETRY Interchangeable
INVARIANTS
  WritesAccounted
  PhaseRestored
  RecoversOnce
  RetryContext
PROPERTIES
  QueuedWritesBetweenTurns
  NoWriteLeftBehind
