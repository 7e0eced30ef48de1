SPECIFICATION Spec
CONSTANTS
  start = start
  b1 = b1
  b2 = b2
  r1 = r1
  r2 = r2
  Builds = {start, b1, b2}
  First = start
  Runs = {r1}
  None = None
CHECK_DEADLOCK FALSE
INVARIANTS
  SinglePoller
