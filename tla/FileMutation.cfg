SPECIFICATION FairSpec
CONSTANTS
  c1 = c1
  c2 = c2
  c3 = c3
  p1 = p1
  alias = alias
  None = None
  Writes = {c1}
  Edits = {c2, c3}
  Paths = {p1, p2, alias}
  p2 = p2
  RealPath <- AliasOfP1
  Existing = {p1}
  MaxAborts = 1
INVARIANTS
  TypeOK
  FileExclusion
  EditsAreAtomic
  QueuesRemoved
PROPERTIES
  CallsSettle
  FirstComeFirstServed
