SPECIFICATION Spec
CONSTANTS
  a1 = a1
  a2 = a2
  v1 = v1
  h1 = h1
  h2 = h2
  None = None
  Appends = {a1, a2}
  Moves = {v1}
  Handles = {h1, h2}
  LastWindow = 1
  MaxFaults = 1
  MaxCrashes = 1
SYMMETRY Interchangeable
INVARIANTS
  TypeOK
  LinksResolve
  PathsEnd
  AcknowledgedIsDurable
  ReopensAtLeaf
  IdsUnique
