SPECIFICATION Spec
CONSTANTS
  Readers = {r1, r2, r3}
  RingSize = 2
  LastEvent = 4
  MaxAttached = 3
  None = None
SYMMETRY Interchangeable
INVARIANTS
  TypeOK
  LiveInOrder
  ReplayContinues
