SPECIFICATION Spec
CONSTANTS
  Readers = {r1, r2}
  RingSize = 2
  LastEvent = 3
  MaxAttached = 3
  None = None
INVARIANTS
  NoDoubleDelivery
