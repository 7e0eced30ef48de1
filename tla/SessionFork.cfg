SPECIFICATION Spec
CONSTANTS
  a1 = a1
  a2 = a2
  h1 = h1
  None = None
  Appends = {a1, a2}
  Moves = {}
  Handles = {h1}
  LastWindow = 0
  MaxFaults = 0
  MaxCrashes = 0
PROPERTIES
  NoFork
