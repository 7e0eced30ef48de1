SPECIFICATION FairSpec
CONSTANTS
  Clients = {c1, c2}
  Prompts = {p1, p2}
  Dialogs = {d1}
  MaxObjects = 3
CHECK_DEADLOCK FALSE
INVARIANTS
  TurnsKeepTheirSession
  ClientsHearTheSession
  DialogsHaveClients
PROPERTIES
  PromptsEnd
