SPECIFICATION FairSpec
CONSTANTS
  s1 = s1
  s2 = s2
  login = login
  logout = logout
  r1 = r1
  r2 = r2
  oauth = oauth
  other = other
  Stores = {s1, s2}
  Logins = {login}
  Logouts = {logout}
  Refreshes = {r1, r2}
  StoreOf <- Owner
  Providers = {oauth, other}
  OAuth = oauth
  ProviderOf <- Target
  Expired = Expired
  None = None
  Missing = Missing
  Torn = Torn
  MaxCrashes = 1
CHECK_DEADLOCK FALSE
INVARIANTS
  RefreshesOnce
PROPERTIES
  FileIsAtomicMap
  LockIsLetGo
