SPECIFICATION FairSpec
CONSTANTS
  p1 = p1
  p2 = p2
  JobIds = {j1}
  Objs = {o1, o2}
  Tokens = {t1}
  Threads = {th1, th2}
  Providers = {p1, p2}
  k1 = k1
  k2 = k2
  k3 = k3
  SearchCalls = 2
  Keys = {k1, k2, k3}
  Credentials <- MCCredentials
  Operations <- MCOperations
  OpSpec <- MCOpSpec
  FaultCodes = {}
  NoCode = NoCode
  TTL = 0
  MaxClock = 1
  Null = Null
PROPERTIES
  KeysEventuallyGone
CHECK_DEADLOCK FALSE
