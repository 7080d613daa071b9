SPECIFICATION Spec
CONSTANTS
  p1 = p1
  p2 = p2
  JobIds = {j1, j2}
  Objs = {o1, o2}
  Tokens = {t1, t2}
  Threads = {th1, th2}
  Providers = {p1, p2}
  k1 = k1
  k2 = k2
  k3 = k3
  SearchCalls = 1
  Keys = {k1, k2, k3}
  Credentials <- MCCredentials
  Operations <- MCOperations
  OpSpec <- MCOpSpec
  FaultCodes = {429}
  NoCode = NoCode
  TTL = 0
  MaxClock = 1
  Null = Null
SYMMETRY Symmetry
INVARIANTS
  TypeOK
  TablesAgree
  OwnKeyOnly
  QuotaNeverExceeded
  QuotaViewIsTruthful
  BilledIsAccounted
  CloseReachesSnapshot
PROPERTIES
  ImplementsLedger
  DeadTokenStaysDead
CHECK_DEADLOCK FALSE
