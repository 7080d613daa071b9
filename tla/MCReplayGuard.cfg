SPECIFICATION Spec
CONSTANTS
  n1 = n1
  n2 = n2
  n3 = n3
  Requests <- MCRequests
  Request <- MCRequest
  Nonces = {n1, n2, n3}
  Threads = {th1, th2}
  Skew = 1
  Lifetime = 2
  MaxEntries = 2
  MaxClock = 4
  MaxRestarts = 1
  None = None
SYMMETRY Symmetry
INVARIANTS
  TypeOK
  StoreBounded
  ProtectedIsSeen
PROPERTIES
  SingleUse
CHECK_DEADLOCK FALSE
