SPECIFICATION Spec
CONSTANTS
  n1 = n1
  n2 = n2
  b1 = b1
  b2 = b2
  Requests <- MCRequests
  Request <- MCRequest
  Nonces = {n1, n2}
  Threads = {th1, th2}
  Skew = 1
  Lifetime = 2
  MaxEntries = 1
  MaxClock = 2
  MaxRestarts = 1
  None = None
  Bundles = {b1, b2}
  Contents <- MCContents
  Unreadable = Unreadable
  Broken = Broken
SYMMETRY Symmetry
INVARIANTS
  TypeOK
  OwnBundleOnly
  FailureIsContestants
  FaultIsEvidence
PROPERTIES
  JobIdExclusive
CHECK_DEADLOCK FALSE
