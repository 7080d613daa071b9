SPECIFICATION Spec
CONSTANTS
  j1 = j1
  Calls = {c1, c2}
  Jobs = {j1}
  JobOf <- MCJobOf
  Statuses = {200, 429, 503}
  MaxAttempts = 2
  Null = Null
INVARIANTS
  TypeOK
  AnsweredIsCounted
  CountedOnce
  LastAttemptDecides
  OrphanOnlyFromLateCall
PROPERTIES
  EveryCallEnds
CHECK_DEADLOCK FALSE
