SPECIFICATION Spec
CONSTANTS
  Threads = {th1, th2, th3}
  MaxRestarts = 2
SYMMETRY Symmetry
INVARIANTS
  TypeOK
  SealedAgents
  AgentsOnlyAfterProbe
CHECK_DEADLOCK FALSE
