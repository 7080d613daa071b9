SPECIFICATION Spec
CONSTANTS
  Threads = {th1, th2}
  MaxRestarts = 1
SYMMETRY Symmetry
INVARIANTS
  AgentsStayConnected
CHECK_DEADLOCK FALSE
