SPECIFICATION Spec
CONSTANTS
  Conns = {c1, c2, c3}
  MaxConnections = 2
  MaxAdmissions = 4
  None = None
INVARIANTS
  TypeOK
  SlotsAccounted
  CountedIsBack
  NoLostWakeup
PROPERTIES
  ConnectionsEnd
CHECK_DEADLOCK FALSE
