CONSTANTS
  Fds = {3, 4, 5}
  m_max_connections = 2
  ThreadLimit = 4
  KillOutcomes = {"ESRCH"}
SPECIFICATION Spec
INVARIANTS
  AtMostMaxConnections
CHECK_DEADLOCK FALSE
