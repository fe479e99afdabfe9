CONSTANTS
  Fds = {3, 4, 5}
  m_max_connections = 2
  ThreadLimit = 3
  KillOutcomes = {"ESRCH"}
SPECIFICATION Spec
PROPERTIES
  CreateFailsOnlyWhenBusy
CHECK_DEADLOCK FALSE
