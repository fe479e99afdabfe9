CONSTANTS
  Fds = {3, 4, 5}
  m_max_connections = 2
  ThreadLimit = 4
  KillOutcomes = {"ESRCH", "alive", "SEGV"}
SPECIFICATION FairSpec
INVARIANTS
  TypeOK
  IdsWithinMax
  NoFdLeak
  OnlyAnswered
PROPERTIES
  AcceptsAgain
CHECK_DEADLOCK FALSE
