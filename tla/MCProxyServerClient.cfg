SPECIFICATION Spec
CONSTANTS
  Threads = {t1, t2}
  Fds = {3, 4, 5, 6}
  ListenFd = 3
  NoFd <- MCNoFd
  Garbage <- Numbers
  Ports = {80, 40000}
SYMMETRY Symmetry
INVARIANTS TypeOK Accounted Isolated
CHECK_DEADLOCK FALSE
