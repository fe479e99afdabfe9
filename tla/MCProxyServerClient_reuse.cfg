SPECIFICATION Spec
CONSTANTS
  Threads = {t1, t2}
  Fds = {3, 4, 5, 6}
  ListenFd = 3
  NoFd <- MCNoFd
  Garbage <- Harmless
  Ports = {80, 40000}
PROPERTY OwnDescriptors
CHECK_DEADLOCK FALSE
