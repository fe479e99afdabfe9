CONSTANTS
  t1 = t1
  t2 = t2
  k1 = k1
  k2 = k2
  e1 = e1
  plain = plain
  quoted = quoted
  Foreign = Foreign
  Threads = {t1, t2}
  Keys = {k1, k2}
  Expires = {e1}
  Bodies = {plain}
  Unquoted <- UnquotedSame
  BadStatements <- NoStatements
  SplicedStatements <- NoStatements
  SplicedRows <- NoStatements
  MaxSpliced = 1
  MaxRows = 1
  StepFaults = FALSE
SPECIFICATION Spec
INVARIANTS
  ThrowIsOwn
CHECK_DEADLOCK FALSE
