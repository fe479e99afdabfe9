CONSTANTS
  t1 = t1
  t2 = t2
  k1 = k1
  k2 = k2
  e1 = e1
  plain = plain
  quoted = quoted
  Foreign = Foreign
  Threads = {t1, t2}
  Keys = {k1, k2}
  Expires = {e1}
  Bodies = {plain, quoted}
  Unquoted <- UnquotedSame
  BadStatements <- QuotedStatements
  SplicedStatements <- SplicedKey
  SplicedRows <- SplicedRow
  MaxSpliced = 1
  MaxRows = 2
  StepFaults = TRUE
SPECIFICATION Spec
INVARIANTS
  DbTypeOK
PROPERTIES
  SerializedThrows
CHECK_DEADLOCK FALSE
