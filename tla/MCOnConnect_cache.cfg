CONSTANTS
  t1 = t1
  t2 = t2
  k1 = k1
  k2 = k2
  k3 = k3
  k4 = k4
  plain = plain
  quoted = quoted
  doubled = doubled
  cutting = cutting
  Foreign = Foreign
  Closing = {FALSE}
  NoDate = NoDate
  Threads = {t1, t2}
  Keys = {k1, k2}
  Expires = {0, 1}
  Bodies = {plain}
  Unquoted <- UnquotedSame
  BadStatements <- NoStatements
  SplicedStatements <- NoStatements
  SplicedRows <- NoStatements
  MaxSpliced = 1
  MaxRows = 2
  StepFaults = FALSE
  MaxTime = 1
  Faults = {}
SPECIFICATION Spec
SYMMETRY Symmetry
INVARIANTS
  TypeOK
  FreshOnHit
  NeverOutOfRange
  SavedBeforeReturned
  OwnResponse
PROPERTIES
  RefinesCachingProxy
