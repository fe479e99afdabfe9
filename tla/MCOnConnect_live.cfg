CONSTANTS
  t1 = t1
  t2 = t2
  k1 = k1
  k2 = k2
  k3 = k3
  k4 = k4
  plain = plain
  quoted = quoted
  doubled = doubled
  cutting = cutting
  Foreign = Foreign
  Closing = {TRUE, FALSE}
  NoDate = NoDate
  Threads = {t1, t2}
  Keys = {k1}
  Expires = {NoDate}
  Bodies = {plain}
  Unquoted <- UnquotedSame
  BadStatements <- NoStatements
  SplicedStatements <- NoStatements
  SplicedRows <- NoStatements
  MaxSpliced = 1
  MaxRows = 2
  StepFaults = TRUE
  MaxTime = 0
  Faults = {"recv", "eof", "parse", "remote", "timeout", "send"}
SPECIFICATION FairSpec
INVARIANTS
  OneInsertPerThread

  
  
CHECK_DEADLOCK FALSE
