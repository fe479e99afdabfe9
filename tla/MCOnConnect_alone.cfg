CONSTANTS
  t1 = t1
  t2 = t2
  k1 = k1
  k2 = k2
  k3 = k3
  k4 = k4
  plain = plain
  quoted = quoted
  doubled = doubled
  cutting = cutting
  Foreign = Foreign
  Closing = {TRUE, FALSE}
  NoDate = NoDate
  Threads = {t1}
  Keys = {k1, k2, k3, k4}
  Expires = {1, NoDate}
  Bodies = {plain, quoted, doubled, cutting}
  Unquoted <- UnquotedDoubled
  BadStatements <- QuotedStatements
  SplicedStatements <- CutStatements
  SplicedRows <- StrayRow
  MaxSpliced = 1
  MaxRows = 2
  StepFaults = TRUE
  MaxTime = 2
  Faults = {"recv", "eof", "parse", "port", "remote", "timeout", "reuse", "send", "sigpipe"}
SPECIFICATION Spec
INVARIANTS
  NeverOutOfRange
  SavedBeforeReturned
  OwnResponse
  ThrowIsOwn
PROPERTIES
  FailureIsThrown
  RefinesCachingProxy
CHECK_DEADLOCK FALSE
