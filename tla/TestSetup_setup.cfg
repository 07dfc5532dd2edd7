SPECIFICATION Spec
CONSTANTS
  MaxLines = 3
  Objects = {o1, o2}
  Files = {f1, f2}
  MaxCallbacks = 3
INVARIANTS
  TypeOK
  NothingRunsOn
  OutputIsWhole
PROPERTIES
  CleanupCleans
  FileMissesOnlyAfterAbort
  CreateEnds
CHECK_DEADLOCK FALSE
