SPECIFICATION Spec
CONSTANTS
  p1 = p1
  p2 = p2
  good = good
  bad = bad
  Parameters <- MCParameters
  Values <- MCValues
  Empty = Empty
  Requests <- MCRequests
  Extensions <- MCExtensions
  Replacements <- MCReplacements
  Statuses <- MCStatuses
INVARIANTS
  TypeOK
  StatusIsTold
  CommitIsTold
  OnlyAcceptableInstances
  UninstallIsChecked
CHECK_DEADLOCK FALSE
