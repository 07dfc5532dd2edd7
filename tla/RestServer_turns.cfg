SPECIFICATION Spec
CONSTANTS
  g1 = g1
  g2 = g2
  Goroutines = {g1, g2}
  MaxActive = 2
  NoServer = NoServer
CHECK_DEADLOCK FALSE
INVARIANTS
  TypeOK
  NoPanicInTurn
  ReadyMeansListening
  StoppedMeansIdle
  OnlyRestartIsFatal
PROPERTY
  StopEndsServer
