SPECIFICATION SafeSpec
CONSTANTS
  g1 = g1
  g2 = g2
  Goroutines = {g1, g2}
  MaxActive = 1
  NoServer = NoServer
CHECK_DEADLOCK FALSE
INVARIANT
  StoppingIsNotFatal
