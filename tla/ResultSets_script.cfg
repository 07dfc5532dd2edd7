SPECIFICATION ReaderSpec
CONSTANTS
  Readers = {"script"}
  MaxRows = 2
INVARIANTS
  AbsentMeansAbsent
