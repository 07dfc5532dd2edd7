SPECIFICATION Spec
CONSTANTS
  root = root
  sub = sub
  box = box
  shut = shut
  top = top
  inSub = inSub
  inBox = inBox
  jar = jar
  zip = zip
  ext1 = ext1
  ext2 = ext2
  Readers = {"files", "path", "query"}
  MaxRows = 3
  Directories <- MCDirectories
  Files = {top, inSub, inBox}
  Root = root
  Parent <- MCParent
  Name <- MCName
  Kind <- MCKind
  Sizes = {0, 1}
  Gone = Gone
  Trees <- MCTrees
  Wanted = zip
  MaxChanges = 2
  Ids = {ext1, ext2}
  Nested = {ext2}
  Requirements <- MCRequirements
  Registries <- MCRegistries
CHECK_DEADLOCK FALSE
INVARIANTS
  TypeOK
  ReturnsAllRows
  StableIsFound
  ListedIsUsable
  FailsForAReason
PROPERTY
  ListEnds
