SPECIFICATION SafeSpec
CONSTANTS
  c1 = c1
  c2 = c2
  e1 = e1
  p1 = p1
  p2 = p2
  i1 = i1
  v1 = v1
  v2 = v2
  Clients <- MCClients
  Extensions <- MCExtensions
  Parts <- MCOnePart
  Instances <- MCInstances
  Versions <- MCVersions
  Latest = v2
  Listing <- MCExtensions
  Requested <- InstallInstances
  Serializable = TRUE
  Schema = Schema
  Present = Present
  Absent = Absent
  Unwritten = Unwritten
SYMMETRY ClientSymmetry
INVARIANTS NoOrphanInstances
PROPERTIES ImplementsAtomicOperations
