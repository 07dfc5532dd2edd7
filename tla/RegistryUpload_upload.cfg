SPECIFICATION Spec
CONSTANTS
  url1 = url1
  url2 = url2
  Urls <- MCUrls
  Links <- MCLinks
  MaxEdition = 2
  MaxBuild = 2
  OwnUrl = OwnUrl
  Nothing = Nothing
INVARIANTS
  TypeOK
  SuccessReachesClients
  NamedExtensionIsServed
PROPERTIES
  ImplementsRegistry
  RunEnds
