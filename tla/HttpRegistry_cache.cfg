SPECIFICATION Spec
CONSTANTS
  Requests = {r1, r2}
  r1 = r1
  r2 = r2
  ext1 = ext1
  ext2 = ext2
  url1 = url1
  url2 = url2
  Ids <- MCIds
  Urls <- MCUrls
  Document <- MCGrowing
  MaxVersion = 1
  IndexUrl = IndexUrl
  MaxEdition = 1
  NoIndex = NoIndex
  AllIds = AllIds
SYMMETRY MCSymmetry
INVARIANTS
  TypeOK
  FreshDefinitions
  WholeList
  OutageIsForgotten
