\* Two clients that create and look up, never remove, in either store.
CONSTANTS
  a = a
  b = b
  ab = ab
  h1 = h1
  h2 = h2
  Name = {a, b}
  Client = {c1, c2}
  Target <- Fork
  Key = {k}
  Value = {v}
  Ops = {"create"}
  MaxId = 4
  HClient <- HbaseClients
  HName <- HbaseNames
  HRank <- HbaseRanks
  HBegins <- HbaseBegins
  HTarget <- HbasePaths
  HCalls <- HbaseCalls
  HMaxRows = 3
SPECIFICATION StoreSpec
INVARIANTS WellNested RepeatsBounded HbaseTypeOK 
PROPERTIES NestingKept ActsAsNamespace LostToRivalOnly
CONSTRAINT AttributesMatter
SYMMETRY Symmetry
