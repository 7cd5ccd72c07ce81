\* Up to six nodes of three points, with up to four nodes on layer 1.
SPECIFICATION Spec
CONSTANTS
  Point <- MCPoint
  Query <- MCQuery
  Dist <- MCDist
  Ascending = TRUE
  M = 2
  EfSearch = 1
  K = {1, 3}
  MaxLevel = 1
  MaxSame = 2
  MaxSize = 13
  Nil = Nil
INVARIANTS TypeOK FullDegree SmallIsExact HitsAreLocallyBest
PROPERTIES SearchReturns
CONSTRAINT MCFilesAreSmall
