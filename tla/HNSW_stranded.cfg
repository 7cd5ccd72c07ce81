\* Six nodes on layer 0: a far one is pruned from the lists of the others.
SPECIFICATION Spec
CONSTANTS
  Point <- MCPoint
  Query <- MCQuery
  Dist <- MCDist
  Ascending = TRUE
  M = 2
  EfSearch = 1
  K = {}
  MaxLevel = 0
  MaxSame = 6
  MaxSize = 14
  Nil = Nil
INVARIANTS NoNodeStranded
CONSTRAINT MCFilesAreSmall
