\* Searches by one goroutine and by several.
SPECIFICATION Spec
CONSTANTS
  MaxRows = 5
  MaxProcs = 3
  Score <- MCScore
  NaN = NaN
  K <- MCK
  MaxCap = 5
  Nil = Nil
INVARIANTS TypeOK RootIsWorst ResultIsNearest
PROPERTIES SearchReturns
CONSTRAINT MCNaNWithFewRows
CHECK_DEADLOCK FALSE
