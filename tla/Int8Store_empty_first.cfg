\* Vectors of several lengths, the empty one too, in any order.
SPECIFICATION Spec
CONSTANTS
  Id = {a, b}
  Vec <- MCVec
  MaxRows = 3
  Nil = Nil
INVARIANTS RowsAreTheirVectors
CHECK_DEADLOCK FALSE
