\* Every operation on up to three rows, all layouts; saving and loading on
\* up to two.
SPECIFICATION Spec
CONSTANTS
  Id = {a, b}
  Vec <- MCVec
  Meta <- MCMeta
  EmptyMeta <- MCEmptyMeta
  NilMeta = NilMeta
  Metric <- MCMetric
  Format = {"gob", "json"}
  Nil = Nil
  MaxRows = 3
INVARIANTS TypeOK PackedLayout ScoredRowIsReturnedRow IndexHitsOwnRow
PROPERTIES OtherIdsUntouched ImplementsRowBag
CONSTRAINT MCFilesAreSmall
