\* Two callers, chunks and retries.
SPECIFICATION Spec
CONSTANTS
  Caller = {a, b}
  MaxTexts = 3
  MaxBatch <- MCMaxBatch
  Retries <- MCRetries
  Length <- MCLength
  Declared <- MCDeclared
  MaxExtra = 1
  Nil = Nil
INVARIANTS TypeOK VectorsMatchTexts OneDimension
PROPERTIES CallsReturn
