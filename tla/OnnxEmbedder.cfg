\* Two goroutines open a model and embed batches.
SPECIFICATION Spec
CONSTANTS
  Char <- MCChar
  Class <- MCClass
  Folded <- MCFolded
  MaxChars = 3
  Thread = {t1, t2}
  Path = {bad, good}
  Found = {installed, Nil}
  Default = default
  Usable = {good, default}
  VocabFile <- MCVocabFile
  Model <- MCModel
  Config <- MCConfig
  Batch <- MCBatch
  Nil = Nil
INVARIANTS TypeOK VectorsMatchTexts
PROPERTIES NamedPathLoads CallsReturn
