\* FitMore after a Fit with weights, and a file of the result.
SPECIFICATION Spec
CONSTANTS
  Word <- MCWord
  Text <- MCText
  MinLen <- MCMinLen
  Tokenize <- MCTokenize
  Hash <- MCHash
  Options <- MCOptions
  Corpus <- MCCorpus
  MaxGram = 2
  MaxGiven = 3
  Torn = Torn
  Nil = Nil
INVARIANTS SavedIsLoadable
