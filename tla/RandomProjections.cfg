\* Four kinds of embedders, five corpora, saved, loaded and made anew.
SPECIFICATION Spec
CONSTANTS
  Word <- MCWord
  Text <- MCText
  MinLen <- MCMinLen
  Tokenize <- MCTokenize
  Hash <- MCHash
  Options <- MCOptions
  Corpus <- MCCorpus
  MaxGram = 2
  MaxGiven = 3
  Torn = Torn
  Nil = Nil
INVARIANTS TypeOK FitMoreIsOneFit WeightsOfLastFit RefusedOnlyAfterFitMore
PROPERTIES KnownTextsKeepEmbedding
