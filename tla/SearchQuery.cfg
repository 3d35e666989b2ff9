SPECIFICATION Spec
CONSTANTS
  e1 = e1
  e2 = e2
  MaxLexemes = 4
  Queries <- MCQueries
  Digit <- MCDigit
  StopWords <- MCStopWords
  Network <- MCNetwork
  Rows <- MCRows
  Engagement = e1
INVARIANTS
  WordsKept
  ImplicitAnd
  NegationSplits
CHECK_DEADLOCK FALSE
