SPECIFICATION Spec
CONSTANTS
  NULL = NULL
  Grammars <- MutualGrammars
  Generated <- Names
  FactorLimit = 3
  MaxTokens = 3
  MaxSentence = 8
  Eof = "eof"
INVARIANT
  ParserIsExact
