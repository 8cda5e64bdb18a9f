SPECIFICATION FairSpec
CONSTANTS
  NULL = NULL
  Grammars <- EndlessGrammars
  Generated <- Names
  FactorLimit = 3
  MaxTokens = 3
  MaxSentence = 8
  Eof = "eof"
PROPERTY
  FactorisationEnds
