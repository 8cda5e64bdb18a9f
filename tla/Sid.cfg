SPECIFICATION Spec
CONSTANTS
  NULL = NULL
  Grammars <- MCGrammars
  Generated <- Names
  FactorLimit = 3
  MaxTokens = 3
  MaxSentence = 8
  Eof = "eof"
INVARIANTS
  ParserIsExact
  LL1IsAccepted
PROPERTIES
  SidEnds
