SPECIFICATION CapsuleSpec
CONSTANTS
  NULL = NULL
  c1 = c1
  c2 = c2
  Capsules = {c1, c2}
  Names <- MCNames
  Shapes <- MCShapes
  ShapeOf <- MCShapeOf
  Token = "token"
  Tag = "tag"
  MaxErrors = 3
  MaxLocal = 2
  IdMax = 3
  Files <- ReadFiles
  Indirects <- RenameChoices
  Majors <- OneMajor
INVARIANTS
  CapsuleTypeOK
  IdsDistinct
  ExternalIdsAgree
  NoCapture
  LinksInRange
  ListedOnce
  VersionsAgree
PROPERTIES
  DefinitionIsFinal
  ReadingEnds
