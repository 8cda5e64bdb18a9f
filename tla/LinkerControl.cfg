SPECIFICATION ControlSpec
CONSTANTS
  NULL = NULL
  i1 = i1
  i2 = i2
  l1 = l1
  l2 = l2
  l3 = l3
  Capsules = {i1, i2, l1, l2}
  Names <- MCNames
  Shapes <- MCShapes
  ShapeOf <- MCShapeOf
  Token = "token"
  Tag = "tag"
  MaxErrors = 4
  MaxLocal = 2
  IdMax = 9
  Files <- ControlFiles
  Indirects <- RenameChoices
  Majors <- NoMajor
  Args <- ControlArgs
INVARIANTS
  DefinitionIsChosen
  DefdHasDefinition
  LegalUses
  LoadsOnce
  CleanLinkIsWhole
  IndexIsChosen
  VisibleNames
