SPECIFICATION LibrarySpec
CONSTANTS
  NULL = NULL
  i1 = i1
  i2 = i2
  l1 = l1
  l2 = l2
  Capsules = {i1, i2, l1, l2}
  Names <- MCNames
  Shapes <- MCShapes
  ShapeOf <- MCShapeOf
  Token = "token"
  Tag = "tag"
  MaxErrors = 4
  MaxLocal = 2
  IdMax = 9
  Files <- LibraryFiles
  Indirects <- OnlySame
  Majors <- NoMajor
  BuildArgs <- LibraryBuilds
  CapName <- PathOf
  ExtractArgs <- MCExtractArgs
  BaseName <- MCBaseName
  Unwritable <- Protected
INVARIANTS
  IndexLeadsToDefinition
  CleanLibraryIsWhole
  IndexIsReadBack
  CleanIndexIsExact
  ExtractedWasAskedFor
  RoundTrip
