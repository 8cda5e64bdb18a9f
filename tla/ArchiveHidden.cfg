SPECIFICATION ArchiveSpec
CONSTANTS
  NULL = NULL
  ArchiveArgs <- HiddenArgs
  buffer_size = 2
INVARIANTS
  SplitUndoesBuild
