SPECIFICATION ArchiveSpec
CONSTANTS
  NULL = NULL
  ArchiveArgs <- GoodArgs
  buffer_size = 2
INVARIANTS
  SplitUndoesBuild
  ChangesNoticed
