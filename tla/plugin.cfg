SPECIFICATION Spec
CONSTANTS
  NULL = NULL
  Unreadable = Unreadable
  Names <- AllNames
  UpperCase <- Capitals
  MaxFiles = 3
INVARIANTS
  IndInv
  StatusTellsError
  ResponseIsWhole
  OutputsDistinct
  SourcesSeeImports
