SPECIFICATION Spec
CONSTANTS
  NULL = NULL
  Unreadable = Unreadable
  Names <- AllNames
  UpperCase <- Capitals
  MaxFiles = 1
INVARIANTS
  GeneratesMessages
