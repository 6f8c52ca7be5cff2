SPECIFICATION Spec
CONSTANTS
  Fields = {f1, f2}
  Strings = {8, 12, 16}
  DefaultString = 4
  Values = {"", "a"}
  EmptyValue = ""
  Arenas = {a1, a2}
  NULL = NULL
  HasProtobufArena = TRUE
INVARIANTS
  IndInv
  TagTellsPlace
  OneOwner
  PointerStable
PROPERTIES
  ImplementsCells
  OnlyClearingStrands
