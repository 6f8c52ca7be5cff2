SPECIFICATION TestSpec
CONSTANTS
  onArena = f1
  empty = f2
  arena = a1
  Fields = {f1, f2}
  Strings = {8, 12, 16}
  DefaultString = 4
  Values = {"", "a"}
  EmptyValue = ""
  Arenas = {a1, a2}
  NULL = NULL
  HasProtobufArena = TRUE
  Radix = 16
  Groups = 3
  Groups32 = 2
  Word = 1024
  Word32 = 128
  Fixed32Size = 1
  Fixed64Size = 2
  Behind = 0
INVARIANT
  TestsPass
