SPECIFICATION Spec
CONSTANTS
  Radix = 16
  Groups = 3
  Groups32 = 2
  Word = 1024
  Word32 = 128
  Fixed32Size = 1
  Fixed64Size = 2
  Behind = 0
  Alphabet = {0, 1, 8, 10, 11, 12, 19, 20}
  MaxLength = 5
INVARIANTS
  ReadersAgree
  ReadingInvertsWriting
  InlineIsStream
  SkipsTheField
  ScalarsAreProtobuf
CHECK_DEADLOCK FALSE
