SPECIFICATION FairSpec
CONSTANTS
  Radix = 4
  Groups = 5
  Groups32 = 4
  Word = 512
  Word32 = 128
  Fixed32Size = 1
  Fixed64Size = 2
  Behind = 0
  NULL = NULL
  Fields = {"id", "ratio", "name", "late", "now", "flag"}
  Type <- AllTypes
  Lazies = {"late"}
  FieldNumber <- AllNumbers
  Contents <- SubContents
  Default = "empty"
  Fresh = "fresh"
  Seen <- SubSeen
  Complete = {"empty", "fresh", "set"}
  Encoded <- SubEncoded
  Decoded <- SubDecoded
  Merged <- SubMerged
  Messages = {m1}
  Order <- AllFields
  Required = {}
  Given <- FewGiven
  Wires <- Pairs
  MaxCalls = 2
INVARIANTS
  TypeOK
  LastWins
PROPERTIES
  ParseEnds
