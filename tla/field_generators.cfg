SPECIFICATION Spec
CONSTANTS
  Radix = 8
  Groups = 4
  Groups32 = 3
  Word = 1024
  Word32 = 256
  Fixed32Size = 1
  Fixed64Size = 2
  Behind = 0
  NULL = NULL
  Fields <- AllFields
  Type <- AllTypes
  Lazies = {"lazy"}
  FieldNumber <- AllNumbers
  Contents <- SubContents
  Default = "empty"
  Fresh = "empty"
  Seen <- SubSeen
  Complete <- SubComplete
  Encoded <- SubEncoded
  Decoded <- SubDecoded
  Merged <- SubMerged
  TypeName <- AllNames
  Given <- AllGiven
  MaxCalls = 3
INVARIANTS
  ValuesFollowCalls
  EachReadsTheOther
  WritesProtobuf
  TablesAgree
CHECK_DEADLOCK FALSE
