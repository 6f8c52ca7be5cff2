SPECIFICATION Spec
CONSTANTS
  Radix = 4
  Groups = 5
  Groups32 = 4
  Word = 512
  Word32 = 128
  Fixed32Size = 1
  Fixed64Size = 2
  Behind = 0
  NULL = NULL
  Fields = {"id", "ratio", "name", "late", "now"}
  Type <- MostTypes
  Lazies = {"late"}
  FieldNumber <- MostNumbers
  Contents <- SubContents
  Default = "empty"
  Fresh = "fresh"
  Seen <- SubSeen
  Complete = {"set"}
  Encoded <- SubEncoded
  Decoded <- StrictDecoded
  Merged <- SubMerged
  Messages = {m1, m2}
  Order <- MostFields
  Required = {"late", "now"}
  Given <- MostGiven
  Wires <- Single
  MaxCalls = 3
SYMMETRY Symmetry
INVARIANTS
  SizeIsExact
  RoundTrip
PROPERTIES
  CopyCopies
  MergeKeeps
