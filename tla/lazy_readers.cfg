SPECIFICATION Spec
CONSTANTS
  Threads = {t1, t2, t3}
  Objs = {o1, o2, o3}
  Arenas = {a1, a2}
  NoThread = NoThread
  NULL = NULL
  Torn = Torn
  Contents = {"zero", "one", "part"}
  Complete = {"one"}
  Payloads = {"none", "p1", "long1", "bad"}
  Decoded <- SmallDecoded
  Encoded <- PartialEncoded
  Default = "zero"
  Empty = "none"
  Malformed = "malformed"
  HasProtobufArena = TRUE
  MutableShared = FALSE
  MaxCalls = 2
SYMMETRY Symmetry
INVARIANTS
  IndInv
  SafeReads
  AnswerIsEager
  WriteFitsSize
  WritesTheValue
  NoOrphans
PROPERTIES
  DeletesOnlyHeap
  ImplementsEager
