SPECIFICATION FairSpec
CONSTANTS
  Threads = {t1, t2}
  Objs = {o1, o2, o3}
  Arenas = {a1}
  NoThread = NoThread
  NULL = NULL
  Torn = Torn
  Contents = {"zero", "one"}
  Complete = {"one"}
  Payloads = {"none", "p1", "long1", "bad"}
  Decoded <- SmallDecoded
  Encoded <- SmallEncoded
  Default = "zero"
  Empty = "none"
  Malformed = "malformed"
  HasProtobufArena = FALSE
  MutableShared = TRUE
  MaxCalls = 2
INVARIANTS
  IndInv
  SafeReads
PROPERTIES
  HeapMessagesAreDeleted
  CallsReturn
