SPECIFICATION Spec
CONSTANTS
  Threads = {t1, t2}
  Objs = {o1, o2, o3, o4}
  Arenas = {a1, a2}
  NoThread = NoThread
  NULL = NULL
  Torn = Torn
  Contents = {"zero", "one"}
  Complete = {"one"}
  Payloads = {"none", "p1", "long1", "bad"}
  Decoded <- SmallDecoded
  Encoded <- SmallEncoded
  Default = "zero"
  Empty = "none"
  Malformed = "malformed"
  HasProtobufArena = FALSE
  MutableShared = FALSE
  MaxCalls = 3
PROPERTIES
  OldArenaOwnsOldMessage
