----------------------------- MODULE FieldProofs ----------------------------
(***************************************************************************)
(* What holds of one field of the generated class, whatever its type is.   *)
(***************************************************************************)
EXTENDS GeneratedField, CodecProofs

(* A field is of one of four kinds.                                        *)
LEMMA StorageKinds ==
  ASSUME NEW f \in Fields
  PROVE  \/ /\ Storage(f) = "ArenaString" /\ Type[f] \in StringTypes /\ f \notin Lazies
         \/ /\ Storage(f) = "LazyField" /\ Type[f] = "message" /\ f \in Lazies
         \/ /\ Storage(f) = "message" /\ Type[f] = "message" /\ f \notin Lazies
         \/ /\ Storage(f) = "scalar" /\ Type[f] \in ScalarTypes /\ f \notin Lazies
<1>1. Type[f] \in ScalarTypes \cup StringTypes \cup {"message"}
  BY FieldAssumption
<1>2. f \in Lazies => Type[f] = "message"
  BY FieldAssumption
<1>3. "message" \notin StringTypes /\ "message" \notin ScalarTypes
  BY DEF StringTypes, ScalarTypes, cpp_scalar_type
<1>4. StringTypes \cap ScalarTypes = {}
  BY DEF StringTypes, ScalarTypes, cpp_scalar_type
<1>5. CASE Type[f] \in StringTypes
  BY <1>2, <1>3, <1>5 DEF Storage
<1>6. CASE f \in Lazies
  BY <1>2, <1>3, <1>6 DEF Storage
<1>7. CASE Type[f] = "message" /\ f \notin Lazies
  BY <1>3, <1>7 DEF Storage
<1>8. CASE Type[f] \in ScalarTypes /\ f \notin Lazies
  BY <1>3, <1>4, <1>8 DEF Storage
<1> QED
  BY <1>1, <1>5, <1>6, <1>7, <1>8

(* Byte strings that are not too long.                                     *)
LEMMA ShortBytes ==
  \A limit \in Nat : \A bytes : bytes \in Shorter(limit) <=> bytes \in Seq(Byte) /\ Len(bytes) < limit
BY DEF Shorter

LEMMA EmptyIsShort == <<>> \in Shorter(Word) /\ <<>> \in Shorter(Word32)
<1>1. Word \in Nat /\ Word32 \in Nat /\ 0 < Word /\ 0 < Word32
  BY WordAssumption
<1>2. <<>> \in Seq(Byte) /\ Len(<<>>) = 0
  OBVIOUS
<1> QED
  BY <1>1, <1>2 DEF Shorter

(* What submessages serialize to.                                          *)
LEMMA EncodedIsShort ==
  \A c \in Contents : /\ Encoded[c] \in Shorter(Word32) /\ Encoded[c] \in Seq(Byte)
                      /\ Len(Encoded[c]) < Word32 /\ Len(Encoded[c]) < Word32 \div 2
<1> SUFFICES ASSUME NEW c \in Contents
             PROVE  /\ Encoded[c] \in Seq(Byte) /\ Len(Encoded[c]) < Word32
                    /\ Len(Encoded[c]) < Word32 \div 2
  BY DEF Shorter
<1>1. Encoded[c] \in Seq(Byte) /\ Len(Encoded[c]) < Word32 \div 2
  BY SubmessageAssumption DEF Shorter
<1> DEFINE size == Len(Encoded[c])
<1>2. size \in Nat /\ size < Word32 \div 2 /\ Word32 \in Nat
  BY <1>1, WordAssumption
<1> HIDE DEF size
<1>3. size < Word32
  BY <1>2
<1> QED
  BY <1>1, <1>3 DEF size

(* A length and that many bytes are bytes.                                 *)
LEMMA DelimitedIsBytes == \A bytes \in Seq(Byte) : Delimited(bytes) \in Seq(Byte)
<1> SUFFICES ASSUME NEW bytes \in Seq(Byte)
             PROVE  Delimited(bytes) \in Seq(Byte)
  OBVIOUS
<1>1. Len(bytes) \in Nat
  OBVIOUS
<1>2. WriteVarint(Len(bytes)) \in Seq(Byte)
  BY <1>1, NumbersAreMeasured
<1> QED
  BY <1>2, LengthsAdd DEF Delimited

(* The values of a member by the kind of the field.                        *)
LEMMA StatesOfKinds ==
  ASSUME NEW f \in Fields
  PROVE  /\ Storage(f) = "ArenaString" =>
              FieldStates(f) = [has : BOOLEAN, value : Shorter(Word)]
         /\ Storage(f) = "LazyField" =>
              FieldStates(f) = [has : BOOLEAN, parsed : BOOLEAN, bytes : Shorter(Word32),
                                content : Contents]
         /\ Storage(f) = "message" => FieldStates(f) = Contents
         /\ Storage(f) = "scalar" =>
              FieldStates(f) = IF Type[f] \in FixedTypes THEN [1 .. WidthOf(Type[f]) -> Byte]
                               ELSE NumbersOf(cpp_scalar_type[Type[f]])
<1>1. /\ "message" \notin FixedTypes
      /\ \A type \in StringTypes : type \notin FixedTypes
  BY DEF StringTypes, FixedTypes, Fixed64Types, Fixed32Types
<1>2. /\ Storage(f) = "ArenaString" => Type[f] \notin FixedTypes
      /\ Storage(f) \in {"LazyField", "message"} => Type[f] \notin FixedTypes
  BY <1>1, StorageKinds
<1>3. CASE Storage(f) = "ArenaString"
  BY <1>2, <1>3 DEF FieldStates
<1>4. CASE Storage(f) = "LazyField"
  BY <1>2, <1>4 DEF FieldStates
<1>5. CASE Storage(f) = "message"
  BY <1>2, <1>5 DEF FieldStates
<1>6. CASE Storage(f) = "scalar"
  BY <1>6 DEF FieldStates
<1> QED
  BY <1>3, <1>4, <1>5, <1>6

(* What TypeOK says of a member.                                           *)
Sound(f, v) ==
  /\ v \in FieldStates(f)
  /\ Storage(f) = "ArenaString" => v.has \/ v.value = <<>>
  /\ f \in Lazies => v.has \/ Observed(f, v) = Default

(* A string field without a string of its own is empty.                    *)
LEMMA SoundTexts ==
  ASSUME NEW f \in Fields, Storage(f) = "ArenaString"
  PROVE  /\ \A has \in BOOLEAN, value \in Shorter(Word) :
              has \/ value = <<>> => Sound(f, Text(has, value))
         /\ \A v : Sound(f, v) => /\ v.has \in BOOLEAN /\ v.value \in Shorter(Word)
                                  /\ v.value \in Seq(Byte)
<1>1. f \notin Lazies /\ FieldStates(f) = [has : BOOLEAN, value : Shorter(Word)]
  BY StorageKinds, StatesOfKinds
<1>2. \A bytes \in Shorter(Word) : bytes \in Seq(Byte)
  BY DEF Shorter
<1> QED
  BY <1>1, <1>2 DEF Sound, Text

(* Any submessage will do,                                                 *)
LEMMA SoundSubmessages ==
  ASSUME NEW f \in Fields, Storage(f) = "message"
  PROVE  \A v : Sound(f, v) <=> v \in Contents
<1>1. f \notin Lazies /\ FieldStates(f) = Contents
  BY StorageKinds, StatesOfKinds
<1> QED
  BY <1>1 DEF Sound

(* and so will any number.                                                 *)
LEMMA SoundScalars ==
  ASSUME NEW f \in Fields, Storage(f) = "scalar"
  PROVE  \A v : Sound(f, v) <=> v \in FieldStates(f)
<1>1. f \notin Lazies
  BY StorageKinds
<1> QED
  BY <1>1 DEF Sound

(* What parsing makes of bytes is a submessage.                            *)
LEMMA MeaningsAreContents ==
  /\ Default \in Contents /\ Fresh \in Contents
  /\ \A bytes : Meaning(bytes) \in Contents
  /\ \A c \in Contents : Seen[c] \in Contents /\ Seen[Seen[c]] = Seen[c]
  /\ Seen[Default] = Default /\ Seen[Fresh] = Default
BY SubmessageAssumption DEF Meaning, Parses

(* A lazy field that is absent reads as the default.                       *)
LEMMA SoundLazies ==
  ASSUME NEW f \in Fields, Storage(f) = "LazyField"
  PROVE  /\ \A has \in BOOLEAN, parsed \in BOOLEAN, bytes \in Shorter(Word32),
               content \in Contents :
              has \/ (IF parsed THEN Seen[content] ELSE Default) = Default
              => Sound(f, Lazy(has, parsed, bytes, content))
         /\ \A v : Sound(f, v) =>
              /\ v.has \in BOOLEAN /\ v.parsed \in BOOLEAN
              /\ v.bytes \in Shorter(Word32) /\ v.bytes \in Seq(Byte) /\ v.content \in Contents
              /\ v = Lazy(v.has, v.parsed, v.bytes, v.content)
              /\ Content(v) \in Contents /\ Observed(f, v) = Seen[Content(v)]
              /\ Observed(f, v) \in Contents
              /\ v.has \/ Observed(f, v) = Default
<1>1. /\ f \in Lazies
      /\ FieldStates(f) = [has : BOOLEAN, parsed : BOOLEAN, bytes : Shorter(Word32),
                           content : Contents]
  BY StorageKinds, StatesOfKinds
<1>2. ASSUME NEW has \in BOOLEAN, NEW parsed \in BOOLEAN, NEW bytes \in Shorter(Word32),
             NEW content \in Contents,
             has \/ (IF parsed THEN Seen[content] ELSE Default) = Default
      PROVE  Sound(f, Lazy(has, parsed, bytes, content))
  <2>1. Lazy(has, parsed, bytes, content) \in FieldStates(f)
    BY <1>1 DEF Lazy
  <2>2. has \/ Observed(f, Lazy(has, parsed, bytes, content)) = Default
    BY <1>2, MeaningsAreContents DEF Observed, Content, Lazy
  <2> QED
    BY <2>1, <2>2 DEF Sound, Lazy
<1>3. ASSUME NEW v, Sound(f, v)
      PROVE  /\ v.has \in BOOLEAN /\ v.parsed \in BOOLEAN
             /\ v.bytes \in Shorter(Word32) /\ v.bytes \in Seq(Byte) /\ v.content \in Contents
             /\ v = Lazy(v.has, v.parsed, v.bytes, v.content)
             /\ Content(v) \in Contents /\ Observed(f, v) = Seen[Content(v)]
             /\ Observed(f, v) \in Contents
             /\ v.has \/ Observed(f, v) = Default
  <2>1. v \in [has : BOOLEAN, parsed : BOOLEAN, bytes : Shorter(Word32), content : Contents]
    BY <1>1, <1>3 DEF Sound
  <2>2. v.content \in Contents /\ v.bytes \in Shorter(Word32) /\ v.bytes \in Seq(Byte)
    BY <2>1 DEF Shorter
  <2>3. /\ Content(v) \in Contents /\ Observed(f, v) = Seen[Content(v)]
        /\ Observed(f, v) \in Contents
    <3>1. Content(v) \in Contents
      BY <2>2, MeaningsAreContents DEF Content
    <3> QED
      BY <3>1, MeaningsAreContents DEF Observed
  <2>4. v = Lazy(v.has, v.parsed, v.bytes, v.content)
    BY <2>1 DEF Lazy
  <2>5. v.has \/ Observed(f, v) = Default
    BY <1>1, <1>3 DEF Sound
  <2> QED
    BY <2>1, <2>2, <2>3, <2>4, <2>5
<1> QED
  BY <1>2, <1>3

(* A scalar member holds what its type can.                                *)
LEMMA StatesOfScalars ==
  ASSUME NEW f \in Fields, Storage(f) = "scalar"
  PROVE  Type[f] \in ScalarTypes /\ FieldStates(f) = ScalarStates(Type[f])
BY StorageKinds, StatesOfKinds DEF ScalarStates

(* What is read into a scalar member is a value it can have.               *)
LEMMA ScalarsAreRead ==
  ASSUME NEW f \in Fields, Storage(f) = "scalar", NEW buf \in Seq(Byte), NEW p \in Nat \ {0}
  PROVE  /\ ReadScalar(Type[f], buf, p).ptr \in Nat
         /\ ReadScalar(Type[f], buf, p).value \in FieldStates(f)
BY StatesOfScalars, ReadIsScalar

(* So is its default.                                                      *)
LEMMA ZerosAreStates ==
  ASSUME NEW f \in Fields, Storage(f) = "scalar"
  PROVE  Zero(Type[f]) \in FieldStates(f)
<1>1. 0 \in Byte /\ 0 \in NumbersOf(cpp_scalar_type[Type[f]])
  <2>1. 0 \in 0 .. Radix - 1
    BY RadixType
  <2> QED
    BY <2>1, ByteType, NumbersFit
<1>2. FieldStates(f) = IF Type[f] \in FixedTypes THEN [1 .. WidthOf(Type[f]) -> Byte]
                       ELSE NumbersOf(cpp_scalar_type[Type[f]])
  BY StatesOfKinds
<1> QED
  BY <1>1, <1>2 DEF Zero, ZeroBytes

(* Each operation leaves a sound member sound.                             *)
LEMMA ClearedIsSound ==
  ASSUME NEW f \in Fields, NEW arena \in BOOLEAN
  PROVE  Sound(f, Cleared(f)) /\ Sound(f, Constructed(f, arena))
<1>1. CASE Storage(f) = "ArenaString"
  <2> QED
    BY <1>1, EmptyIsShort, SoundTexts DEF Cleared, Constructed
<1>2. CASE Storage(f) = "LazyField"
  <2>1. <<>> \in Shorter(Word32) /\ Default \in Contents
    BY EmptyIsShort, MeaningsAreContents
  <2>2. Sound(f, Lazy(FALSE, FALSE, <<>>, Default))
    BY <1>2, <2>1, SoundLazies
  <2>3. Cleared(f) = Lazy(FALSE, FALSE, <<>>, Default) /\ Constructed(f, arena) = Cleared(f)
    BY <1>2 DEF Cleared, Constructed
  <2> QED
    BY <2>2, <2>3
<1>3. CASE Storage(f) = "message"
  BY <1>3, SoundSubmessages, MeaningsAreContents DEF Cleared, Constructed
<1>4. CASE Storage(f) = "scalar"
  BY <1>4, SoundScalars, ZerosAreStates DEF Cleared, Constructed
<1> QED
  BY <1>1, <1>2, <1>3, <1>4, StorageKinds

(* A string that is set to something has it.                               *)
LEMMA SetTextIsSound ==
  ASSUME NEW f \in Fields, Storage(f) = "ArenaString", NEW v, Sound(f, v),
         NEW value \in Shorter(Word)
  PROVE  Sound(f, SetText(v, value))
<1> DEFINE has == v.has \/ value # <<>>
<1>1. has \in BOOLEAN /\ (has \/ value = <<>>)
  OBVIOUS
<1> HIDE DEF has
<1>2. Sound(f, Text(has, value))
  BY <1>1, SoundTexts
<1> QED
  BY <1>2 DEF SetText, has

(* A lazy field that was written is present.                               *)
LEMMA OwnedIsSound ==
  ASSUME NEW f \in Fields, Storage(f) = "LazyField", NEW c \in Contents
  PROVE  Sound(f, Owned(c))
BY EmptyIsShort, SoundLazies DEF Owned

(* What a setter or a write through a pointer leaves.                      *)
LEMMA WritesAreSound ==
  ASSUME NEW f \in Fields, NEW v, Sound(f, v), NEW x \in ValuesOf(f)
  PROVE  /\ "set" \in Accessors(f) => Sound(f, Assigned(f, v, x))
         /\ "mutable" \in Accessors(f) => Sound(f, Mutated(f, x))
<1>1. CASE Storage(f) = "ArenaString"
  <2>1. x \in Shorter(Word)
    BY <1>1 DEF ValuesOf
  <2>2. Sound(f, SetText(v, x)) /\ Sound(f, Text(TRUE, x))
    BY <1>1, <2>1, SetTextIsSound, SoundTexts
  <2> QED
    BY <1>1, <2>2 DEF Assigned, Mutated
<1>2. CASE Storage(f) = "LazyField"
  <2>1. x \in Contents /\ Accessors(f) = {"get", "mutable"}
    BY <1>2 DEF ValuesOf, Accessors
  <2>2. Sound(f, Mutated(f, x))
    BY <1>2, <2>1, OwnedIsSound DEF Mutated
  <2> QED
    BY <2>1, <2>2
<1>3. CASE Storage(f) = "message"
  <2>1. x \in Contents /\ Accessors(f) = {"get", "mutable"}
    BY <1>3 DEF ValuesOf, Accessors
  <2>2. Sound(f, Mutated(f, x))
    BY <1>3, <2>1, SoundSubmessages DEF Mutated
  <2> QED
    BY <2>1, <2>2
<1>4. CASE Storage(f) = "scalar"
  <2>1. x \in FieldStates(f) /\ Accessors(f) = {"get", "set"}
    BY <1>4 DEF ValuesOf, Accessors
  <2>2. Sound(f, Assigned(f, v, x))
    BY <1>4, <2>1, SoundScalars DEF Assigned
  <2> QED
    BY <2>1, <2>2
<1> QED
  BY <1>1, <1>2, <1>3, <1>4, StorageKinds

(* What a getter leaves.                                                   *)
LEMMA OpenedIsSound ==
  ASSUME NEW f \in Fields, NEW v, Sound(f, v)
  PROVE  f \in Lazies => Sound(f, Opened(v))
<1> SUFFICES ASSUME f \in Lazies
             PROVE  Sound(f, Opened(v))
  OBVIOUS
<1>1. Storage(f) = "LazyField"
  BY StorageKinds
<1>2. /\ v.has \in BOOLEAN /\ v.bytes \in Shorter(Word32)
      /\ v = Lazy(v.has, v.parsed, v.bytes, v.content)
      /\ Content(v) \in Contents /\ (v.has \/ Seen[Content(v)] = Default)
  BY <1>1, SoundLazies
<1>3. [v EXCEPT !.parsed = TRUE, !.content = Content(v)]
        = Lazy(v.has, TRUE, v.bytes, Content(v))
  <2> DEFINE o == Content(v)
  <2>1. v \in [has : BOOLEAN, parsed : BOOLEAN, bytes : Shorter(Word32), content : Contents]
    BY <1>1, StatesOfKinds DEF Sound
  <2> HIDE DEF o
  <2> DEFINE a == [v EXCEPT !.parsed = TRUE, !.content = o]
  <2>2. DOMAIN v = {"has", "parsed", "bytes", "content"}
    BY <2>1
  <2>3. a = [k \in DOMAIN v |-> IF k = "content" THEN o ELSE IF k = "parsed" THEN TRUE ELSE v[k]]
    OBVIOUS
  <2>4. a = [has |-> v.has, parsed |-> TRUE, bytes |-> v.bytes, content |-> o]
    <3> HIDE DEF a
    <3> QED
      BY <2>2, <2>3
  <2> QED
    BY <2>4 DEF o, Lazy
<1>4. Sound(f, Lazy(v.has, TRUE, v.bytes, Content(v)))
  <2> DEFINE o == Content(v)
             h == v.has
             b == v.bytes
  <2>1. h \in BOOLEAN /\ b \in Shorter(Word32) /\ o \in Contents /\ (h \/ Seen[o] = Default)
    BY <1>2
  <2> HIDE DEF o, h, b
  <2>2. Sound(f, Lazy(h, TRUE, b, o))
    BY <1>1, <2>1, SoundLazies
  <2> QED
    BY <2>2 DEF o, h, b
<1> QED
  <2>1. v.parsed => Opened(v) = v
    BY DEF Opened
  <2>2. ~ v.parsed => Opened(v) = [v EXCEPT !.parsed = TRUE, !.content = Content(v)]
    BY DEF Opened
  <2> QED
    BY <1>3, <1>4, <2>1, <2>2

(* What merging leaves in the destination, and in its source.              *)
LEMMA MergeIsSound ==
  ASSUME NEW f \in Fields, NEW to, Sound(f, to), NEW source, Sound(f, source)
  PROVE  Sound(f, MergeField(f, to, source)) /\ Sound(f, Consulted(f, source))
<1>1. CASE Storage(f) = "ArenaString"
  <2>1. source.value \in Shorter(Word)
    BY <1>1, SoundTexts
  <2>2. Sound(f, SetText(to, source.value))
    BY <1>1, <2>1, SetTextIsSound
  <2> QED
    BY <1>1, <2>2 DEF MergeField, MergeText, Consulted
<1>2. CASE Storage(f) = "LazyField"
  <2>1. Sound(f, Owned(Content(source)))
    BY <1>2, SoundLazies, OwnedIsSound
  <2>2. Sound(f, Opened(source))
    BY <1>2, OpenedIsSound, StorageKinds
  <2> QED
    BY <1>2, <2>1, <2>2 DEF MergeField, Consulted
<1>3. CASE Storage(f) = "message"
  <2>1. to \in Contents /\ source \in Contents
    BY <1>3, SoundSubmessages
  <2>2. Merged[to][source] \in Contents
    BY <2>1, SubmessageAssumption
  <2> QED
    BY <1>3, <2>1, <2>2, SoundSubmessages DEF MergeField, Consulted
<1>4. CASE Storage(f) = "scalar"
  BY <1>4 DEF MergeField, Consulted
<1> QED
  BY <1>1, <1>2, <1>3, <1>4, StorageKinds

(* A length that was read, and the bytes it announces.                     *)
LEMMA ChunksAreBytes ==
  ASSUME NEW buf \in Seq(Byte), NEW word \in Nat, NEW r \in Readings(word)
  PROVE  Chunk(buf, r).ptr \in Nat /\ Chunk(buf, r).bytes \in Shorter(word)
<1>1. r.ptr \in Nat /\ r.value \in Nat /\ r.value < word
  BY DEF Readings
<1>2. /\ Memory(buf, r.ptr, r.value) \in Seq(Byte)
      /\ Len(Memory(buf, r.ptr, r.value)) = r.value
  BY <1>1, MemoryIsBytes
<1> QED
  BY <1>1, <1>2 DEF Chunk, Null, Shorter

(* What is read is sound, unless a submessage did not parse.               *)
LEMMA ReadingIsSound ==
  ASSUME NEW f \in Fields, NEW v, Sound(f, v), NEW buf \in Seq(Byte), NEW p \in Nat \ {0},
         NEW r, r = ReadField(f, v, buf, p)
  PROVE  /\ r.ptr \in Nat
         /\ r.ptr # Null => Sound(f, r.value)
         /\ r.value = NULL => Storage(f) = "message"
<1>1. Sound(f, r.value) => r.value # NULL
  BY NullAssumption DEF Sound
<1>2. ReadVarint(buf, p) \in Readings(Word) /\ ReadVarint32(buf, p) \in Readings(Word32)
  BY ReadersAreTyped
<1>3. Word \in Nat /\ Word32 \in Nat
  BY WordAssumption
<1>4. CASE Storage(f) = "ArenaString"
  <2> DEFINE chunk == Chunk(buf, ReadVarint(buf, p))
  <2>1. chunk.ptr \in Nat /\ chunk.bytes \in Shorter(Word)
    BY <1>2, <1>3, ChunksAreBytes
  <2>2. r = [ptr |-> chunk.ptr, value |-> SetText(v, chunk.bytes)]
    BY <1>4 DEF ReadField, ReadString
  <2> HIDE DEF chunk
  <2>3. Sound(f, SetText(v, chunk.bytes))
    BY <1>4, <2>1, SetTextIsSound
  <2> QED
    BY <1>1, <2>1, <2>2, <2>3
<1>5. CASE Storage(f) = "LazyField"
  <2> DEFINE chunk == Chunk(buf, ReadVarint32(buf, p))
  <2>1. chunk.ptr \in Nat /\ chunk.bytes \in Shorter(Word32)
    BY <1>2, <1>3, ChunksAreBytes
  <2>2. r = [ptr |-> chunk.ptr, value |-> Deferred(v, chunk.bytes)]
    BY <1>5 DEF ReadField, ReadLazy
  <2> HIDE DEF chunk
  <2>3. v.content \in Contents
    BY <1>5, SoundLazies
  <2>4. Sound(f, Lazy(TRUE, FALSE, chunk.bytes, v.content))
    <3>1. TRUE \in BOOLEAN /\ FALSE \in BOOLEAN
      OBVIOUS
    <3> QED
      BY <1>5, <2>1, <2>3, <3>1, SoundLazies, Zenon
  <2>5. Sound(f, Deferred(v, chunk.bytes))
    BY <2>4, Zenon DEF Deferred
  <2> QED
    BY <1>1, <2>1, <2>2, <2>5
<1>6. CASE Storage(f) = "message"
  <2> DEFINE chunk == Chunk(buf, ReadVarint(buf, p))
  <2>1. chunk.ptr \in Nat /\ chunk.bytes \in Shorter(Word)
    BY <1>2, <1>3, ChunksAreBytes
  <2> DEFINE bytes == SubSeq(chunk.bytes, 1, Len(chunk.bytes) % Word32)
             fits  == ~IsNegative(Len(chunk.bytes))
  <2>2. r = IF chunk.ptr = Null THEN [ptr |-> Null, value |-> v]
            ELSE IF fits /\ Parses(bytes) THEN [ptr |-> chunk.ptr, value |-> Decoded[bytes]]
            ELSE [ptr |-> Null, value |-> NULL]
    BY <1>6 DEF ReadField, ReadSubmessage
  <2> HIDE DEF chunk, bytes, fits
  <2>3. Parses(bytes) => Decoded[bytes] \in Contents
    BY SubmessageAssumption DEF Parses
  <2>4. Parses(bytes) => Sound(f, Decoded[bytes])
    BY <1>6, <2>3, SoundSubmessages
  <2> QED
    BY <1>6, <2>1, <2>2, <2>4 DEF Null
<1>7. CASE Storage(f) = "scalar"
  <2>1. r = ReadScalar(Type[f], buf, p)
    BY <1>7 DEF ReadField
  <2>2. r.ptr \in Nat /\ r.value \in FieldStates(f)
    BY <1>7, <2>1, ScalarsAreRead
  <2>3. Sound(f, r.value)
    BY <1>7, <2>2, SoundScalars
  <2> QED
    BY <1>1, <2>2, <2>3
<1> QED
  BY <1>4, <1>5, <1>6, <1>7, StorageKinds

(***************************************************************************)
(* What is measured is written.                                            *)
(***************************************************************************)

(* The size of a tag, which the generator writes as a literal, is that of  *)
(* the bytes.                                                              *)
LEMMA TagsAreMeasured ==
  ASSUME NEW f \in Fields
  PROVE  /\ Tag(f) \in Nat
         /\ WriteTag(f) \in Seq(Byte) /\ Len(WriteTag(f)) = TagSize(f)
         /\ TagSize(f) \in Nat \ {0}
<1>1. Tag(f) \in Nat
  <2>1. FieldNumber[f] \in Nat
    BY FieldAssumption
  <2>2. \A type : wire_type(type) \in Nat
    BY DEF wire_type, FIXED64, FIXED32, LENGTH_DELIMITED, VARINT
  <2> QED
    BY <2>1, <2>2 DEF Tag, TagOf
<1> QED
  BY <1>1, NumbersAreMeasured DEF WriteTag, TagSize

(* Scalars take as many bytes as are counted.                              *)
LEMMA PayloadsAreMeasured ==
  ASSUME NEW f \in Fields, Storage(f) = "scalar", NEW v \in FieldStates(f)
  PROVE  /\ ScalarBytes(Type[f], v) \in Seq(Byte)
         /\ Len(ScalarBytes(Type[f], v)) = ScalarSize(Type[f], v)
         /\ ScalarSize(Type[f], v) \in Nat
BY StatesOfScalars, ScalarIsMeasured

(* A tag, a length and that many bytes, with either writer of lengths.     *)
LEMMA DelimitedAreMeasured ==
  ASSUME NEW f \in Fields, NEW bytes \in Seq(Byte)
  PROVE  /\ WriteTag(f) \o Delimited(bytes) \in Seq(Byte)
         /\ Len(WriteTag(f) \o Delimited(bytes))
              = TagSize(f) + VarintSize(Len(bytes)) + Len(bytes)
         /\ WriteTag(f) \o WriteLengthDelimitedBytes(bytes) \in Seq(Byte)
         /\ Len(WriteTag(f) \o WriteLengthDelimitedBytes(bytes))
              = TagSize(f) + (Varint32Size(Len(bytes)) + Len(bytes))
         /\ Varint32Size(Len(bytes)) + Len(bytes) \in Nat \ {0}
<1> DEFINE n == Len(bytes)
           m == n % Word32
           a == WriteTag(f)
           b == WriteVarint(n)
           c == WriteVarint(m)
<1>1. n \in Nat /\ m \in Nat
  <2>1. Word32 \in Nat \ {0}
    BY WordAssumption
  <2>2. n \in Nat
    OBVIOUS
  <2>3. m \in 0 .. Word32 - 1
    <3> HIDE DEF n
    <3> QED
      BY <2>1, <2>2, Divides
  <2> QED
    BY <2>1, <2>2, <2>3
<1>2. a \in Seq(Byte) /\ Len(a) = TagSize(f) /\ TagSize(f) \in Nat
  BY TagsAreMeasured
<1>3. /\ b \in Seq(Byte) /\ Len(b) = VarintSize(n)
      /\ c \in Seq(Byte) /\ Len(c) = VarintSize(m) /\ VarintSize(m) \in Nat \ {0}
  BY <1>1, NumbersAreMeasured
<1>4. /\ Delimited(bytes) = b \o bytes /\ WriteLengthDelimitedBytes(bytes) = c \o bytes
      /\ Varint32Size(Len(bytes)) = VarintSize(m)
  BY DEF Delimited, WriteLengthDelimitedBytes, WriteVarint32, Varint32Size
<1> HIDE DEF a, b, c, m
<1>5. /\ b \o bytes \in Seq(Byte) /\ Len(b \o bytes) = Len(b) + n
      /\ c \o bytes \in Seq(Byte) /\ Len(c \o bytes) = Len(c) + n
  BY <1>3, LengthsAdd
<1>6. /\ a \o (b \o bytes) \in Seq(Byte) /\ Len(a \o (b \o bytes)) = Len(a) + Len(b \o bytes)
      /\ a \o (c \o bytes) \in Seq(Byte) /\ Len(a \o (c \o bytes)) = Len(a) + Len(c \o bytes)
  BY <1>2, <1>5, LengthsAdd
<1>7. VarintSize(n) \in Nat
  BY <1>1, NumbersAreMeasured
<1> HIDE DEF n
<1>8. /\ Len(a) + (Len(b) + n) = TagSize(f) + VarintSize(n) + n
      /\ Len(a) + (Len(c) + n) = TagSize(f) + (VarintSize(m) + n)
      /\ VarintSize(m) + n \in Nat \ {0}
  BY <1>1, <1>2, <1>3, <1>7
<1> QED
  BY <1>4, <1>5, <1>6, <1>8 DEF a, n

Measured(f, v) ==
  FieldBytes(f, v) \in Seq(Byte) /\ FieldSize(f, v) = Len(FieldBytes(f, v))

(* A field has as many bytes as are counted for it.                        *)
LEMMA FieldsAreMeasured ==
  ASSUME NEW f \in Fields, NEW v, Sound(f, v)
  PROVE  Measured(f, v)
<1>1. <<>> \in Seq(Byte) /\ Len(<<>>) = 0
  OBVIOUS
<1>2. CASE Storage(f) = "ArenaString"
  <2>1. v.has \in BOOLEAN /\ v.value \in Seq(Byte)
    BY <1>2, SoundTexts
  <2>2. /\ FieldSize(f, v) = IF v.has THEN TagSize(f) + VarintSize(Len(v.value)) + Len(v.value)
                             ELSE 0
        /\ FieldBytes(f, v) = IF v.has THEN WriteTag(f) \o Delimited(v.value) ELSE <<>>
    BY <1>2 DEF FieldSize, FieldBytes, StringSize
  <2>3. /\ WriteTag(f) \o Delimited(v.value) \in Seq(Byte)
        /\ Len(WriteTag(f) \o Delimited(v.value))
             = TagSize(f) + VarintSize(Len(v.value)) + Len(v.value)
    BY <2>1, DelimitedAreMeasured
  <2> QED
    BY <1>1, <2>2, <2>3 DEF Measured
<1>3. CASE Storage(f) = "LazyField"
  <2> DEFINE payload == LazyPayload(v)
  <2>1. FieldSize(f, v) = (IF LazySize(v) > 0 THEN TagSize(f) + LazySize(v) ELSE 0)
        /\ FieldBytes(f, v) = (IF LazySize(v) > 0
                               THEN WriteTag(f) \o WriteLengthDelimitedBytes(payload) ELSE <<>>)
    BY <1>3 DEF FieldSize, FieldBytes
  <2>2. LazySize(v) = IF payload = NULL THEN 0 ELSE Varint32Size(Len(payload)) + Len(payload)
    BY DEF LazySize
  <2>3. payload = NULL \/ payload \in Seq(Byte)
    <3>1. v.bytes \in Seq(Byte) /\ v.content \in Contents
      BY <1>3, SoundLazies
    <3>2. Encoded[v.content] \in Seq(Byte)
      BY <3>1, EncodedIsShort
    <3> QED
      BY <3>1, <3>2 DEF LazyPayload
  <2> HIDE DEF payload
  <2>4. CASE payload = NULL
    <3>1. ~ (LazySize(v) > 0)
      BY <2>2, <2>4
    <3> QED
      BY <1>1, <2>1, <3>1 DEF Measured
  <2>5. CASE payload # NULL
    <3>1. payload \in Seq(Byte) /\ LazySize(v) = Varint32Size(Len(payload)) + Len(payload)
      BY <2>2, <2>3, <2>5
    <3>2. /\ WriteTag(f) \o WriteLengthDelimitedBytes(payload) \in Seq(Byte)
          /\ Len(WriteTag(f) \o WriteLengthDelimitedBytes(payload)) = TagSize(f) + LazySize(v)
          /\ LazySize(v) \in Nat \ {0}
      BY <3>1, DelimitedAreMeasured
    <3>3. LazySize(v) > 0
      BY <3>2
    <3> QED
      BY <2>1, <3>2, <3>3 DEF Measured
  <2> QED
    BY <2>4, <2>5
<1>4. CASE Storage(f) = "message"
  <2> DEFINE payload == Encoded[v]
  <2>1. payload \in Seq(Byte)
    BY <1>4, SoundSubmessages, EncodedIsShort
  <2>2. /\ FieldSize(f, v) = IF Len(payload) > 0
                             THEN TagSize(f) + VarintSize(Len(payload)) + Len(payload) ELSE 0
        /\ FieldBytes(f, v) = IF Len(payload) > 0 THEN WriteTag(f) \o Delimited(payload)
                              ELSE <<>>
    BY <1>4 DEF FieldSize, FieldBytes
  <2> HIDE DEF payload
  <2>3. /\ WriteTag(f) \o Delimited(payload) \in Seq(Byte)
        /\ Len(WriteTag(f) \o Delimited(payload))
             = TagSize(f) + VarintSize(Len(payload)) + Len(payload)
    BY <2>1, DelimitedAreMeasured
  <2> QED
    BY <1>1, <2>2, <2>3 DEF Measured
<1>5. CASE Storage(f) = "scalar"
  <2> DEFINE bytes == ScalarBytes(Type[f], v)
             size == ScalarSize(Type[f], v)
  <2>1. bytes \in Seq(Byte) /\ Len(bytes) = size
    BY <1>5, SoundScalars, PayloadsAreMeasured
  <2>2. /\ FieldSize(f, v) = IF IsDefaultLiteral(Type[f], v) THEN 0 ELSE TagSize(f) + size
        /\ FieldBytes(f, v) = IF IsDefaultLiteral(Type[f], v) THEN <<>> ELSE WriteTag(f) \o bytes
    BY <1>5 DEF FieldSize, FieldBytes
  <2> HIDE DEF bytes, size
  <2>3. WriteTag(f) \o bytes \in Seq(Byte) /\ Len(WriteTag(f) \o bytes) = TagSize(f) + size
    BY <2>1, TagsAreMeasured, LengthsAdd
  <2> QED
    BY <1>1, <2>2, <2>3 DEF Measured
<1> QED
  BY <1>2, <1>3, <1>4, <1>5, StorageKinds

(***************************************************************************)
(* Merging.                                                                *)
(***************************************************************************)

(* What is not empty begins with a tag.                                    *)
LEMMA NothingIsWritten ==
  ASSUME NEW f \in Fields, NEW v, Sound(f, v), FieldBytes(f, v) = <<>>
  PROVE  /\ Storage(f) \in {"ArenaString", "LazyField"} => ~ v.has
         /\ Storage(f) = "message" => ~ (Len(Encoded[v]) > 0)
         /\ Storage(f) = "scalar" => IsDefaultLiteral(Type[f], v)
<1>1. \A bytes \in Seq(Byte) : WriteTag(f) \o bytes # <<>>
  <2> SUFFICES ASSUME NEW bytes \in Seq(Byte)
               PROVE  WriteTag(f) \o bytes # <<>>
    OBVIOUS
  <2>1. WriteTag(f) \in Seq(Byte) /\ Len(WriteTag(f)) \in Nat \ {0}
    BY TagsAreMeasured
  <2>2. Len(WriteTag(f) \o bytes) = Len(WriteTag(f)) + Len(bytes) /\ Len(bytes) \in Nat
    BY <2>1, LengthsAdd
  <2>3. Len(<<>>) = 0
    OBVIOUS
  <2> QED
    BY <2>1, <2>2, <2>3
<1>2. \A bytes \in Seq(Byte) :
        Delimited(bytes) \in Seq(Byte) /\ WriteLengthDelimitedBytes(bytes) \in Seq(Byte)
  <2> SUFFICES ASSUME NEW bytes \in Seq(Byte)
               PROVE  Delimited(bytes) \in Seq(Byte)
                      /\ WriteLengthDelimitedBytes(bytes) \in Seq(Byte)
    OBVIOUS
  <2>1. Len(bytes) \in Nat /\ Word32 \in Nat \ {0}
    BY WordAssumption
  <2>2. Len(bytes) % Word32 \in Nat
    BY <2>1, Divides
  <2>3. WriteVarint(Len(bytes)) \in Seq(Byte) /\ WriteVarint(Len(bytes) % Word32) \in Seq(Byte)
    BY <2>1, <2>2, NumbersAreMeasured
  <2> QED
    BY <2>3, LengthsAdd DEF Delimited, WriteLengthDelimitedBytes, WriteVarint32
<1>3. CASE Storage(f) = "ArenaString"
  <2>1. FieldBytes(f, v) = IF v.has THEN WriteTag(f) \o Delimited(v.value) ELSE <<>>
    BY <1>3 DEF FieldBytes
  <2> QED
    BY <1>1, <1>2, <1>3, <2>1, SoundTexts
<1>4. CASE Storage(f) = "LazyField"
  <2> DEFINE payload == LazyPayload(v)
  <2>1. FieldBytes(f, v) = IF LazySize(v) > 0
                           THEN WriteTag(f) \o WriteLengthDelimitedBytes(payload) ELSE <<>>
    BY <1>4 DEF FieldBytes
  <2>2. v.has => payload \in Seq(Byte)
    <3>1. v.bytes \in Seq(Byte) /\ v.content \in Contents
      BY <1>4, SoundLazies
    <3>2. Encoded[v.content] \in Seq(Byte)
      BY <3>1, EncodedIsShort
    <3> QED
      BY <3>1, <3>2 DEF LazyPayload
  <2>3. LazySize(v) = IF payload = NULL THEN 0 ELSE Varint32Size(Len(payload)) + Len(payload)
    BY DEF LazySize
  <2> HIDE DEF payload
  <2>4. ASSUME v.has
        PROVE  FALSE
    <3>1. payload \in Seq(Byte) /\ payload # NULL
      BY <2>2, <2>4, NullAssumption
    <3>2. LazySize(v) \in Nat \ {0}
      BY <2>3, <3>1, DelimitedAreMeasured
    <3>3. LazySize(v) > 0
      BY <3>2
    <3> QED
      BY <1>1, <1>2, <2>1, <3>1, <3>3
  <2> QED
    BY <1>4, <2>4
<1>5. CASE Storage(f) = "message"
  <2>1. Encoded[v] \in Seq(Byte)
    BY <1>5, SoundSubmessages, EncodedIsShort
  <2>2. FieldBytes(f, v) = IF Len(Encoded[v]) > 0 THEN WriteTag(f) \o Delimited(Encoded[v])
                           ELSE <<>>
    BY <1>5 DEF FieldBytes
  <2> QED
    BY <1>1, <1>2, <1>5, <2>1, <2>2
<1>6. CASE Storage(f) = "scalar"
  <2>1. ScalarBytes(Type[f], v) \in Seq(Byte)
    BY <1>6, SoundScalars, PayloadsAreMeasured
  <2>2. FieldBytes(f, v) = IF IsDefaultLiteral(Type[f], v) THEN <<>>
                           ELSE WriteTag(f) \o ScalarBytes(Type[f], v)
    BY <1>6 DEF FieldBytes
  <2> QED
    BY <1>1, <1>6, <2>1, <2>2
<1> QED
  BY <1>3, <1>4, <1>5, <1>6, StorageKinds

(* What was written is read.                                               *)
LEMMA OwnedIsObserved ==
  ASSUME NEW f \in Fields, Storage(f) = "LazyField", NEW c
  PROVE  Observed(f, Owned(c)) = Seen[c]
BY DEF Observed, Content, Owned, Lazy

(* A member that writes nothing, merged into another.                      *)
LEMMA EmptyIsMerged ==
  ASSUME NEW f \in Fields, NEW to, NEW source, Sound(f, source), FieldBytes(f, source) = <<>>
  PROVE  Observed(f, MergeField(f, to, source)) = IF f \in Lazies THEN Default ELSE Observed(f, to)
<1>1. CASE Storage(f) = "LazyField"
  <2>1. ~ source.has /\ f \in Lazies /\ Observed(f, source) = Default
    BY <1>1, NothingIsWritten, SoundLazies, StorageKinds
  <2>2. MergeField(f, to, source) = Owned(Content(source))
    BY <1>1, <2>1 DEF MergeField, LazyInitialized
  <2>3. Observed(f, source) = Seen[Content(source)]
    BY <1>1, SoundLazies
  <2> QED
    BY <1>1, <2>1, <2>2, <2>3, OwnedIsObserved
<1>2. CASE Storage(f) # "LazyField"
  <2>1. f \notin Lazies /\ MergeField(f, to, source) = to
    BY <1>2, NothingIsWritten, StorageKinds DEF MergeField, MergeText
  <2> QED
    BY <2>1
<1> QED
  BY <1>1, <1>2

(* Merging into an empty submessage copies.  It does in classes without    *)
(* lazy fields, which merging makes present.                               *)
MergingCopies == \A c \in Contents : Seen[Merged[Default][c]] = Seen[c]

(* What has no bytes shows the empty submessage.                           *)
LEMMA OnlyDefaultIsEmpty == \A c \in Contents : Encoded[c] = <<>> => Seen[c] = Default
BY SubmessageAssumption

(* A member, merged into a cleared one.                                    *)
LEMMA ClearedIsMerged ==
  ASSUME MergingCopies, NEW f \in Fields, NEW source, Sound(f, source)
  PROVE  Observed(f, MergeField(f, Cleared(f), source)) =
           IF f \in Lazies /\ Observed(f, source) \notin Complete THEN Default
           ELSE Settled(f, Observed(f, source))
<1>1. CASE Storage(f) = "ArenaString"
  <2>1. /\ f \notin Lazies /\ Settled(f, Observed(f, source)) = source.value
        /\ Cleared(f) = Text(FALSE, <<>>)
    BY <1>1, StorageKinds DEF Settled, Observed, Cleared
  <2>2. source.has \/ source.value = <<>>
    BY <1>1 DEF Sound
  <2>3. MergeField(f, Cleared(f), source) = IF source.has THEN SetText(Cleared(f), source.value)
                                            ELSE Cleared(f)
    BY <1>1 DEF MergeField, MergeText
  <2> QED
    BY <1>1, <2>1, <2>2, <2>3 DEF Observed, SetText, Text
<1>2. CASE Storage(f) = "LazyField"
  <2> DEFINE c == Content(source)
             o == Observed(f, source)
  <2>1. /\ f \in Lazies /\ Settled(f, o) = o /\ (source.has \/ o = Default)
        /\ c \in Contents /\ o = Seen[c]
    BY <1>2, StorageKinds, SoundLazies DEF Settled
  <2>2. c \in Complete <=> o \in Complete
    BY <2>1, SubmessageAssumption
  <2>3. MergeField(f, Cleared(f), source) = IF source.has /\ o \notin Complete THEN Cleared(f)
                                            ELSE Owned(c)
    BY <1>2, <2>2 DEF MergeField, LazyInitialized
  <2>4. Observed(f, Cleared(f)) = Default
    BY <1>2, MeaningsAreContents DEF Observed, Content, Cleared, Lazy
  <2>5. Observed(f, Owned(c)) = o
    BY <1>2, <2>1, OwnedIsObserved
  <2> HIDE DEF c, o
  <2>6. Observed(f, MergeField(f, Cleared(f), source)) = IF o \in Complete THEN o ELSE Default
    BY <2>1, <2>3, <2>4, <2>5
  <2> QED
    BY <2>1, <2>6 DEF o
<1>3. CASE Storage(f) = "message"
  <2>1. /\ f \notin Lazies /\ Settled(f, Observed(f, source)) = Seen[source]
        /\ Cleared(f) = Default /\ Observed(f, source) = Seen[source]
    BY <1>3, StorageKinds DEF Settled, Observed, Cleared
  <2>2. source \in Contents /\ Encoded[source] \in Seq(Byte)
    BY <1>3, SoundSubmessages, EncodedIsShort
  <2>3. MergeField(f, Default, source) =
          IF Len(Encoded[source]) > 0 THEN Merged[Default][source] ELSE Default
    BY <1>3 DEF MergeField
  <2>4. ~ (Len(Encoded[source]) > 0) => Encoded[source] = <<>>
    BY <2>2
  <2>5. Seen[MergeField(f, Default, source)] = Seen[source]
    BY <2>2, <2>3, <2>4, OnlyDefaultIsEmpty, MeaningsAreContents DEF MergingCopies
  <2>6. Observed(f, MergeField(f, Default, source)) = Seen[MergeField(f, Default, source)]
    BY <1>3 DEF Observed
  <2> QED
    BY <2>1, <2>5, <2>6
<1>4. CASE Storage(f) = "scalar"
  <2>1. f \notin Lazies
    BY <1>4, StorageKinds
  <2> QED
    BY <1>4, <2>1 DEF Settled, Observed, Cleared, MergeField
<1> QED
  BY <1>1, <1>2, <1>3, <1>4, StorageKinds

(* Being merged does not change what a field reads as.                     *)
LEMMA ConsultingIsReading ==
  ASSUME NEW f \in Fields, NEW v, Sound(f, v)
  PROVE  Observed(f, Consulted(f, v)) = Observed(f, v)
<1>1. CASE Storage(f) = "LazyField" /\ ~ v.parsed
  <2> DEFINE o == Content(v)
             a == [v EXCEPT !.parsed = TRUE, !.content = o]
  <2>1. Consulted(f, v) = a
    BY <1>1 DEF Consulted, Opened
  <2>2. v \in [has : BOOLEAN, parsed : BOOLEAN, bytes : Shorter(Word32), content : Contents]
    BY <1>1, StatesOfKinds DEF Sound
  <2> HIDE DEF o
  <2>3. a.parsed /\ a.content = o
    BY <2>2
  <2> HIDE DEF a
  <2>4. Observed(f, a) = Seen[o]
    BY <1>1, <2>3 DEF Observed, Content
  <2> QED
    BY <1>1, <2>1, <2>4 DEF o, Observed
<1>2. CASE ~ (Storage(f) = "LazyField" /\ ~ v.parsed)
  BY <1>2 DEF Consulted, Opened
<1> QED
  BY <1>1, <1>2

(***************************************************************************)
(* Reading what was written.                                               *)
(***************************************************************************)

(* The bytes behind a length are found.                                    *)
LEMMA ChunksAreFound ==
  ASSUME NEW buf \in Seq(Byte), NEW p \in Nat \ {0}, NEW bytes \in Seq(Byte)
  PROVE  /\ Len(bytes) < Word /\ Holds(buf, p, Delimited(bytes)) =>
              Chunk(buf, ReadVarint(buf, p)) = [ptr |-> p + Len(Delimited(bytes)), bytes |-> bytes]
         /\ Len(bytes) < Word32 /\ Holds(buf, p, Delimited(bytes)) =>
              Chunk(buf, ReadVarint32(buf, p)) = [ptr |-> p + Len(Delimited(bytes)), bytes |-> bytes]
         /\ Len(bytes) < Word32 => WriteLengthDelimitedBytes(bytes) = Delimited(bytes)
<1> DEFINE n == Len(bytes)
           w == WriteVarint(n)
           q == p + Len(w)
<1>1. n \in Nat /\ w \in Seq(Byte) /\ Len(w) \in Nat /\ q \in Nat \ {0}
  <2>1. n \in Nat
    OBVIOUS
  <2>2. w \in Seq(Byte) /\ Len(w) \in Nat
    BY <2>1, NumbersAreMeasured
  <2> HIDE DEF w
  <2> QED
    BY <2>1, <2>2
<1>2. Delimited(bytes) = w \o bytes
  BY DEF Delimited
<1> HIDE DEF w
<1>3. p + Len(Delimited(bytes)) = q + n
  BY <1>1, <1>2
<1>4. ASSUME Holds(buf, p, Delimited(bytes)), NEW r, r = [ptr |-> q, value |-> n]
      PROVE  Chunk(buf, r) = [ptr |-> p + Len(Delimited(bytes)), bytes |-> bytes]
  <2>1. Holds(buf, q, bytes)
    BY <1>1, <1>2, <1>4, BothStand
  <2>2. Memory(buf, q, n) = bytes
    BY <1>1, <2>1, MemoryFinds
  <2> HIDE DEF q, n
  <2>3. r.ptr = q /\ r.value = n /\ q # Null
    BY <1>1, <1>4 DEF Null
  <2>4. Chunk(buf, r) = [ptr |-> q + n, bytes |-> Memory(buf, q, n)]
    BY <2>3 DEF Chunk
  <2> QED
    BY <1>3, <2>2, <2>4
<1>5. ASSUME Holds(buf, p, Delimited(bytes))
      PROVE  Holds(buf, p, WriteVarint(n))
  BY <1>1, <1>2, <1>5, BothStand DEF w
<1>6. /\ n < Word /\ Holds(buf, p, Delimited(bytes)) =>
           ReadVarint(buf, p) = [ptr |-> q, value |-> n]
      /\ n < Word32 /\ Holds(buf, p, Delimited(bytes)) =>
           ReadVarint32(buf, p) = [ptr |-> q, value |-> n]
  BY <1>1, <1>5, NumbersAreFound DEF w
<1>7. n < Word32 => WriteLengthDelimitedBytes(bytes) = Delimited(bytes)
  <2>1. ASSUME n < Word32
        PROVE  n % Word32 = n
    <3>1. Word32 \in Nat /\ n \in 0 .. Word32 - 1
      BY <1>1, <2>1, WordAssumption
    <3> HIDE DEF n
    <3> QED
      BY <3>1, LittleRemains
  <2> QED
    BY <2>1 DEF WriteLengthDelimitedBytes, WriteVarint32, Delimited
<1> QED
  BY <1>4, <1>6, <1>7

(* The tags of a class are short, differ from each other, and are not 0.   *)
LEMMA TagsDiffer ==
  ASSUME NEW f \in Fields
  PROVE  /\ Tag(f) \in Nat /\ Tag(f) < Word32 /\ Tag(f) # 0
         /\ \A g \in Fields : Tag(g) = Tag(f) => g = f
<1>1. \A type : wire_type(type) \in 0 .. 7
  BY DEF wire_type, FIXED64, FIXED32, LENGTH_DELIMITED, VARINT
<1>2. \A g \in Fields : FieldNumber[g] \in Nat \ {0}
  BY FieldAssumption
<1>3. FieldNumber[f] * 8 + 7 < Word32 /\ Word32 \in Nat
  BY FieldAssumption, WordAssumption DEF TagOf
<1>4. \A g \in Fields : Tag(g) = FieldNumber[g] * 8 + wire_type(Type[g])
  BY DEF Tag, TagOf
<1>5. Tag(f) \in Nat /\ Tag(f) < Word32 /\ Tag(f) # 0
  <2> DEFINE a == FieldNumber[f]
             b == wire_type(Type[f])
  <2>1. a \in Nat \ {0} /\ b \in 0 .. 7 /\ a * 8 + 7 < Word32 /\ Tag(f) = a * 8 + b
    BY <1>1, <1>2, <1>3, <1>4
  <2> HIDE DEF a, b
  <2> QED
    BY <1>3, <2>1
<1>6. ASSUME NEW g \in Fields, Tag(g) = Tag(f)
      PROVE  g = f
  <2> DEFINE a == FieldNumber[f]
             b == wire_type(Type[f])
             c == FieldNumber[g]
             d == wire_type(Type[g])
  <2>1. a \in Nat /\ b \in 0 .. 7 /\ c \in Nat /\ d \in 0 .. 7 /\ a * 8 + b = c * 8 + d
    BY <1>1, <1>2, <1>4, <1>6
  <2>2. DOMAIN FieldNumber = Fields /\ (FieldNumber[g] = FieldNumber[f] => g = f)
    BY FieldAssumption DEF IsInjective
  <2> HIDE DEF a, b, c, d
  <2>3. a = c
    BY <2>1
  <2> QED
    BY <2>2, <2>3 DEF a, c
<1> QED
  BY <1>5, <1>6

(* A tag that was written is read.                                         *)
LEMMA TagsAreFound ==
  ASSUME NEW f \in Fields, NEW buf \in Seq(Byte), NEW p \in Nat \ {0}, Holds(buf, p, WriteTag(f))
  PROVE  ReadTag(buf, p) = [ptr |-> p + Len(WriteTag(f)), value |-> Tag(f)]
<1> DEFINE r == ReadVarint(buf, p)
           q == p + Len(WriteTag(f))
<1>1. Tag(f) \in Nat /\ Tag(f) < Word32 /\ Tag(f) < Word
  BY TagsDiffer, WordAssumption
<1>2. r = [ptr |-> q, value |-> Tag(f)]
  BY <1>1, NumbersAreFound DEF WriteTag
<1>3. q \in Nat /\ q # Null
  <2>1. Len(WriteTag(f)) \in Nat
    BY TagsAreMeasured
  <2> QED
    BY <2>1 DEF Null
<1>4. Tag(f) % Word32 = Tag(f)
  <2>1. Word32 \in Nat /\ Tag(f) \in 0 .. Word32 - 1
    BY <1>1, WordAssumption
  <2> QED
    BY <2>1, LittleRemains
<1>5. ReadTag(buf, p) = IF r.ptr = Null THEN [ptr |-> p, value |-> 0]
                        ELSE [r EXCEPT !.value = @ % Word32]
  BY DEF ReadTag
<1> HIDE DEF r, q
<1> QED
  BY <1>2, <1>3, <1>4, <1>5 DEF q

(* A scalar that was written is read.                                      *)
LEMMA ScalarsAreFound ==
  ASSUME NEW f \in Fields, Storage(f) = "scalar", NEW v \in FieldStates(f),
         NEW buf \in Seq(Byte), NEW p \in Nat \ {0}, Holds(buf, p, ScalarBytes(Type[f], v))
  PROVE  ReadScalar(Type[f], buf, p) = [ptr |-> p + Len(ScalarBytes(Type[f], v)), value |-> v]
BY StatesOfScalars, ScalarIsFound

(* An eager submessage that does not parse,                                *)
Stuck(f, v) ==
  /\ Type[f] = "message" /\ f \notin Lazies
  /\ FieldBytes(f, v) # <<>> /\ Observed(f, v) \notin Complete

(* and what is read of any other field.                                    *)
Arrived(f, v, x) ==
  Observed(f, x) = IF Type[f] = "message" /\ Observed(f, v) \notin Complete THEN Default
                   ELSE Settled(f, Observed(f, v))

(* A submessage of which nothing is written shows no fields.               *)
LEMMA EmptyIsDefault ==
  ASSUME NEW f \in Fields, Type[f] = "message", NEW v, Sound(f, v), FieldBytes(f, v) = <<>>
  PROVE  Observed(f, v) = Default
<1>1. CASE Storage(f) = "LazyField"
  <2>1. ~ v.has
    BY <1>1, NothingIsWritten
  <2> QED
    BY <1>1, <2>1, SoundLazies
<1>2. CASE Storage(f) = "message"
  <2>1. v \in Contents /\ Encoded[v] \in Seq(Byte) /\ ~ (Len(Encoded[v]) > 0)
    BY <1>2, NothingIsWritten, SoundSubmessages, EncodedIsShort
  <2>2. Encoded[v] = <<>>
    BY <2>1
  <2> QED
    BY <1>2, <2>1, <2>2, OnlyDefaultIsEmpty DEF Observed
<1> QED
  BY <1>1, <1>2, StorageKinds DEF StringTypes, ScalarTypes, cpp_scalar_type

(* A field of which nothing is written is read as an empty one.            *)
LEMMA EmptyArrives ==
  ASSUME NEW f \in Fields, NEW v, Sound(f, v), FieldBytes(f, v) = <<>>
  PROVE  ~ Stuck(f, v) /\ Arrived(f, v, Cleared(f))
<1>1. CASE Storage(f) = "ArenaString"
  <2>1. v.value = <<>> /\ Type[f] # "message"
    <3>1. ~ v.has /\ Type[f] \in StringTypes
      BY <1>1, NothingIsWritten, StorageKinds
    <3> QED
      BY <1>1, <3>1 DEF Sound, StringTypes
  <2> QED
    BY <1>1, <2>1 DEF Stuck, Arrived, Observed, Cleared, Settled, Text
<1>2. CASE Storage(f) = "LazyField"
  <2>1. f \in Lazies /\ Observed(f, v) = Default
    BY <1>2, NothingIsWritten, StorageKinds, SoundLazies
  <2>2. Observed(f, Cleared(f)) = Default
    BY <1>2, MeaningsAreContents DEF Observed, Content, Cleared, Lazy
  <2> QED
    BY <1>2, <2>1, <2>2 DEF Stuck, Arrived, Settled
<1>3. CASE Storage(f) = "message"
  <2>1. v \in Contents /\ ~ (Len(Encoded[v]) > 0)
    BY <1>3, NothingIsWritten, SoundSubmessages
  <2>2. Encoded[v] = <<>>
    BY <2>1, EncodedIsShort
  <2>3. Seen[v] = Default /\ Seen[Default] = Default
    BY <2>1, <2>2, OnlyDefaultIsEmpty, MeaningsAreContents
  <2> QED
    BY <1>3, <2>3 DEF Stuck, Arrived, Observed, Cleared, Settled
<1>4. CASE Storage(f) = "scalar"
  <2>1. IsDefaultLiteral(Type[f], v) /\ Type[f] # "message"
    <3>1. Type[f] \in ScalarTypes
      BY <1>4, StorageKinds
    <3> QED
      BY <1>4, <3>1, NothingIsWritten DEF ScalarTypes, cpp_scalar_type
  <2> QED
    BY <1>4, <2>1 DEF Stuck, Arrived, Observed, Cleared, Settled
<1> QED
  BY <1>1, <1>2, <1>3, <1>4, StorageKinds

(* The payload of a field of which something is written.                   *)
Payload(f, v) ==
  CASE Storage(f) = "ArenaString" -> Delimited(v.value)
    [] Storage(f) = "LazyField"   -> WriteLengthDelimitedBytes(LazyPayload(v))
    [] Storage(f) = "message"     -> Delimited(Encoded[v])
    [] OTHER                      -> ScalarBytes(Type[f], v)

LEMMA PayloadIsWritten ==
  ASSUME NEW f \in Fields, NEW v, Sound(f, v), FieldBytes(f, v) # <<>>
  PROVE  /\ FieldBytes(f, v) = WriteTag(f) \o Payload(f, v)
         /\ Storage(f) = "LazyField" =>
              v.has /\ LazyPayload(v) \in Seq(Byte) /\ Len(LazyPayload(v)) < Word32
         /\ Storage(f) = "scalar" => ~ IsDefaultLiteral(Type[f], v)
<1>1. FieldBytes(f, v) = WriteTag(f) \o Payload(f, v)
  BY DEF FieldBytes, Payload
<1>2. CASE Storage(f) = "LazyField"
  <2>1. FieldBytes(f, v) # <<>> => LazySize(v) > 0
    BY <1>2 DEF FieldBytes
  <2>2. v.has
    <3>1. ~ v.has => LazyPayload(v) = NULL
      BY DEF LazyPayload
    <3>2. LazyPayload(v) = NULL => LazySize(v) = 0
      BY DEF LazySize
    <3>3. ~ (0 > 0)
      OBVIOUS
    <3> QED
      BY <2>1, <3>1, <3>2, <3>3
  <2>3. v.bytes \in Shorter(Word32) /\ v.content \in Contents
    BY <1>2, SoundLazies
  <2>4. LazyPayload(v) \in Shorter(Word32)
    BY <2>2, <2>3, EncodedIsShort DEF LazyPayload
  <2> QED
    BY <1>1, <1>2, <2>2, <2>4 DEF Shorter
<1>3. CASE Storage(f) = "scalar"
  BY <1>1, <1>3 DEF FieldBytes
<1> QED
  BY <1>1, <1>2, <1>3

(* The payload of a field is read, whatever the member was, except that of *)
(* a submessage that does not parse.                                       *)
LEMMA PayloadsArrive ==
  ASSUME NEW f \in Fields, NEW v, Sound(f, v), FieldBytes(f, v) # <<>>,
         NEW buf \in Seq(Byte), NEW p \in Nat \ {0}, Holds(buf, p, Payload(f, v)),
         NEW x, NEW r, r = ReadField(f, x, buf, p)
  PROVE  IF Stuck(f, v) THEN r.ptr = Null
         ELSE r.ptr = p + Len(Payload(f, v)) /\ Arrived(f, v, r.value)
<1> DEFINE q == p + Len(Payload(f, v))
<1>1. CASE Storage(f) = "ArenaString"
  <2> DEFINE chunk == Chunk(buf, ReadVarint(buf, p))
  <2>1. v.value \in Seq(Byte) /\ Len(v.value) < Word /\ Type[f] # "message"
    <3>1. v.value \in Shorter(Word)
      BY <1>1, SoundTexts
    <3>2. Type[f] \in StringTypes
      BY <1>1, StorageKinds
    <3> QED
      BY <3>1, <3>2 DEF Shorter, StringTypes
  <2>2. Payload(f, v) = Delimited(v.value)
    BY <1>1 DEF Payload
  <2>3. chunk = [ptr |-> q, bytes |-> v.value]
    BY <2>1, <2>2, ChunksAreFound
  <2>4. r = [ptr |-> chunk.ptr, value |-> SetText(x, chunk.bytes)]
    BY <1>1 DEF ReadField, ReadString
  <2> HIDE DEF chunk, q
  <2>5. r.ptr = q /\ r.value = SetText(x, v.value)
    BY <2>3, <2>4
  <2>6. Arrived(f, v, SetText(x, v.value))
    BY <1>1, <2>1 DEF Arrived, Observed, SetText, Text, Settled
  <2> QED
    BY <2>1, <2>5, <2>6 DEF Stuck, q
<1>2. CASE Storage(f) = "LazyField"
  <2> DEFINE chunk == Chunk(buf, ReadVarint32(buf, p))
             bytes == LazyPayload(v)
  <2>1. v.has /\ bytes \in Seq(Byte) /\ Len(bytes) < Word32 /\ f \in Lazies /\ Type[f] = "message"
    BY <1>2, PayloadIsWritten, StorageKinds
  <2>2. Payload(f, v) = Delimited(bytes)
    <3>1. Payload(f, v) = WriteLengthDelimitedBytes(bytes)
      BY <1>2 DEF Payload
    <3> QED
      BY <2>1, <3>1, ChunksAreFound
  <2>3. chunk = [ptr |-> q, bytes |-> bytes]
    BY <2>1, <2>2, ChunksAreFound
  <2>4. r = [ptr |-> chunk.ptr, value |-> Deferred(x, chunk.bytes)]
    BY <1>2 DEF ReadField, ReadLazy
  <2> HIDE DEF chunk, q, bytes
  <2>5. r.ptr = q /\ r.value = Deferred(x, bytes)
    BY <2>3, <2>4
  <2>6. Observed(f, Deferred(x, bytes)) = Seen[Meaning(bytes)]
    BY <1>2 DEF Observed, Content, Deferred, Lazy
  <2>7. Seen[Meaning(bytes)] = IF Observed(f, v) \notin Complete THEN Default ELSE Observed(f, v)
    <3>1. CASE v.parsed
      <4>1. /\ bytes = Encoded[v.content] /\ Observed(f, v) = Seen[v.content]
            /\ v.content \in Contents
        BY <1>2, <2>1, <3>1, SoundLazies DEF LazyPayload, Observed, Content, bytes
      <4>2. /\ bytes \in DOMAIN Decoded <=> v.content \in Complete
            /\ Seen[v.content] \in Complete <=> v.content \in Complete
        BY <4>1, SubmessageAssumption
      <4>3. v.content \in Complete => Seen[Decoded[bytes]] = Seen[v.content]
        BY <4>1, SubmessageAssumption
      <4> QED
        BY <4>1, <4>2, <4>3, MeaningsAreContents DEF Meaning, Parses
    <3>2. CASE ~ v.parsed
      <4>1. bytes = v.bytes /\ Observed(f, v) = Seen[Meaning(v.bytes)]
        BY <1>2, <2>1, <3>2 DEF LazyPayload, Observed, Content, bytes
      <4>2. Meaning(v.bytes) = Default \/ Seen[Meaning(v.bytes)] \in Complete
        BY SubmessageAssumption DEF Meaning, Parses
      <4> QED
        BY <4>1, <4>2, MeaningsAreContents
    <3> QED
      BY <3>1, <3>2
  <2>8. Arrived(f, v, Deferred(x, bytes))
    BY <1>2, <2>1, <2>6, <2>7 DEF Arrived, Settled
  <2> QED
    BY <2>1, <2>5, <2>8 DEF Stuck, q
<1>3. CASE Storage(f) = "message"
  <2> DEFINE chunk == Chunk(buf, ReadVarint(buf, p))
             bytes == Encoded[v]
  <2>1. /\ v \in Contents /\ f \notin Lazies /\ Type[f] = "message"
        /\ bytes \in Seq(Byte) /\ Len(bytes) < Word /\ Len(bytes) < Word32 \div 2
    <3>1. v \in Contents /\ f \notin Lazies /\ Type[f] = "message"
      BY <1>3, SoundSubmessages, StorageKinds
    <3>2. bytes \in Seq(Byte) /\ Len(bytes) < Word32 /\ Len(bytes) < Word32 \div 2
      BY <3>1, EncodedIsShort
    <3> HIDE DEF bytes
    <3>3. Len(bytes) \in Nat /\ Word \in Nat /\ Word32 \in Nat /\ Word32 < Word
      BY <3>2, WordAssumption
    <3>4. Len(bytes) < Word
      BY <3>2, <3>3
    <3> QED
      BY <3>1, <3>2, <3>4
  <2>2. Payload(f, v) = Delimited(bytes)
    BY <1>3 DEF Payload
  <2>3. chunk = [ptr |-> q, bytes |-> bytes]
    <3>1. Holds(buf, p, Delimited(bytes)) /\ q = p + Len(Delimited(bytes))
      BY <2>2
    <3> HIDE DEF bytes, q
    <3> QED
      BY <2>1, <3>1, ChunksAreFound
  <2>4. r = IF chunk.ptr = Null THEN [ptr |-> Null, value |-> x]
            ELSE IF Parses(bytes) THEN [ptr |-> chunk.ptr, value |-> Decoded[bytes]]
            ELSE [ptr |-> Null, value |-> NULL]
    <3> DEFINE size == Len(bytes)
    <3>1. size \in Nat /\ size < Word32 \div 2 /\ Word32 \in Nat \ {0}
      BY <2>1, WordAssumption
    <3>2. SubSeq(bytes, 1, size) = bytes
      BY <2>1
    <3>3. r = LET c == chunk.bytes
                  n == Len(c)
                  b == SubSeq(c, 1, n % Word32)
              IN  IF chunk.ptr = Null THEN [ptr |-> Null, value |-> x]
                  ELSE IF ~IsNegative(n) /\ Parses(b) THEN [ptr |-> chunk.ptr, value |-> Decoded[b]]
                  ELSE [ptr |-> Null, value |-> NULL]
      BY <1>3 DEF ReadField, ReadSubmessage
    <3>4. chunk.bytes = bytes
      BY <2>3
    <3> HIDE DEF size, chunk
    <3>5. size < Word32
      BY <3>1
    <3>6. size % Word32 = size
      BY <3>1, <3>5, LittleRemains
    <3>7. ~IsNegative(size)
      <4>1. ~ (size >= Word32 \div 2)
        BY <3>1
      <4> QED
        BY <3>6, <4>1 DEF IsNegative
    <3> QED
      BY <3>2, <3>3, <3>4, <3>6, <3>7 DEF size
  <2>5. q # Null
    <3>1. Len(Payload(f, v)) \in Nat
      <4>1. Len(bytes) \in Nat
        BY <2>1
      <4>2. WriteVarint(Len(bytes)) \in Seq(Byte)
        BY <4>1, NumbersAreMeasured
      <4>3. Delimited(bytes) \in Seq(Byte)
        BY <2>1, <4>2, LengthsAdd DEF Delimited
      <4> QED
        BY <2>2, <4>3
    <3> QED
      BY <3>1 DEF Null
  <2> HIDE DEF chunk, q
  <2>6. (Parses(bytes) <=> v \in Complete) /\ (Seen[v] \in Complete <=> v \in Complete)
    BY <2>1, SubmessageAssumption DEF Parses
  <2>7. v \in Complete => Seen[Decoded[bytes]] = Seen[v]
    BY SubmessageAssumption
  <2>8. Observed(f, v) = Seen[v] /\ Observed(f, Decoded[bytes]) = Seen[Decoded[bytes]]
    BY <1>3 DEF Observed
  <2> HIDE DEF bytes
  <2>9. IF v \in Complete THEN r.ptr = q /\ r.value = Decoded[bytes] ELSE r.ptr = Null
    BY <2>3, <2>4, <2>5, <2>6
  <2>10. v \in Complete => Arrived(f, v, Decoded[bytes])
    BY <1>3, <2>6, <2>7, <2>8 DEF Arrived, Settled
  <2> QED
    BY <2>1, <2>6, <2>8, <2>9, <2>10 DEF Stuck, q
<1>4. CASE Storage(f) = "scalar"
  <2>1. /\ v \in FieldStates(f) /\ ~ IsDefaultLiteral(Type[f], v) /\ Type[f] # "message"
    <3>1. Type[f] \in ScalarTypes
      BY <1>4, StorageKinds
    <3> QED
      BY <1>4, <3>1, PayloadIsWritten, SoundScalars DEF ScalarTypes, cpp_scalar_type
  <2>2. Payload(f, v) = ScalarBytes(Type[f], v)
    BY <1>4 DEF Payload
  <2>3. r = ReadScalar(Type[f], buf, p)
    BY <1>4 DEF ReadField
  <2>4. r = [ptr |-> q, value |-> v]
    BY <1>4, <2>1, <2>2, <2>3, ScalarsAreFound
  <2> HIDE DEF q
  <2>5. r.ptr = q /\ r.value = v
    BY <2>4
  <2>6. Arrived(f, v, v)
    BY <1>4, <2>1 DEF Arrived, Observed, Settled
  <2> QED
    BY <2>1, <2>5, <2>6 DEF Stuck, q
<1> QED
  BY <1>1, <1>2, <1>3, <1>4, StorageKinds

(* So is the field, behind its tag.                                        *)
LEMMA FieldsArrive ==
  ASSUME NEW f \in Fields, NEW v, Sound(f, v), FieldBytes(f, v) # <<>>,
         NEW buf \in Seq(Byte), NEW p \in Nat \ {0}, Holds(buf, p, FieldBytes(f, v)),
         NEW x, NEW r, r = ReadField(f, x, buf, ReadTag(buf, p).ptr)
  PROVE  /\ ReadTag(buf, p).value = Tag(f)
         /\ IF Stuck(f, v) THEN r.ptr = Null
            ELSE r.ptr = p + Len(FieldBytes(f, v)) /\ Arrived(f, v, r.value)
<1> DEFINE t == WriteTag(f)
           w == Payload(f, v)
           q == p + Len(t)
<1>1. FieldBytes(f, v) = t \o w
  BY PayloadIsWritten
<1>2. t \in Seq(Byte) /\ q \in Nat \ {0}
  <2>1. t \in Seq(Byte) /\ Len(t) \in Nat
    BY TagsAreMeasured
  <2> HIDE DEF t
  <2> QED
    BY <2>1
<1>3. w \in Seq(Byte)
  <2>1. \A bytes \in Seq(Byte) : Delimited(bytes) \in Seq(Byte)
    BY DelimitedIsBytes
  <2>2. CASE Storage(f) = "ArenaString"
    BY <2>1, <2>2, SoundTexts DEF Payload
  <2>3. CASE Storage(f) = "LazyField"
    <3>1. LazyPayload(v) \in Seq(Byte) /\ Len(LazyPayload(v)) < Word32
      BY <2>3, PayloadIsWritten
    <3>2. 1 \in Nat \ {0} /\ <<>> \in Seq(Byte)
      OBVIOUS
    <3>3. WriteLengthDelimitedBytes(LazyPayload(v)) = Delimited(LazyPayload(v))
      BY <3>1, <3>2, ChunksAreFound
    <3> QED
      BY <2>1, <2>3, <3>1, <3>3 DEF Payload
  <2>4. CASE Storage(f) = "message"
    BY <2>1, <2>4, SoundSubmessages, EncodedIsShort DEF Payload
  <2>5. CASE Storage(f) = "scalar"
    BY <2>5, SoundScalars, PayloadsAreMeasured DEF Payload
  <2> QED
    BY <2>2, <2>3, <2>4, <2>5, StorageKinds
<1> HIDE DEF t, w, q
<1>4. Holds(buf, p, t) /\ Holds(buf, q, w)
  BY <1>1, <1>2, <1>3, BothStand DEF q
<1>5. ReadTag(buf, p) = [ptr |-> q, value |-> Tag(f)]
  BY <1>4, TagsAreFound DEF t, q
<1>6. r = ReadField(f, x, buf, q)
  BY <1>5
<1>7. IF Stuck(f, v) THEN r.ptr = Null
      ELSE r.ptr = q + Len(w) /\ Arrived(f, v, r.value)
  BY <1>2, <1>4, <1>6, PayloadsArrive DEF w
<1>8. q + Len(w) = p + Len(FieldBytes(f, v))
  <2>1. Len(t \o w) = Len(t) + Len(w) /\ Len(t) \in Nat /\ Len(w) \in Nat
    BY <1>2, <1>3
  <2> QED
    BY <1>1, <2>1 DEF q
<1> QED
  BY <1>5, <1>7, <1>8

(***************************************************************************)
(* What a field reads from bytes of its own, it reads from them wherever   *)
(* they stand, and whatever it was before.                                 *)
(***************************************************************************)

LEMMA BeyondIsNowhere ==
  ASSUME NEW b \in Seq(Byte)
  PROVE  Beyond(b) # Null
BY DEF Beyond, Null

(* A tag,                                                                  *)
LEMMA TagMoves ==
  ASSUME NEW s \in Seq(Byte), NEW p \in Nat \ {0}, NEW b \in Seq(Byte), Holds(s, p, b),
         ReadTag(b, 1).value # 0 \/ ReadVarint(b, 1).ptr # Beyond(b)
  PROVE  LET alone == ReadTag(b, 1)
             there == ReadTag(s, p)
         IN  /\ p <= Len(s) /\ there.value = alone.value
             /\ alone.value # 0 => /\ alone.ptr \in Nat \ {0} /\ alone.value \in Nat
                                   /\ there.ptr = p + alone.ptr - 1
<1> DEFINE r == ReadLoop(b, 1, Groups, Word)
           t == ReadLoop(s, p, Groups, Word)
<1>1. /\ r.ptr = Null \/ Inside(b, r.ptr)
      /\ Moved(b, p, r.ptr, t.ptr) /\ t.value = r.value
  <2>1. p + 1 - 1 = p /\ 1 \in Nat \ {0} /\ Groups \in Nat
    BY SizesFit
  <2>2. /\ r.ptr \in {Null, Beyond(b)} \/ Inside(b, r.ptr)
        /\ r.ptr = Beyond(b) => r.value = 0
        /\ r.ptr # Beyond(b) => Moved(b, p, r.ptr, t.ptr) /\ t.value = r.value
    BY <2>1, ReadingMoves
  <2>3. r.ptr # Beyond(b)
    <3>1. ASSUME r.ptr = Beyond(b)
          PROVE  ReadTag(b, 1).value = 0
      <4>1. ReadTag(b, 1) = [r EXCEPT !.value = @ % Word32]
        BY <3>1, BeyondIsNowhere DEF ReadTag, ReadVarint
      <4>2. r = [ptr |-> r.ptr, value |-> r.value]
        BY DEF ReadLoop
      <4>3. r.value = 0 /\ 0 % Word32 = 0
        <5>1. Word32 \in Nat \ {0}
          BY WordAssumption
        <5> QED
          BY <2>2, <3>1, <5>1
      <4> HIDE DEF r
      <4>4. ReadTag(b, 1) = [ptr |-> r.ptr, value |-> 0]
        BY <4>1, <4>2, <4>3
      <4> QED
        BY <4>4
    <3>2. r.ptr = ReadVarint(b, 1).ptr
      BY DEF ReadVarint
    <3> HIDE DEF r
    <3> QED
      BY <3>1, <3>2
  <2> QED
    BY <2>2, <2>3
<1>2. r.value \in Nat /\ Word32 \in Nat \ {0} /\ r.value % Word32 \in Nat
  <2>1. r \in Readings(Word)
    <3>1. 1 \in Nat \ {0} /\ r = ReadVarint(b, 1)
      BY DEF ReadVarint
    <3> HIDE DEF r
    <3> QED
      BY <3>1, ReadersAreTyped
  <2> HIDE DEF r
  <2>2. Word \in Nat /\ Word32 \in Nat \ {0}
    BY WordAssumption
  <2>3. r.value \in Nat
    BY <2>1, <2>2 DEF Readings
  <2> QED
    BY <2>3, <2>2
<1>3. p <= Len(s)
  <2>1. Len(b) \in Nat /\ Len(s) \in Nat /\ p + Len(b) - 1 <= Len(s)
    BY DEF Holds
  <2>2. CASE Len(b) = 0
    <3>1. ReadVarint32Inline(b, 1).ptr = Beyond(b)
      <4>1. 1 \in Nat \ {0} /\ 1 > Len(b)
        BY <2>2
      <4>2. ReadVarint32Inline(b, 1) = [ptr |-> Beyond(b), value |-> 0]
        BY <4>1, ReadersAreTyped
      <4> QED
        BY <4>2
    <3>2. ReadVarint32Inline(b, 1) \in {r, [ptr |-> Null, value |-> 0]}
      BY DEF ReadVarint32Inline, ReadVarint64Inline
    <3> HIDE DEF r
    <3>3. ~ Inside(b, Beyond(b))
      BY <2>1 DEF Inside, Beyond
    <3> QED
      BY <1>1, <3>1, <3>2, <3>3, BeyondIsNowhere
  <2> QED
    BY <2>1, <2>2
<1>4. /\ ReadTag(b, 1) = IF r.ptr = Null THEN [ptr |-> 1, value |-> 0]
                         ELSE [r EXCEPT !.value = @ % Word32]
      /\ ReadTag(s, p) = IF t.ptr = Null THEN [ptr |-> p, value |-> 0]
                         ELSE [t EXCEPT !.value = @ % Word32]
  BY DEF ReadTag, ReadVarint
<1>5. r = [ptr |-> r.ptr, value |-> r.value] /\ t = [ptr |-> t.ptr, value |-> t.value]
  BY DEF ReadLoop
<1> HIDE DEF r, t
<1>6. CASE r.ptr = Null
  <2>1. t.ptr = Null
    BY <1>1, <1>6 DEF Moved
  <2> QED
    BY <1>3, <1>4, <1>6, <2>1
<1>7. CASE Inside(b, r.ptr)
  <2>1. r.ptr \in Nat \ {0} /\ t.ptr = p + r.ptr - 1 /\ r.ptr # Null /\ t.ptr # Null
    <3>1. r.ptr \in Nat \ {0}
      BY <1>7 DEF Inside
    <3>2. t.ptr = p + r.ptr - 1
      BY <1>1, <1>7 DEF Moved
    <3> QED
      BY <3>1, <3>2 DEF Null
  <2>2. /\ ReadTag(b, 1) = [ptr |-> r.ptr, value |-> r.value % Word32]
        /\ ReadTag(s, p) = [ptr |-> t.ptr, value |-> r.value % Word32]
    BY <1>1, <1>4, <1>5, <2>1
  <2> QED
    BY <1>2, <1>3, <2>1, <2>2
<1> QED
  BY <1>1, <1>6, <1>7

(* a length and its bytes,                                                 *)
LEMMA ChunkMoves ==
  ASSUME NEW s \in Seq(Byte), NEW p \in Nat \ {0}, NEW b \in Seq(Byte), Holds(s, p, b),
         NEW q \in Nat \ {0}, NEW groups \in Nat, NEW word \in Nat \ {0}
  PROVE  LET alone == Chunk(b, ReadLoop(b, q, groups, word))
             there == Chunk(s, ReadLoop(s, p + q - 1, groups, word))
         IN  /\ alone.ptr = Null => there.ptr = Null
             /\ alone.ptr = Len(b) + 1 => there = [ptr |-> p + Len(b), bytes |-> alone.bytes]
             /\ alone.ptr # Null /\ Len(alone.bytes) # 0 =>
                  there.ptr # Null /\ Len(there.bytes) = Len(alone.bytes)
<1> DEFINE r == ReadLoop(b, q, groups, word)
           t == ReadLoop(s, p + q - 1, groups, word)
<1>1. /\ r.ptr \in {Null, Beyond(b)} \/ Inside(b, r.ptr)
      /\ r.ptr # Beyond(b) => Moved(b, p, r.ptr, t.ptr) /\ t.value = r.value
      /\ r.ptr = Beyond(b) => r.value = 0
  BY ReadingMoves
<1>2. r.ptr \in Nat /\ r.value \in Nat /\ t.value \in Nat
  <2>1. r \in Readings(word) /\ t \in Readings(word)
    <3>1. p + q - 1 \in Nat \ {0}
      OBVIOUS
    <3> QED
      BY <3>1, ReadingIsTyped
  <2> HIDE DEF r, t
  <2> QED
    BY <2>1 DEF Readings
<1>3. /\ Chunk(b, r) = [ptr |-> IF r.ptr = Null THEN Null ELSE r.ptr + r.value,
                        bytes |-> Memory(b, r.ptr, r.value)]
      /\ Chunk(s, t) = [ptr |-> IF t.ptr = Null THEN Null ELSE t.ptr + t.value,
                        bytes |-> Memory(s, t.ptr, t.value)]
  BY DEF Chunk
<1>4. /\ Len(b) \in Nat /\ Len(s) \in Nat /\ p + Len(b) - 1 <= Len(s)
      /\ DOMAIN b = 1 .. Len(b) /\ DOMAIN s = 1 .. Len(s)
  BY DEF Holds
<1> HIDE DEF r, t
<1>5. ASSUME Chunk(b, r).ptr = Null
      PROVE  Chunk(s, t).ptr = Null
  <2>1. r.ptr = Null
    BY <1>2, <1>3, <1>5 DEF Null
  <2>2. t.ptr = Null
    BY <1>1, <1>4, <2>1 DEF Moved, Null, Beyond
  <2> QED
    BY <1>3, <2>2
<1>6. ASSUME Chunk(b, r).ptr = Len(b) + 1
      PROVE  Chunk(s, t) = [ptr |-> p + Len(b), bytes |-> Chunk(b, r).bytes]
  <2>1. r.ptr # Null /\ r.ptr + r.value = Len(b) + 1
    BY <1>3, <1>4, <1>6 DEF Null
  <2>2. r.ptr # Beyond(b)
    BY <1>2, <1>4, <2>1 DEF Beyond
  <2>3. Inside(b, r.ptr) /\ r.ptr \in Nat \ {0}
    BY <1>1, <1>2, <2>1, <2>2 DEF Null
  <2>4. t.ptr = p + r.ptr - 1 /\ t.value = r.value
    BY <1>1, <2>2, <2>3 DEF Moved
  <2> DEFINE x == r.ptr
             y == t.ptr
             n == r.value
  <2>5. /\ x \in Nat \ {0} /\ n \in Nat /\ x + n = Len(b) + 1 /\ y = p + x - 1
        /\ t.value = n
    BY <1>2, <2>1, <2>3, <2>4
  <2> HIDE DEF x, y, n
  <2>6. t.ptr # Null /\ t.ptr + t.value = p + Len(b)
    <3>1. y # 0 /\ y + n = p + Len(b)
      BY <1>4, <2>5
    <3> QED
      BY <2>5, <3>1 DEF Null, y
  <2>7. ASSUME NEW i \in 1 .. n
        PROVE  /\ x + i - 1 \in DOMAIN b /\ y + i - 1 \in DOMAIN s
               /\ s[y + i - 1] = b[x + i - 1]
    <3>1. x + i - 1 \in 1 .. Len(b) /\ y + i - 1 = p + (x + i - 1) - 1
      BY <1>4, <2>5
    <3>2. y + i - 1 \in 1 .. Len(s)
      BY <1>4, <3>1
    <3> QED
      BY <1>4, <3>1, <3>2 DEF Holds
  <2>8. Memory(s, t.ptr, t.value) = Memory(b, r.ptr, r.value)
    <3>1. Memory(s, y, n) = Memory(b, x, n)
      BY <2>7 DEF Memory
    <3> QED
      BY <2>5, <3>1 DEF x, y, n
  <2> QED
    BY <1>3, <2>6, <2>8
<1>7. ASSUME Chunk(b, r).ptr # Null, Len(Chunk(b, r).bytes) # 0
      PROVE  Chunk(s, t).ptr # Null /\ Len(Chunk(s, t).bytes) = Len(Chunk(b, r).bytes)
  <2>1. Len(Memory(b, r.ptr, r.value)) = r.value /\ Len(Memory(s, t.ptr, t.value)) = t.value
    BY <1>2 DEF Memory
  <2>2. r.value # 0 /\ r.ptr # Null
    BY <1>3, <1>7, <2>1
  <2>3. Inside(b, r.ptr) /\ r.ptr # Beyond(b)
    BY <1>1, <2>2
  <2>4. t.value = r.value /\ t.ptr = p + r.ptr - 1 /\ r.ptr \in Nat \ {0}
    BY <1>1, <1>2, <2>2, <2>3 DEF Moved, Null
  <2>5. t.ptr # Null /\ t.ptr + t.value # Null
    BY <1>2, <2>4 DEF Null
  <2> QED
    BY <1>3, <2>1, <2>4, <2>5
<1> QED
  BY <1>5, <1>6, <1>7 DEF r, t

(* a scalar,                                                               *)
LEMMA ReadScalarMoves ==
  ASSUME NEW s \in Seq(Byte), NEW p \in Nat \ {0}, NEW b \in Seq(Byte), Holds(s, p, b),
         NEW q \in Nat \ {0}, NEW type
  PROVE  LET alone == ReadScalar(type, b, q)
             there == ReadScalar(type, s, p + q - 1)
         IN  /\ alone.ptr = Null => there.ptr = Null
             /\ alone.ptr = Len(b) + 1 => there = [ptr |-> p + Len(b), value |-> alone.value]
<1>1. /\ Len(b) \in Nat /\ Len(s) \in Nat /\ p + Len(b) - 1 <= Len(s)
      /\ DOMAIN b = 1 .. Len(b) /\ DOMAIN s = 1 .. Len(s)
  BY DEF Holds
<1>2. CASE type \in FixedTypes
  <2> DEFINE w == WidthOf(type)
  <2>1. w \in Nat
    BY FixedAssumption DEF WidthOf
  <2>2. /\ ReadScalar(type, b, q) = [ptr |-> q + w, value |-> Memory(b, q, w)]
        /\ ReadScalar(type, s, p + q - 1)
             = [ptr |-> (p + q - 1) + w, value |-> Memory(s, p + q - 1, w)]
    BY <1>2 DEF ReadScalar, CopyBytes
  <2> HIDE DEF w
  <2>3. q + w # Null
    BY <2>1 DEF Null
  <2>4. ASSUME q + w = Len(b) + 1
        PROVE  (p + q - 1) + w = p + Len(b) /\ Memory(s, p + q - 1, w) = Memory(b, q, w)
    <3>1. ASSUME NEW i \in 1 .. w
          PROVE  /\ q + i - 1 \in DOMAIN b /\ (p + q - 1) + i - 1 \in DOMAIN s
                 /\ s[(p + q - 1) + i - 1] = b[q + i - 1]
      <4>1. q + i - 1 \in 1 .. Len(b) /\ (p + q - 1) + i - 1 = p + (q + i - 1) - 1
        BY <1>1, <2>1, <2>4
      <4>2. (p + q - 1) + i - 1 \in 1 .. Len(s)
        BY <1>1, <4>1
      <4> QED
        BY <1>1, <4>1, <4>2 DEF Holds
    <3>2. (p + q - 1) + w = p + Len(b)
      BY <1>1, <2>1, <2>4
    <3> QED
      BY <3>1, <3>2 DEF Memory
  <2> QED
    BY <2>2, <2>3, <2>4
<1>3. CASE type \notin FixedTypes
  <2> DEFINE r == ReadLoop(b, q, Groups, Word)
             t == ReadLoop(s, p + q - 1, Groups, Word)
             cpp == cpp_scalar_type[type]
  <2>1. /\ r.ptr # Beyond(b) => Moved(b, p, r.ptr, t.ptr) /\ t.value = r.value
    BY SizesFit, ReadingMoves
  <2>2. r = [ptr |-> r.ptr, value |-> r.value] /\ t = [ptr |-> t.ptr, value |-> t.value]
    BY DEF ReadLoop
  <2>3. /\ ReadScalar(type, b, q) = [r EXCEPT !.value = Cast(cpp, @)]
        /\ ReadScalar(type, s, p + q - 1) = [t EXCEPT !.value = Cast(cpp, @)]
    BY <1>3 DEF ReadScalar, ReadVarint
  <2> HIDE DEF r, t, cpp
  <2>4. /\ ReadScalar(type, b, q) = [ptr |-> r.ptr, value |-> Cast(cpp, r.value)]
        /\ ReadScalar(type, s, p + q - 1) = [ptr |-> t.ptr, value |-> Cast(cpp, t.value)]
    BY <2>2, <2>3
  <2>5. ASSUME r.ptr = Null
        PROVE  t.ptr = Null
    BY <1>1, <2>1, <2>5 DEF Moved, Null, Beyond
  <2>6. ASSUME r.ptr = Len(b) + 1
        PROVE  t.ptr = p + Len(b) /\ t.value = r.value
    <3>1. Inside(b, r.ptr) /\ r.ptr # Beyond(b)
      BY <1>1, <2>6 DEF Inside, Beyond
    <3> QED
      BY <1>1, <2>1, <2>6, <3>1 DEF Moved
  <2> QED
    BY <2>4, <2>5, <2>6
<1> QED
  BY <1>2, <1>3

(* What an eager submessage cannot be read from, more bytes do not mend.   *)
IsHopeless(f, b, q) ==
  Storage(f) = "message" =>
    LET chunk == Chunk(b, ReadVarint(b, q))
    IN  chunk.ptr \in {Null, Len(b) + 1} \/ IsNegative(Len(chunk.bytes))

(* and the case of any field.                                              *)
LEMMA FieldMoves ==
  ASSUME NEW s \in Seq(Byte), NEW p \in Nat \ {0}, NEW b \in Seq(Byte), Holds(s, p, b),
         NEW q \in Nat \ {0}, NEW f \in Fields, NEW v
  PROVE  LET alone == ReadField(f, Cleared(f), b, q)
             there == ReadField(f, v, s, p + q - 1)
         IN  /\ alone.ptr = Len(b) + 1 => /\ there.ptr = p + Len(b)
                                          /\ Observed(f, there.value) = Observed(f, alone.value)
             /\ alone.ptr = Null /\ IsHopeless(f, b, q) => there.ptr = Null
<1> DEFINE c == Chunk(b, ReadVarint(b, q))
           d == Chunk(s, ReadVarint(s, p + q - 1))
           alone == ReadField(f, Cleared(f), b, q)
           there == ReadField(f, v, s, p + q - 1)
<1>0. /\ Groups \in Nat /\ Groups32 \in Nat /\ Word \in Nat \ {0} /\ Word32 \in Nat \ {0}
      /\ \A buf, k : /\ ReadVarint(buf, k) = ReadLoop(buf, k, Groups, Word)
                      /\ ReadVarint32(buf, k) = ReadLoop(buf, k, Groups32, Word32)
  BY SizesFit, WordAssumption DEF ReadVarint, ReadVarint32
<1>1. /\ c.ptr = Null => d.ptr = Null
      /\ c.ptr = Len(b) + 1 => d = [ptr |-> p + Len(b), bytes |-> c.bytes]
      /\ c.ptr # Null /\ Len(c.bytes) # 0 => d.ptr # Null /\ Len(d.bytes) = Len(c.bytes)
  BY <1>0, ChunkMoves
<1>2. Len(b) + 1 # Null /\ p + Len(b) # Null
  BY DEF Null
<1>3. CASE Storage(f) = "ArenaString"
  <2>1. /\ alone = [ptr |-> c.ptr, value |-> SetText(Cleared(f), c.bytes)]
        /\ there = [ptr |-> d.ptr, value |-> SetText(v, d.bytes)]
    BY <1>3 DEF ReadField, ReadString
  <2>2. \A u, x : Observed(f, SetText(u, x)) = x
    BY <1>3 DEF Observed, SetText, Text
  <2> HIDE DEF alone, there, c, d
  <2>3. Storage(f) # "message"
    BY <1>3
  <2> QED
    BY <1>1, <2>1, <2>2, <2>3 DEF alone, there
<1>4. CASE Storage(f) = "LazyField"
  <2> DEFINE a == Chunk(b, ReadVarint32(b, q))
             e == Chunk(s, ReadVarint32(s, p + q - 1))
  <2>1. /\ a.ptr = Null => e.ptr = Null
        /\ a.ptr = Len(b) + 1 => e = [ptr |-> p + Len(b), bytes |-> a.bytes]
    BY <1>0, ChunkMoves
  <2>2. /\ alone = [ptr |-> a.ptr, value |-> Deferred(Cleared(f), a.bytes)]
        /\ there = [ptr |-> e.ptr, value |-> Deferred(v, e.bytes)]
    BY <1>4 DEF ReadField, ReadLazy
  <2>3. \A u, x : Observed(f, Deferred(u, x)) = Seen[Meaning(x)]
    BY <1>4 DEF Observed, Content, Deferred, Lazy
  <2> HIDE DEF alone, there, a, e
  <2>4. Storage(f) # "message"
    BY <1>4
  <2> QED
    BY <2>1, <2>2, <2>3, <2>4 DEF alone, there
<1>5. CASE Storage(f) = "message"
  <2> DEFINE Used(bytes) == SubSeq(bytes, 1, Len(bytes) % Word32)
             Fits(bytes) == ~IsNegative(Len(bytes)) /\ Parses(Used(bytes))
             Made(u, k) == IF k.ptr = Null THEN [ptr |-> Null, value |-> u]
                           ELSE IF Fits(k.bytes)
                                THEN [ptr |-> k.ptr, value |-> Decoded[Used(k.bytes)]]
                           ELSE [ptr |-> Null, value |-> NULL]
  <2>1. alone = Made(Cleared(f), c) /\ there = Made(v, d)
    BY <1>5 DEF ReadField, ReadSubmessage
  <2>2. \A bytes : IsNegative(Len(bytes)) => ~Fits(bytes) /\ Len(bytes) # 0
    <3>1. ~IsNegative(0)
      <4>1. 0 % Word32 = 0 /\ Word32 \in Nat /\ Word32 > 1
        BY WordAssumption
      <4> QED
        BY <4>1 DEF IsNegative
    <3> QED
      BY <3>1
  <2> HIDE DEF alone, there, c, d, Fits, Used
  <2>3. ASSUME alone.ptr = Len(b) + 1
        PROVE  there.ptr = p + Len(b) /\ there.value = alone.value
    <3>1. c.ptr = Len(b) + 1 /\ Fits(c.bytes) /\ alone.value = Decoded[Used(c.bytes)]
      BY <1>2, <2>1, <2>3
    <3> QED
      BY <1>1, <1>2, <2>1, <3>1
  <2>4. ASSUME alone.ptr = Null, c.ptr \in {Null, Len(b) + 1} \/ IsNegative(Len(c.bytes))
        PROVE  there.ptr = Null
    <3>1. CASE c.ptr = Null
      BY <1>1, <2>1, <3>1
    <3>2. CASE c.ptr = Len(b) + 1
      BY <1>1, <1>2, <2>1, <2>4, <3>2
    <3>3. CASE c.ptr # Null /\ IsNegative(Len(c.bytes))
      <4>1. d.ptr # Null /\ Len(d.bytes) = Len(c.bytes)
        BY <1>1, <2>2, <3>3
      <4>2. ~Fits(d.bytes)
        BY <2>2, <3>3, <4>1
      <4> QED
        BY <2>1, <4>1, <4>2
    <3> QED
      BY <2>4, <3>1, <3>2, <3>3
  <2> QED
    BY <1>5, <2>3, <2>4 DEF IsHopeless, alone, there, c
<1>6. CASE Storage(f) \notin {"ArenaString", "LazyField", "message"}
  <2>1. alone = ReadScalar(Type[f], b, q) /\ there = ReadScalar(Type[f], s, p + q - 1)
    BY <1>6 DEF ReadField
  <2>2. \A u : Observed(f, u) = u
    BY <1>6 DEF Observed
  <2>3. /\ alone.ptr = Null => there.ptr = Null
        /\ alone.ptr = Len(b) + 1 => there = [ptr |-> p + Len(b), value |-> alone.value]
    BY <2>1, ReadScalarMoves
  <2> HIDE DEF alone, there
  <2> QED
    BY <1>6, <2>2, <2>3 DEF alone, there
<1> QED
  BY <1>3, <1>4, <1>5, <1>6

=============================================================================
