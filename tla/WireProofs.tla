----------------------------- MODULE WireProofs -----------------------------
(***************************************************************************)
(* The properties of MCWire, for buffers of any length: varints, scalars   *)
(* and the two skippers.                                                   *)
(***************************************************************************)
EXTENDS MCWire, CodecProofs

(* The buffer has bytes, and no more than its bound.                       *)
LEMMA BufferIsBounded == Spec => [](buf \in Seq(Byte) /\ Len(buf) <= MaxLength)
<1>1. Init => buf \in Seq(Byte) /\ Len(buf) <= MaxLength
  BY AlphabetAssumption DEF Init
<1>2. buf \in Seq(Byte) /\ Len(buf) <= MaxLength /\ [Receive]_buf
        => (buf \in Seq(Byte) /\ Len(buf) <= MaxLength)'
  BY AlphabetAssumption DEF Receive
<1> QED
  BY <1>1, <1>2, PTL DEF Spec

LEMMA BufferType == Spec => [](buf \in Seq(Byte))
BY BufferIsBounded, PTL

(* All the readers of the project make the same of the same bytes, with    *)
(* the exceptions named.                                                   *)
THEOREM AllReadersAgree == Spec => []ReadersAgree
<1>1. ASSUME buf \in Seq(Byte)
      PROVE  ReadersAgree
  <2> DEFINE long    == ReadLoop(buf, 1, Groups, Word)
             lazy    == ReadLoop(buf, 1, Groups32, Word32)
             skipped == ReadVarint32Inline(buf, 1)
  <2>1. /\ Groups \in Nat /\ Groups32 \in Nat /\ Groups32 <= Groups /\ 1 \in Nat \ {0}
        /\ Word \in Nat /\ Word32 \in Nat
    BY SizesFit, WordAssumption
  <2>2. ~Inside(buf, Null) /\ ~Inside(buf, Beyond(buf))
    BY <1>1 DEF Inside, Null, Beyond
  <2>3. \/ /\ Good(long) /\ Good(lazy) /\ long.ptr <= Groups32 + 1
           /\ lazy = [long EXCEPT !.value = @ % Word32]
        \/ Good(long) /\ ~Good(lazy) /\ ~ (long.ptr <= Groups32 + 1)
        \/ ~Good(long) /\ ~Good(lazy)
    <3>1. ASSUME NEW last \in 1 .. Len(buf), EndsAt(buf, 1, last), last <= Groups
          PROVE  /\ long = [ptr |-> last + 1, value |-> Digits(buf, 1, last) % Word]
                 /\ Good(long)
                 /\ last <= Groups32 =>
                      lazy = [ptr |-> last + 1, value |-> Digits(buf, 1, last) % Word32]
                 /\ last > Groups32 => ~Good(lazy)
      <4>1. last <= 1 + Groups - 1 /\ (last <= Groups32 => last <= 1 + Groups32 - 1)
            /\ (last > Groups32 => last > 1 + Groups32 - 1)
        BY <2>1, <3>1
      <4>2. long = [ptr |-> last + 1, value |-> Digits(buf, 1, last) % Word]
        <5>1. Groups \in Nat /\ 1 \in Nat \ {0} /\ last <= 1 + Groups - 1
          BY <2>1, <4>1
        <5> QED
          BY <1>1, <3>1, <5>1, ReadingFindsEnd
      <4>3. last <= Groups32 =>
              lazy = [ptr |-> last + 1, value |-> Digits(buf, 1, last) % Word32]
        BY <1>1, <2>1, <3>1, <4>1, ReadingFindsEnd
      <4>4. Good(long)
        BY <1>1, <4>2 DEF Good, Inside
      <4>5. ASSUME last > Groups32
            PROVE  ~Good(lazy)
        <5>1. \A l : EndsAt(buf, 1, l) => l > 1 + Groups32 - 1
          BY <1>1, <2>1, <3>1, <4>1, <4>5, EndIsUnique
        <5>2. lazy.ptr \in {Null, Beyond(buf)}
          BY <1>1, <2>1, <5>1, ReadingFindsNone
        <5> QED
          BY <2>2, <5>2 DEF Good
      <4> QED
        BY <4>2, <4>3, <4>4, <4>5
    <3>2. CASE \A last : EndsAt(buf, 1, last) => last > Groups
      <4>1. \A last : EndsAt(buf, 1, last) => last \in Nat
        BY <1>1 DEF EndsAt
      <4>2. \A last : EndsAt(buf, 1, last) =>
              last > 1 + Groups - 1 /\ last > 1 + Groups32 - 1
        BY <2>1, <3>2, <4>1
      <4>3. long.ptr \in {Null, Beyond(buf)} /\ lazy.ptr \in {Null, Beyond(buf)}
        BY <1>1, <2>1, <4>2, ReadingFindsNone
      <4> QED
        BY <2>2, <4>3 DEF Good
    <3>3. ASSUME NEW last, EndsAt(buf, 1, last), ~ (last > Groups)
          PROVE  \/ /\ Good(long) /\ Good(lazy) /\ long.ptr <= Groups32 + 1
                    /\ lazy = [long EXCEPT !.value = @ % Word32]
                 \/ Good(long) /\ ~Good(lazy) /\ ~ (long.ptr <= Groups32 + 1)
      <4>1. last \in 1 .. Len(buf) /\ last <= Groups
        BY <1>1, <2>1, <3>3 DEF EndsAt
      <4>2. /\ long = [ptr |-> last + 1, value |-> Digits(buf, 1, last) % Word]
            /\ Good(long)
            /\ last <= Groups32 =>
                 lazy = [ptr |-> last + 1, value |-> Digits(buf, 1, last) % Word32]
            /\ last > Groups32 => ~Good(lazy)
        BY <3>1, <3>3, <4>1
      <4>3. (Digits(buf, 1, last) % Word) % Word32 = Digits(buf, 1, last) % Word32
        <5>1. last \in 0 .. Len(buf) /\ 1 \in 1 .. last + 1
          BY <4>1
        <5>2. Digits(buf, 1, last) \in Nat
          BY <1>1, <5>1, DigitsFrom
        <5> QED
          BY <5>2, LowOfLow
      <4> HIDE DEF long, lazy
      <4>4. long.ptr = last + 1 /\ long.value = Digits(buf, 1, last) % Word
        BY <4>2
      <4>5. [long EXCEPT !.value = @ % Word32]
              = [ptr |-> last + 1, value |-> (Digits(buf, 1, last) % Word) % Word32]
        BY <4>2
      <4>6. CASE last <= Groups32
        <5>1. lazy = [long EXCEPT !.value = @ % Word32]
          BY <4>2, <4>3, <4>5, <4>6
        <5>2. lazy.ptr = last + 1
          BY <4>2, <4>6
        <5>3. Good(lazy) /\ long.ptr <= Groups32 + 1
          BY <2>1, <4>1, <4>2, <4>4, <4>6, <5>2 DEF Good
        <5> QED
          BY <4>2, <5>1, <5>3
      <4>7. CASE last > Groups32
        BY <2>1, <4>1, <4>2, <4>4, <4>7
      <4> QED
        BY <2>1, <4>1, <4>6, <4>7
    <3> QED
      BY <3>2, <3>3
  <2>4. skipped = IF long.value >= Word32 THEN [ptr |-> Null, value |-> 0] ELSE long
    BY DEF ReadVarint32Inline, ReadVarint64Inline
  <2>5. Good(long) => long.value \in Nat
    <3>1. ReadLoop(buf, 1, Groups, Word).value \in Nat
      <4>1. ASSUME NEW last \in 1 .. Len(buf)
            PROVE  Digits(buf, 1, last) % Word \in Nat
        <5>1. last \in 0 .. Len(buf) /\ 1 \in 1 .. last + 1
          OBVIOUS
        <5>2. Digits(buf, 1, last) \in Nat
          BY <1>1, <5>1, DigitsFrom
        <5>3. Digits(buf, 1, last) % Word \in 0 .. Word - 1
          BY <5>2, LowOfLow
        <5> QED
          BY <2>1, <5>3
      <4> QED
        BY <1>1, <2>1, <4>1, ReadingIsBounded
    <3> QED
      BY <3>1
  <2> HIDE DEF long, lazy, skipped
  <2>6. /\ Good(skipped) <=> Good(long) /\ long.value < Word32
        /\ Good(skipped) => skipped = long
    <3>1. CASE Good(long) /\ long.value < Word32
      BY <2>1, <2>4, <2>5, <3>1
    <3>2. CASE ~Good(long) /\ ~ (long.value >= Word32)
      BY <2>4, <3>2
    <3>3. CASE long.value >= Word32
      <4>1. skipped.ptr = Null /\ ~Good(skipped)
        BY <2>2, <2>4, <3>3 DEF Good
      <4> QED
        BY <2>1, <2>5, <3>3, <4>1
    <3> QED
      BY <2>1, <2>5, <3>1, <3>2, <3>3
  <2>7. SkipVarintInline(buf, 1) = long.ptr
    BY DEF SkipVarintInline, long
  <2>8. ReadVarint(buf, 1) = long /\ ReadVarint32(buf, 1) = lazy
    BY DEF ReadVarint, ReadVarint32, long, lazy
  <2> QED
    BY <2>3, <2>6, <2>7, <2>8 DEF ReadersAgree, skipped
<1> QED
  BY <1>1, BufferType, PTL

(* Reading inverts writing, and no number can be read from fewer bytes     *)
(* than are written for it.                                                *)
THEOREM ReadingInverts == Spec => []ReadingInvertsWriting
<1>1. ASSUME buf \in Seq(Byte)
      PROVE  ReadingInvertsWriting
  <2> SUFFICES ASSUME NEW n \in Varints
               PROVE  /\ ReadVarint(WriteVarint(n) \o buf, 1)
                            = [ptr |-> VarintSize(n) + 1, value |-> n]
                      /\ n < Word32 =>
                           ReadVarint32(WriteVarint32(n) \o buf, 1)
                             = [ptr |-> Varint32Size(n) + 1, value |-> n]
                      /\ Good(ReadVarint(buf, 1)) /\ ReadVarint(buf, 1).value = n =>
                           ReadVarint(buf, 1).ptr > VarintSize(n)
    BY DEF ReadingInvertsWriting
  <2>1. Word \in Nat \ {0} /\ Word32 \in Nat
    BY WordAssumption
  <2>2. n \in 0 .. Word - 1
    BY WordAssumption DEF Varints
  <2>3. ASSUME Good(ReadVarint(buf, 1)), ReadVarint(buf, 1).value = n
        PROVE  ReadVarint(buf, 1).ptr > VarintSize(n)
    <3> DEFINE r == ReadVarint(buf, 1)
    <3>1. r.ptr \notin {Null, Beyond(buf)}
      BY <1>1, <2>3 DEF Good, Inside, Null, Beyond
    <3>2. PICK last \in 1 .. Len(buf) :
            r = [ptr |-> last + 1, value |-> Digits(buf, 1, last) % Word]
      <4>1. 1 \in Nat \ {0} /\ Groups \in Nat
        BY SizesFit
      <4> QED
        BY <1>1, <3>1, <4>1, ReadingIsBounded DEF ReadVarint
    <3>3. last \in 0 .. Len(buf) /\ 1 \in 1 .. last /\ 1 \in 1 .. last + 1
      OBVIOUS
    <3>4. Digits(buf, 1, last) \in Nat
      BY <1>1, <3>3, DigitsFrom
    <3>5. VarintSize(Digits(buf, 1, last)) <= last
      BY <1>1, <3>3, DigitsFit
    <3>6. n = Digits(buf, 1, last) % Word
      BY <2>3, <3>2
    <3>7. n \in 0 .. Digits(buf, 1, last)
      <4> DEFINE D == Digits(buf, 1, last)
                 q == D \div Word
      <4>1. D \in Nat /\ n = D % Word
        BY <3>4, <3>6
      <4> HIDE DEF D
      <4>2. q \in Nat /\ D = (Word * q) + (D % Word)
        BY <2>1, <4>1, Divides
      <4> HIDE DEF q
      <4>3. Word * q \in Nat
        BY <2>1, <4>2
      <4>4. n \in 0 .. D
        BY <2>1, <2>2, <4>1, <4>2, <4>3
      <4> QED
        BY <4>4 DEF D
    <3>8. VarintSize(n) <= VarintSize(Digits(buf, 1, last))
      BY <3>4, <3>7, SizesAreMonotone
    <3>9. VarintSize(n) \in Nat /\ VarintSize(Digits(buf, 1, last)) \in Nat
      BY <2>1, <2>2, <3>4, SizeOfNumber
    <3>10. r.ptr = last + 1
      BY <3>2
    <3> QED
      BY <3>3, <3>5, <3>8, <3>9, <3>10
  <2> QED
    BY <1>1, <2>1, <2>2, <2>3, EveryNumberIsReadBack
<1> QED
  BY <1>1, BufferType, PTL

(***************************************************************************)
(* Scalars.                                                                *)
(***************************************************************************)

(* What a scalar field has read it writes in the protobuf encoding, the    *)
(* sint types excepted, in as many bytes as it counts, and reads back: for *)
(* every type, every buffer and every width of words.                      *)
THEOREM AllScalarsAreProtobuf == Spec => []ScalarsAreProtobuf
<1>1. ASSUME buf \in Seq(Byte)
      PROVE  ScalarsAreProtobuf
  <2> SUFFICES ASSUME NEW type \in ScalarTypes
               PROVE  LET r     == ReadScalar(type, buf, 1)
                          bytes == ScalarBytes(type, r.value)
                      IN  /\ ReadScalar(type, bytes, 1)
                               = [ptr |-> ScalarSize(type, r.value) + 1, value |-> r.value]
                          /\ bytes = ProtobufBytes(type, r.value)
                               <=> type \notin {"sint32", "sint64"} \/ r.value = 0
    BY DEF ScalarsAreProtobuf
  <2> DEFINE v     == ReadScalar(type, buf, 1).value
             bytes == ScalarBytes(type, v)
  <2>1. v \in ScalarStates(type)
    <3>1. 1 \in Nat \ {0}
      OBVIOUS
    <3> QED
      BY <1>1, <3>1, ReadIsScalar
  <2> HIDE DEF v
  <2>2. ReadScalar(type, bytes, 1) = [ptr |-> ScalarSize(type, v) + 1, value |-> v]
    <3>1. /\ bytes \in Seq(Byte) /\ Len(bytes) = ScalarSize(type, v)
          /\ ScalarSize(type, v) \in Nat
      BY <2>1, ScalarIsMeasured
    <3> HIDE DEF bytes
    <3>2. Holds(bytes, 1, bytes) /\ 1 \in Nat \ {0}
      BY <3>1 DEF Holds
    <3>3. ReadScalar(type, bytes, 1) = [ptr |-> 1 + Len(bytes), value |-> v]
      BY <2>1, <3>1, <3>2, ScalarIsFound DEF bytes
    <3>4. 1 + Len(bytes) = ScalarSize(type, v) + 1
      BY <3>1
    <3> QED
      BY <3>3, <3>4
  <2>3. bytes = ProtobufBytes(type, v) <=> type \notin {"sint32", "sint64"} \/ v = 0
    <3>1. CASE type \in {"sint32", "sint64"}
      BY <2>1, <3>1, SintsDiffer, ThirdAssumption
    <3>2. CASE type \notin {"sint32", "sint64"}
      BY <2>1, <3>2, PlainIsProtobuf
    <3> QED
      BY <3>1, <3>2
  <2> QED
    BY <2>2, <2>3 DEF v
<1> QED
  BY <1>1, BufferType, PTL

(***************************************************************************)
(* Skipping.                                                               *)
(***************************************************************************)

(* A tag is made of its parts.                                             *)
LEMMA TagsAreParts ==
  ASSUME NEW number \in Nat, NEW type \in 0 .. 7
  PROVE  /\ TagOf(number, type) \in Nat
         /\ Number(TagOf(number, type)) = number /\ WireType(TagOf(number, type)) = type
<1>1. number * 8 = 8 * number /\ 8 \in Nat \ {0}
  OBVIOUS
<1>2. (8 * number) + type \in Nat
  OBVIOUS
<1>3. ((8 * number) + type) \div 8 = number /\ ((8 * number) + type) % 8 = type
  <2>1. type \in 0 .. 8 - 1
    OBVIOUS
  <2> QED
    BY <1>1, <2>1, DivisionIsUnique
<1> QED
  BY <1>1, <1>2, <1>3 DEF TagOf, Number, WireType

(* The two versions of the skipper agree, with every tag, on every buffer  *)
(* that a stream can have: what one skips the other skips, to the same     *)
(* byte, unless what was skipped has a place with a number larger than the *)
(* pointer version takes, and it refuses.                                  *)
THEOREM VersionsAgree == Spec => []InlineIsStream
<1>1. ASSUME buf \in Seq(Byte), Len(buf) <= MaxLength
      PROVE  InlineIsStream
  <2>1. Len(buf) < Word32 \div 2
    <3>1. Len(buf) \in Nat /\ MaxLength \in Nat /\ Word32 \in Nat
      BY <1>1, AlphabetAssumption, WordAssumption
    <3> QED
      BY <1>1, <3>1, LengthAssumption
  <2> SUFFICES ASSUME NEW tag \in 1 .. Word32 - 1
               PROVE  LET inline == SkipFieldInline(buf, 1, tag)
                          stream == SkipField(buf, 1, tag)
                      IN  /\ Inside(buf, inline) => stream = inline
                          /\ stream # Null => \/ inline = stream
                                              \/ inline = Null /\ OversizedBefore(stream)
    BY DEF InlineIsStream
  <2>2. Same(buf, 1, SkipFieldInline(buf, 1, tag), SkipField(buf, 1, tag))
    <3>1. 1 \in Nat \ {0} /\ tag \in Nat
      OBVIOUS
    <3> QED
      BY <1>1, <2>1, <3>1, SkippersAgree
  <2> QED
    BY <2>2 DEF Same, Wide, OversizedBefore
<1> QED
  BY <1>1, BufferIsBounded, PTL

(* The numbers of fields: those whose tags are short words.                *)
FieldNumbers == {n \in Nat \ {0} : TagOf(n, FIXED32) < Word32}

(* What is said below of the fields of FieldNumbers includes Numbers.      *)
LEMMA NumbersAreFieldNumbers == Numbers \subseteq FieldNumbers
<1>1. \A n \in Numbers : TagOf(n, FIXED32) \in 1 .. 21 /\ n \in Nat \ {0}
  BY DEF Numbers, TagOf, FIXED32
<1> QED
  BY <1>1, TagsAssumption DEF FieldNumbers

(* A field that both versions can skip.                                    *)
Fine(field) == Skippable(field.tag, WriteVarint(field.tag), field.body)

(* The tags of the fields of any type are short words with that type.      *)
LEMMA TypesOfTags ==
  ASSUME NEW number \in FieldNumbers, NEW type \in 0 .. 5
  PROVE  /\ TagOf(number, type) \in 1 .. Word32 - 1 /\ TagOf(number, type) \in Nat
         /\ TagOf(number, type) \in 0 .. Word - 1
         /\ Number(TagOf(number, type)) = number /\ WireType(TagOf(number, type)) = type
<1>1. number \in Nat /\ number # 0 /\ type \in 0 .. 7 /\ number * 8 + 5 < Word32
  BY DEF FieldNumbers, TagOf, FIXED32
<1>2. Word32 < Word /\ Word32 \in Nat /\ Word \in Nat
  BY WordAssumption
<1>3. TagOf(number, type) \in 1 .. Word32 - 1 /\ TagOf(number, type) \in 0 .. Word - 1
  BY <1>1, <1>2 DEF TagOf
<1> QED
  BY <1>1, <1>3, TagsAreParts

(* A field is fine if its body passes.                                     *)
LEMMA PassingIsFine ==
  ASSUME NEW number \in FieldNumbers, NEW type \in 0 .. 5, type # END_GROUP, NEW body,
         Passes(TagOf(number, type), body)
  PROVE  Fine(Field(number, type, body))
<1> DEFINE tag == TagOf(number, type)
<1>1. tag \in 1 .. Word32 - 1 /\ tag \in 0 .. Word - 1 /\ WireType(tag) = type
  BY TypesOfTags
<1> HIDE DEF tag
<1>2. Says(WriteVarint(tag), tag)
  BY <1>1, WritingSays
<1>3. Passes(tag, body)
  BY DEF tag
<1>4. Skippable(tag, WriteVarint(tag), body)
  BY <1>1, <1>2, <1>3 DEF Skippable
<1> QED
  BY <1>4 DEF Fine, Field, tag

(* Fields that are no groups are fine: numbers,                            *)
LEMMA VarintsAreFine ==
  ASSUME NEW n \in FieldNumbers, NEW v \in 0 .. Word - 1
  PROVE  Fine(Field(n, VARINT, WriteVarint(v)))
<1>1. VARINT \in 0 .. 5 /\ VARINT # END_GROUP
  BY DEF VARINT, END_GROUP
<1>2. Passes(TagOf(n, VARINT), WriteVarint(v))
  BY <1>1, WritingSays, VarintsPass, TypesOfTags
<1> QED
  BY <1>1, <1>2, PassingIsFine

(* bytes after their length,                                               *)
LEMMA DelimitedAreFine ==
  ASSUME NEW n \in FieldNumbers, NEW p \in Seq(Byte), Len(p) < Word32 \div 2
  PROVE  Fine(Field(n, LENGTH_DELIMITED, WriteVarint(Len(p)) \o p))
<1>1. LENGTH_DELIMITED \in 0 .. 5 /\ LENGTH_DELIMITED # END_GROUP
  BY DEF LENGTH_DELIMITED, END_GROUP
<1>2. Len(p) \in 0 .. Word - 1
  <2> DEFINE size == Len(p)
  <2>1. size \in Nat /\ size < Word32 \div 2 /\ Word32 < Word /\ Word32 \in Nat /\ Word \in Nat
    BY WordAssumption
  <2> HIDE DEF size
  <2>2. size \in 0 .. Word - 1
    BY <2>1
  <2> QED
    BY <2>2 DEF size
<1>3. Says(WriteVarint(Len(p)), Len(p))
  BY <1>2, WritingSays
<1>4. WireType(TagOf(n, LENGTH_DELIMITED)) = LENGTH_DELIMITED
  BY <1>1, TypesOfTags
<1>5. Passes(TagOf(n, LENGTH_DELIMITED), WriteVarint(Len(p)) \o p)
  BY <1>3, <1>4, DelimitedPass
<1> QED
  BY <1>1, <1>5, PassingIsFine

(* and bytes of fixed lengths.                                             *)
LEMMA FixedAreFine ==
  ASSUME NEW n \in FieldNumbers, NEW b \in Seq(Byte)
  PROVE  /\ Len(b) = Fixed64Size => Fine(Field(n, FIXED64, b))
         /\ Len(b) = Fixed32Size => Fine(Field(n, FIXED32, b))
<1>1. FIXED64 \in 0 .. 5 /\ FIXED64 # END_GROUP /\ FIXED32 \in 0 .. 5 /\ FIXED32 # END_GROUP
  BY DEF FIXED64, FIXED32, END_GROUP
<1>2. /\ WireType(TagOf(n, FIXED64)) = FIXED64 /\ WireType(TagOf(n, FIXED32)) = FIXED32
  BY <1>1, TypesOfTags
<1>3. /\ Len(b) = Fixed64Size => Passes(TagOf(n, FIXED64), b)
      /\ Len(b) = Fixed32Size => Passes(TagOf(n, FIXED32), b)
  BY <1>2, FixedPass
<1> QED
  BY <1>1, <1>3, PassingIsFine

(* and so are groups of fine fields.                                       *)
LEMMA GroupsAreFine ==
  ASSUME NEW number \in FieldNumbers, NEW n \in Nat, NEW inner, DOMAIN inner = 1 .. n,
         \A i \in 1 .. n : Fine(inner[i])
  PROVE  Fine(Group(number, inner))
<1> DEFINE w    == [i \in DOMAIN inner |-> OnWire(inner[i])]
           tags == [i \in 1 .. n |-> inner[i].tag]
           heads == [i \in 1 .. n |-> WriteVarint(inner[i].tag)]
           bodies == [i \in 1 .. n |-> inner[i].body]
           tag == TagOf(number, START_GROUP)
           end == TagOf(number, END_GROUP)
           foot == WriteVarint(end)
<1>1. Len(w) = n /\ (n = 0 => w = <<>>) /\ \A i \in 1 .. n : w[i] = heads[i] \o bodies[i]
  <2>1. w = [i \in 1 .. n |-> OnWire(inner[i])]
    OBVIOUS
  <2>2. \A i \in 1 .. n : w[i] = heads[i] \o bodies[i]
    BY <2>1 DEF OnWire
  <2>3. n = 0 => w = <<>>
    BY <2>1
  <2>4. Len(w) = n
    BY <2>1
  <2> QED
    BY <2>2, <2>3, <2>4
<1>2. \A i \in 1 .. n : Skippable(tags[i], heads[i], bodies[i])
  BY DEF Fine
<1>3. /\ START_GROUP \in 0 .. 5 /\ END_GROUP \in 0 .. 5 /\ START_GROUP # END_GROUP
  BY DEF START_GROUP, END_GROUP
<1>4. /\ tag \in Nat /\ WireType(tag) = START_GROUP /\ Number(tag) = number
      /\ end \in 1 .. Word32 - 1 /\ end \in 0 .. Word - 1 /\ end \in Nat
      /\ WireType(end) = END_GROUP /\ Number(end) = number
  BY <1>3, TypesOfTags
<1> HIDE DEF w, tags, heads, bodies, tag, end
<1>6. Says(foot, end)
  BY <1>4, WritingSays
<1> HIDE DEF foot
<1>7. Passes(tag, FlattenSeq(w) \o foot)
  <2>1. Fills(w, n, tags, heads, bodies)
    BY <1>1, <1>2 DEF Fills
  <2>2. Surrounds(tag, foot, end)
    BY <1>4, <1>6 DEF Surrounds
  <2> QED
    BY <2>1, <2>2, GroupsPass
<1>8. Fine(Field(number, START_GROUP, FlattenSeq(w) \o foot))
  BY <1>3, <1>7, PassingIsFine DEF tag
<1> QED
  BY <1>8 DEF Group, w, foot, end

(* The well-formed fields, by the grammar of the wire format: a number, a  *)
(* length with so many bytes, the bytes of a fixed field, or a group of    *)
(* any such fields up to its end tag, each with a tag of any field number. *)
(* They are the smallest set that has all of these.                        *)
Fields == [tag : Nat, body : Seq(Byte)]

HasAll(S) ==
  \A n \in FieldNumbers :
    /\ \A v \in 0 .. Word - 1 : Field(n, VARINT, WriteVarint(v)) \in S
    /\ \A p \in Seq(Byte) :
         /\ Len(p) < Word32 \div 2 => Field(n, LENGTH_DELIMITED, WriteVarint(Len(p)) \o p) \in S
         /\ Len(p) = Fixed64Size => Field(n, FIXED64, p) \in S
         /\ Len(p) = Fixed32Size => Field(n, FIXED32, p) \in S
    /\ \A inner \in Seq(S) : Group(n, inner) \in S

Grammar == {field \in Fields : \A S \in SUBSET Fields : HasAll(S) => field \in S}

(* The fine fields have all of these,                                      *)
LEMMA FineHaveAll == HasAll({f \in Fields : Fine(f)})
<1> DEFINE F == {f \in Fields : Fine(f)}
<1>1. ASSUME NEW n \in FieldNumbers, NEW type \in 0 .. 5, NEW body, Fine(Field(n, type, body))
      PROVE  Field(n, type, body) \in F
  <2>1. TagOf(n, type) \in Nat
    BY TypesOfTags
  <2>2. body \in Seq(Byte)
    BY <1>1 DEF Fine, Skippable, Passes, Field
  <2> QED
    BY <1>1, <2>1, <2>2 DEF Field, Fields
<1>2. VARINT \in 0 .. 5 /\ LENGTH_DELIMITED \in 0 .. 5 /\ FIXED64 \in 0 .. 5 /\ FIXED32 \in 0 .. 5
      /\ START_GROUP \in 0 .. 5
  BY DEF VARINT, LENGTH_DELIMITED, FIXED64, FIXED32, START_GROUP
<1>3. ASSUME NEW n \in FieldNumbers, NEW inner \in Seq(F)
      PROVE  Group(n, inner) \in F
  <2>1. Len(inner) \in Nat /\ DOMAIN inner = 1 .. Len(inner)
        /\ \A i \in 1 .. Len(inner) : inner[i] \in F
    OBVIOUS
  <2>2. Fine(Group(n, inner))
    BY <2>1, GroupsAreFine
  <2> QED
    BY <1>1, <1>2, <2>2 DEF Group
<1> QED
  <2> SUFFICES ASSUME NEW n \in FieldNumbers
               PROVE  /\ \A v \in 0 .. Word - 1 : Field(n, VARINT, WriteVarint(v)) \in F
                      /\ \A p \in Seq(Byte) :
                           /\ Len(p) < Word32 \div 2 =>
                                Field(n, LENGTH_DELIMITED, WriteVarint(Len(p)) \o p) \in F
                           /\ Len(p) = Fixed64Size => Field(n, FIXED64, p) \in F
                           /\ Len(p) = Fixed32Size => Field(n, FIXED32, p) \in F
                      /\ \A inner \in Seq(F) : Group(n, inner) \in F
    BY DEF HasAll
  <2> HIDE DEF F
  <2> QED
    BY <1>1, <1>2, <1>3, VarintsAreFine, DelimitedAreFine, FixedAreFine

(* so all well-formed fields are fine,                                     *)
LEMMA GrammarIsFine ==
  ASSUME NEW field \in Grammar
  PROVE  Fine(field)
BY FineHaveAll DEF Grammar

(* and so are those that the runs try: any set that has all fields has     *)
(* these.                                                                  *)
LEMMA WellFormedAreFields ==
  ASSUME NEW S, HasAll(S)
  PROVE  WellFormed \subseteq S
<1>1. /\ Numbers \subseteq FieldNumbers /\ 1 \in Numbers
      /\ \A n \in Numbers, inner \in Seq(S) : Group(n, inner) \in S
  BY NumbersAreFieldNumbers DEF HasAll, Numbers
<1>2. ASSUME NEW n \in Numbers, NEW v \in Varints
      PROVE  Field(n, VARINT, WriteVarint(v)) \in S
  <2>1. v \in 0 .. Word - 1
    BY WordAssumption DEF Varints
  <2> QED
    BY <1>1, <2>1 DEF HasAll
<1>3. ASSUME NEW n \in Numbers, NEW p \in Payload
      PROVE  Field(n, LENGTH_DELIMITED, WriteVarint(Len(p)) \o p) \in S
  <2>1. TagOf(1, END_GROUP) \in Byte /\ TagOf(1, START_GROUP) \in Byte /\ 0 \in Byte
    <3>1. TagOf(1, END_GROUP) \in 1 .. 21 /\ TagOf(1, START_GROUP) \in 1 .. 21
      BY DEF TagOf, END_GROUP, START_GROUP
    <3>2. 0 \in Byte
      BY WordAssumption DEF Byte
    <3> QED
      BY <3>1, <3>2, TagsAssumption
  <2>2. p \in Seq(Byte) /\ Len(p) \in 0 .. 2
    <3>1. p \in {<<>>, <<TagOf(1, END_GROUP)>>, <<TagOf(1, START_GROUP), 0>>}
      BY DEF Payload
    <3>2. CASE p = <<>>
      BY <3>2
    <3>3. CASE p = <<TagOf(1, END_GROUP)>>
      BY <2>1, <3>3
    <3>4. CASE p = <<TagOf(1, START_GROUP), 0>>
      BY <2>1, <3>4
    <3> QED
      BY <3>1, <3>2, <3>3, <3>4
  <2>3. Len(p) < Word32 \div 2
    <3>1. 21 < Word32 /\ Word32 \in Nat
      BY TagsAssumption, WordAssumption
    <3> DEFINE size == Len(p)
    <3>2. size \in 0 .. 2
      BY <2>2
    <3> HIDE DEF size
    <3>3. size < Word32 \div 2
      BY <3>1, <3>2
    <3> QED
      BY <3>3 DEF size
  <2> QED
    BY <1>1, <2>2, <2>3 DEF HasAll
<1>4. ASSUME NEW n \in Numbers
      PROVE  /\ Field(n, FIXED64, Zeros(Fixed64Size)) \in S
             /\ Field(n, FIXED32, Zeros(Fixed32Size)) \in S
  <2>1. ASSUME NEW size \in {Fixed32Size, Fixed64Size}
        PROVE  Zeros(size) \in Seq(Byte) /\ Len(Zeros(size)) = size
    <3>1. size \in Nat /\ 0 \in Byte
      BY FixedAssumption, WordAssumption DEF Byte
    <3> QED
      BY <3>1 DEF Zeros
  <2> QED
    BY <1>1, <2>1 DEF HasAll
<1>5. \A f \in Simple : f \in S
  BY <1>2, <1>3, <1>4 DEF Simple
<1>6. \A f \in S : <<f>> \in Seq(S) /\ <<f, Group(1, <<>>)>> \in Seq(S)
  <2> DEFINE g == Group(1, <<>>)
  <2>1. <<>> \in Seq(S)
    OBVIOUS
  <2>2. g \in S
    BY <1>1, <2>1
  <2> HIDE DEF g
  <2>3. \A f \in S : <<f>> \in Seq(S) /\ <<f, g>> \in Seq(S)
    BY <2>2
  <2> QED
    BY <2>3 DEF g
<1>7. \A f \in Shallow : f \in S
  <2> SUFFICES ASSUME NEW f \in Shallow
               PROVE  f \in S
    OBVIOUS
  <2>1. \/ f \in Simple
        \/ \E n \in Numbers, e \in Simple : f = Group(n, <<e>>)
        \/ \E n \in Numbers : f = Group(n, <<>>)
    BY DEF Shallow
  <2>2. <<>> \in Seq(S)
    OBVIOUS
  <2> QED
    BY <1>1, <1>5, <1>6, <2>1, <2>2
<1> QED
  <2> SUFFICES ASSUME NEW field \in WellFormed
               PROVE  field \in S
    OBVIOUS
  <2>1. \/ field \in Shallow
        \/ \E n \in Numbers, f \in Shallow : field = Nested(n, f)
    BY DEF WellFormed
  <2> QED
    BY <1>1, <1>6, <1>7, <2>1 DEF Nested

(* Fine fields are skipped, whatever bytes follow.                         *)
LEMMA FineAreSkipped ==
  ASSUME buf \in Seq(Byte), NEW field, Fine(field)
  PROVE  IsSkipped(field)
<1> DEFINE body == field.body
           tag  == field.tag
           s    == body \o buf
<1>1. Skippable(tag, WriteVarint(tag), body)
  BY DEF Fine
<1> HIDE DEF body, tag
<1>2. Passes(tag, body) /\ body \in Seq(Byte)
  BY <1>1 DEF Skippable, Passes
<1>3. s \in Seq(Byte) /\ Holds(s, 1, body) /\ 1 \in Nat \ {0} /\ Len(body) \in Nat
  <2>1. Holds(body, 1, body)
    BY <1>2 DEF Holds
  <2> QED
    BY <1>2, <2>1, Appended
<1> HIDE DEF s
<1>4. SkipFieldInline(s, 1, tag) = 1 + Len(body) /\ SkipField(s, 1, tag) = 1 + Len(body)
  BY <1>2, <1>3 DEF Passes
<1>5. 1 + Len(body) = Len(body) + 1
  BY <1>3
<1>6. SkipMessage(WriteVarint(tag) \o body, 1) = Len(WriteVarint(tag) \o body) + 1
  BY <1>1, FieldIsMessage
<1>7. SkipMessage(OnWire(field), 1) = Len(OnWire(field)) + 1
  BY <1>6 DEF OnWire, body, tag
<1>8. /\ SkipFieldInline(field.body \o buf, 1, field.tag) = Len(field.body) + 1
      /\ SkipField(field.body \o buf, 1, field.tag) = Len(field.body) + 1
  BY <1>4, <1>5 DEF body, tag, s
<1> QED
  BY <1>7, <1>8 DEF IsSkipped

(* Both versions skip every field of the grammar, with any number, payload *)
(* and depth of groups, to its last byte and not further, whatever bytes   *)
(* follow, and a message that has only this field is skipped to its end.   *)
(* Those that the runs try are among them.                                 *)
THEOREM WellFormedIsSkipped ==
  Spec => []((\A field \in Grammar : IsSkipped(field)) /\ SkipsTheField)
<1>1. ASSUME buf \in Seq(Byte)
      PROVE  (\A field \in Grammar : IsSkipped(field)) /\ SkipsTheField
  <2>1. \A field \in Grammar : IsSkipped(field)
    BY <1>1, GrammarIsFine, FineAreSkipped
  <2>2. \A field \in WellFormed : IsSkipped(field)
    <3>1. \A field \in WellFormed : Fine(field)
      BY FineHaveAll, WellFormedAreFields
    <3> QED
      BY <1>1, <3>1, FineAreSkipped
  <2> QED
    BY <2>1, <2>2 DEF SkipsTheField
<1> QED
  BY <1>1, BufferType, PTL

=============================================================================
