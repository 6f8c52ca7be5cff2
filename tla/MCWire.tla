------------------------------- MODULE MCWire -------------------------------
(***************************************************************************)
(* Wire, Skipper and Scalars over every buffer of a bounded length.  A     *)
(* byte has one hexadecimal digit instead of seven bits, a short word 7    *)
(* bits instead of 32 and a long one 10 bits instead of 64, so that, as in *)
(* the code, both widths end inside a byte.                                *)
(***************************************************************************)
EXTENDS Scalars

CONSTANTS
  Alphabet,    (* the bytes that are received                              *)
  MaxLength    (* bound on the length of the buffer                        *)

ASSUME AlphabetAssumption == Alphabet \subseteq Byte /\ MaxLength \in Nat

(* As of 2^64: else a third of -1 is its own zigzag form.                  *)
ASSUME ThirdAssumption == Word % 3 # 2

(* A stream counts its bytes in an int.                                    *)
ASSUME LengthAssumption == MaxLength < Word32 \div 2

(* The tags below are bytes, which payloads can have, and short words.     *)
ASSUME TagsAssumption == \A tag \in 1 .. 21 : tag \in Byte /\ tag < Word32

VARIABLE buf

Init == buf = <<>>

Receive ==
  /\ Len(buf) < MaxLength
  /\ \E b \in Alphabet : buf' = Append(buf, b)

Spec == Init /\ [][Receive]_buf

(***************************************************************************)
(* Well-formed fields, by the grammar of the wire format: a tag and what   *)
(* follows it.  Payloads hold bytes that look like tags.                   *)
(***************************************************************************)

Numbers  == {1, 2}
Varints  == {0, Radix - 1, Radix, Word32, Word - 1}
Payload  == {<<>>, <<TagOf(1, END_GROUP)>>, <<TagOf(1, START_GROUP), 0>>}
Zeros(n) == [i \in 1 .. n |-> 0]

Field(number, type, body) == [tag |-> TagOf(number, type), body |-> body]
OnWire(field) == WriteVarint(field.tag) \o field.body

Simple ==
  UNION {{Field(n, VARINT, WriteVarint(v)) : v \in Varints}
          \cup {Field(n, LENGTH_DELIMITED, WriteVarint(Len(p)) \o p) : p \in Payload}
          \cup {Field(n, FIXED64, Zeros(Fixed64Size)), Field(n, FIXED32, Zeros(Fixed32Size))}
         : n \in Numbers}

Group(number, inner) ==
  Field(number, START_GROUP,
        FlattenSeq([i \in DOMAIN inner |-> OnWire(inner[i])])
          \o WriteVarint(TagOf(number, END_GROUP)))

Shallow == Simple \cup {Group(n, <<f>>) : n \in Numbers, f \in Simple}
                  \cup {Group(n, <<>>) : n \in Numbers}

Nested(n, f) == Group(n, <<f, Group(1, <<>>)>>)

WellFormed == Shallow \cup {Nested(n, f) : n \in Numbers, f \in Shallow}

(***************************************************************************)
(* Properties.                                                             *)
(***************************************************************************)

Good(r) == Inside(buf, r.ptr)

(* The readers of the generated code, of LazyField and of the skipper make *)
(* the same of the same bytes: whatever one of them accepts, the others    *)
(* accept with the same end and value, except that the lazy field takes no *)
(* more than five bytes and drops bits, and the skipper refuses bits that  *)
(* a short word has no room for.  What skip_unknown_test.cc expects of     *)
(* SkipVarintInline() is another thing: MCTests.                           *)
ReadersAgree ==
  LET long    == ReadVarint(buf, 1)
      lazy    == ReadVarint32(buf, 1)
      skipped == ReadVarint32Inline(buf, 1)
  IN  /\ Good(lazy) <=> Good(long) /\ long.ptr <= Groups32 + 1
      /\ Good(lazy) => lazy = [long EXCEPT !.value = @ % Word32]
      /\ Good(skipped) <=> Good(long) /\ long.value < Word32
      /\ Good(skipped) => skipped = long
      /\ SkipVarintInline(buf, 1) = long.ptr

(* Reading inverts writing, whatever bytes follow; the size that was added *)
(* up for a number is the number of bytes that are written for it; and no  *)
(* bytes that are read as this number are fewer.                           *)
ReadingInvertsWriting ==
  \A n \in Varints :
    /\ ReadVarint(WriteVarint(n) \o buf, 1)
         = [ptr |-> VarintSize(n) + 1, value |-> n]
    /\ n < Word32 =>
         ReadVarint32(WriteVarint32(n) \o buf, 1)
           = [ptr |-> Varint32Size(n) + 1, value |-> n]
    /\ Good(ReadVarint(buf, 1)) /\ ReadVarint(buf, 1).value = n =>
         ReadVarint(buf, 1).ptr > VarintSize(n)

(* Does some place before q read as more than 32 bits?                     *)
OversizedBefore(q) == \E p \in 1 .. q - 1 : ReadVarint(buf, p).value >= Word32

(* The two versions of the skipper do the same with every tag: what the    *)
(* pointer version skips inside the buffer the stream version skips, and   *)
(* what the stream version skips the pointer version skips or, if what was *)
(* skipped has a place with a number too large for a short word, refuses.  *)
InlineIsStream ==
  \A tag \in 1 .. Word32 - 1 :
    LET inline == SkipFieldInline(buf, 1, tag)
        stream == SkipField(buf, 1, tag)
    IN  /\ Inside(buf, inline) => stream = inline
        /\ stream # Null => \/ inline = stream
                            \/ inline = Null /\ OversizedBefore(stream)

(* A well-formed unknown field, groups in groups included, is skipped to   *)
(* its last byte and not further, whatever follows; a message that has     *)
(* only this field is skipped to its end.                                  *)
IsSkipped(field) ==
  LET after == Len(field.body) + 1
  IN  /\ SkipFieldInline(field.body \o buf, 1, field.tag) = after
      /\ SkipField(field.body \o buf, 1, field.tag) = after
      /\ SkipMessage(OnWire(field), 1) = Len(OnWire(field)) + 1

SkipsTheField == Len(buf) <= 2 => \A field \in WellFormed : IsSkipped(field)

(* Whatever number, flag or bytes a scalar field of any type has read, it  *)
(* writes in the protobuf encoding, in as many bytes as it counts, and     *)
(* reads back.  The exception is exact: the sint types are written like    *)
(* the int types, which is right for zero only.                            *)
ScalarsAreProtobuf ==
  \A type \in ScalarTypes :
    LET r     == ReadScalar(type, buf, 1)
        bytes == ScalarBytes(type, r.value)
    IN  Good(r) =>
          /\ ReadScalar(type, bytes, 1)
               = [ptr |-> ScalarSize(type, r.value) + 1, value |-> r.value]
          /\ bytes = ProtobufBytes(type, r.value)
               <=> type \notin {"sint32", "sint64"} \/ r.value = 0

=============================================================================
