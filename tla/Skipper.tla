------------------------------ MODULE Skipper ------------------------------
(***************************************************************************)
(* protoopt::UnknownFieldSkipper, unknown_field_skipper.h.                 *)
(*                                                                         *)
(* The class has each function twice: over a CodedInputStream, which knows *)
(* where the input ends, and, named Inline, over a bare pointer.  A        *)
(* function takes the position of the first byte after the tag and returns *)
(* the position after the field, or Null where the code returns false or   *)
(* nullptr.                                                                *)
(***************************************************************************)
EXTENDS Wire

CONSTANTS Fixed32Size, Fixed64Size   (* 4 and 8: the bytes of a fixed field *)

ASSUME FixedAssumption == {Fixed32Size, Fixed64Size} \subseteq Nat \ {0}

VARINT           == 0
FIXED64          == 1
LENGTH_DELIMITED == 2
START_GROUP      == 3
END_GROUP        == 4
FIXED32          == 5

(* A tag is a field number and a wire type.                                *)
TagOf(number, type) == number * 8 + type
Number(tag)   == tag \div 8
WireType(tag) == tag % 8

(***************************************************************************)
(* CodedInputStream: reading varints drops what exceeds the width asked    *)
(* for, reading or skipping over the end of the input fails, and ReadTag() *)
(* is 0 at the end, for a varint that cannot be read, and for a zero.      *)
(***************************************************************************)

StreamAt(buf, p) == IF Inside(buf, p) THEN p ELSE Null

StreamVarint(buf, p, word) ==
  LET r == ReadLoop(buf, p, Groups, word)
  IN  [r EXCEPT !.ptr = StreamAt(buf, r.ptr)]

StreamReadTag(buf, p) ==
  LET r == StreamVarint(buf, p, Word32)
  IN  IF r.ptr = Null THEN [ptr |-> p, value |-> 0] ELSE r

(* A size is given as an int, and a negative one is refused.               *)
StreamSkip(buf, r) ==
  IF r.ptr = Null \/ r.value >= Word32 \div 2 THEN Null
  ELSE StreamAt(buf, r.ptr + r.value)

(***************************************************************************)
(* Over a stream.                                                          *)
(***************************************************************************)

SkipVarint(buf, p)          == StreamVarint(buf, p, Word).ptr
SkipFixed64(buf, p)         == StreamAt(buf, p + Fixed64Size)
SkipFixed32(buf, p)         == StreamAt(buf, p + Fixed32Size)
SkipLengthDelimited(buf, p) == StreamSkip(buf, StreamVarint(buf, p, Word32))

(* The cases of SkipField() that do not lead to another field.             *)
SkipScalar(buf, p, type) ==
  CASE type = VARINT           -> SkipVarint(buf, p)
    [] type = FIXED64          -> SkipFixed64(buf, p)
    [] type = LENGTH_DELIMITED -> SkipLengthDelimited(buf, p)
    [] type = FIXED32          -> SkipFixed32(buf, p)
    [] OTHER                   -> Null

(* Fields are skipped up to the end tag of the group, which must have the  *)
(* number of its start tag; a group inside it is skipped the same way.     *)
SkipGroup(buf, start, startTag) ==
  LET skip[p \in Nat] == [number \in Nat |->
        LET tag  == StreamReadTag(buf, p)
            type == WireType(tag.value)
        IN  IF p = Null \/ tag.value = 0 THEN Null
            ELSE IF type = END_GROUP
                 THEN IF Number(tag.value) = number THEN tag.ptr ELSE Null
            ELSE skip[IF type = START_GROUP THEN skip[tag.ptr][Number(tag.value)]
                      ELSE SkipScalar(buf, tag.ptr, type)][number]]
  IN  skip[start][Number(startTag)]

SkipField(buf, p, tag) ==
  IF WireType(tag) = START_GROUP THEN SkipGroup(buf, p, tag)
  ELSE SkipScalar(buf, p, WireType(tag))

(* Up to a zero tag, the end, or an end tag of any group.                  *)
SkipMessage(buf, start) ==
  LET skip[p \in Nat] ==
        LET tag == StreamReadTag(buf, p)
        IN  IF p = Null THEN Null
            ELSE IF tag.value = 0 \/ WireType(tag.value) = END_GROUP THEN tag.ptr
            ELSE skip[SkipField(buf, tag.ptr, tag.value)]
  IN  skip[start]

(***************************************************************************)
(* Over a pointer.                                                         *)
(***************************************************************************)

(* Mutant: one byte fewer is allowed.                                      *)
SkipShortVarint(buf, p) == ReadLoop(buf, p, Groups - 1, Word).ptr

(* Bytes that continue are counted; ten of them are an error.              *)
SkipVarintInline(buf, p) == ReadLoop(buf, p, Groups, Word).ptr

SkipFixed64Inline(buf, p) == p + Fixed64Size
SkipFixed32Inline(buf, p) == p + Fixed32Size

SkipLengthDelimitedInline(buf, p) ==
  LET r == ReadVarint32Inline(buf, p)
  IN  IF r.ptr = Null THEN Null ELSE r.ptr + r.value

SkipScalarInline(buf, p, type) ==
  CASE type = VARINT           -> SkipVarintInline(buf, p)
    [] type = FIXED64          -> SkipFixed64Inline(buf, p)
    [] type = LENGTH_DELIMITED -> SkipLengthDelimitedInline(buf, p)
    [] type = FIXED32          -> SkipFixed32Inline(buf, p)
    [] OTHER                   -> Null

(* Mutant: the number of the end tag is not compared.                      *)
SkipAnyGroup(buf, start, startTag) ==
  LET skip[p \in Nat] ==
        LET tag  == ReadVarint32Inline(buf, p)
            type == WireType(tag.value)
        IN  IF p = Null \/ ~Inside(buf, tag.ptr) \/ tag.value = 0 THEN Null
            ELSE IF type = END_GROUP THEN tag.ptr
            ELSE skip[IF type = START_GROUP THEN skip[tag.ptr]
                      ELSE SkipScalarInline(buf, tag.ptr, type)]
  IN  skip[start]

SkipGroupInline(buf, start, startTag) ==
  LET skip[p \in Nat] == [number \in Nat |->
        LET tag  == ReadVarint32Inline(buf, p)
            type == WireType(tag.value)
        IN  IF p = Null THEN Null
            ELSE IF tag.ptr = Beyond(buf) THEN Beyond(buf)
            ELSE IF tag.ptr = Null \/ tag.value = 0 THEN Null
            ELSE IF type = END_GROUP
                 THEN IF Number(tag.value) = number THEN tag.ptr ELSE Null
            ELSE skip[IF type = START_GROUP THEN skip[tag.ptr][Number(tag.value)]
                      ELSE SkipScalarInline(buf, tag.ptr, type)][number]]
  IN  skip[start][Number(startTag)]

SkipFieldInline(buf, p, tag) ==
  IF WireType(tag) = START_GROUP THEN SkipGroupInline(buf, p, tag)
  ELSE SkipScalarInline(buf, p, WireType(tag))

=============================================================================
