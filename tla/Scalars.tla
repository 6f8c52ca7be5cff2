------------------------------ MODULE Scalars ------------------------------
(***************************************************************************)
(* Scalar fields as FieldInfo and MessageGenerator of                      *)
(* compiler/generator/message_generator.py treat them: the C++ type of the *)
(* member, its default, and the payload, which three methods of the        *)
(* generator deal with, each by a case distinction of its own.             *)
(*                                                                         *)
(* A member of a varint type is a number, a negative one in two's          *)
(* complement.  One of a fixed type is the bytes that memcpy finds in it.  *)
(***************************************************************************)
EXTENDS Skipper

CONSTANT Behind   (* the byte that readers find behind the end of a buffer *)

ASSUME BehindAssumption == Behind \in Byte

(* The types of FieldDescriptorProto.                                      *)
FieldTypes ==
  {"double", "float", "int64", "uint64", "int32", "fixed64", "fixed32", "bool", "string",
   "group", "message", "bytes", "uint32", "enum", "sfixed32", "sfixed64", "sint32", "sint64"}

cpp_scalar_type ==
  [double |-> "double", float |-> "float", int64 |-> "int64_t", uint64 |-> "uint64_t",
   int32 |-> "int32_t", fixed64 |-> "uint64_t", fixed32 |-> "uint32_t", bool |-> "bool",
   uint32 |-> "uint32_t", sfixed32 |-> "int32_t", sfixed64 |-> "int64_t",
   sint32 |-> "int32_t", sint64 |-> "int64_t", enum |-> "int32_t"]

ScalarTypes == DOMAIN cpp_scalar_type
StringTypes == {"string", "bytes"}

Fixed64Types == {"double", "fixed64", "sfixed64"}
Fixed32Types == {"float", "fixed32", "sfixed32"}
FixedTypes   == Fixed64Types \cup Fixed32Types
VarintTypes  == ScalarTypes \ FixedTypes

(* The wire type the generator puts into the tag, for any type.            *)
wire_type(type) ==
  CASE type \in Fixed64Types                  -> FIXED64
    [] type \in Fixed32Types                  -> FIXED32
    [] type \in StringTypes \cup {"message"}  -> LENGTH_DELIMITED
    [] OTHER                                  -> VARINT

(***************************************************************************)
(* Members.                                                                *)
(***************************************************************************)

WidthOf(type) == IF type \in Fixed64Types THEN Fixed64Size ELSE Fixed32Size

(* Little-endian bytes; the sign of a floating point number is its last bit.*)
ZeroBytes(type)    == [i \in 1 .. WidthOf(type) |-> 0]
NegativeZero(type) == [ZeroBytes(type) EXCEPT ![WidthOf(type)] = Radix]

Zero(type) == IF type \in FixedTypes THEN ZeroBytes(type) ELSE 0

(* Does the member compare equal to its default literal?  As numbers, the  *)
(* two zeros of a floating point type are equal.                           *)
IsDefaultLiteral(type, v) ==
  \/ v = Zero(type)
  \/ type \in {"float", "double"} /\ v = NegativeZero(type)

(* The numbers that a member of a C++ type can hold.                       *)
NumbersOf(cpp) ==
  CASE cpp = "bool"                    -> 0 .. 1
    [] cpp \in {"int32_t", "uint32_t"} -> 0 .. Word32 - 1
    [] OTHER                           -> 0 .. Word - 1

(* Mutant: a negative number is not extended to 64 bits.                   *)
WidenedUnsigned(type, v) == v

(* static_cast<uint64_t>(member): a negative int32_t is extended.          *)
Widened(type, v) ==
  IF cpp_scalar_type[type] = "int32_t" /\ v >= Word32 \div 2 THEN v + (Word - Word32) ELSE v

(* static_cast<T>(number): a bool is whether it is not zero, a short number*)
(* has its low bits.                                                       *)
Cast(cpp, n) ==
  CASE cpp = "bool"                    -> IF n # 0 THEN 1 ELSE 0
    [] cpp \in {"int32_t", "uint32_t"} -> n % Word32
    [] OTHER                           -> n

(***************************************************************************)
(* Payloads: measured, written, and read at p.                             *)
(***************************************************************************)

ScalarSize(type, v) ==
  IF type \in FixedTypes THEN WidthOf(type) ELSE VarintSize(Widened(type, v))

ScalarBytes(type, v) ==
  IF type \in FixedTypes THEN v ELSE WriteVarint(Widened(type, v))

(* The n bytes of memory at p.  Those behind the end of buf could be any.  *)
Memory(buf, p, n) ==
  [i \in 1 .. n |-> IF p + i - 1 \in DOMAIN buf THEN buf[p + i - 1] ELSE Behind]

(* memcpy() into the member.                                               *)
CopyBytes(type, buf, p) ==
  [ptr |-> p + WidthOf(type), value |-> Memory(buf, p, WidthOf(type))]

ReadScalar(type, buf, p) ==
  IF type \in FixedTypes THEN CopyBytes(type, buf, p)
  ELSE LET r == ReadVarint(buf, p)
       IN  [r EXCEPT !.value = Cast(cpp_scalar_type[type], @)]

(***************************************************************************)
(* The payloads of the protobuf encoding, which has nothing to do with the *)
(* code above: a signed number is extended to 64 bits, except that those   *)
(* of the sint types alternate with their negatives.                       *)
(***************************************************************************)

ZigZag(v, word) == IF v >= word \div 2 THEN 2 * (word - v) - 1 ELSE 2 * v

ProtobufBytes(type, v) ==
  CASE type \in FixedTypes        -> v
    [] type = "sint32"            -> WriteVarint(ZigZag(v, Word32))
    [] type = "sint64"            -> WriteVarint(ZigZag(v, Word))
    [] type \in {"int32", "enum"} -> WriteVarint(IF v < Word32 \div 2 THEN v ELSE v + Word - Word32)
    [] OTHER                      -> WriteVarint(v)

=============================================================================
