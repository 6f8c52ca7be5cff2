--------------------------- MODULE FieldGenerator ---------------------------
(***************************************************************************)
(* compiler/generator/field_generator.py, which generates the code of one  *)
(* field as fragments, and compiler/generator/helpers.py: a second         *)
(* translation of a field, beside the one of message_generator.py in       *)
(* module GeneratedField.  The plugin uses neither file; this module runs  *)
(* the member that each of the two generators emits through the same calls *)
(* and asks where they part.                                               *)
(*                                                                         *)
(* The fragments call into a runtime, which is external.  Its functions do *)
(* what protobuf's functions of these names do.  Messages are on the heap. *)
(***************************************************************************)
EXTENDS GeneratedField

CONSTANTS
  TypeName,   (* of each field of type message, the parts of the full name *)
  Given,      (* the values that callers and senders give to each field    *)
  MaxCalls    (* bound on the number of calls                              *)

ASSUME NameAssumption ==
  \A f \in Fields : Type[f] = "message" =>
    /\ Len(TypeName[f]) \in Nat \ {0}
    /\ TypeName[f] = [i \in 1 .. Len(TypeName[f]) |-> TypeName[f][i]]

(* Members are given what they can hold.  On the heap submessages that     *)
(* look the same, or serialize to the same bytes, are the same here.       *)
ASSUME GivenAssumption ==
  /\ \A f \in Fields : Given[f] \subseteq ValuesOf(f)
  /\ \A c \in Contents : Seen[c] = c
  /\ \A c, d \in Contents : Encoded[c] = Encoded[d] => c = d

(* Words have an even number of bits.  So no number but zero is its own    *)
(* zigzag form.                                                            *)
ASSUME BitsAssumption == \A word \in {Word, Word32} : word % 2 = 0 /\ word % 3 # 2

(***************************************************************************)
(* The tables.                                                             *)
(***************************************************************************)

CPP_TYPE_MAP ==
  [double |-> "double", float |-> "float", int64 |-> "int64_t", uint64 |-> "uint64_t",
   int32 |-> "int32_t", fixed64 |-> "uint64_t", fixed32 |-> "uint32_t", bool |-> "bool",
   uint32 |-> "uint32_t", sfixed32 |-> "int32_t", sfixed64 |-> "int64_t",
   sint32 |-> "int32_t", sint64 |-> "int64_t"]

WIRE_WRITE_MAP ==
  [double |-> "WriteDouble", float |-> "WriteFloat", int64 |-> "WriteInt64",
   uint64 |-> "WriteUInt64", int32 |-> "WriteInt32", fixed64 |-> "WriteFixed64",
   fixed32 |-> "WriteFixed32", bool |-> "WriteBool", uint32 |-> "WriteUInt32",
   sfixed32 |-> "WriteSFixed32", sfixed64 |-> "WriteSFixed64",
   sint32 |-> "WriteSInt32", sint64 |-> "WriteSInt64"]

PARSE_METHOD_MAP ==
  [double |-> "Fixed64Parse", float |-> "Fixed32Parse", int64 |-> "VarintParse",
   uint64 |-> "VarintParse", int32 |-> "VarintParse", fixed64 |-> "Fixed64Parse",
   fixed32 |-> "Fixed32Parse", bool |-> "VarintParse", uint32 |-> "VarintParse",
   sfixed32 |-> "Fixed32Parse", sfixed64 |-> "Fixed64Parse",
   sint32 |-> "VarintParse", sint64 |-> "VarintParse"]

(* A C++ type: one of this name, a pointer to it or a LazyField of it.     *)
CppType(holder, name) == [holder |-> holder, name |-> name]

String == CppType("value", <<"protoopt", "ArenaString">>)

(* Mutant: the signed fixed types are taken for the unsigned ones.         *)
helpers_type_map_unsigned ==
  [int32 |-> "int32_t", int64 |-> "int64_t", uint32 |-> "uint32_t", uint64 |-> "uint64_t",
   sint32 |-> "int32_t", sint64 |-> "int64_t", fixed32 |-> "uint32_t", fixed64 |-> "uint64_t",
   sfixed32 |-> "uint32_t", sfixed64 |-> "uint64_t", float |-> "float", double |-> "double",
   bool |-> "bool"]

(* The type_map of helpers.cpp_type(), and the function.                   *)
helpers_type_map ==
  [int32 |-> "int32_t", int64 |-> "int64_t", uint32 |-> "uint32_t", uint64 |-> "uint64_t",
   sint32 |-> "int32_t", sint64 |-> "int64_t", fixed32 |-> "uint32_t", fixed64 |-> "uint64_t",
   sfixed32 |-> "int32_t", sfixed64 |-> "int64_t", float |-> "float", double |-> "double",
   bool |-> "bool"]

helpers_cpp_type(f) ==
  CASE Type[f] \in DOMAIN helpers_type_map -> CppType("value", <<helpers_type_map[Type[f]]>>)
    [] Type[f] \in StringTypes             -> String
    [] Type[f] = "message"                 -> CppType("pointer", TypeName[f])
    [] Type[f] = "enum"                    -> CppType("value", TypeName[f])
    [] OTHER                               -> CppType("value", <<"unknown">>)

(* FieldInfo.message_type_name and FieldInfo.storage_type of the class.    *)
message_type_name(f) == <<TypeName[f][Len(TypeName[f])]>>

storage_type(f) ==
  CASE Storage(f) = "ArenaString" -> String
    [] Storage(f) = "LazyField"   -> CppType("LazyField", message_type_name(f))
    [] Storage(f) = "message"     -> CppType("value", message_type_name(f))
    [] OTHER                      -> CppType("value", <<cpp_scalar_type[Type[f]]>>)

wire_type_name(wire) ==
  CASE wire = VARINT           -> "kVarint"
    [] wire = FIXED64          -> "kFixed64"
    [] wire = LENGTH_DELIMITED -> "kLengthDelimited"
    [] wire = FIXED32          -> "kFixed32"

(***************************************************************************)
(* The runtime of the fragments.  An integer that is written is extended   *)
(* to 64 bits, and one that is read is stored in the type of the member.   *)
(***************************************************************************)

(* The wire type that a function of WireFormat puts into the tag.          *)
WrittenAs(method) ==
  CASE method \in {"WriteDouble", "WriteFixed64", "WriteSFixed64"} -> FIXED64
    [] method \in {"WriteFloat", "WriteFixed32", "WriteSFixed32"}  -> FIXED32
    [] method \in {"WriteString", "WriteMessage"}                  -> LENGTH_DELIMITED
    [] OTHER                                                       -> VARINT

Written(method, v) ==
  CASE WrittenAs(method) \in {FIXED64, FIXED32} -> v
    [] method = "WriteSInt32" -> WriteVarint(ZigZag(v, Word32))
    [] method = "WriteSInt64" -> WriteVarint(ZigZag(v, Word))
    [] method = "WriteInt32"  -> WriteVarint(Widened("int32", v))
    [] OTHER                  -> WriteVarint(v)

FixedParse(size, buf, p) ==
  [ptr |-> p + size, value |-> SubSeq(buf, p, Min({p + size - 1, Len(buf)}))]

VarintParse(cpp, buf, p) ==
  LET r == ReadVarint(buf, p) IN [r EXCEPT !.value = Cast(cpp, @)]

(* ReadMessage() merges what it reads into the message, and does not ask   *)
(* whether the message has its required fields.                            *)
Readable(bytes) ==
  {c \in Contents : bytes = Encoded[c] \/ (Parses(bytes) /\ c = Decoded[bytes])}

ReadMessage(c, buf, p) ==
  LET chunk == Chunk(buf, ReadVarint(buf, p))
  IN  IF chunk.ptr = Null \/ Readable(chunk.bytes) = {} THEN [ptr |-> Null, value |-> c]
      ELSE [ptr |-> chunk.ptr, value |-> Merged[c][CHOOSE d \in Readable(chunk.bytes) : TRUE]]

(***************************************************************************)
(* The fragments, generator by generator: the member and its accessors,    *)
(* reading, writing and clearing it.                                       *)
(***************************************************************************)

create_field_generator(f) ==
  CASE Type[f] = "string"  -> "String"
    [] Type[f] = "message" -> IF f \in Lazies THEN "LazyMessage" ELSE "Message"
    [] OTHER               -> "Primitive"

(* The fields whose fragments can all be generated: the tables lack some   *)
(* types.                                                                  *)
Generatable ==
  {f \in Fields : create_field_generator(f) = "Primitive" => Type[f] \in DOMAIN CPP_TYPE_MAP}

IsPrimitive(f) == create_field_generator(f) = "Primitive"

(* PrimitiveFieldGenerator.                                                *)

PrimitiveMember(f) ==
  [type |-> CppType("value", <<CPP_TYPE_MAP[Type[f]]>>), initial |-> Zero(Type[f]),
   accessors |-> {"get", "set"}]

(* Mutant: every fixed number is read as one of 64 bits.                   *)
PrimitiveParseWide(f, buf, p) ==
  IF PARSE_METHOD_MAP[Type[f]] = "VarintParse" THEN VarintParse(CPP_TYPE_MAP[Type[f]], buf, p)
  ELSE FixedParse(Fixed64Size, buf, p)

PrimitiveParse(f, buf, p) ==
  CASE PARSE_METHOD_MAP[Type[f]] = "Fixed64Parse" -> FixedParse(Fixed64Size, buf, p)
    [] PARSE_METHOD_MAP[Type[f]] = "Fixed32Parse" -> FixedParse(Fixed32Size, buf, p)
    [] PARSE_METHOD_MAP[Type[f]] = "VarintParse"  -> VarintParse(CPP_TYPE_MAP[Type[f]], buf, p)

WriteAs(f, method, payload) == WriteVarint(TagOf(FieldNumber[f], WrittenAs(method))) \o payload

(* Mutant: a sint is written like an int.                                  *)
PrimitiveSerializePlain(f, v) ==
  IF IsDefaultLiteral(Type[f], v) THEN <<>>
  ELSE IF Type[f] = "sint32" THEN WriteAs(f, "WriteInt32", Written("WriteInt32", v))
  ELSE WriteAs(f, WIRE_WRITE_MAP[Type[f]], Written(WIRE_WRITE_MAP[Type[f]], v))

PrimitiveSerialize(f, v) ==
  IF IsDefaultLiteral(Type[f], v) THEN <<>>
  ELSE WriteAs(f, WIRE_WRITE_MAP[Type[f]], Written(WIRE_WRITE_MAP[Type[f]], v))

PrimitiveClear(f) == Zero(Type[f])

(* StringFieldGenerator; ReadString() of the runtime calls Set().          *)

StringMember ==
  [type |-> String, initial |-> Text(FALSE, <<>>), accessors |-> {"get", "set", "mutable"}]

StringSerialize(f, v) == IF v.has THEN WriteAs(f, "WriteString", Delimited(v.value)) ELSE <<>>

StringParse(v, buf, p) == ReadString(v, buf, p)

StringClear == Text(FALSE, <<>>)

(* MessageFieldGenerator; the member is NULL or the value it points to.    *)

MessageMember(f) ==
  [type |-> CppType("pointer", TypeName[f]), initial |-> NULL,
   accessors |-> {"has", "get", "mutable"}]

MessageHas(v) == v # NULL

(* mutable_() makes a submessage if there is none.                         *)
MessageMutable(v) == IF v = NULL THEN Default ELSE v

(* Mutant: a submessage is parsed into a new one.                          *)
MessageParseAnew(v, buf, p) == ReadMessage(Default, buf, p)

MessageParse(v, buf, p) == ReadMessage(MessageMutable(v), buf, p)

MessageSerialize(f, v) ==
  IF v = NULL THEN <<>> ELSE WriteAs(f, "WriteMessage", Delimited(Encoded[v]))

(* A submessage is cleared in place.                                       *)
MessageClear(v) == IF v = NULL THEN NULL ELSE Default

(* LazyMessageFieldGenerator.                                              *)

LazyMember(f) ==
  [type |-> CppType("LazyField", TypeName[f]), initial |-> Lazy(FALSE, FALSE, <<>>, Default),
   accessors |-> {"get", "mutable"}]

LazyParse(v, buf, p) == ReadLazy(v, buf, p)

(* The payload is written without its tag.                                 *)
LazySerialize(v) ==
  IF LazyPayload(v) = NULL THEN <<>> ELSE WriteLengthDelimitedBytes(LazyPayload(v))

LazyClear(v) == Lazy(FALSE, FALSE, <<>>, Default)

(* The methods of FieldGenerator.                                          *)

Member(f) ==
  CASE create_field_generator(f) = "Message"     -> MessageMember(f)
    [] create_field_generator(f) = "LazyMessage" -> LazyMember(f)
    [] create_field_generator(f) = "String"      -> StringMember
    [] IsPrimitive(f)                            -> PrimitiveMember(f)

FragmentValue(f, v) ==
  CASE create_field_generator(f) = "LazyMessage" -> Content(v)
    [] create_field_generator(f) = "String"      -> v.value
    [] OTHER                                     -> v

FragmentSet(f, v, x) == IF create_field_generator(f) = "String" THEN SetText(v, x) ELSE x

(* A write through the pointer that mutable_ returns.                      *)
FragmentMutated(f, x) ==
  CASE create_field_generator(f) = "LazyMessage" -> Owned(x)
    [] create_field_generator(f) = "String"      -> Text(TRUE, x)
    [] create_field_generator(f) = "Message"     -> x

(* The case of the field number, whatever the wire type was.               *)
generate_parse_code(f, v, buf, p) ==
  CASE create_field_generator(f) = "Message"     -> MessageParse(v, buf, p)
    [] create_field_generator(f) = "LazyMessage" -> LazyParse(v, buf, p)
    [] create_field_generator(f) = "String"      -> StringParse(v, buf, p)
    [] IsPrimitive(f)                            -> PrimitiveParse(f, buf, p)

generate_serialize_code(f, v) ==
  CASE create_field_generator(f) = "Message"     -> MessageSerialize(f, v)
    [] create_field_generator(f) = "LazyMessage" -> LazySerialize(v)
    [] create_field_generator(f) = "String"      -> StringSerialize(f, v)
    [] IsPrimitive(f)                            -> PrimitiveSerialize(f, v)

generate_clear_code(f, v) ==
  CASE create_field_generator(f) = "Message"     -> MessageClear(v)
    [] create_field_generator(f) = "LazyMessage" -> LazyClear(v)
    [] create_field_generator(f) = "String"      -> StringClear
    [] IsPrimitive(f)                            -> PrimitiveClear(f)

(***************************************************************************)
(* A field whose two members get the same calls.                           *)
(***************************************************************************)

VARIABLES
  field,
  class,      (* the member in the class of MessageGenerator               *)
  fragments,  (* the member in a class that is put together of fragments   *)
  failed,     (* did the last parse into class fail, and leave it open?    *)
  history,    (* what the field was given since it was last overwritten;   *)
              (* nothing reads it, but it tells what the member should be  *)
  calls

vars == <<field, class, fragments, failed, history, calls>>

Initial == Observed(field, Cleared(field))

Init ==
  /\ field \in Generatable
  /\ class = Cleared(field)
  /\ fragments = Member(field).initial
  /\ failed = FALSE
  /\ history = <<Initial>>
  /\ calls = 0

Call == calls < MaxCalls /\ calls' = calls + 1 /\ UNCHANGED field

Set(x) ==
  /\ Call
  /\ "set" \in Accessors(field)
  /\ class' = Assigned(field, class, x)
  /\ fragments' = FragmentSet(field, fragments, x)
  /\ failed' = FALSE
  /\ history' = <<x>>

Mutate(x) ==
  /\ Call
  /\ "mutable" \in Accessors(field)
  /\ class' = Mutated(field, x)
  /\ fragments' = FragmentMutated(field, x)
  /\ failed' = FALSE
  /\ history' = <<x>>

Get ==
  /\ field \in Lazies
  /\ class' = Opened(class)
  /\ fragments' = Opened(fragments)
  /\ UNCHANGED <<field, failed, history, calls>>

Clear ==
  /\ Call
  /\ class' = Cleared(field)
  /\ fragments' = generate_clear_code(field, fragments)
  /\ failed' = FALSE
  /\ history' = <<Initial>>

(* What a protobuf sender puts behind the tag for x.                       *)
ProtobufPayload(x) ==
  CASE Type[field] \in StringTypes -> Delimited(x)
    [] Type[field] = "message"     -> Delimited(Encoded[x])
    [] OTHER                       -> ProtobufBytes(Type[field], x)

(* What both generators take it for: neither reads a sint as one, and lazy *)
(* fields read a submessage without its required fields as an empty one.   *)
Taken(x) ==
  CASE Type[field] = "sint32" -> ZigZag(x, Word32)
    [] Type[field] = "sint64" -> ZigZag(x, Word)
    [] field \in Lazies       -> Meaning(Encoded[x])
    [] OTHER                  -> x

(* A payload arrives, with the expected wire type.                         *)
Receive(x) ==
  /\ Call
  /\ \E r \in {ReadField(field, class, ProtobufPayload(x), 1)} :
       /\ failed' = (r.ptr = Null)
       /\ class' \in IF failed' THEN Contents ELSE {r.value}
  /\ fragments' = generate_parse_code(field, fragments, ProtobufPayload(x), 1).value
  /\ history' = Append(history, Taken(x))

Next ==
  \/ \E x \in Given[field] : Set(x) \/ Mutate(x) \/ Receive(x)
  \/ Get \/ Clear

Spec == Init /\ [][Next]_vars

(***************************************************************************)
(* Properties.                                                             *)
(***************************************************************************)

Sides == {"class", "fragments"}

(* A reader of a pointer that is NULL has to ask has_ first.               *)
Value(side) ==
  IF side = "class" THEN Observed(field, class)
  ELSE IF MessageHas(fragments) THEN FragmentValue(field, fragments) ELSE Default

Bytes(side) ==
  IF side = "class" THEN FieldBytes(field, class) ELSE generate_serialize_code(field, fragments)

Parsed(side, buf, p) ==
  IF side = "class" THEN ReadField(field, Cleared(field), buf, p)
  ELSE generate_parse_code(field, Member(field).initial, buf, p)

Result(side, v) == IF side = "class" THEN Observed(field, v) ELSE FragmentValue(field, v)

Eager == Type[field] = "message" /\ field \notin Lazies

(* After any calls both members have the value that was given last, except *)
(* that an eager submessage is replaced by what arrives in the one class   *)
(* and merged with it in the other; a parse of the one fails for want of   *)
(* required fields only.  The two keep the same state otherwise.           *)
ValuesFollowCalls ==
  LET last == history[Len(history)]
  IN  /\ Value("class") = last \/ failed
      /\ failed => Eager /\ last \notin Complete
      /\ IF Eager
         THEN Value("fragments") = FoldLeft(LAMBDA c, d : Merged[c][d], history[1], Tail(history))
         ELSE fragments = class

(* What one member writes, the other reads back, in all four directions,   *)
(* and it writes nothing for default values only.  The exceptions are      *)
(* exact: a sint of the fragments is read in its zigzag form, without its  *)
(* tag a lazy field starts with its length, and a submessage that lacks    *)
(* required fields is refused by the class, and read as an empty one by    *)
(* any lazy field.                                                         *)
EachReadsTheOther ==
  \A sender, receiver \in Sides :
    LET bytes == Bytes(sender)
        sent  == Value(sender)
        tag   == ReadTag(bytes, 1)
        got   == Parsed(receiver, bytes, tag.ptr)
        value == Result(receiver, got.value)
    IN  IF bytes = <<>> THEN Settled(field, sent) = Initial
        ELSE IF sender = "fragments" /\ field \in Lazies
             THEN tag.value = Len(bytes) - VarintSize(tag.value)
        ELSE /\ tag.value = Tag(field)
             /\ IF Eager /\ sent \notin Complete /\ receiver = "class" THEN got.ptr = Null
                ELSE /\ got.ptr = Len(bytes) + 1
                     /\ value = IF sender = "fragments" \/ field \in Lazies THEN Taken(sent)
                                ELSE sent

(* What is written is what protobuf writes for the value.  The exceptions  *)
(* are exact: the sints of the class, the tag that is missing before the   *)
(* lazy field of fragments, and what a lazy field received and could not   *)
(* parse, which stands for an empty submessage but is written as it came,  *)
(* until a getter has looked at it.                                        *)
WritesProtobuf ==
  LET header == WriteVarint(TagOf(FieldNumber[field], wire_type(Type[field])))
  IN  \A sender \in Sides : Bytes(sender) # <<>> =>
        LET value    == Value(sender)
            kept     == field \in Lazies /\ ~class.parsed /\ ~Parses(class.bytes)
            payload  == IF kept THEN Delimited(class.bytes) ELSE ProtobufPayload(value)
            expected == IF sender = "fragments" /\ field \in Lazies THEN payload
                        ELSE header \o payload
        IN  IF Type[field] \in {"sint32", "sint64"} /\ sender = "class"
            THEN (Bytes(sender) = expected) = (Taken(value) = value)
            ELSE Bytes(sender) = expected

(* The tables of the three files agree about a field that all can          *)
(* generate: a scalar or a string has the same C++ type in them, is read   *)
(* by the function and written with the wire type of its tag, and has the  *)
(* same accessors, but for has_ of an eager submessage.  A submessage is   *)
(* part of the class, and behind a pointer in the fragments; a lazy one is *)
(* in a LazyField in both, but for helpers.cpp_type(), which knows no lazy *)
(* fields.  The class knows it by the last part of its name, the others by *)
(* the whole.  Fields that fragments cannot generate are enums and bytes.  *)
TablesAgree ==
  LET type     == Type[field]
      storage  == storage_type(field)
      fragment == Member(field).type
      helper   == helpers_cpp_type(field)
  IN  /\ IF type = "message"
         THEN /\ helper = CppType("pointer", fragment.name)
              /\ fragment.holder = IF Eager THEN "pointer" ELSE storage.holder
              /\ storage.holder = IF Eager THEN "value" ELSE "LazyField"
              /\ storage.name = fragment.name <=> Len(TypeName[field]) = 1
         ELSE storage = fragment /\ helper = fragment
      /\ type \in ScalarTypes =>
           /\ WrittenAs(WIRE_WRITE_MAP[type]) = wire_type(type)
           /\ PARSE_METHOD_MAP[type] =
                CASE wire_type_name(wire_type(type)) = "kVarint"  -> "VarintParse"
                  [] wire_type_name(wire_type(type)) = "kFixed64" -> "Fixed64Parse"
                  [] wire_type_name(wire_type(type)) = "kFixed32" -> "Fixed32Parse"
      /\ Member(field).accessors = Accessors(field) \cup IF Eager THEN {"has"} ELSE {}
      /\ {Type[f] : f \in Fields \ Generatable} \subseteq {"enum", "bytes"}

=============================================================================
