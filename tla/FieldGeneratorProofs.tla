------------------------- MODULE FieldGeneratorProofs ------------------------
(***************************************************************************)
(* The two generators of a field emit the same member, with the exceptions *)
(* the properties name, for fields of any number and type, any values, and *)
(* any number of calls.                                                    *)
(***************************************************************************)
EXTENDS FieldGenerator, FieldProofs

(***************************************************************************)
(* The tables.                                                             *)
(***************************************************************************)

(* A type that the tables have is a scalar one, and they agree about it.   *)
LEMMA TypesAreKnown ==
  ASSUME NEW type \in DOMAIN CPP_TYPE_MAP
  PROVE  /\ type \in ScalarTypes /\ type # "enum" /\ type # "message" /\ type \notin StringTypes
         /\ CPP_TYPE_MAP[type] = cpp_scalar_type[type]
         /\ type \in DOMAIN helpers_type_map /\ helpers_type_map[type] = cpp_scalar_type[type]
         /\ WrittenAs(WIRE_WRITE_MAP[type]) = wire_type(type)
         /\ PARSE_METHOD_MAP[type] = IF type \in Fixed64Types THEN "Fixed64Parse"
                                     ELSE IF type \in Fixed32Types THEN "Fixed32Parse"
                                     ELSE "VarintParse"
<1>1. type \in {"double", "float", "int64", "uint64", "int32", "fixed64", "fixed32", "bool",
                "uint32", "sfixed32", "sfixed64", "sint32", "sint64"}
  BY DEF CPP_TYPE_MAP
<1>2. /\ type \in ScalarTypes /\ type # "enum" /\ type # "message" /\ type \notin StringTypes
      /\ CPP_TYPE_MAP[type] = cpp_scalar_type[type]
  <2>1. type \in ScalarTypes
    BY <1>1 DEF ScalarTypes, cpp_scalar_type
  <2>2. type # "enum" /\ type # "message" /\ type \notin StringTypes
    BY <1>1 DEF StringTypes
  <2>3. CPP_TYPE_MAP[type] = cpp_scalar_type[type]
    <3>1. CASE type \in {"double", "float", "int64", "uint64", "int32", "fixed64", "fixed32"}
      BY <3>1 DEF cpp_scalar_type, CPP_TYPE_MAP
    <3>2. CASE type \in {"bool", "uint32", "sfixed32", "sfixed64", "sint32", "sint64"}
      BY <3>2 DEF cpp_scalar_type, CPP_TYPE_MAP
    <3> QED
      BY <1>1, <3>1, <3>2
  <2> QED
    BY <2>1, <2>2, <2>3
<1>3. type \in DOMAIN helpers_type_map /\ helpers_type_map[type] = cpp_scalar_type[type]
  <2>1. CASE type \in {"double", "float", "int64", "uint64", "int32", "fixed64", "fixed32"}
    BY <2>1 DEF cpp_scalar_type, helpers_type_map
  <2>2. CASE type \in {"bool", "uint32", "sfixed32", "sfixed64", "sint32", "sint64"}
    BY <2>2 DEF cpp_scalar_type, helpers_type_map
  <2> QED
    BY <1>1, <2>1, <2>2
<1>4. /\ type \in Fixed64Types => WIRE_WRITE_MAP[type] \in {"WriteDouble", "WriteFixed64", "WriteSFixed64"}
      /\ type \in Fixed32Types => WIRE_WRITE_MAP[type] \in {"WriteFloat", "WriteFixed32", "WriteSFixed32"}
      /\ type \notin FixedTypes => WIRE_WRITE_MAP[type] \in
           {"WriteInt64", "WriteUInt64", "WriteInt32", "WriteBool", "WriteUInt32", "WriteSInt32",
            "WriteSInt64"}
  BY <1>1 DEF WIRE_WRITE_MAP, FixedTypes, Fixed64Types, Fixed32Types
<1>5. WrittenAs(WIRE_WRITE_MAP[type]) = IF type \in Fixed64Types THEN FIXED64
                                        ELSE IF type \in Fixed32Types THEN FIXED32 ELSE VARINT
  BY <1>4 DEF WrittenAs, FixedTypes
<1>6. wire_type(type) = IF type \in Fixed64Types THEN FIXED64
                        ELSE IF type \in Fixed32Types THEN FIXED32 ELSE VARINT
  BY <1>2 DEF wire_type, Fixed64Types, Fixed32Types
<1>7. PARSE_METHOD_MAP[type] = IF type \in Fixed64Types THEN "Fixed64Parse"
                               ELSE IF type \in Fixed32Types THEN "Fixed32Parse"
                               ELSE "VarintParse"
  BY <1>1 DEF PARSE_METHOD_MAP, Fixed64Types, Fixed32Types
<1> QED
  BY <1>2, <1>3, <1>5, <1>6, <1>7

(* Which generator a field gets follows its storage.                       *)
LEMMA KindsAgree ==
  ASSUME NEW f \in Generatable
  PROVE  /\ f \in Fields
         /\ \/ /\ Storage(f) = "ArenaString" /\ create_field_generator(f) = "String"
               /\ Type[f] = "string" /\ f \notin Lazies
            \/ /\ Storage(f) = "LazyField" /\ create_field_generator(f) = "LazyMessage"
               /\ Type[f] = "message" /\ f \in Lazies
            \/ /\ Storage(f) = "message" /\ create_field_generator(f) = "Message"
               /\ Type[f] = "message" /\ f \notin Lazies
            \/ /\ Storage(f) = "scalar" /\ create_field_generator(f) = "Primitive"
               /\ Type[f] \in DOMAIN CPP_TYPE_MAP /\ f \notin Lazies
<1>1. f \in Fields /\ (create_field_generator(f) = "Primitive" => Type[f] \in DOMAIN CPP_TYPE_MAP)
  BY DEF Generatable
<1>2. Type[f] = "bytes" => FALSE
  <2>1. "bytes" \notin DOMAIN CPP_TYPE_MAP
    BY DEF CPP_TYPE_MAP
  <2> QED
    BY <1>1, <2>1 DEF create_field_generator
<1>3. CASE Storage(f) = "ArenaString"
  BY <1>1, <1>2, <1>3, StorageKinds DEF create_field_generator, StringTypes
<1>4. CASE Storage(f) = "LazyField"
  BY <1>1, <1>4, StorageKinds DEF create_field_generator
<1>5. CASE Storage(f) = "message"
  BY <1>1, <1>5, StorageKinds DEF create_field_generator
<1>6. CASE Storage(f) = "scalar"
  <2>1. Type[f] \in ScalarTypes /\ f \notin Lazies
    BY <1>1, <1>6, StorageKinds
  <2>2. Type[f] # "string" /\ Type[f] # "message"
    BY <2>1 DEF ScalarTypes, cpp_scalar_type
  <2> QED
    BY <1>1, <1>6, <2>1, <2>2 DEF create_field_generator
<1> QED
  BY <1>1, <1>3, <1>4, <1>5, <1>6, StorageKinds

(* The tables agree about a field that all generators know.                *)
THEOREM TablesAlwaysAgree == Spec => []TablesAgree
<1>1. Init => field \in Generatable
  BY DEF Init
<1>2. field \in Generatable /\ [Next]_vars => (field \in Generatable)'
  <2> SUFFICES ASSUME field \in Generatable, [Next]_vars
               PROVE  field' = field
    OBVIOUS
  <2> QED
    BY DEF Next, Set, Mutate, Get, Clear, Receive, Call, vars
<1>3. ASSUME field \in Generatable
      PROVE  TablesAgree
  <2> DEFINE type == Type[field]
             storage == storage_type(field)
             fragment == Member(field).type
             helper == helpers_cpp_type(field)
  <2>1. IF type = "message"
        THEN /\ helper = CppType("pointer", fragment.name)
             /\ fragment.holder = IF Eager THEN "pointer" ELSE storage.holder
             /\ storage.holder = IF Eager THEN "value" ELSE "LazyField"
             /\ storage.name = fragment.name <=> Len(TypeName[field]) = 1
        ELSE storage = fragment /\ helper = fragment
    <3>1. CASE Storage(field) = "scalar"
      <4>1. type \in DOMAIN CPP_TYPE_MAP /\ Member(field) = PrimitiveMember(field)
        BY <1>3, <3>1, KindsAgree DEF Member, IsPrimitive
      <4>2. /\ storage = CppType("value", <<cpp_scalar_type[type]>>)
            /\ fragment = CppType("value", <<CPP_TYPE_MAP[type]>>)
            /\ helper = CppType("value", <<helpers_type_map[type]>>)
        BY <3>1, <4>1, TypesAreKnown DEF storage_type, PrimitiveMember, helpers_cpp_type
      <4> QED
        BY <4>1, <4>2, TypesAreKnown
    <3>2. CASE Storage(field) = "ArenaString"
      <4>1. type = "string" /\ type \notin DOMAIN helpers_type_map /\ Member(field) = StringMember
        BY <1>3, <3>2, KindsAgree DEF helpers_type_map, Member, IsPrimitive
      <4>2. storage = String /\ fragment = String /\ helper = String
        BY <3>2, <4>1 DEF storage_type, StringMember, helpers_cpp_type, StringTypes
      <4> QED
        BY <4>1, <4>2
    <3>3. ASSUME type = "message"
          PROVE  /\ helper = CppType("pointer", TypeName[field])
                 /\ message_type_name(field) = TypeName[field] <=> Len(TypeName[field]) = 1
      <4>1. type \notin DOMAIN helpers_type_map /\ type \notin StringTypes
        BY <3>3 DEF helpers_type_map, StringTypes
      <4>2. helper = CppType("pointer", TypeName[field])
        BY <3>3, <4>1 DEF helpers_cpp_type
      <4> DEFINE name == TypeName[field]
                 n == Len(name)
      <4>3. n \in Nat \ {0} /\ name = [i \in 1 .. n |-> name[i]]
        BY <1>3, <3>3, KindsAgree, NameAssumption
      <4>4. message_type_name(field) = <<name[n]>>
        BY DEF message_type_name
      <4> HIDE DEF n
      <4>5. n = 1 => <<name[n]>> = name
        BY <4>3
      <4>6. <<name[n]>> = name => n = 1
        <5>1. Len(<<name[n]>>) = 1
          OBVIOUS
        <5> QED
          BY <5>1 DEF n
      <4> QED
        BY <4>2, <4>4, <4>5, <4>6 DEF n
    <3>4. CASE Storage(field) = "LazyField"
      <4>1. type = "message" /\ Eager = FALSE /\ Member(field) = LazyMember(field)
        BY <1>3, <3>4, KindsAgree DEF Member, IsPrimitive, Eager
      <4>2. /\ storage = CppType("LazyField", message_type_name(field))
            /\ fragment = CppType("LazyField", TypeName[field])
        BY <3>4, <4>1 DEF storage_type, LazyMember
      <4>3. /\ storage.holder = "LazyField" /\ storage.name = message_type_name(field)
            /\ fragment.holder = "LazyField" /\ fragment.name = TypeName[field]
        BY <4>2 DEF CppType
      <4> HIDE DEF storage, fragment, helper
      <4> QED
        BY <3>3, <4>1, <4>3
    <3>5. CASE Storage(field) = "message"
      <4>1. type = "message" /\ Eager = TRUE /\ Member(field) = MessageMember(field)
        BY <1>3, <3>5, KindsAgree DEF Member, IsPrimitive, Eager
      <4>2. /\ storage = CppType("value", message_type_name(field))
            /\ fragment = CppType("pointer", TypeName[field])
        BY <3>5, <4>1 DEF storage_type, MessageMember
      <4>3. /\ storage.holder = "value" /\ storage.name = message_type_name(field)
            /\ fragment.holder = "pointer" /\ fragment.name = TypeName[field]
        BY <4>2 DEF CppType
      <4> HIDE DEF storage, fragment, helper
      <4> QED
        BY <3>3, <4>1, <4>3
    <3> QED
      BY <1>3, <3>1, <3>2, <3>4, <3>5, KindsAgree
  <2>4. type \in ScalarTypes =>
          /\ WrittenAs(WIRE_WRITE_MAP[type]) = wire_type(type)
          /\ PARSE_METHOD_MAP[type] =
               CASE wire_type_name(wire_type(type)) = "kVarint"  -> "VarintParse"
                 [] wire_type_name(wire_type(type)) = "kFixed64" -> "Fixed64Parse"
                 [] wire_type_name(wire_type(type)) = "kFixed32" -> "Fixed32Parse"
    <3> SUFFICES ASSUME type \in ScalarTypes
                 PROVE  /\ WrittenAs(WIRE_WRITE_MAP[type]) = wire_type(type)
                        /\ PARSE_METHOD_MAP[type] =
                             CASE wire_type_name(wire_type(type)) = "kVarint"  -> "VarintParse"
                               [] wire_type_name(wire_type(type)) = "kFixed64" -> "Fixed64Parse"
                               [] wire_type_name(wire_type(type)) = "kFixed32" -> "Fixed32Parse"
      OBVIOUS
    <3>1. type \in DOMAIN CPP_TYPE_MAP
      BY <1>3, KindsAgree DEF ScalarTypes, cpp_scalar_type
    <3> HIDE DEF type
    <3>2. wire_type(type) = IF type \in Fixed64Types THEN FIXED64
                            ELSE IF type \in Fixed32Types THEN FIXED32 ELSE VARINT
      BY <3>1, TypesAreKnown DEF wire_type, Fixed64Types, Fixed32Types
    <3>3. /\ wire_type_name(VARINT) = "kVarint" /\ wire_type_name(FIXED64) = "kFixed64"
          /\ wire_type_name(FIXED32) = "kFixed32"
      BY DEF wire_type_name, VARINT, FIXED64, FIXED32, LENGTH_DELIMITED
    <3> QED
      BY <3>1, <3>2, <3>3, TypesAreKnown
  <2>2. Member(field).accessors = Accessors(field) \cup IF Eager THEN {"has"} ELSE {}
    <3>1. CASE Storage(field) = "scalar"
      <4>1. Type[field] # "message"
        BY <1>3, <3>1, KindsAgree, TypesAreKnown
      <4>2. Member(field) = PrimitiveMember(field) /\ Accessors(field) = {"get", "set"}
        BY <1>3, <3>1, KindsAgree DEF Member, IsPrimitive, Accessors
      <4> QED
        BY <4>1, <4>2 DEF PrimitiveMember, Eager
    <3>2. CASE Storage(field) = "ArenaString"
      <4>1. Type[field] # "message"
        BY <1>3, <3>2, KindsAgree
      <4>2. Member(field) = StringMember /\ Accessors(field) = {"get", "set", "mutable"}
        BY <1>3, <3>2, KindsAgree DEF Member, IsPrimitive, Accessors
      <4>3. Member(field).accessors = {"get", "set", "mutable"}
        BY <4>2 DEF StringMember
      <4>4. Eager = FALSE
        BY <4>1 DEF Eager
      <4> QED
        BY <4>2, <4>3, <4>4
    <3>3. CASE Storage(field) = "LazyField"
      <4>1. field \in Lazies
        BY <1>3, <3>3, KindsAgree
      <4>2. Member(field) = LazyMember(field) /\ Accessors(field) = {"get", "mutable"}
        BY <1>3, <3>3, KindsAgree DEF Member, IsPrimitive, Accessors
      <4>3. Member(field).accessors = {"get", "mutable"}
        BY <4>2 DEF LazyMember
      <4>4. Eager = FALSE
        BY <4>1 DEF Eager
      <4> QED
        BY <4>2, <4>3, <4>4
    <3>4. CASE Storage(field) = "message"
      <4>1. Type[field] = "message" /\ field \notin Lazies
        BY <1>3, <3>4, KindsAgree
      <4>2. Member(field) = MessageMember(field) /\ Accessors(field) = {"get", "mutable"}
        BY <1>3, <3>4, KindsAgree DEF Member, IsPrimitive, Accessors
      <4>3. Member(field).accessors = {"get", "has", "mutable"}
        BY <4>2 DEF MessageMember
      <4>4. Eager = TRUE
        BY <4>1 DEF Eager
      <4> QED
        BY <4>2, <4>3, <4>4
    <3> QED
      BY <1>3, <3>1, <3>2, <3>3, <3>4, KindsAgree
  <2>3. ASSUME NEW f \in Fields \ Generatable
        PROVE  Type[f] \in {"enum", "bytes"}
    <3>1. create_field_generator(f) = "Primitive" /\ Type[f] \notin DOMAIN CPP_TYPE_MAP
      BY DEF Generatable
    <3>2. Type[f] \in ScalarTypes \cup StringTypes \cup {"message"}
      BY FieldAssumption
    <3>3. Type[f] # "string" /\ Type[f] # "message"
      BY <3>1 DEF create_field_generator
    <3>4. ScalarTypes \ {"enum"} \subseteq DOMAIN CPP_TYPE_MAP
      BY DEF ScalarTypes, cpp_scalar_type, CPP_TYPE_MAP
    <3> QED
      BY <3>1, <3>2, <3>3, <3>4 DEF StringTypes
  <2> QED
    BY <2>1, <2>2, <2>3, <2>4 DEF TablesAgree
<1> QED
  BY <1>1, <1>2, <1>3, PTL DEF Spec

(***************************************************************************)
(* What the fragments write and read, in the terms of the class.           *)
(***************************************************************************)

(* The runtime of the fragments writes a scalar as protobuf does.          *)
LEMMA FragmentsAreProtobuf ==
  ASSUME NEW type \in DOMAIN CPP_TYPE_MAP, NEW v \in ScalarStates(type)
  PROVE  Written(WIRE_WRITE_MAP[type], v) = ProtobufBytes(type, v)
<1> DEFINE method == WIRE_WRITE_MAP[type]
<1>1. type \in {"double", "float", "int64", "uint64", "int32", "fixed64", "fixed32", "bool",
                "uint32", "sfixed32", "sfixed64", "sint32", "sint64"}
  BY DEF CPP_TYPE_MAP
<1>2. CASE type \in FixedTypes
  <2>1. WrittenAs(method) \in {FIXED64, FIXED32}
    BY <1>2, TypesAreKnown DEF wire_type, FixedTypes
  <2>2. method \notin {"WriteSInt32", "WriteSInt64", "WriteInt32"}
    BY <1>2 DEF WIRE_WRITE_MAP, FixedTypes, Fixed64Types, Fixed32Types
  <2>3. type \notin {"sint32", "sint64", "int32", "enum"}
    BY <1>2 DEF FixedTypes, Fixed64Types, Fixed32Types
  <2> QED
    BY <1>2, <2>1, <2>2, <2>3 DEF Written, ProtobufBytes
<1>3. CASE type \notin FixedTypes
  <2>1. WrittenAs(method) \notin {FIXED64, FIXED32}
    BY <1>3, TypesAreKnown
      DEF wire_type, FixedTypes, VARINT, FIXED64, FIXED32
  <2>2. CASE type = "sint32"
    <3>1. method = "WriteSInt32"
      BY <2>2 DEF WIRE_WRITE_MAP
    <3> QED
      BY <1>3, <2>1, <2>2, <3>1 DEF Written, ProtobufBytes
  <2>3. CASE type = "sint64"
    <3>1. method = "WriteSInt64"
      BY <2>3 DEF WIRE_WRITE_MAP
    <3> QED
      BY <1>3, <2>1, <2>3, <3>1 DEF Written, ProtobufBytes
  <2>4. CASE type \notin {"sint32", "sint64"}
    <3>1. method \notin {"WriteSInt32", "WriteSInt64"} /\ (method = "WriteInt32" <=> type = "int32")
      BY <1>1, <2>4 DEF WIRE_WRITE_MAP
    <3>2. Written(method, v) = IF method = "WriteInt32" THEN WriteVarint(Widened("int32", v))
                               ELSE WriteVarint(v)
      BY <2>1, <3>1 DEF Written
    <3>3. Widened(type, v) = IF type = "int32" THEN Widened("int32", v) ELSE v
      BY <1>1, <1>3, <2>4 DEF Widened, cpp_scalar_type, FixedTypes, Fixed64Types, Fixed32Types
    <3>4. ProtobufBytes(type, v) = WriteVarint(Widened(type, v))
      BY <1>3, <2>4, TypesAreKnown, PlainIsProtobuf DEF ScalarBytes
    <3> QED
      BY <3>1, <3>2, <3>3, <3>4
  <2> QED
    BY <2>2, <2>3, <2>4
<1> QED
  BY <1>2, <1>3

(* What is stored of the zigzag form of a number.                          *)
ScalarTaken(type, x) ==
  CASE type = "sint32" -> ZigZag(x, Word32)
    [] type = "sint64" -> ZigZag(x, Word)
    [] OTHER           -> x

(* A zigzag form fits the word of the number.                              *)
LEMMA ZigZagFits ==
  ASSUME NEW word \in Nat, word % 2 = 0, NEW v \in 0 .. word - 1
  PROVE  ZigZag(v, word) \in 0 .. word - 1
<1>1. CASE v >= word \div 2
  BY <1>1 DEF ZigZag
<1>2. CASE ~ (v >= word \div 2)
  BY <1>2 DEF ZigZag
<1> QED
  BY <1>1, <1>2

(* A scalar that protobuf sends is taken for itself, a sint for its zigzag *)
(* form.                                                                   *)
LEMMA ScalarsAreTaken ==
  ASSUME NEW type \in ScalarTypes, NEW x \in ScalarStates(type)
  PROVE  /\ ProtobufBytes(type, x) \in Seq(Byte)
         /\ type \in FixedTypes => Len(ProtobufBytes(type, x)) = WidthOf(type)
         /\ ScalarTaken(type, x) \in ScalarStates(type)
         /\ \A buf \in Seq(Byte), p \in Nat \ {0} :
              Holds(buf, p, ProtobufBytes(type, x)) =>
                ReadScalar(type, buf, p)
                  = [ptr |-> p + Len(ProtobufBytes(type, x)), value |-> ScalarTaken(type, x)]
<1>1. Word \in Nat /\ Word32 \in Nat /\ Word32 < Word
  BY WordAssumption
<1>2. CASE type \notin {"sint32", "sint64"}
  <2>1. ProtobufBytes(type, x) = ScalarBytes(type, x) /\ ScalarTaken(type, x) = x
    BY <1>2, PlainIsProtobuf DEF ScalarTaken
  <2>2. type \in FixedTypes => ScalarSize(type, x) = WidthOf(type)
    BY DEF ScalarSize
  <2> QED
    BY <2>1, <2>2, ScalarIsMeasured, ScalarIsFound
<1>3. ASSUME NEW word \in {Word, Word32}, type \in {"sint32", "sint64"}, type \notin FixedTypes,
             x \in 0 .. word - 1, ScalarStates(type) = 0 .. word - 1,
             ProtobufBytes(type, x) = WriteVarint(ZigZag(x, word)),
             ScalarTaken(type, x) = ZigZag(x, word),
             \A n \in 0 .. word - 1 : Cast(cpp_scalar_type[type], n) = n
      PROVE  /\ ProtobufBytes(type, x) \in Seq(Byte)
             /\ ScalarTaken(type, x) \in ScalarStates(type)
             /\ \A buf \in Seq(Byte), p \in Nat \ {0} :
                  Holds(buf, p, ProtobufBytes(type, x)) =>
                    ReadScalar(type, buf, p)
                      = [ptr |-> p + Len(ProtobufBytes(type, x)), value |-> ScalarTaken(type, x)]
  <2> DEFINE n == ZigZag(x, word)
             cpp == cpp_scalar_type[type]
  <2>1. n \in 0 .. word - 1 /\ n \in Nat /\ n < Word
    <3>1. n \in 0 .. word - 1
      BY <1>1, <1>3, ZigZagFits, BitsAssumption
    <3> QED
      BY <1>1, <3>1
  <2>2. Cast(cpp, n) = n
    BY <1>3, <2>1
  <2> HIDE DEF n, cpp
  <2>3. ASSUME NEW buf \in Seq(Byte), NEW p \in Nat \ {0}, Holds(buf, p, WriteVarint(n))
        PROVE  ReadScalar(type, buf, p) = [ptr |-> p + Len(WriteVarint(n)), value |-> n]
    <3> DEFINE r == ReadVarint(buf, p)
               q == p + Len(WriteVarint(n))
    <3>1. r = [ptr |-> q, value |-> n]
      BY <2>1, <2>3, NumbersAreFound
    <3>2. ReadScalar(type, buf, p) = [r EXCEPT !.value = Cast(cpp, @)]
      BY <1>3 DEF ReadScalar, cpp
    <3> HIDE DEF r, q
    <3> QED
      BY <2>2, <3>1, <3>2 DEF q
  <2> QED
    BY <1>3, <2>1, <2>3, NumbersAreMeasured DEF n
<1>4. CASE type = "sint32"
  <2>1. type \notin FixedTypes /\ cpp_scalar_type[type] = "int32_t"
    BY <1>4 DEF FixedTypes, Fixed64Types, Fixed32Types, cpp_scalar_type
  <2>2. ScalarStates(type) = 0 .. Word32 - 1
    BY <2>1 DEF ScalarStates, NumbersOf
  <2>3. \A n \in 0 .. Word32 - 1 : Cast("int32_t", n) = n
    BY <1>1, LittleRemains DEF Cast
  <2>4. ProtobufBytes(type, x) = WriteVarint(ZigZag(x, Word32)) /\ ScalarTaken(type, x) = ZigZag(x, Word32)
    BY <1>4, <2>1 DEF ProtobufBytes, ScalarTaken
  <2> QED
    BY <1>3, <1>4, <2>1, <2>2, <2>3, <2>4
<1>5. CASE type = "sint64"
  <2>1. type \notin FixedTypes /\ cpp_scalar_type[type] = "int64_t"
    BY <1>5 DEF FixedTypes, Fixed64Types, Fixed32Types, cpp_scalar_type
  <2>2. ScalarStates(type) = 0 .. Word - 1
    BY <2>1 DEF ScalarStates, NumbersOf
  <2>3. \A n \in 0 .. Word - 1 : Cast("int64_t", n) = n
    BY DEF Cast
  <2>4. ProtobufBytes(type, x) = WriteVarint(ZigZag(x, Word)) /\ ScalarTaken(type, x) = ZigZag(x, Word)
    BY <1>5, <2>1 DEF ProtobufBytes, ScalarTaken
  <2> QED
    BY <1>3, <1>5, <2>1, <2>2, <2>3, <2>4
<1> QED
  BY <1>2, <1>4, <1>5

(* A scalar is read alike, where its bytes are all there.                  *)
LEMMA PrimitivesAreRead ==
  ASSUME NEW f \in Generatable, Storage(f) = "scalar", NEW buf \in Seq(Byte), NEW p \in Nat \ {0},
         Type[f] \in FixedTypes => p + WidthOf(Type[f]) - 1 <= Len(buf)
  PROVE  PrimitiveParse(f, buf, p) = ReadScalar(Type[f], buf, p)
<1> DEFINE type == Type[f]
<1>1. type \in DOMAIN CPP_TYPE_MAP
  BY KindsAgree
<1> HIDE DEF type
<1>2. CASE type \in FixedTypes
  <2> DEFINE size == WidthOf(type)
             last == p + size - 1
  <2>1. size \in Nat \ {0} /\ Len(buf) \in Nat /\ last \in Nat /\ last <= Len(buf)
        /\ DOMAIN buf = 1 .. Len(buf)
    BY <1>2, FixedAssumption DEF WidthOf, type
  <2>2. Min({last, Len(buf)}) = last
    BY <2>1, MinOfPair
  <2>3. SubSeq(buf, p, last) = Memory(buf, p, size)
    <3>1. \A i \in 1 .. size : p + i - 1 \in DOMAIN buf
      BY <2>1
    <3>2. SubSeq(buf, p, last) \in Seq(Byte) /\ Len(SubSeq(buf, p, last)) = size
      BY <2>1
    <3>3. \A i \in 1 .. size : SubSeq(buf, p, last)[i] = buf[p + i - 1]
      BY <2>1
    <3>4. Memory(buf, p, size) \in Seq(Byte) /\ Len(Memory(buf, p, size)) = size
      BY <2>1, MemoryIsBytes
    <3>5. \A i \in 1 .. size : Memory(buf, p, size)[i] = buf[p + i - 1]
      BY <3>1 DEF Memory
    <3> HIDE DEF size, last
    <3> QED
      BY <3>2, <3>3, <3>4, <3>5
  <2>4. FixedParse(size, buf, p) = ReadScalar(type, buf, p)
    BY <1>2, <2>2, <2>3 DEF FixedParse, ReadScalar, CopyBytes
  <2>5. /\ PARSE_METHOD_MAP[type] \in {"Fixed64Parse", "Fixed32Parse"}
        /\ size = IF PARSE_METHOD_MAP[type] = "Fixed64Parse" THEN Fixed64Size ELSE Fixed32Size
    BY <1>1, <1>2, TypesAreKnown DEF FixedTypes, WidthOf
  <2> HIDE DEF size
  <2> QED
    BY <2>4, <2>5 DEF PrimitiveParse, type
<1>3. CASE type \notin FixedTypes
  <2>1. PARSE_METHOD_MAP[type] = "VarintParse" /\ CPP_TYPE_MAP[type] = cpp_scalar_type[type]
    BY <1>1, <1>3, TypesAreKnown DEF FixedTypes
  <2> QED
    BY <1>3, <2>1 DEF PrimitiveParse, VarintParse, ReadScalar, type
<1> QED
  BY <1>2, <1>3

(* On the heap, getters show submessages as they are.                      *)
LEMMA GettersShowAll ==
  ASSUME NEW f \in Fields
  PROVE  /\ \A c \in Contents : Seen[c] = c
         /\ Storage(f) = "message" => \A c \in Contents : Observed(f, c) = c
         /\ Storage(f) = "LazyField" =>
              /\ \A v : Sound(f, v) => Observed(f, v) = Content(v)
              /\ \A v, bytes : Observed(f, Deferred(v, bytes)) = Meaning(bytes)
              /\ \A c \in Contents : Observed(f, Owned(c)) = c
<1>1. \A c \in Contents : Seen[c] = c
  BY GivenAssumption
<1>2. Storage(f) = "message" => \A c \in Contents : Observed(f, c) = c
  BY <1>1 DEF Observed
<1>3. ASSUME Storage(f) = "LazyField"
      PROVE  /\ \A v : Sound(f, v) => Observed(f, v) = Content(v)
             /\ \A v, bytes : Observed(f, Deferred(v, bytes)) = Meaning(bytes)
             /\ \A c \in Contents : Observed(f, Owned(c)) = c
  <2>1. \A v : Sound(f, v) => Content(v) \in Contents /\ Observed(f, v) = Seen[Content(v)]
    BY <1>3, SoundLazies
  <2>2. ASSUME NEW v, NEW bytes
        PROVE  Observed(f, Deferred(v, bytes)) = Meaning(bytes)
    <3>1. Content(Deferred(v, bytes)) = Meaning(bytes)
      BY DEF Content, Deferred, Lazy
    <3> QED
      BY <1>1, <1>3, <3>1, MeaningsAreContents DEF Observed
  <2>3. \A c \in Contents : Observed(f, Owned(c)) = c
    BY <1>1, <1>3, OwnedIsObserved
  <2> QED
    BY <1>1, <2>1, <2>2, <2>3
<1> QED
  BY <1>1, <1>2, <1>3

(* Submessages with the same bytes are one, so reading finds what was      *)
(* written, complete or not.                                               *)
LEMMA OneIsReadable ==
  ASSUME NEW x \in Contents
  PROVE  Readable(Encoded[x]) = {x}
<1>1. \A c \in Contents : Encoded[x] = Encoded[c] => c = x
  BY GivenAssumption
<1>2. Parses(Encoded[x]) => Decoded[Encoded[x]] = x
  <2> SUFFICES ASSUME Parses(Encoded[x])
               PROVE  Decoded[Encoded[x]] = x
    OBVIOUS
  <2>1. /\ x \in Complete /\ Decoded[Encoded[x]] \in Contents
        /\ Seen[Decoded[Encoded[x]]] = Seen[x]
    BY SubmessageAssumption DEF Parses
  <2> QED
    BY <2>1, GivenAssumption
<1> QED
  BY <1>1, <1>2 DEF Readable

(* What a submessage parses as.                                            *)
LEMMA EncodedMeansItself ==
  ASSUME NEW x \in Contents
  PROVE  /\ Parses(Encoded[x]) <=> x \in Complete
         /\ Meaning(Encoded[x]) = IF x \in Complete THEN x ELSE Default
<1>1. Parses(Encoded[x]) <=> x \in Complete
  BY SubmessageAssumption DEF Parses
<1>2. ASSUME x \in Complete
      PROVE  Decoded[Encoded[x]] = x
  <2>1. Decoded[Encoded[x]] \in Contents /\ Seen[Decoded[Encoded[x]]] = Seen[x]
    BY <1>1, <1>2, SubmessageAssumption DEF Parses
  <2> QED
    BY <2>1, GivenAssumption
<1> QED
  BY <1>1, <1>2 DEF Meaning

(* The payloads that protobuf sends, and what a reader finds of them:      *)
(* where they end, and the bytes behind a length.                          *)
LEMMA DelimitedIsFound ==
  ASSUME NEW bytes \in Seq(Byte), NEW buf \in Seq(Byte), NEW p \in Nat \ {0},
         Holds(buf, p, Delimited(bytes)), NEW r,
         \/ Len(bytes) < Word /\ r = ReadVarint(buf, p)
         \/ Len(bytes) < Word32 /\ r = ReadVarint32(buf, p)
  PROVE  /\ Chunk(buf, r).ptr = p + Len(Delimited(bytes)) /\ Chunk(buf, r).bytes = bytes
         /\ Delimited(bytes) \in Seq(Byte)
         /\ p + Len(Delimited(bytes)) # Null
<1>1. Chunk(buf, r) = [ptr |-> p + Len(Delimited(bytes)), bytes |-> bytes]
  BY ChunksAreFound
<1>2. Delimited(bytes) \in Seq(Byte)
  BY DelimitedIsBytes
<1>3. p + Len(Delimited(bytes)) # Null
  BY <1>2 DEF Null
<1> QED
  BY <1>1, <1>2, <1>3

(* A payload of protobuf is taken by both members for the same.  An eager  *)
(* submessage without its required fields is refused by the class, and any *)
(* one is merged by the fragments.                                         *)
BothTake(x, v, buf, p) ==
  LET q == p + Len(ProtobufPayload(x))
      r == ReadField(field, v, buf, p)
  IN  /\ IF Eager /\ x \notin Complete THEN r.ptr = Null
         ELSE r.ptr = q /\ Observed(field, r.value) = Taken(x)
      /\ field \in Lazies => r.value = Deferred(v, Encoded[x])
      /\ ~ Eager => generate_parse_code(field, v, buf, p) = r
      /\ Eager => \A c : generate_parse_code(field, c, buf, p)
                          = [ptr |-> q, value |-> Merged[MessageMutable(c)][x]]

LEMMA PayloadsAreTaken ==
  ASSUME field \in Generatable, NEW v, NEW x \in ValuesOf(field),
         NEW buf \in Seq(Byte), NEW p \in Nat \ {0}, Holds(buf, p, ProtobufPayload(x))
  PROVE  BothTake(x, v, buf, p) /\ Taken(x) \in ValuesOf(field)
<1> DEFINE q == p + Len(ProtobufPayload(x))
           r == ReadField(field, v, buf, p)
<1> SUFFICES /\ IF Eager /\ x \notin Complete THEN r.ptr = Null
                ELSE r.ptr = q /\ Observed(field, r.value) = Taken(x)
             /\ Taken(x) \in ValuesOf(field)
             /\ field \in Lazies => r.value = Deferred(v, Encoded[x])
             /\ ~ Eager => generate_parse_code(field, v, buf, p) = r
             /\ Eager => \A c : generate_parse_code(field, c, buf, p)
                                 = [ptr |-> q, value |-> Merged[MessageMutable(c)][x]]
  BY DEF BothTake
<1>1. CASE Storage(field) = "ArenaString"
  <2>1. Type[field] = "string" /\ create_field_generator(field) = "String" /\ ~ Eager /\ field \notin Lazies
    BY <1>1, KindsAgree DEF Eager
  <2>2. x \in Seq(Byte) /\ Len(x) < Word /\ ProtobufPayload(x) = Delimited(x) /\ Taken(x) = x
    BY <1>1, <2>1 DEF ValuesOf, Shorter, ProtobufPayload, Taken, StringTypes
  <2> DEFINE chunk == Chunk(buf, ReadVarint(buf, p))
  <2>3. chunk.ptr = q /\ chunk.bytes = x
    BY <2>2, DelimitedIsFound
  <2>4. r = [ptr |-> chunk.ptr, value |-> SetText(v, chunk.bytes)]
    BY <1>1 DEF ReadField, ReadString
  <2>5. generate_parse_code(field, v, buf, p) = r
    BY <1>1, <2>1 DEF generate_parse_code, IsPrimitive, StringParse, ReadField
  <2> HIDE DEF chunk, q, r
  <2>6. Observed(field, SetText(v, x)) = x
    BY <1>1 DEF Observed, SetText, Text
  <2> QED
    BY <2>1, <2>2, <2>3, <2>4, <2>5, <2>6 DEF q
<1>2. CASE Storage(field) = "LazyField"
  <2>1. /\ Type[field] = "message" /\ create_field_generator(field) = "LazyMessage" /\ ~ Eager
        /\ field \in Lazies
    BY <1>2, KindsAgree DEF Eager
  <2> DEFINE bytes == Encoded[x]
  <2>2. /\ x \in Contents /\ bytes \in Seq(Byte) /\ Len(bytes) < Word32
        /\ ProtobufPayload(x) = Delimited(bytes) /\ Taken(x) = Meaning(bytes)
    <3>1. x \in Contents
      BY <1>2 DEF ValuesOf
    <3> QED
      BY <2>1, <3>1, EncodedIsShort DEF ProtobufPayload, Taken, StringTypes
  <2> DEFINE chunk == Chunk(buf, ReadVarint32(buf, p))
  <2> HIDE DEF bytes
  <2>3. chunk.ptr = q /\ chunk.bytes = bytes
    BY <2>2, DelimitedIsFound
  <2>4. r = [ptr |-> chunk.ptr, value |-> Deferred(v, chunk.bytes)]
    BY <1>2 DEF ReadField, ReadLazy
  <2>5. generate_parse_code(field, v, buf, p) = r
    BY <1>2, <2>1 DEF generate_parse_code, IsPrimitive, LazyParse, ReadField
  <2> HIDE DEF chunk, q, r
  <2>6. Observed(field, Deferred(v, bytes)) = Meaning(bytes)
    BY <1>2, KindsAgree, GettersShowAll
  <2>7. Meaning(bytes) \in ValuesOf(field)
    BY <1>2, MeaningsAreContents DEF ValuesOf
  <2> QED
    BY <2>1, <2>2, <2>3, <2>4, <2>5, <2>6, <2>7 DEF q, bytes
<1>3. CASE Storage(field) = "message"
  <2>1. /\ Type[field] = "message" /\ create_field_generator(field) = "Message" /\ Eager
        /\ field \notin Lazies
    BY <1>3, KindsAgree DEF Eager
  <2> DEFINE bytes == Encoded[x]
  <2>2. /\ x \in Contents /\ bytes \in Seq(Byte) /\ Len(bytes) < Word
        /\ ProtobufPayload(x) = Delimited(bytes) /\ Taken(x) = x
        /\ Len(bytes) < Word32 \div 2
    <3>1. x \in Contents
      BY <1>3 DEF ValuesOf
    <3>2. bytes \in Seq(Byte) /\ Len(bytes) < Word32 /\ Len(bytes) < Word32 \div 2
      BY <3>1, EncodedIsShort
    <3>3. Len(bytes) < Word
      <4> HIDE DEF bytes
      <4>1. Len(bytes) \in Nat /\ Word \in Nat /\ Word32 \in Nat /\ Word32 < Word
        BY <3>2, WordAssumption
      <4> QED
        BY <3>2, <4>1
    <3> QED
      BY <2>1, <3>1, <3>2, <3>3 DEF ProtobufPayload, Taken, StringTypes
  <2>3. /\ Parses(bytes) <=> x \in Complete
        /\ x \in Complete => Decoded[bytes] = x
        /\ Readable(bytes) = {x}
    BY <2>2, EncodedMeansItself, OneIsReadable DEF Meaning
  <2> DEFINE chunk == Chunk(buf, ReadVarint(buf, p))
  <2> HIDE DEF bytes
  <2>4. chunk.ptr = q /\ chunk.bytes = bytes /\ q # Null
    BY <2>2, DelimitedIsFound
  <2>5. r = IF Parses(bytes) THEN [ptr |-> q, value |-> Decoded[bytes]]
            ELSE [ptr |-> Null, value |-> NULL]
    <3>1. Len(bytes) % Word32 = Len(bytes) /\ ~ IsNegative(Len(bytes))
      <4>1. Len(bytes) \in 0 .. Word32 - 1 /\ Word32 \in Nat /\ Word32 \div 2 \in Nat
        BY <2>2, WordAssumption
      <4>2. Len(bytes) % Word32 = Len(bytes)
        BY <4>1, LittleRemains
      <4> QED
        BY <2>2, <4>1, <4>2 DEF IsNegative
    <3>2. SubSeq(bytes, 1, Len(bytes)) = bytes
      BY <2>2
    <3>3. r = IF chunk.ptr = Null THEN [ptr |-> Null, value |-> v]
              ELSE IF ~ IsNegative(Len(bytes)) /\ Parses(SubSeq(bytes, 1, Len(bytes) % Word32))
                   THEN [ptr |-> chunk.ptr, value |-> Decoded[SubSeq(bytes, 1, Len(bytes) % Word32)]]
              ELSE [ptr |-> Null, value |-> NULL]
      BY <1>3, <2>4 DEF ReadField, ReadSubmessage
    <3> HIDE DEF r, q, chunk
    <3> QED
      BY <2>4, <3>1, <3>2, <3>3
  <2>6. \A c : ReadMessage(c, buf, p)
                 = IF chunk.ptr = Null \/ Readable(chunk.bytes) = {} THEN [ptr |-> Null, value |-> c]
                   ELSE [ptr |-> chunk.ptr,
                         value |-> Merged[c][CHOOSE d \in Readable(chunk.bytes) : TRUE]]
    BY DEF ReadMessage
  <2>7. \A c : generate_parse_code(field, c, buf, p) = ReadMessage(MessageMutable(c), buf, p)
    BY <2>1 DEF generate_parse_code, IsPrimitive, MessageParse
  <2> HIDE DEF chunk, q, r
  <2>8. \A c : ReadMessage(c, buf, p) = [ptr |-> q, value |-> Merged[c][x]]
    BY <2>3, <2>4, <2>6
  <2>9. IF x \in Complete THEN r.ptr = q /\ r.value = x ELSE r.ptr = Null
    BY <2>3, <2>4, <2>5
  <2>10. Observed(field, x) = x
    BY <1>3, <2>2, KindsAgree, GettersShowAll
  <2> QED
    BY <2>1, <2>2, <2>7, <2>8, <2>9, <2>10 DEF q
<1>4. CASE Storage(field) = "scalar"
  <2> DEFINE type == Type[field]
  <2>1. /\ type \in DOMAIN CPP_TYPE_MAP /\ field \in Fields
        /\ create_field_generator(field) = "Primitive" /\ field \notin Lazies
    BY <1>4, KindsAgree
  <2>2. type \in ScalarTypes /\ type # "message" /\ type \notin StringTypes /\ ~ Eager
    BY <2>1, TypesAreKnown DEF Eager
  <2>3. x \in ScalarStates(type) /\ ValuesOf(field) = ScalarStates(type)
    BY <1>4, <2>1, StatesOfScalars DEF ValuesOf
  <2>4. ProtobufPayload(x) = ProtobufBytes(type, x) /\ Taken(x) = ScalarTaken(type, x)
    BY <2>1, <2>2 DEF ProtobufPayload, Taken, ScalarTaken
  <2>5. ReadScalar(type, buf, p) = [ptr |-> q, value |-> Taken(x)]
    <3> HIDE DEF type
    <3>1. Holds(buf, p, ProtobufBytes(type, x))
      BY <2>4
    <3>2. ReadScalar(type, buf, p)
            = [ptr |-> p + Len(ProtobufBytes(type, x)), value |-> ScalarTaken(type, x)]
      BY <2>2, <2>3, <3>1, ScalarsAreTaken
    <3> QED
      BY <2>4, <3>2
  <2>6. r = ReadScalar(type, buf, p) /\ Observed(field, r.value) = r.value
    BY <1>4 DEF ReadField, Observed
  <2>7. type \in FixedTypes => p + WidthOf(type) - 1 <= Len(buf)
    BY <2>2, <2>3, <2>4, ScalarsAreTaken DEF Holds
  <2>8. generate_parse_code(field, v, buf, p) = PrimitiveParse(field, buf, p)
    BY <2>1 DEF generate_parse_code, IsPrimitive
  <2>9. PrimitiveParse(field, buf, p) = r
    BY <1>4, <2>6, <2>7, PrimitivesAreRead
  <2>10. Taken(x) \in ValuesOf(field)
    BY <2>2, <2>3, <2>4, ScalarsAreTaken
  <2> HIDE DEF type, q
  <2> QED
    BY <2>1, <2>2, <2>5, <2>6, <2>8, <2>9, <2>10 DEF q
<1> QED
  BY <1>1, <1>2, <1>3, <1>4, KindsAgree

(***************************************************************************)
(* Submessages that are merged one after the other.                        *)
(***************************************************************************)

MergedAll(base, s) == FoldLeft(LAMBDA c, d : Merged[c][d], base, s)

(* The function that folds s up to n, by sets of indices.                  *)
Folds(base, s, n, g) ==
  g = [t \in SUBSET (1 .. n) |->
         IF t = {} THEN base ELSE Merged[g[t \ {Max(t)}]][s[Max(t)]]]

LEMMA MaxOfRange ==
  ASSUME NEW k \in Nat, NEW n, n = k + 1
  PROVE  /\ Max(1 .. n) = n /\ 1 .. n # {} /\ (1 .. n) \ {n} = 1 .. k
         /\ \A m \in Nat : n <= m => 1 .. n \in SUBSET (1 .. m)
<1>0. n \in Nat \ {0}
  OBVIOUS
<1>1. n \in 1 .. n /\ \A y \in 1 .. n : n >= y
  BY <1>0
<1>2. \A x \in 1 .. n : (\A y \in 1 .. n : x >= y) => x = n
  BY <1>0, <1>1
<1>3. Max(1 .. n) = n
  BY <1>1, <1>2 DEF Max
<1>4. \A i : i \in (1 .. n) \ {n} <=> i \in 1 .. k
  BY <1>0
<1>5. (1 .. n) \ {n} = 1 .. k
  BY <1>4
<1>6. \A m \in Nat : n <= m => 1 .. n \in SUBSET (1 .. m)
  BY <1>0
<1> QED
  BY <1>1, <1>3, <1>5, <1>6

(* There is one, for any part of a sequence.                               *)
LEMMA FoldsExist ==
  ASSUME NEW base, NEW s, NEW n \in Nat
  PROVE  \E g : Folds(base, s, n, g)
<1> DEFINE T == {k \in Nat : \E g : Folds(base, s, k, g)}
<1>1. 0 \in T
  <2> DEFINE g == [t \in SUBSET (1 .. 0) |-> base]
  <2>1. \A t \in SUBSET (1 .. 0) : t = {}
    OBVIOUS
  <2>2. Folds(base, s, 0, g)
    BY <2>1 DEF Folds
  <2> QED
    BY <2>2
<1>2. ASSUME NEW k \in Nat, k \in T
      PROVE  k + 1 \in T
  <2>1. PICK g : Folds(base, s, k, g)
    BY <1>2
  <2> DEFINE next(t) == IF t = {} THEN base ELSE Merged[g[t \ {Max(t)}]][s[Max(t)]]
             last(t) == Merged[g[t \ {k + 1}]][s[k + 1]]
             h == [t \in SUBSET (1 .. (k + 1)) |-> IF k + 1 \in t THEN last(t) ELSE g[t]]
  <2>2. \A t \in SUBSET (1 .. k) : g[t] = next(t) /\ t \in SUBSET (1 .. (k + 1)) /\ k + 1 \notin t
    <3>1. \A t \in SUBSET (1 .. k) : g[t] = next(t)
      BY <2>1 DEF Folds
    <3>2. \A t \in SUBSET (1 .. k) : t \in SUBSET (1 .. (k + 1)) /\ k + 1 \notin t
      OBVIOUS
    <3> HIDE DEF next
    <3> QED
      BY <3>1, <3>2
  <2>3. \A t \in SUBSET (1 .. k) : h[t] = g[t]
    BY <2>2
  <2>4. ASSUME NEW t \in SUBSET (1 .. (k + 1))
        PROVE  h[t] = IF t = {} THEN base ELSE Merged[h[t \ {Max(t)}]][s[Max(t)]]
    <3>1. CASE k + 1 \in t
      <4>1. Max(t) = k + 1
        <5>1. \A y \in t : k + 1 >= y
          OBVIOUS
        <5>2. \A x \in t : (\A y \in t : x >= y) => x = k + 1
          BY <3>1, <5>1
        <5> QED
          BY <3>1, <5>1, <5>2 DEF Max
      <4>2. t \ {k + 1} \in SUBSET (1 .. k)
        OBVIOUS
      <4>3. h[t \ {k + 1}] = g[t \ {k + 1}]
        BY <2>3, <4>2
      <4>4. h[t] = last(t)
        BY <3>1
      <4> HIDE DEF h
      <4> QED
        BY <3>1, <4>1, <4>3, <4>4
    <3>2. CASE k + 1 \notin t
      <4>1. t \in SUBSET (1 .. k) /\ t \ {Max(t)} \in SUBSET (1 .. k)
        <5>1. \A i \in t : i \in 1 .. k
          BY <3>2
        <5> QED
          BY <5>1
      <4>2. h[t] = next(t) /\ h[t \ {Max(t)}] = g[t \ {Max(t)}]
        BY <2>2, <2>3, <4>1
      <4> HIDE DEF h
      <4> QED
        BY <4>2
    <3> QED
      BY <3>1, <3>2
  <2>5. Folds(base, s, k + 1, h)
    <3> DEFINE D == SUBSET (1 .. (k + 1))
               f == [t \in D |-> IF t = {} THEN base ELSE Merged[h[t \ {Max(t)}]][s[Max(t)]]]
    <3>1. h = [t \in D |-> h[t]]
      OBVIOUS
    <3> HIDE DEF h
    <3>2. [t \in D |-> h[t]] = f
      BY <2>4
    <3> QED
      BY <3>1, <3>2 DEF Folds
  <2> HIDE DEF h
  <2> QED
    BY <2>5
<1>3. T \in SUBSET Nat
  OBVIOUS
<1> HIDE DEF T
<1>4. n \in T
  BY <1>1, <1>2, <1>3, SetsClimb
<1> QED
  BY <1>4 DEF T

(* Two of them agree where their sequences do.                             *)
LEMMA FoldsAgree ==
  ASSUME NEW base, NEW s, NEW m \in Nat, NEW f, Folds(base, s, m, f),
         NEW u, NEW n \in Nat, NEW g, Folds(base, u, n, g),
         NEW k \in Nat, k <= m, k <= n, \A i \in 1 .. k : s[i] = u[i]
  PROVE  f[1 .. k] = g[1 .. k]
<1> DEFINE T == {i \in Nat : i <= k => f[1 .. i] = g[1 .. i]}
<1>1. 0 \in T
  <2>1. 1 .. 0 = {} /\ {} \in SUBSET (1 .. m) /\ {} \in SUBSET (1 .. n)
    OBVIOUS
  <2>2. f[{}] = base /\ g[{}] = base
    BY <2>1 DEF Folds
  <2> QED
    BY <2>1, <2>2
<1>2. ASSUME NEW i \in Nat, i < k, i \in T
      PROVE  i + 1 \in T
  <2> DEFINE t == 1 .. (i + 1)
  <2>1. i + 1 \in Nat /\ i + 1 <= m /\ i + 1 <= n
    BY <1>2
  <2>2. /\ t # {} /\ t \in SUBSET (1 .. m) /\ t \in SUBSET (1 .. n)
        /\ t \ {i + 1} = 1 .. i /\ Max(t) = i + 1
    BY <2>1, MaxOfRange
  <2> HIDE DEF t
  <2>3. f[t] = Merged[f[1 .. i]][s[i + 1]] /\ g[t] = Merged[g[1 .. i]][u[i + 1]]
    <3>1. \A w \in SUBSET (1 .. m) : w # {} => f[w] = Merged[f[w \ {Max(w)}]][s[Max(w)]]
      BY DEF Folds
    <3>2. \A w \in SUBSET (1 .. n) : w # {} => g[w] = Merged[g[w \ {Max(w)}]][u[Max(w)]]
      BY DEF Folds
    <3> QED
      BY <2>2, <3>1, <3>2
  <2>4. s[i + 1] = u[i + 1] /\ f[1 .. i] = g[1 .. i]
    BY <1>2
  <2> QED
    BY <2>3, <2>4 DEF t
<1>3. T \in SUBSET Nat
  OBVIOUS
<1> HIDE DEF T
<1>4. k \in T
  BY <1>1, <1>2, <1>3, SetsClimb
<1> QED
  BY <1>4 DEF T

(* What the fold of a sequence is.                                         *)
LEMMA FoldIsLast ==
  ASSUME NEW base, NEW S, NEW s \in Seq(S)
  PROVE  \E g : Folds(base, s, Len(s), g) /\ MergedAll(base, s) = g[1 .. Len(s)]
<1>1. Len(s) \in Nat /\ DOMAIN s = 1 .. Len(s)
  OBVIOUS
<1> DEFINE g == CHOOSE g : Folds(base, s, Len(s), g)
<1>2. Folds(base, s, Len(s), g)
  BY <1>1, FoldsExist
<1>3. MergedAll(base, s) = g[1 .. Len(s)]
  BY <1>1 DEF MergedAll, FoldLeft, MapThenFoldSet, Folds
<1> QED
  BY <1>2, <1>3

(* One more is merged into what the others have become.                    *)
LEMMA OneMoreIsMerged ==
  ASSUME NEW base, NEW S, NEW s \in Seq(S), NEW x \in S
  PROVE  /\ MergedAll(base, <<>>) = base
         /\ MergedAll(base, Append(s, x)) = Merged[MergedAll(base, s)][x]
<1>1. MergedAll(base, <<>>) = base
  <2>1. <<>> \in Seq(S) /\ Len(<<>>) = 0 /\ 1 .. 0 = {} /\ {} \in SUBSET (1 .. 0)
    OBVIOUS
  <2>2. PICK g : Folds(base, <<>>, 0, g) /\ MergedAll(base, <<>>) = g[1 .. 0]
    BY <2>1, FoldIsLast
  <2>3. g[{}] = base
    BY <2>1, <2>2 DEF Folds
  <2> QED
    BY <2>1, <2>2, <2>3
<1>2. MergedAll(base, Append(s, x)) = Merged[MergedAll(base, s)][x]
  <2> DEFINE u == Append(s, x)
             k == Len(s)
             t == 1 .. (k + 1)
  <2>1. u \in Seq(S) /\ Len(u) = k + 1 /\ k \in Nat /\ u[k + 1] = x /\ \A i \in 1 .. k : s[i] = u[i]
    OBVIOUS
  <2> HIDE DEF u, k
  <2>2. PICK f : Folds(base, s, k, f) /\ MergedAll(base, s) = f[1 .. k]
    BY FoldIsLast DEF k
  <2>3. PICK g : Folds(base, u, k + 1, g) /\ MergedAll(base, u) = g[t]
    BY <2>1, FoldIsLast
  <2>4. f[1 .. k] = g[1 .. k]
    BY <2>1, <2>2, <2>3, FoldsAgree
  <2>5. t # {} /\ t \in SUBSET (1 .. (k + 1)) /\ t \ {k + 1} = 1 .. k /\ Max(t) = k + 1
    BY <2>1, MaxOfRange
  <2> HIDE DEF t
  <2>6. g[t] = Merged[g[1 .. k]][u[k + 1]]
    BY <2>3, <2>5 DEF Folds
  <2> QED
    BY <2>1, <2>2, <2>3, <2>4, <2>6 DEF u
<1> QED
  BY <1>1, <1>2

(***************************************************************************)
(* What the calls leave.                                                   *)
(***************************************************************************)

IsEager(f) == Type[f] = "message" /\ f \notin Lazies

(* A lazy field that was not looked at has what a sender wrote.            *)
KeepsWritten(f, v) ==
  f \in Lazies /\ v.has /\ ~ v.parsed => \E c \in Contents : v.bytes = Encoded[c]

(* Strengthens ValuesFollowCalls: the member of the class holds what its   *)
(* storage can, and the other one is its copy, or an optional submessage.  *)
Follows(f, own, other, open, given) ==
  /\ f \in Generatable /\ Sound(f, own) /\ KeepsWritten(f, own)
  /\ given \in Seq(ValuesOf(f)) /\ given # <<>>
  /\ IF IsEager(f)
     THEN other \in Contents \cup {NULL} /\ MessageMutable(other) = MergedAll(given[1], Tail(given))
     ELSE other = own
  /\ Observed(f, own) = given[Len(given)] \/ open
  /\ open => IsEager(f) /\ given[Len(given)] \notin Complete

IndInv == Follows(field, class, fragments, failed, history)

(* What a sound member reads as is a value of the field.                   *)
LEMMA SoundIsObserved ==
  ASSUME NEW f \in Fields, NEW v, Sound(f, v)
  PROVE  Observed(f, v) \in ValuesOf(f)
<1>1. CASE Storage(f) = "ArenaString"
  BY <1>1, SoundTexts DEF Observed, ValuesOf
<1>2. CASE Storage(f) = "LazyField"
  BY <1>2, SoundLazies DEF ValuesOf
<1>3. CASE Storage(f) = "message"
  BY <1>3, SoundSubmessages, GettersShowAll DEF ValuesOf
<1>4. CASE Storage(f) = "scalar"
  BY <1>4, SoundScalars DEF Observed, ValuesOf
<1> QED
  BY <1>1, <1>2, <1>3, <1>4, StorageKinds

(* NULL is no submessage.                                                  *)
LEMMA NullIsNone == ASSUME NEW f \in Fields, IsEager(f) PROVE NULL \notin Contents
<1>1. Storage(f) = "message"
  BY StorageKinds DEF IsEager, StringTypes, ScalarTypes, cpp_scalar_type
<1> QED
  BY <1>1, StatesOfKinds, NullAssumption

(* A value that overwrites what was there.                                 *)
LEMMA FreshFollows ==
  ASSUME NEW f \in Generatable, NEW own, Sound(f, own), KeepsWritten(f, own), NEW other,
         IF IsEager(f) THEN other = own \/ (other = NULL /\ own = Default) ELSE other = own
  PROVE  Follows(f, own, other, FALSE, <<Observed(f, own)>>)
<1> DEFINE x == Observed(f, own)
<1>1. x \in ValuesOf(f) /\ f \in Fields
  BY SoundIsObserved, KindsAgree
<1> HIDE DEF x
<1>2. <<x>> \in Seq(ValuesOf(f)) /\ <<x>> # <<>> /\ <<x>>[Len(<<x>>)] = x /\ <<x>>[1] = x /\ Tail(<<x>>) = <<>>
  BY <1>1
<1>3. ASSUME IsEager(f)
      PROVE  other \in Contents \cup {NULL} /\ MessageMutable(other) = MergedAll(x, <<>>)
  <2>1. Storage(f) = "message"
    BY <1>1, <1>3, StorageKinds DEF IsEager, StringTypes, ScalarTypes, cpp_scalar_type
  <2>2. own \in Contents /\ x = own /\ NULL \notin Contents
    BY <1>1, <1>3, <2>1, SoundSubmessages, NullIsNone, GettersShowAll DEF x
  <2>3. MergedAll(x, <<>>) = x
    <3>1. <<>> \in Seq({x}) /\ x \in {x}
      OBVIOUS
    <3> QED
      BY <3>1, OneMoreIsMerged
  <2>4. MessageMutable(other) = own
    BY <1>3, <2>2 DEF MessageMutable
  <2> QED
    BY <1>3, <2>2, <2>3, <2>4
<1> QED
  BY <1>1, <1>2, <1>3 DEF Follows, x

(* Both members start alike, but for an eager submessage.                  *)
LEMMA MembersStartAlike ==
  ASSUME NEW f \in Generatable
  PROVE  IF IsEager(f) THEN Member(f).initial = NULL /\ Cleared(f) = Default
         ELSE Member(f).initial = Cleared(f)
<1>1. CASE Storage(f) = "ArenaString"
  <2>1. Type[f] # "message" /\ Member(f) = StringMember
    BY <1>1, KindsAgree DEF Member, IsPrimitive
  <2> QED
    BY <1>1, <2>1 DEF IsEager, StringMember, Cleared
<1>2. CASE Storage(f) = "LazyField"
  <2>1. f \in Lazies /\ Member(f) = LazyMember(f)
    BY <1>2, KindsAgree DEF Member, IsPrimitive
  <2> QED
    BY <1>2, <2>1 DEF IsEager, LazyMember, Cleared
<1>3. CASE Storage(f) = "message"
  <2>1. IsEager(f) /\ Member(f) = MessageMember(f)
    BY <1>3, KindsAgree DEF Member, IsPrimitive, IsEager
  <2> QED
    BY <1>3, <2>1 DEF MessageMember, Cleared
<1>4. CASE Storage(f) = "scalar"
  <2>1. Type[f] # "message" /\ Member(f) = PrimitiveMember(f)
    BY <1>4, KindsAgree, TypesAreKnown DEF Member, IsPrimitive
  <2> QED
    BY <1>4, <2>1 DEF IsEager, PrimitiveMember, Cleared
<1> QED
  BY <1>1, <1>2, <1>3, <1>4, KindsAgree

(* The calls that overwrite.                                               *)
LEMMA InitFollows == Init => IndInv
<1> SUFFICES ASSUME Init
             PROVE  IndInv
  OBVIOUS
<1>1. /\ field \in Generatable /\ field \in Fields /\ class = Cleared(field) /\ failed = FALSE
      /\ fragments = Member(field).initial /\ history = <<Observed(field, class)>>
  BY KindsAgree DEF Init, Initial
<1>2. Sound(field, class) /\ KeepsWritten(field, class)
  BY <1>1, ClearedIsSound, StorageKinds DEF KeepsWritten, Cleared, Lazy
<1>3. IF IsEager(field) THEN fragments = NULL /\ class = Default ELSE fragments = class
  BY <1>1, MembersStartAlike
<1> QED
  BY <1>1, <1>2, <1>3, FreshFollows DEF IndInv

LEMMA SetFollows ==
  ASSUME IndInv, NEW x \in Given[field], Set(x)
  PROVE  IndInv'
<1>1. /\ field \in Generatable /\ field \in Fields /\ Sound(field, class)
      /\ ~ IsEager(field) => fragments = class
  BY KindsAgree DEF IndInv, Follows
<1>2. x \in ValuesOf(field)
  BY <1>1, GivenAssumption
<1>3. /\ "set" \in Accessors(field) /\ field' = field /\ class' = Assigned(field, class, x)
      /\ fragments' = FragmentSet(field, fragments, x) /\ failed' = FALSE /\ history' = <<x>>
  BY DEF Set, Call
<1>4. Sound(field, class')
  BY <1>1, <1>2, <1>3, WritesAreSound
<1>5. CASE Storage(field) = "ArenaString"
  <2>1. ~ IsEager(field) /\ create_field_generator(field) = "String" /\ KeepsWritten(field, class')
    BY <1>1, <1>5, KindsAgree DEF IsEager, KeepsWritten
  <2>2. fragments' = class'
    BY <1>1, <1>3, <1>5, <2>1 DEF FragmentSet, Assigned
  <2>3. Observed(field, class') = x
    BY <1>3, <1>5 DEF Assigned, SetText, Text, Observed
  <2> QED
    BY <1>1, <1>3, <1>4, <2>1, <2>2, <2>3, FreshFollows DEF IndInv
<1>6. CASE Storage(field) = "scalar"
  <2>1. /\ ~ IsEager(field) /\ create_field_generator(field) = "Primitive"
        /\ KeepsWritten(field, class')
    BY <1>1, <1>6, KindsAgree, TypesAreKnown DEF IsEager, KeepsWritten
  <2>2. fragments' = class' /\ class' = x
    BY <1>1, <1>3, <1>6, <2>1 DEF FragmentSet, Assigned
  <2>3. Observed(field, class') = x
    BY <1>6, <2>2 DEF Observed
  <2> QED
    BY <1>1, <1>3, <1>4, <2>1, <2>2, <2>3, FreshFollows DEF IndInv
<1>7. Storage(field) \notin {"LazyField", "message"}
  BY <1>3 DEF Accessors
<1> QED
  BY <1>1, <1>5, <1>6, <1>7, StorageKinds

LEMMA MutateFollows ==
  ASSUME IndInv, NEW x \in Given[field], Mutate(x)
  PROVE  IndInv'
<1>1. field \in Generatable /\ field \in Fields /\ Sound(field, class)
  BY KindsAgree DEF IndInv, Follows
<1>2. x \in ValuesOf(field)
  BY <1>1, GivenAssumption
<1>3. /\ "mutable" \in Accessors(field) /\ field' = field /\ class' = Mutated(field, x)
      /\ fragments' = FragmentMutated(field, x) /\ failed' = FALSE /\ history' = <<x>>
  BY DEF Mutate, Call
<1>4. Sound(field, class') /\ KeepsWritten(field, class')
  <2>1. field \in Lazies => class'.parsed
    BY <1>1, <1>3, StorageKinds DEF Mutated, Owned, Lazy
  <2> QED
    BY <1>1, <1>2, <1>3, <2>1, WritesAreSound DEF KeepsWritten
<1>5. fragments' = class' /\ Observed(field, class') = x
  <2>1. CASE Storage(field) = "ArenaString"
    <3>1. create_field_generator(field) = "String"
      BY <1>1, <2>1, KindsAgree
    <3> QED
      BY <1>3, <2>1, <3>1 DEF FragmentMutated, Mutated, Text, Observed
  <2>2. CASE Storage(field) = "LazyField"
    <3>1. create_field_generator(field) = "LazyMessage"
      BY <1>1, <2>2, KindsAgree
    <3>2. fragments' = Owned(x) /\ class' = Owned(x)
      BY <1>3, <2>2, <3>1 DEF FragmentMutated, Mutated
    <3>3. x \in Contents
      BY <1>2, <2>2 DEF ValuesOf
    <3> QED
      BY <1>1, <2>2, <3>2, <3>3, GettersShowAll
  <2>3. CASE Storage(field) = "message"
    <3>1. create_field_generator(field) = "Message"
      BY <1>1, <2>3, KindsAgree
    <3> QED
      BY <1>1, <1>2, <1>3, <2>3, <3>1, GettersShowAll DEF FragmentMutated, Mutated, ValuesOf
  <2>4. Storage(field) # "scalar"
    BY <1>3 DEF Accessors
  <2> QED
    BY <1>1, <2>1, <2>2, <2>3, <2>4, StorageKinds
<1> QED
  BY <1>1, <1>3, <1>4, <1>5, FreshFollows DEF IndInv

LEMMA ClearFollows ==
  ASSUME IndInv, Clear
  PROVE  IndInv'
<1>1. /\ field \in Generatable /\ field \in Fields /\ Sound(field, class)
      /\ field' = field /\ class' = Cleared(field) /\ failed' = FALSE
      /\ fragments' = generate_clear_code(field, fragments)
      /\ history' = <<Observed(field, class')>>
  BY KindsAgree DEF IndInv, Follows, Clear, Call, Initial
<1>2. Sound(field, class') /\ KeepsWritten(field, class')
  BY <1>1, ClearedIsSound, StorageKinds DEF KeepsWritten, Cleared, Lazy
<1>3. IF IsEager(field)
      THEN /\ class' = Default
           /\ fragments' = IF fragments = NULL THEN NULL ELSE Default
      ELSE fragments' = class'
  <2>1. CASE Storage(field) = "ArenaString"
    <3>1. Type[field] # "message" /\ create_field_generator(field) = "String"
      BY <1>1, <2>1, KindsAgree
    <3> QED
      BY <1>1, <2>1, <3>1 DEF IsEager, generate_clear_code, IsPrimitive, StringClear, Cleared
  <2>2. CASE Storage(field) = "LazyField"
    <3>1. field \in Lazies /\ create_field_generator(field) = "LazyMessage"
      BY <1>1, <2>2, KindsAgree
    <3> QED
      BY <1>1, <2>2, <3>1 DEF IsEager, generate_clear_code, IsPrimitive, LazyClear, Cleared
  <2>3. CASE Storage(field) = "message"
    <3>1. IsEager(field) /\ create_field_generator(field) = "Message"
      BY <1>1, <2>3, KindsAgree DEF IsEager
    <3> QED
      BY <1>1, <2>3, <3>1 DEF generate_clear_code, IsPrimitive, MessageClear, Cleared
  <2>4. CASE Storage(field) = "scalar"
    <3>1. Type[field] # "message" /\ create_field_generator(field) = "Primitive"
      BY <1>1, <2>4, KindsAgree, TypesAreKnown
    <3> QED
      BY <1>1, <2>4, <3>1 DEF IsEager, generate_clear_code, IsPrimitive, PrimitiveClear, Cleared
  <2> QED
    BY <1>1, <2>1, <2>2, <2>3, <2>4, StorageKinds
<1> QED
  BY <1>1, <1>2, <1>3, FreshFollows DEF IndInv

LEMMA GetFollows ==
  ASSUME IndInv, Get
  PROVE  IndInv'
<1>1. /\ field \in Generatable /\ field \in Fields /\ field \in Lazies /\ Sound(field, class)
      /\ field' = field /\ class' = Opened(class)
      /\ fragments' = Opened(fragments) /\ failed' = failed /\ history' = history
  BY KindsAgree DEF IndInv, Follows, Get
<1>2. Storage(field) = "LazyField" /\ ~ IsEager(field)
  BY <1>1, KindsAgree DEF IsEager
<1>3. Sound(field, class') /\ KeepsWritten(field, class')
  <2>1. class'.parsed
    BY <1>1, <1>2, SoundLazies DEF Opened, Lazy
  <2> QED
    BY <1>1, <1>2, <2>1, OpenedIsSound DEF KeepsWritten
<1>4. Observed(field, class') = Observed(field, class)
  BY <1>1, <1>2, ConsultingIsReading DEF Consulted
<1> QED
  BY <1>1, <1>2, <1>3, <1>4 DEF IndInv, Follows

(* What protobuf sends is bytes.                                           *)
LEMMA PayloadIsBytes ==
  ASSUME field \in Generatable, NEW x \in ValuesOf(field)
  PROVE  ProtobufPayload(x) \in Seq(Byte)
<1>1. \A bytes \in Seq(Byte) : Delimited(bytes) \in Seq(Byte)
  BY DelimitedIsBytes
<1>2. CASE Storage(field) = "ArenaString"
  <2>1. x \in Seq(Byte) /\ Type[field] = "string"
    BY <1>2, KindsAgree DEF ValuesOf, Shorter
  <2> QED
    BY <1>1, <2>1 DEF ProtobufPayload, StringTypes
<1>3. CASE Storage(field) \in {"LazyField", "message"}
  <2>1. x \in Contents /\ Type[field] = "message"
    BY <1>3, KindsAgree DEF ValuesOf
  <2> QED
    BY <1>1, <2>1, EncodedIsShort DEF ProtobufPayload, StringTypes
<1>4. CASE Storage(field) = "scalar"
  <2>1. Type[field] \in DOMAIN CPP_TYPE_MAP /\ field \in Fields
    BY <1>4, KindsAgree
  <2>2. Type[field] \in ScalarTypes /\ Type[field] # "message" /\ Type[field] \notin StringTypes
    BY <2>1, TypesAreKnown
  <2>3. x \in ScalarStates(Type[field])
    BY <1>4, <2>1, StatesOfScalars DEF ValuesOf
  <2> QED
    BY <2>2, <2>3, ScalarsAreTaken DEF ProtobufPayload
<1> QED
  BY <1>2, <1>3, <1>4, KindsAgree

LEMMA ReceiveFollows ==
  ASSUME IndInv, NEW x \in Given[field], Receive(x)
  PROVE  IndInv'
<1> DEFINE buf == ProtobufPayload(x)
           r == ReadField(field, class, buf, 1)
           next == generate_parse_code(field, fragments, buf, 1)
<1>1. /\ field \in Generatable /\ field \in Fields /\ Sound(field, class)
      /\ history \in Seq(ValuesOf(field)) /\ history # <<>>
  BY KindsAgree DEF IndInv, Follows
<1>2. x \in ValuesOf(field)
  BY <1>1, GivenAssumption
<1>3. /\ field' = field /\ failed' = (r.ptr = Null)
      /\ class' \in IF failed' THEN Contents ELSE {r.value}
      /\ fragments' = next.value /\ history' = Append(history, Taken(x))
  BY DEF Receive, Call
<1>4. buf \in Seq(Byte) /\ 1 \in Nat \ {0} /\ Holds(buf, 1, buf) /\ 1 + Len(buf) # Null
  <2>1. buf \in Seq(Byte)
    BY <1>1, <1>2, PayloadIsBytes
  <2> HIDE DEF buf
  <2> QED
    BY <2>1 DEF Holds, Null
<1>5. /\ IF Eager /\ x \notin Complete THEN r.ptr = Null
         ELSE r.ptr = 1 + Len(buf) /\ Observed(field, r.value) = Taken(x)
      /\ Taken(x) \in ValuesOf(field)
      /\ field \in Lazies => r.value = Deferred(class, Encoded[x])
      /\ ~ Eager => generate_parse_code(field, class, buf, 1) = r
      /\ Eager => next = [ptr |-> 1 + Len(buf), value |-> Merged[MessageMutable(fragments)][x]]
  <2>1. BothTake(x, class, buf, 1) /\ Taken(x) \in ValuesOf(field)
    BY <1>1, <1>2, <1>4, PayloadsAreTaken
  <2> QED
    BY <2>1 DEF BothTake
<1>6. r.ptr # Null => Sound(field, r.value)
  BY <1>1, <1>4, ReadingIsSound
<1>7. Eager = IsEager(field)
  BY DEF Eager, IsEager
<1> HIDE DEF buf, r, next
<1>8. /\ history' \in Seq(ValuesOf(field)) /\ history' # <<>>
      /\ history'[Len(history')] = Taken(x) /\ history'[1] = history[1]
      /\ Tail(history) \in Seq(ValuesOf(field)) /\ Tail(history') = Append(Tail(history), Taken(x))
  BY <1>1, <1>3, <1>5
<1>9. CASE IsEager(field)
  <2>1. Storage(field) = "message" /\ Type[field] = "message" /\ field \notin Lazies
    BY <1>1, <1>9, KindsAgree, TypesAreKnown DEF IsEager
  <2>2. ValuesOf(field) = Contents /\ Taken(x) = x /\ NULL \notin Contents
    BY <1>1, <1>9, <2>1, NullIsNone DEF ValuesOf, Taken
  <2>3. MessageMutable(fragments) = MergedAll(history[1], Tail(history)) /\ fragments \in Contents \cup {NULL}
    BY <1>9 DEF IndInv, Follows
  <2>4. fragments' = MergedAll(history'[1], Tail(history'))
    <3>1. fragments' = Merged[MessageMutable(fragments)][x]
      BY <1>3, <1>5, <1>7, <1>9
    <3>2. Tail(history) \in Seq(Contents) /\ x \in Contents
      BY <1>2, <1>8, <2>2
    <3>3. MergedAll(history[1], Append(Tail(history), x)) = Merged[MergedAll(history[1], Tail(history))][x]
      <4>1. \A base : \A s \in Seq(Contents) : \A d \in Contents :
              MergedAll(base, Append(s, d)) = Merged[MergedAll(base, s)][d]
        BY OneMoreIsMerged
      <4> QED
        BY <3>2, <4>1
    <3>4. Tail(history') = Append(Tail(history), x) /\ history'[1] = history[1]
      BY <1>8, <2>2
    <3>5. MergedAll(history'[1], Tail(history')) = MergedAll(history[1], Append(Tail(history), x))
      BY <3>4
    <3> QED
      BY <2>3, <3>1, <3>3, <3>5
  <2>5. fragments' \in Contents
    <3>1. MessageMutable(fragments) \in Contents
      BY <2>3, MeaningsAreContents DEF MessageMutable
    <3>2. Merged \in [Contents -> [Contents -> Contents]]
      BY SubmessageAssumption
    <3>3. Merged[MessageMutable(fragments)] \in [Contents -> Contents]
      BY <3>1, <3>2
    <3>4. Merged[MessageMutable(fragments)][x] \in Contents
      BY <1>2, <2>2, <3>3
    <3>5. fragments' = Merged[MessageMutable(fragments)][x]
      BY <1>3, <1>5, <1>7, <1>9
    <3> QED
      BY <3>4, <3>5
  <2>6. MessageMutable(fragments') = fragments'
    BY <2>2, <2>5 DEF MessageMutable
  <2>7. Sound(field, class')
    <3>1. \A v \in Contents : Sound(field, v)
      BY <1>1, <2>1, SoundSubmessages
    <3> QED
      BY <1>3, <1>6, <3>1
  <2>8. Observed(field, class') = Taken(x) \/ failed'
    BY <1>3, <1>4, <1>5
  <2>9. failed' => Taken(x) \notin Complete
    BY <1>3, <1>4, <1>5, <2>2
  <2>10. KeepsWritten(field, class')
    BY <2>1 DEF KeepsWritten
  <2> QED
    BY <1>1, <1>3, <1>8, <1>9, <2>10, <2>4, <2>5, <2>6, <2>7, <2>8, <2>9 DEF IndInv, Follows
<1>10. CASE ~ IsEager(field)
  <2>1. r.ptr # Null /\ Observed(field, r.value) = Taken(x)
    BY <1>4, <1>5, <1>7, <1>10
  <2>2. fragments = class
    BY <1>10 DEF IndInv, Follows
  <2>3. next = r
    BY <1>5, <1>7, <1>10, <2>2 DEF next
  <2>4. failed' = FALSE /\ class' = r.value /\ fragments' = class' /\ Sound(field, class')
    BY <1>3, <1>6, <2>1, <2>3
  <2>5. KeepsWritten(field, class')
    <3>1. field \in Lazies => class' = Deferred(class, Encoded[x]) /\ x \in Contents
      BY <1>1, <1>2, <1>5, <2>4, StorageKinds DEF ValuesOf
    <3>2. field \in Lazies => class'.bytes = Encoded[x]
      BY <3>1 DEF Deferred, Lazy
    <3> QED
      BY <3>1, <3>2 DEF KeepsWritten
  <2> QED
    BY <1>1, <1>3, <1>8, <1>10, <2>1, <2>4, <2>5 DEF IndInv, Follows
<1> QED
  BY <1>9, <1>10

(* Every call keeps the invariant.                                         *)
LEMMA NextFollows ==
  ASSUME IndInv, [Next]_vars
  PROVE  IndInv'
<1>1. CASE UNCHANGED vars
  BY <1>1 DEF IndInv, vars
<1>2. CASE Next
  BY <1>2, SetFollows, MutateFollows, ReceiveFollows, GetFollows, ClearFollows DEF Next
<1> QED
  BY <1>1, <1>2

(* The two members are kept in step by every call: the invariant from      *)
(* which the properties follow.                                            *)
THEOREM MembersFollow == Spec => []IndInv
<1>1. Init => IndInv
  BY InitFollows
<1>2. IndInv /\ [Next]_vars => IndInv'
  BY NextFollows
<1> QED
  BY <1>1, <1>2, PTL DEF Spec

(* Whatever the calls, the class has the value given last, and the         *)
(* fragments have the same one, or what merging made of all that arrived.  *)
THEOREM CallsAreFollowed == Spec => []ValuesFollowCalls
<1>1. ASSUME IndInv
      PROVE  ValuesFollowCalls
  <2>1. /\ field \in Generatable /\ field \in Fields /\ Value("class") = Observed(field, class)
        /\ Eager = IsEager(field)
    BY <1>1, KindsAgree DEF IndInv, Follows, Value, Eager, IsEager
  <2>2. ASSUME Eager
        PROVE  Value("fragments") = FoldLeft(LAMBDA c, d : Merged[c][d], history[1], Tail(history))
    <3>1. create_field_generator(field) = "Message"
      BY <2>1, <2>2, KindsAgree, TypesAreKnown DEF Eager
    <3>2. Value("fragments") = MessageMutable(fragments)
      BY <3>1 DEF Value, MessageHas, FragmentValue, MessageMutable
    <3> QED
      BY <1>1, <2>1, <2>2, <3>2 DEF IndInv, Follows, MergedAll
  <2> QED
    BY <1>1, <2>1, <2>2 DEF ValuesFollowCalls, IndInv, Follows
<1> QED
  BY <1>1, MembersFollow, PTL

(***************************************************************************)
(* What each of them writes.                                               *)
(***************************************************************************)

(* Behind the same bytes, different ones are told apart.                   *)
LEMMA TailsStay ==
  ASSUME NEW a \in Seq(Byte), NEW b \in Seq(Byte), NEW c \in Seq(Byte), a \o b = a \o c
  PROVE  b = c
<1>1. Len(a) \in Nat /\ Len(b) \in Nat /\ Len(c) \in Nat /\ Len(a) + Len(b) = Len(a) + Len(c)
  BY LengthsAdd
<1>2. Len(b) = Len(c)
  BY <1>1
<1>3. \A i \in 1 .. Len(b) : b[i] = (a \o b)[Len(a) + i] /\ c[i] = (a \o c)[Len(a) + i]
  BY <1>1, <1>2
<1>4. \A i \in 1 .. Len(b) : b[i] = c[i]
  BY <1>3
<1>5. b = [i \in 1 .. Len(b) |-> b[i]] /\ c = [i \in 1 .. Len(c) |-> c[i]]
  OBVIOUS
<1> QED
  BY <1>2, <1>4, <1>5

(* The tags of the fragments are those of the class.                       *)
LEMMA TagsAreAlike ==
  ASSUME NEW f \in Generatable, NEW payload
  PROVE  /\ create_field_generator(f) = "Primitive" =>
              WriteAs(f, WIRE_WRITE_MAP[Type[f]], payload) = WriteTag(f) \o payload
         /\ create_field_generator(f) = "String" =>
              WriteAs(f, "WriteString", payload) = WriteTag(f) \o payload
         /\ create_field_generator(f) = "Message" =>
              WriteAs(f, "WriteMessage", payload) = WriteTag(f) \o payload
<1>1. \A method : WrittenAs(method) = wire_type(Type[f]) =>
        WriteAs(f, method, payload) = WriteTag(f) \o payload
  BY DEF WriteAs, WriteTag, Tag
<1>2. CASE create_field_generator(f) = "Primitive"
  BY <1>1, <1>2, KindsAgree, TypesAreKnown
<1>3. CASE create_field_generator(f) \in {"String", "Message"}
  <2>1. Type[f] \in {"string", "message"}
    BY <1>3, KindsAgree
  <2>2. wire_type(Type[f]) = LENGTH_DELIMITED
    BY <2>1 DEF wire_type, StringTypes, Fixed64Types, Fixed32Types
  <2>3. WrittenAs("WriteString") = LENGTH_DELIMITED /\ WrittenAs("WriteMessage") = LENGTH_DELIMITED
    BY DEF WrittenAs
  <2> QED
    BY <1>1, <1>3, <2>2, <2>3
<1> QED
  BY <1>2, <1>3

(* The payloads of protobuf are bytes, and something is written with them. *)
LEMMA PayloadIsLong ==
  ASSUME field \in Generatable, NEW x \in ValuesOf(field)
  PROVE  ProtobufPayload(x) \in Seq(Byte) /\ WriteTag(field) \o ProtobufPayload(x) # <<>>
<1>1. ProtobufPayload(x) \in Seq(Byte) /\ field \in Fields
  BY PayloadIsBytes, KindsAgree
<1>2. WriteTag(field) \in Seq(Byte) /\ Len(WriteTag(field)) \in Nat \ {0}
  BY <1>1, TagsAreMeasured
<1> QED
  BY <1>1, <1>2

(* The fragments write protobuf, or nothing for a default value.           *)
LEMMA FragmentsAreWritten ==
  ASSUME field \in Generatable, field \notin Lazies, NEW v, NEW x,
         IF IsEager(field) THEN v \in Contents \cup {NULL} ELSE Sound(field, v),
         x = IF v # NULL THEN FragmentValue(field, v) ELSE Default
  PROVE  /\ x \in ValuesOf(field)
         /\ IF generate_serialize_code(field, v) = <<>> THEN Settled(field, x) = Initial
            ELSE generate_serialize_code(field, v) = WriteTag(field) \o ProtobufPayload(x)
<1> DEFINE bytes == generate_serialize_code(field, v)
<1>1. field \in Fields
  BY KindsAgree
<1>2. CASE Storage(field) = "ArenaString"
  <2>1. /\ Type[field] = "string" /\ create_field_generator(field) = "String" /\ ~ IsEager(field)
        /\ Sound(field, v)
    BY <1>2, KindsAgree DEF IsEager
  <2>2. v # NULL
    BY <1>1, <2>1, NullAssumption DEF Sound
  <2>3. x = v.value /\ Settled(field, x) = x /\ Initial = <<>> /\ x \in ValuesOf(field)
    BY <1>1, <1>2, <2>1, <2>2, SoundTexts
      DEF FragmentValue, Settled, Initial, Cleared, Observed, Text, ValuesOf
  <2>4. bytes = IF v.has THEN WriteTag(field) \o Delimited(x) ELSE <<>>
    BY <2>1, <2>3, TagsAreAlike DEF generate_serialize_code, IsPrimitive, StringSerialize
  <2>5. v.has \/ x = <<>>
    BY <1>2, <2>1, <2>3 DEF Sound
  <2>6. ProtobufPayload(x) = Delimited(x)
    BY <2>1 DEF ProtobufPayload, StringTypes
  <2> QED
    BY <2>3, <2>4, <2>5, <2>6, PayloadIsLong
<1>3. CASE Storage(field) = "message"
  <2>1. Type[field] = "message" /\ create_field_generator(field) = "Message" /\ IsEager(field)
    BY <1>3, KindsAgree DEF IsEager
  <2>2. v \in Contents \cup {NULL} /\ ValuesOf(field) = Contents /\ Default \in Contents
    BY <1>3, <2>1, MeaningsAreContents DEF ValuesOf
  <2>3. /\ x = IF v # NULL THEN v ELSE Default
        /\ Settled(field, x) = x /\ Initial = Default /\ x \in Contents
    <3>1. Initial = Default
      BY <1>1, <1>3, <2>2, GettersShowAll DEF Initial, Cleared
    <3> QED
      BY <1>3, <2>1, <2>2, <3>1 DEF FragmentValue, Settled
  <2>4. bytes = IF v = NULL THEN <<>> ELSE WriteTag(field) \o Delimited(Encoded[x])
    BY <2>1, <2>3, TagsAreAlike DEF generate_serialize_code, IsPrimitive, MessageSerialize
  <2>5. ProtobufPayload(x) = Delimited(Encoded[x])
    BY <2>1 DEF ProtobufPayload, StringTypes
  <2> QED
    BY <2>2, <2>3, <2>4, <2>5, PayloadIsLong
<1>4. CASE Storage(field) = "scalar"
  <2> DEFINE type == Type[field]
  <2>1. /\ type \in DOMAIN CPP_TYPE_MAP /\ create_field_generator(field) = "Primitive"
        /\ type # "message" /\ type \notin StringTypes /\ ~ IsEager(field) /\ Sound(field, v)
    BY <1>4, KindsAgree, TypesAreKnown DEF IsEager
  <2>2. v # NULL
    BY <1>1, <2>1, NullAssumption DEF Sound
  <2>3. x = v /\ x \in ScalarStates(type) /\ x \in ValuesOf(field)
    BY <1>1, <1>4, <2>1, <2>2, SoundScalars, StatesOfScalars DEF FragmentValue, ValuesOf
  <2>4. /\ Settled(field, x) = IF IsDefaultLiteral(type, x) THEN Zero(type) ELSE x
        /\ Initial = Zero(type)
    BY <1>4 DEF Settled, Initial, Cleared, Observed
  <2>5. ProtobufPayload(x) = Written(WIRE_WRITE_MAP[type], x)
    BY <2>1, <2>3, FragmentsAreProtobuf DEF ProtobufPayload
  <2>6. bytes = IF IsDefaultLiteral(type, x) THEN <<>> ELSE WriteTag(field) \o ProtobufPayload(x)
    BY <2>1, <2>3, <2>5, TagsAreAlike DEF generate_serialize_code, IsPrimitive, PrimitiveSerialize
  <2> HIDE DEF type
  <2> QED
    BY <2>3, <2>4, <2>6, PayloadIsLong
<1> QED
  BY <1>2, <1>3, <1>4, KindsAgree

(* The class writes protobuf too, except for the sint types.               *)
LEMMA ClassIsWritten ==
  ASSUME field \in Generatable, field \notin Lazies, NEW v, Sound(field, v),
         FieldBytes(field, v) # <<>>, NEW x, x = Observed(field, v)
  PROVE  IF Type[field] \in {"sint32", "sint64"}
         THEN FieldBytes(field, v) = WriteTag(field) \o ScalarBytes(Type[field], x)
         ELSE FieldBytes(field, v) = WriteTag(field) \o ProtobufPayload(x)
<1>1. field \in Fields /\ FieldBytes(field, v) = WriteTag(field) \o Payload(field, v)
  BY KindsAgree, PayloadIsWritten
<1>2. CASE Storage(field) = "ArenaString"
  <2>1. Type[field] = "string"
    BY <1>2, KindsAgree
  <2> QED
    BY <1>1, <1>2, <2>1 DEF Payload, ProtobufPayload, Observed, StringTypes
<1>3. CASE Storage(field) = "message"
  <2>1. Type[field] = "message" /\ x = v
    BY <1>1, <1>3, KindsAgree, SoundSubmessages, GettersShowAll
  <2> QED
    BY <1>1, <1>3, <2>1 DEF Payload, ProtobufPayload, StringTypes
<1>4. CASE Storage(field) = "scalar"
  <2> DEFINE type == Type[field]
  <2>1. type \in ScalarTypes /\ type # "message" /\ type \notin StringTypes
    BY <1>4, KindsAgree, TypesAreKnown
  <2>2. x = v /\ Payload(field, v) = ScalarBytes(type, x) /\ x \in ScalarStates(type)
    BY <1>1, <1>4, SoundScalars, StatesOfScalars DEF Payload, Observed
  <2>3. ProtobufPayload(x) = ProtobufBytes(type, x)
    BY <2>1 DEF ProtobufPayload
  <2> HIDE DEF type
  <2>4. type \notin {"sint32", "sint64"} => ProtobufPayload(x) = ScalarBytes(type, x)
    BY <2>1, <2>2, <2>3, PlainIsProtobuf
  <2> QED
    BY <1>1, <2>2, <2>4 DEF type
<1> QED
  BY <1>2, <1>3, <1>4, KindsAgree

(* Both write a lazy field alike, but for the tag.                         *)
LEMMA LaziesAreWritten ==
  ASSUME NEW f \in Fields, Storage(f) = "LazyField", NEW v, Sound(f, v)
  PROVE  IF v.has
         THEN /\ LazyPayload(v) \in Seq(Byte) /\ Len(LazyPayload(v)) < Word32
              /\ LazySerialize(v) = Delimited(LazyPayload(v))
              /\ FieldBytes(f, v) = WriteTag(f) \o LazySerialize(v)
              /\ LazySerialize(v) # <<>> /\ FieldBytes(f, v) # <<>>
         ELSE LazySerialize(v) = <<>> /\ FieldBytes(f, v) = <<>> /\ Observed(f, v) = Default
<1>1. v.has \in BOOLEAN /\ v.bytes \in Shorter(Word32) /\ v.content \in Contents
  BY SoundLazies
<1>2. CASE ~ v.has
  <2>1. LazyPayload(v) = NULL /\ LazySize(v) = 0
    BY <1>2 DEF LazyPayload, LazySize
  <2>2. f \in Lazies /\ ~ (0 > 0)
    BY StorageKinds
  <2> QED
    BY <1>2, <2>1, <2>2 DEF LazySerialize, FieldBytes, Sound
<1>3. CASE v.has
  <2> DEFINE bytes == LazyPayload(v)
  <2>1. bytes \in Seq(Byte) /\ Len(bytes) < Word32 /\ bytes # NULL
    <3>1. bytes \in Shorter(Word32)
      BY <1>1, <1>3, EncodedIsShort DEF LazyPayload
    <3> QED
      BY <3>1, NullAssumption DEF Shorter
  <2>2. LazySerialize(v) = WriteLengthDelimitedBytes(bytes) /\ LazySize(v) = Varint32Size(Len(bytes)) + Len(bytes)
    BY <2>1 DEF LazySerialize, LazySize
  <2> HIDE DEF bytes
  <2>3. WriteLengthDelimitedBytes(bytes) = Delimited(bytes)
    <3>1. 1 \in Nat \ {0} /\ <<>> \in Seq(Byte)
      OBVIOUS
    <3> QED
      BY <2>1, <3>1, ChunksAreFound
  <2>4. LazySize(v) > 0
    <3>1. LazySize(v) \in Nat \ {0}
      BY <2>1, <2>2, DelimitedAreMeasured
    <3> QED
      BY <3>1
  <2>5. FieldBytes(f, v) = WriteTag(f) \o LazySerialize(v)
    BY <2>2, <2>4 DEF FieldBytes, bytes
  <2>6. Delimited(bytes) \in Seq(Byte) /\ Len(Delimited(bytes)) \in Nat \ {0}
    <3>1. Len(bytes) \in Nat
      BY <2>1
    <3>2. WriteVarint(Len(bytes)) \in Seq(Byte) /\ Len(WriteVarint(Len(bytes))) \in Nat \ {0}
      BY <3>1, NumbersAreMeasured
    <3> HIDE DEF Delimited
    <3>3. /\ Delimited(bytes) \in Seq(Byte)
          /\ Len(Delimited(bytes)) = Len(WriteVarint(Len(bytes))) + Len(bytes)
      BY <2>1, <3>2, LengthsAdd DEF Delimited
    <3> QED
      BY <3>1, <3>2, <3>3
  <2>7. WriteTag(f) \in Seq(Byte) /\ Len(WriteTag(f)) \in Nat \ {0}
    BY TagsAreMeasured
  <2>8. WriteTag(f) \o Delimited(bytes) # <<>> /\ Delimited(bytes) # <<>>
    BY <2>6, <2>7
  <2> QED
    BY <1>3, <2>1, <2>2, <2>3, <2>5, <2>8 DEF bytes
<1> QED
  BY <1>1, <1>2, <1>3

(* What is written is what protobuf writes, in every state that the calls  *)
(* lead to.                                                                *)
THEOREM ProtobufIsWritten == Spec => []WritesProtobuf
<1>1. ASSUME IndInv
      PROVE  WritesProtobuf
  <2> DEFINE header == WriteVarint(TagOf(FieldNumber[field], wire_type(Type[field])))
  <2>1. /\ field \in Generatable /\ field \in Fields /\ Sound(field, class)
        /\ IF IsEager(field) THEN fragments \in Contents \cup {NULL} ELSE fragments = class
    BY <1>1, KindsAgree DEF IndInv, Follows
  <2>2. header = WriteTag(field) /\ Bytes("class") = FieldBytes(field, class)
        /\ Bytes("fragments") = generate_serialize_code(field, fragments)
        /\ Value("class") = Observed(field, class)
        /\ Value("fragments") = IF fragments # NULL THEN FragmentValue(field, fragments) ELSE Default
    BY DEF WriteTag, Tag, Bytes, Value, MessageHas
  <2> HIDE DEF header
  <2>3. ASSUME field \in Lazies, NEW sender \in Sides, Bytes(sender) # <<>>
        PROVE  LET payload == IF ~ class.parsed /\ ~ Parses(class.bytes) THEN Delimited(class.bytes)
                              ELSE ProtobufPayload(Value(sender))
               IN  Bytes("class") = header \o payload /\ Bytes("fragments") = payload
    <3>1. /\ Storage(field) = "LazyField" /\ create_field_generator(field) = "LazyMessage"
          /\ ~ IsEager(field) /\ Type[field] = "message" /\ class # NULL
      BY <2>1, <2>3, KindsAgree, NullAssumption DEF IsEager, Sound
    <3>2. Bytes("fragments") = LazySerialize(class)
      BY <2>1, <2>2, <3>1 DEF generate_serialize_code, IsPrimitive
    <3>3. class.has /\ class.parsed \in BOOLEAN
      BY <2>1, <2>2, <2>3, <3>1, <3>2, LaziesAreWritten, SoundLazies DEF Sides
    <3>4. /\ Bytes("fragments") = Delimited(LazyPayload(class))
          /\ Bytes("class") = header \o Delimited(LazyPayload(class))
      BY <2>1, <2>2, <3>1, <3>2, <3>3, LaziesAreWritten
    <3>5. Value(sender) = Content(class)
      <4>1. Observed(field, class) = Content(class)
        BY <2>1, <3>1, GettersShowAll
      <4>2. FragmentValue(field, class) = Content(class)
        BY <3>1 DEF FragmentValue
      <4> QED
        BY <2>1, <2>2, <3>1, <4>1, <4>2 DEF Sides
    <3>6. ProtobufPayload(Value(sender)) = Delimited(Encoded[Content(class)])
      BY <3>1, <3>5 DEF ProtobufPayload, StringTypes
    <3>7. LazyPayload(class) = IF ~ class.parsed /\ ~ Parses(class.bytes) THEN class.bytes
                               ELSE Encoded[Content(class)]
      <4>1. CASE class.parsed
        BY <3>3, <4>1 DEF LazyPayload, Content
      <4>2. CASE ~ class.parsed
        <5>1. PICK c \in Contents : class.bytes = Encoded[c]
          BY <1>1, <2>3, <3>3, <4>2 DEF IndInv, Follows, KeepsWritten
        <5>2. LazyPayload(class) = Encoded[c] /\ Content(class) = Meaning(Encoded[c])
          BY <3>3, <4>2, <5>1 DEF LazyPayload, Content
        <5>3. Parses(Encoded[c]) => Meaning(Encoded[c]) = c
          BY EncodedMeansItself
        <5> QED
          BY <4>2, <5>1, <5>2, <5>3
      <4> QED
        BY <4>1, <4>2
    <3> QED
      BY <3>4, <3>6, <3>7
  <2>4. ASSUME field \notin Lazies, Bytes("fragments") # <<>>
        PROVE  Bytes("fragments") = header \o ProtobufPayload(Value("fragments"))
    BY <2>1, <2>2, <2>4, FragmentsAreWritten
  <2>5. ASSUME field \notin Lazies, Bytes("class") # <<>>, Type[field] \notin {"sint32", "sint64"}
        PROVE  Bytes("class") = header \o ProtobufPayload(Value("class"))
    BY <2>1, <2>2, <2>5, ClassIsWritten
  <2>6. ASSUME Bytes("class") # <<>>, Type[field] \in {"sint32", "sint64"}
        PROVE  (Bytes("class") = header \o ProtobufPayload(Value("class")))
                 = (Taken(Value("class")) = Value("class"))
    <3> DEFINE type == Type[field]
               x == Value("class")
    <3>1. Storage(field) = "scalar" /\ field \notin Lazies
      BY <2>1, <2>6, KindsAgree
    <3>2. /\ x \in ScalarStates(type) /\ x \in ValuesOf(field)
          /\ Bytes("class") = header \o ScalarBytes(type, x)
      <4>1. x = class
        BY <2>2, <3>1 DEF Observed
      <4> QED
        BY <2>1, <2>2, <2>6, <3>1, <4>1, SoundScalars, StatesOfScalars, ClassIsWritten DEF ValuesOf
    <3>3. ProtobufPayload(x) = ProtobufBytes(type, x) /\ ProtobufPayload(x) \in Seq(Byte)
      BY <2>1, <2>6, <3>2, PayloadIsLong DEF ProtobufPayload, StringTypes
    <3>4. Taken(x) = IF type = "sint32" THEN ZigZag(x, Word32) ELSE ZigZag(x, Word)
      BY <2>6, <3>1 DEF Taken
    <3> HIDE DEF type, x
    <3>5. /\ ScalarBytes(type, x) = ProtobufBytes(type, x) <=> x = 0
          /\ x \in IF type = "sint32" THEN 0 .. Word32 - 1 ELSE 0 .. Word - 1
      BY <2>6, <3>2, SintsDiffer, BitsAssumption DEF type
    <3>6. Taken(x) = x <=> x = 0
      <4>1. \A word \in {Word, Word32} : word \in Nat /\ word > 2 /\ word % 3 # 2
        BY WordAssumption, WordsAreFar, BitsAssumption
      <4> QED
        BY <3>4, <3>5, <4>1, ZigZagMoves
    <3>7. header \in Seq(Byte) /\ ScalarBytes(type, x) \in Seq(Byte)
      BY <2>1, <2>2, <3>2, TagsAreMeasured, ScalarIsMeasured
    <3>8. ScalarBytes(type, x) # ProtobufPayload(x) =>
            header \o ScalarBytes(type, x) # header \o ProtobufPayload(x)
      BY <3>3, <3>7, TailsStay
    <3> QED
      BY <3>2, <3>3, <3>5, <3>6, <3>8 DEF x
  <2> QED
    <3>1. ASSUME NEW sender \in Sides, Bytes(sender) # <<>>, field \in Lazies
          PROVE  Type[field] \notin {"sint32", "sint64"}
      BY <2>1, <3>1, StorageKinds
    <3> SUFFICES ASSUME NEW sender \in Sides, Bytes(sender) # <<>>
                 PROVE  LET value    == Value(sender)
                            kept     == field \in Lazies /\ ~ class.parsed /\ ~ Parses(class.bytes)
                            payload  == IF kept THEN Delimited(class.bytes)
                                        ELSE ProtobufPayload(value)
                            expected == IF sender = "fragments" /\ field \in Lazies THEN payload
                                        ELSE header \o payload
                        IN  IF Type[field] \in {"sint32", "sint64"} /\ sender = "class"
                            THEN (Bytes(sender) = expected) = (Taken(value) = value)
                            ELSE Bytes(sender) = expected
      BY DEF WritesProtobuf, header
    <3>2. CASE field \in Lazies
      BY <2>3, <3>1, <3>2 DEF Sides
    <3>3. CASE field \notin Lazies /\ sender = "fragments"
      BY <2>4, <3>3
    <3>4. CASE field \notin Lazies /\ sender = "class"
      BY <2>5, <2>6, <3>4
    <3> QED
      BY <3>2, <3>3, <3>4 DEF Sides
<1> QED
  BY <1>1, MembersFollow, PTL

(***************************************************************************)
(* What each of them reads of it.                                          *)
(***************************************************************************)

(* But for eager submessages, both read alike.                             *)
LEMMA FragmentsReadAlike ==
  ASSUME NEW f \in Generatable, ~ IsEager(f), NEW v, NEW buf \in Seq(Byte), NEW p \in Nat \ {0},
         Type[f] \in FixedTypes => p + WidthOf(Type[f]) - 1 <= Len(buf)
  PROVE  /\ generate_parse_code(f, v, buf, p) = ReadField(f, v, buf, p)
         /\ \A w : Sound(f, w) => FragmentValue(f, w) = Observed(f, w)
<1>1. CASE Storage(f) = "ArenaString"
  <2>1. create_field_generator(f) = "String"
    BY <1>1, KindsAgree
  <2> QED
    BY <1>1, <2>1 DEF generate_parse_code, IsPrimitive, StringParse, ReadField, FragmentValue, Observed
<1>2. CASE Storage(f) = "LazyField"
  <2>1. create_field_generator(f) = "LazyMessage"
    BY <1>2, KindsAgree
  <2> QED
    BY <1>2, <2>1, KindsAgree, GettersShowAll
      DEF generate_parse_code, IsPrimitive, LazyParse, ReadField, FragmentValue
<1>3. CASE Storage(f) = "scalar"
  <2>1. create_field_generator(f) = "Primitive"
    BY <1>3, KindsAgree
  <2>2. PrimitiveParse(f, buf, p) = ReadScalar(Type[f], buf, p)
    BY <1>3, PrimitivesAreRead
  <2> QED
    BY <1>3, <2>1, <2>2 DEF generate_parse_code, IsPrimitive, ReadField, FragmentValue, Observed
<1>4. Storage(f) # "message"
  BY KindsAgree DEF IsEager
<1> QED
  BY <1>1, <1>2, <1>3, <1>4, KindsAgree

(* Behind the tag is the payload.                                          *)
LEMMA PayloadIsBehind ==
  ASSUME NEW f \in Fields, NEW payload \in Seq(Byte), NEW bytes, bytes = WriteTag(f) \o payload,
         NEW p, p = ReadTag(bytes, 1).ptr
  PROVE  /\ ReadTag(bytes, 1).value = Tag(f)
         /\ p \in Nat \ {0} /\ Holds(bytes, p, payload)
         /\ bytes \in Seq(Byte) /\ p + Len(payload) = Len(bytes) + 1
<1> DEFINE t == WriteTag(f)
<1>1. t \in Seq(Byte) /\ Len(t) \in Nat /\ Len(payload) \in Nat /\ 1 \in Nat \ {0}
  BY TagsAreMeasured
<1> HIDE DEF t
<1>2. bytes \in Seq(Byte) /\ Len(bytes) = Len(t) + Len(payload) /\ bytes = t \o payload
  BY <1>1, LengthsAdd DEF t
<1>3. Holds(bytes, 1, t \o payload)
  <2>1. 1 + Len(bytes) - 1 <= Len(bytes) /\ \A i \in 1 .. Len(bytes) : bytes[1 + i - 1] = bytes[i]
    BY <1>1, <1>2
  <2> QED
    BY <1>2, <2>1 DEF Holds
<1>4. Holds(bytes, 1, t) /\ Holds(bytes, 1 + Len(t), payload)
  BY <1>1, <1>2, <1>3, BothStand
<1>5. ReadTag(bytes, 1) = [ptr |-> 1 + Len(t), value |-> Tag(f)]
  BY <1>1, <1>2, <1>4, TagsAreFound DEF t
<1>6. ReadTag(bytes, 1).value = Tag(f) /\ p = 1 + Len(t)
  BY <1>5
<1>7. p \in Nat \ {0} /\ p + Len(payload) = Len(bytes) + 1
  BY <1>1, <1>2, <1>6
<1>8. Holds(bytes, p, payload)
  BY <1>4, <1>6
<1> QED
  BY <1>2, <1>6, <1>7, <1>8

(* A field with the value x is read as one with the value y.               *)
ReadsAs(receiver, bytes, x, y) ==
  LET got == Parsed(receiver, bytes, ReadTag(bytes, 1).ptr)
  IN  /\ ReadTag(bytes, 1).value = Tag(field)
      /\ IF Eager /\ x \notin Complete /\ receiver = "class" THEN got.ptr = Null
         ELSE got.ptr = Len(bytes) + 1 /\ Result(receiver, got.value) = y

(* What either reads of a field that protobuf wrote.                       *)
LEMMA ProtobufIsRead ==
  ASSUME MergingCopies, field \in Generatable, NEW x \in ValuesOf(field), NEW receiver \in Sides
  PROVE  ReadsAs(receiver, WriteTag(field) \o ProtobufPayload(x), x, Taken(x))
<1> DEFINE bytes == WriteTag(field) \o ProtobufPayload(x)
           got == Parsed(receiver, bytes, ReadTag(bytes, 1).ptr)
<1> SUFFICES /\ ReadTag(bytes, 1).value = Tag(field)
             /\ IF Eager /\ x \notin Complete /\ receiver = "class" THEN got.ptr = Null
                ELSE got.ptr = Len(bytes) + 1 /\ Result(receiver, got.value) = Taken(x)
  BY DEF ReadsAs
<1> DEFINE p == ReadTag(bytes, 1).ptr
           r == ReadField(field, Cleared(field), bytes, p)
<1>1. field \in Fields /\ ProtobufPayload(x) \in Seq(Byte) /\ Eager = IsEager(field)
  BY KindsAgree, PayloadIsLong DEF Eager, IsEager
<1>2. /\ ReadTag(bytes, 1).value = Tag(field)
      /\ p \in Nat \ {0} /\ Holds(bytes, p, ProtobufPayload(x))
      /\ bytes \in Seq(Byte) /\ p + Len(ProtobufPayload(x)) = Len(bytes) + 1
  BY <1>1, PayloadIsBehind
<1> HIDE DEF p, bytes, got
<1>3. /\ IF Eager /\ x \notin Complete THEN r.ptr = Null
         ELSE r.ptr = Len(bytes) + 1 /\ Observed(field, r.value) = Taken(x)
      /\ ~ Eager => generate_parse_code(field, Cleared(field), bytes, p) = r
      /\ Eager => \A c : generate_parse_code(field, c, bytes, p)
                          = [ptr |-> Len(bytes) + 1, value |-> Merged[MessageMutable(c)][x]]
  <2> DEFINE q == p + Len(ProtobufPayload(x))
  <2>1. /\ IF Eager /\ x \notin Complete THEN r.ptr = Null
           ELSE r.ptr = q /\ Observed(field, r.value) = Taken(x)
        /\ ~ Eager => generate_parse_code(field, Cleared(field), bytes, p) = r
        /\ Eager => \A c : generate_parse_code(field, c, bytes, p)
                            = [ptr |-> q, value |-> Merged[MessageMutable(c)][x]]
    <3>1. BothTake(x, Cleared(field), bytes, p)
      BY <1>2, PayloadsAreTaken
    <3> QED
      BY <3>1 DEF BothTake
  <2>2. q = Len(bytes) + 1
    BY <1>2
  <2> HIDE DEF q, r
  <2> QED
    BY <2>1, <2>2
<1> HIDE DEF r
<1>4. CASE receiver = "class"
  <2>1. got = r /\ Result(receiver, got.value) = Observed(field, r.value)
    BY <1>4 DEF Parsed, Result, got, p, r
  <2>2. got.ptr = r.ptr
    BY <2>1
  <2> QED
    BY <1>2, <1>3, <1>4, <2>1, <2>2
<1>5. CASE receiver = "fragments" /\ ~ Eager
  <2>1. got = generate_parse_code(field, Cleared(field), bytes, p)
    BY <1>1, <1>5, MembersStartAlike DEF Parsed, got, p
  <2>2. Result(receiver, got.value) = Observed(field, got.value)
    <3>1. got = r
      BY <1>3, <1>5, <2>1
    <3>2. Sound(field, r.value)
      <4>1. Sound(field, Cleared(field))
        BY <1>1, ClearedIsSound
      <4>2. r.ptr # Null
        <5>1. r.ptr = Len(bytes) + 1 /\ Len(bytes) \in Nat
          BY <1>2, <1>3, <1>5
        <5> QED
          BY <5>1 DEF Null
      <4> QED
        BY <1>1, <1>2, <4>1, <4>2, ReadingIsSound DEF r
    <3>3. FragmentValue(field, r.value) = Observed(field, r.value)
      <4>1. CASE Storage(field) = "LazyField"
        BY <1>1, <3>2, <4>1, KindsAgree, GettersShowAll DEF FragmentValue
      <4>2. CASE Storage(field) # "LazyField"
        BY <1>1, <1>5, <4>2, KindsAgree DEF FragmentValue, Observed, IsEager
      <4> QED
        BY <4>1, <4>2
    <3> QED
      BY <1>5, <3>1, <3>3 DEF Result
  <2> QED
    BY <1>2, <1>3, <1>5, <2>1, <2>2
<1>6. CASE receiver = "fragments" /\ Eager
  <2>1. /\ create_field_generator(field) = "Message" /\ field \notin Lazies /\ Type[field] = "message"
        /\ Storage(field) = "message" /\ Type[field] \notin {"sint32", "sint64"}
    BY <1>6, KindsAgree, TypesAreKnown DEF Eager
  <2>2. x \in Contents /\ Taken(x) = x
    BY <2>1 DEF ValuesOf, Taken
  <2>3. got = generate_parse_code(field, NULL, bytes, p)
    BY <1>1, <1>6, MembersStartAlike DEF Parsed, got, p
  <2>4. got = [ptr |-> Len(bytes) + 1, value |-> Merged[Default][x]]
    BY <1>3, <1>6, <2>3 DEF MessageMutable
  <2>5. Result(receiver, x) = x
    BY <1>6, <2>1 DEF Result, FragmentValue
  <2>6. Merged[Default][x] = x
    <3>1. Merged[Default][x] \in Contents /\ Seen[Merged[Default][x]] = Seen[x]
      BY <2>2, SubmessageAssumption DEF MergingCopies
    <3> QED
      BY <2>2, <3>1, GivenAssumption
  <2> QED
    BY <1>2, <1>6, <2>2, <2>4, <2>5, <2>6
<1> QED
  BY <1>4, <1>5, <1>6 DEF Sides

(* The payloads of the class are bytes.                                    *)
LEMMA PayloadHasBytes ==
  ASSUME NEW f \in Fields, NEW v, Sound(f, v), FieldBytes(f, v) # <<>>
  PROVE  \E payload \in Seq(Byte) : FieldBytes(f, v) = WriteTag(f) \o payload
<1>1. FieldBytes(f, v) = WriteTag(f) \o Payload(f, v)
  BY PayloadIsWritten
<1>2. CASE Storage(f) = "LazyField"
  <2>1. v.has \in BOOLEAN /\ v.has
    BY <1>2, SoundLazies, LaziesAreWritten
  <2>2. Payload(f, v) = LazySerialize(v)
    <3>1. LazyPayload(v) # NULL
      BY <1>2, <2>1, LaziesAreWritten, NullAssumption
    <3> QED
      BY <1>2, <3>1 DEF Payload, LazySerialize
  <2>3. LazySerialize(v) = Delimited(LazyPayload(v)) /\ LazyPayload(v) \in Seq(Byte)
    BY <1>2, <2>1, LaziesAreWritten
  <2> QED
    BY <1>1, <2>2, <2>3, DelimitedIsBytes
<1>3. CASE Storage(f) = "scalar"
  BY <1>1, <1>3, SoundScalars, PayloadsAreMeasured DEF Payload
<1>4. CASE Storage(f) = "ArenaString"
  BY <1>1, <1>4, SoundTexts, DelimitedIsBytes DEF Payload
<1>5. CASE Storage(f) = "message"
  BY <1>1, <1>5, SoundSubmessages, EncodedIsShort, DelimitedIsBytes DEF Payload
<1> QED
  BY <1>2, <1>3, <1>4, <1>5, StorageKinds

(* Nothing is written for the value of a cleared member only.              *)
LEMMA EmptyIsSettled ==
  ASSUME field \in Fields, NEW v, Sound(field, v), FieldBytes(field, v) = <<>>
  PROVE  Settled(field, Observed(field, v)) = Initial
<1>1. CASE Type[field] = "message"
  <2>1. Observed(field, v) = Default /\ Observed(field, Cleared(field)) = Default
    <3>1. Observed(field, v) = Default
      BY <1>1, EmptyIsDefault
    <3>2. Observed(field, Cleared(field)) = Default
      <4>1. Storage(field) \in {"LazyField", "message"}
        BY <1>1, StorageKinds DEF StringTypes, ScalarTypes, cpp_scalar_type
      <4> QED
        BY <4>1, MeaningsAreContents DEF Observed, Cleared, Content, Lazy
    <3> QED
      BY <3>1, <3>2
  <2>2. Storage(field) # "scalar"
    BY <1>1, StorageKinds DEF ScalarTypes, cpp_scalar_type
  <2> QED
    BY <2>1, <2>2 DEF Settled, Initial
<1>2. CASE Type[field] # "message"
  <2>1. Arrived(field, v, Cleared(field))
    BY EmptyArrives
  <2> QED
    BY <1>2, <2>1 DEF Arrived, Initial
<1> QED
  BY <1>1, <1>2

(* What either reads of a field that the class wrote.                      *)
LEMMA ClassIsRead ==
  ASSUME MergingCopies, field \in Generatable, NEW v, Sound(field, v), FieldBytes(field, v) # <<>>,
         NEW x, x = Observed(field, v), NEW receiver \in Sides
  PROVE  ReadsAs(receiver, FieldBytes(field, v), x, IF field \in Lazies THEN Taken(x) ELSE x)
<1> DEFINE bytes == FieldBytes(field, v)
           got == Parsed(receiver, bytes, ReadTag(bytes, 1).ptr)
<1>1. field \in Fields /\ x \in ValuesOf(field) /\ Eager = IsEager(field)
  BY KindsAgree, SoundIsObserved DEF Eager, IsEager
<1>2. CASE field \notin Lazies /\ Type[field] \notin {"sint32", "sint64"}
  <2>1. bytes = WriteTag(field) \o ProtobufPayload(x) /\ Taken(x) = x
    BY <1>2, ClassIsWritten DEF Taken
  <2>2. ReadsAs(receiver, WriteTag(field) \o ProtobufPayload(x), x, Taken(x))
    BY <1>1, ProtobufIsRead
  <2> QED
    BY <1>2, <2>1, <2>2
<1>3. CASE field \in Lazies \/ Type[field] \in {"sint32", "sint64"}
  <2> DEFINE p == ReadTag(bytes, 1).ptr
             r == ReadField(field, Cleared(field), bytes, p)
  <2>1. ~ IsEager(field) /\ Type[field] \notin FixedTypes
    BY <1>1, <1>3, FieldAssumption DEF IsEager, FixedTypes, Fixed64Types, Fixed32Types
  <2>2. bytes \in Seq(Byte) /\ Holds(bytes, 1, bytes) /\ 1 \in Nat \ {0} /\ 1 + Len(bytes) = Len(bytes) + 1
    <3>1. bytes \in Seq(Byte)
      BY <1>1, FieldsAreMeasured DEF Measured
    <3> QED
      BY <3>1 DEF Holds
  <2>3. p \in Nat \ {0}
    <3>1. \E payload \in Seq(Byte) : bytes = WriteTag(field) \o payload
      BY <1>1, <1>3, PayloadIsWritten, PayloadHasBytes
    <3> QED
      BY <1>1, <3>1, PayloadIsBehind
  <2>4. /\ ReadTag(bytes, 1).value = Tag(field)
        /\ IF Stuck(field, v) THEN r.ptr = Null
           ELSE r.ptr = 1 + Len(bytes) /\ Arrived(field, v, r.value)
    BY <1>1, <2>2, FieldsArrive
  <2>5. ~ Stuck(field, v)
    BY <2>1 DEF Stuck, IsEager
  <2>6. got = r /\ Result(receiver, got.value) = Observed(field, r.value)
    <3>1. Member(field).initial = Cleared(field)
      BY <2>1, MembersStartAlike
    <3>2. /\ generate_parse_code(field, Cleared(field), bytes, p) = ReadField(field, Cleared(field), bytes, p)
          /\ \A w : Sound(field, w) => FragmentValue(field, w) = Observed(field, w)
      BY <2>1, <2>2, <2>3, FragmentsReadAlike
    <3>3. Sound(field, r.value)
      <4>1. Sound(field, Cleared(field))
        BY <1>1, ClearedIsSound
      <4>2. r.ptr # Null
        <5>1. r.ptr = 1 + Len(bytes) /\ Len(bytes) \in Nat
          BY <2>2, <2>4, <2>5
        <5> QED
          BY <5>1 DEF Null
      <4> QED
        BY <1>1, <2>2, <2>3, <4>1, <4>2, ReadingIsSound
    <3> QED
      BY <3>1, <3>2, <3>3 DEF Parsed, Result
  <2> HIDE DEF p, r
  <2>7. Observed(field, r.value) = IF field \in Lazies THEN Taken(x) ELSE x
    <3>1. CASE field \in Lazies
      <4>1. Storage(field) = "LazyField" /\ Type[field] = "message"
        BY <1>1, <3>1, StorageKinds
      <4>2. x \in Contents /\ Settled(field, x) = x /\ Taken(x) = Meaning(Encoded[x])
        BY <1>1, <3>1, <4>1 DEF ValuesOf, Settled, Taken
      <4>3. Meaning(Encoded[x]) = IF x \in Complete THEN x ELSE Default
        BY <4>2, EncodedMeansItself
      <4> QED
        BY <2>4, <2>5, <3>1, <4>1, <4>2, <4>3 DEF Arrived
    <3>2. CASE field \notin Lazies
      <4>1. Type[field] \in {"sint32", "sint64"} /\ Type[field] # "message"
        BY <1>3, <3>2
      <4>2. Storage(field) = "scalar"
        BY <4>1, <1>1, KindsAgree
      <4>3. ~ IsDefaultLiteral(Type[field], x)
        BY <1>1, <4>2, PayloadIsWritten DEF Observed
      <4>4. Settled(field, x) = x
        BY <4>3 DEF Settled
      <4> QED
        BY <2>4, <2>5, <3>2, <4>1, <4>4 DEF Arrived
    <3> QED
      BY <3>1, <3>2
  <2>8. Eager = FALSE /\ got.ptr = Len(bytes) + 1
    BY <1>1, <2>1, <2>2, <2>4, <2>5, <2>6
  <2> QED
    BY <2>4, <2>6, <2>7, <2>8 DEF ReadsAs
<1> QED
  BY <1>2, <1>3

(* The length that a lazy field of the fragments starts with is taken for  *)
(* a tag.                                                                  *)
LEMMA LengthIsRead ==
  ASSUME NEW payload \in Seq(Byte), Len(payload) < Word32, NEW bytes, bytes = Delimited(payload)
  PROVE  ReadTag(bytes, 1).value = Len(bytes) - VarintSize(ReadTag(bytes, 1).value)
<1> DEFINE n == Len(payload)
           w == WriteVarint(n)
           r == ReadVarint(bytes, 1)
<1>1. n \in Nat /\ n < Word32 /\ n < Word /\ Word32 \in Nat /\ 1 \in Nat \ {0}
  BY WordAssumption
<1>2. w \in Seq(Byte) /\ Len(w) = VarintSize(n) /\ VarintSize(n) \in Nat
  BY <1>1, NumbersAreMeasured
<1> HIDE DEF n, w
<1>3. bytes = w \o payload /\ bytes \in Seq(Byte) /\ Len(bytes) = VarintSize(n) + n
  BY <1>1, <1>2, LengthsAdd DEF Delimited, n, w
<1>4. Holds(bytes, 1, w)
  <2>1. Holds(bytes, 1, bytes)
    BY <1>3 DEF Holds
  <2> QED
    BY <1>1, <1>2, <1>3, <2>1, BothStand
<1>5. r = [ptr |-> 1 + Len(w), value |-> n]
  BY <1>1, <1>3, <1>4, NumbersAreFound DEF w
<1>6. n % Word32 = n
  <2>1. n \in 0 .. Word32 - 1
    BY <1>1
  <2> QED
    BY <1>1, <2>1, LittleRemains
<1>7. ReadTag(bytes, 1) = IF r.ptr = Null THEN [ptr |-> 1, value |-> 0]
                          ELSE [r EXCEPT !.value = @ % Word32]
  BY DEF ReadTag
<1> HIDE DEF r
<1>8. ReadTag(bytes, 1).value = n
  <2>1. r.ptr # Null
    BY <1>2, <1>5 DEF Null
  <2> QED
    BY <1>5, <1>6, <1>7, <2>1
<1> QED
  BY <1>1, <1>2, <1>3, <1>8

(* What either of them writes the other reads, with the exceptions that    *)
(* the property names, where merging into an empty submessage copies.      *)
THEOREM EachIsRead ==
  ASSUME MergingCopies
  PROVE  Spec => []EachReadsTheOther
<1>1. ASSUME IndInv
      PROVE  EachReadsTheOther
  <2> SUFFICES ASSUME NEW sender \in Sides, NEW receiver \in Sides
               PROVE  LET bytes == Bytes(sender)
                          sent  == Value(sender)
                          tag   == ReadTag(bytes, 1)
                          got   == Parsed(receiver, bytes, tag.ptr)
                          value == Result(receiver, got.value)
                      IN  IF bytes = <<>> THEN Settled(field, sent) = Initial
                          ELSE IF sender = "fragments" /\ field \in Lazies
                               THEN tag.value = Len(bytes) - VarintSize(tag.value)
                          ELSE /\ tag.value = Tag(field)
                               /\ IF Eager /\ sent \notin Complete /\ receiver = "class"
                                  THEN got.ptr = Null
                                  ELSE /\ got.ptr = Len(bytes) + 1
                                       /\ value = IF sender = "fragments" \/ field \in Lazies
                                                  THEN Taken(sent) ELSE sent
    BY DEF EachReadsTheOther
  <2> DEFINE bytes == Bytes(sender)
             sent == Value(sender)
             got == Parsed(receiver, bytes, ReadTag(bytes, 1).ptr)
  <2>1. /\ field \in Generatable /\ field \in Fields /\ Sound(field, class)
        /\ IF IsEager(field) THEN fragments \in Contents \cup {NULL} ELSE fragments = class
    BY <1>1, KindsAgree DEF IndInv, Follows
  <2>2. CASE sender = "class"
    <3>1. bytes = FieldBytes(field, class) /\ sent = Observed(field, class)
      BY <2>2 DEF Bytes, Value
    <3>2. CASE bytes = <<>>
      BY <2>1, <3>1, <3>2, EmptyIsSettled
    <3>3. CASE bytes # <<>>
      <4>1. ReadsAs(receiver, bytes, sent, IF field \in Lazies THEN Taken(sent) ELSE sent)
        BY <2>1, <3>1, <3>3, ClassIsRead
      <4> QED
        BY <2>2, <3>3, <4>1 DEF ReadsAs
    <3> QED
      BY <3>2, <3>3
  <2>3. CASE sender = "fragments" /\ field \notin Lazies
    <3>1. /\ bytes = generate_serialize_code(field, fragments)
          /\ sent = IF fragments # NULL THEN FragmentValue(field, fragments) ELSE Default
      BY <2>3 DEF Bytes, Value, MessageHas
    <3>2. /\ sent \in ValuesOf(field)
          /\ IF bytes = <<>> THEN Settled(field, sent) = Initial
             ELSE bytes = WriteTag(field) \o ProtobufPayload(sent)
      BY <2>1, <2>3, <3>1, FragmentsAreWritten
    <3>3. CASE bytes = <<>>
      BY <3>2, <3>3
    <3>4. CASE bytes # <<>>
      <4>1. ReadsAs(receiver, bytes, sent, Taken(sent))
        BY <2>1, <3>2, <3>4, ProtobufIsRead
      <4> QED
        BY <2>3, <3>4, <4>1 DEF ReadsAs
    <3> QED
      BY <3>3, <3>4
  <2>4. CASE sender = "fragments" /\ field \in Lazies
    <3>1. /\ Storage(field) = "LazyField" /\ create_field_generator(field) = "LazyMessage"
          /\ fragments = class /\ class # NULL
      BY <2>1, <2>4, KindsAgree, NullAssumption DEF IsEager, Sound
    <3>2. bytes = LazySerialize(class)
      BY <2>4, <3>1 DEF Bytes, generate_serialize_code, IsPrimitive
    <3>3. CASE bytes = <<>>
      <4>1. Observed(field, class) = Default
        BY <2>1, <3>1, <3>2, <3>3, LaziesAreWritten
      <4>2. sent = Observed(field, class)
        BY <2>1, <2>4, <3>1, GettersShowAll DEF Value, MessageHas, FragmentValue
      <4>3. FieldBytes(field, class) = <<>>
        BY <2>1, <3>1, <3>2, <3>3, LaziesAreWritten
      <4> QED
        BY <2>1, <3>3, <4>2, <4>3, EmptyIsSettled
    <3>4. CASE bytes # <<>>
      <4>1. /\ LazyPayload(class) \in Seq(Byte) /\ Len(LazyPayload(class)) < Word32
            /\ bytes = Delimited(LazyPayload(class))
        BY <2>1, <3>1, <3>2, <3>4, LaziesAreWritten
      <4>2. ReadTag(bytes, 1).value = Len(bytes) - VarintSize(ReadTag(bytes, 1).value)
        BY <4>1, LengthIsRead
      <4> QED
        BY <2>4, <3>4, <4>2
    <3> QED
      BY <3>3, <3>4
  <2> QED
    BY <2>2, <2>3, <2>4 DEF Sides
<1> QED
  BY <1>1, MembersFollow, PTL

=============================================================================
