--------------------------- MODULE GeneratedField ---------------------------
(***************************************************************************)
(* One field of a class that compiler/generator/message_generator.py       *)
(* emits: the storage its type calls for, and what the generator writes    *)
(* for it into each method of the class.  An operator takes the value of   *)
(* the member and returns its next value, or what the code makes of it.    *)
(*                                                                         *)
(* A string field is what module StringFields promises, a lazy field is    *)
(* what LazyField does when one thread uses it.  Submessages are messages  *)
(* of other classes; a value stands for one.                               *)
(***************************************************************************)
EXTENDS Scalars

CONSTANTS
  NULL,
  Fields,
  Type,         (* the type of each field in the descriptor                *)
  Lazies,       (* the fields with the option lazy                         *)
  FieldNumber,
  Contents,     (* the values of a submessage                              *)
  Default,      (* a submessage without any field set                      *)
  Fresh,        (* one that was just constructed on an arena: its strings  *)
                (* are present and empty                                   *)
  Seen,         (* the submessage without this difference, which getters   *)
                (* do not show                                             *)
  Complete,     (* those whose IsInitialized() is true                     *)
  Encoded,      (* the bytes a submessage serializes to                    *)
  Decoded,      (* the submessage that ParseFromArray makes of the byte    *)
                (* strings that it accepts                                 *)
  Merged        (* the result of merging one submessage into another       *)

(* For any other type FieldInfo raises an error.  A tag is a short word.   *)
ASSUME FieldAssumption ==
  /\ Type \in [Fields -> ScalarTypes \cup StringTypes \cup {"message"}]
  /\ Lazies \subseteq {f \in Fields : Type[f] = "message"}
  /\ FieldNumber \in [Fields -> Nat \ {0}] /\ IsInjective(FieldNumber)
  /\ \A f \in Fields : TagOf(FieldNumber[f], 7) < Word32

(* The byte strings whose length is below limit.                           *)
Shorter(limit) == {bytes \in Seq(Byte) : Len(bytes) < limit}

(* Getters show the value of a submessage, where the two zeros are equal.  *)
(* Every class has its own required fields: Default may lack them.  What   *)
(* a submessage serializes to, which has no lazy fields in it, parses if   *)
(* it lacks none.  What is longer than an int can say does not, and is not *)
(* serialized either.                                                      *)
ASSUME SubmessageAssumption ==
  /\ {Default, Fresh} \cup Complete \subseteq Contents
  /\ Seen \in [Contents -> Contents]
  /\ Seen[Default] = Default /\ Seen[Fresh] = Default
  /\ \A c \in Contents :
       /\ Seen[Seen[c]] = Seen[c]
       /\ Seen[c] \in Complete <=> c \in Complete
       /\ Encoded[c] \in Shorter(Word32 \div 2)
       /\ Encoded[c] = <<>> => Seen[c] = Default
       /\ Encoded[c] \in DOMAIN Decoded <=> c \in Complete
  /\ Encoded[Default] = <<>>
  /\ \A c \in Complete : Seen[Decoded[Encoded[c]]] = Seen[c]
  /\ \A bytes \in DOMAIN Decoded : Decoded[bytes] \in Complete
  /\ Merged \in [Contents -> [Contents -> Contents]]

(***************************************************************************)
(* Storage and accessors.                                                  *)
(***************************************************************************)

Storage(f) ==
  CASE Type[f] \in StringTypes -> "ArenaString"
    [] f \in Lazies            -> "LazyField"
    [] Type[f] = "message" /\ f \notin Lazies -> "message"
    [] OTHER                   -> "scalar"

Accessors(f) ==
  CASE Storage(f) = "ArenaString"             -> {"get", "set", "mutable"}
    [] Storage(f) \in {"LazyField", "message"} -> {"get", "mutable"}
    [] OTHER                                  -> {"get", "set"}

Tag(f) == TagOf(FieldNumber[f], wire_type(Type[f]))

Parses(bytes) == bytes \in DOMAIN Decoded

(* What EnsureParsedLocked() makes of bytes.                               *)
Meaning(bytes) == IF Parses(bytes) THEN Decoded[bytes] ELSE Default

Text(has, value) == [has |-> has, value |-> value]

Lazy(has, parsed, bytes, content) ==
  [has |-> has, parsed |-> parsed, bytes |-> bytes, content |-> content]

(* As it is declared, and as Clear() leaves it.                            *)
Cleared(f) ==
  CASE Storage(f) = "ArenaString" -> Text(FALSE, <<>>)
    [] Storage(f) = "LazyField"   -> Lazy(FALSE, FALSE, <<>>, Default)
    [] Storage(f) = "message"     -> Default
    [] OTHER                      -> Zero(Type[f])

(* A string that is constructed on an arena is allocated at once, and so   *)
(* are those of a submessage.                                              *)
Constructed(f, arena) ==
  CASE Storage(f) = "ArenaString" -> Text(arena, <<>>)
    [] Storage(f) = "message"     -> IF arena THEN Fresh ELSE Default
    [] OTHER                      -> Cleared(f)

(* The submessage that Get() of a lazy field returns.                      *)
Content(v) ==
  IF v.parsed THEN v.content ELSE IF v.has THEN Meaning(v.bytes) ELSE Default

(* What the getter returns.                                                *)
Observed(f, v) ==
  CASE Storage(f) = "ArenaString" -> v.value
    [] Storage(f) = "LazyField"   -> Seen[Content(v)]
    [] Storage(f) = "message"     -> Seen[v]
    [] OTHER                      -> v

(* Get() of a lazy field parses it.                                        *)
Opened(v) == IF v.parsed THEN v ELSE [v EXCEPT !.parsed = TRUE, !.content = Content(v)]

(* Mutant: the string stays the default one.                               *)
SetTextShared(v, value) == Text(v.has, value)

(* Set() of a string field: an empty value leaves a default one alone.     *)
SetText(v, value) == Text(v.has \/ value # <<>>, value)

(* Mutable() and a write through it.                                       *)
Owned(c) == Lazy(TRUE, TRUE, <<>>, c)

(* set_f(x), and a write of x through mutable_f().                         *)
Assigned(f, v, x) == IF Storage(f) = "ArenaString" THEN SetText(v, x) ELSE x

Mutated(f, x) ==
  CASE Storage(f) = "ArenaString" -> Text(TRUE, x)
    [] Storage(f) = "LazyField"   -> Owned(x)
    [] Storage(f) = "message"     -> x

(* Mutant: the message is written although it was not parsed yet.          *)
LazyPayloadParsed(v) == IF v.has THEN Encoded[v.content] ELSE NULL

(* What LazyField::Serialize() has to write, NULL for nothing.             *)
LazyPayload(v) ==
  IF ~v.has THEN NULL ELSE IF v.parsed THEN Encoded[v.content] ELSE v.bytes

(* LazyField::IsInitialized().                                             *)
LazyInitialized(v) == v.has => Content(v) \in Complete

(***************************************************************************)
(* ByteSizeLong(), and separately _InternalSerialize().                    *)
(***************************************************************************)

TagSize(f) == VarintSize(Tag(f))

LazySize(v) ==
  LET payload == LazyPayload(v)
  IN  IF payload = NULL THEN 0 ELSE Varint32Size(Len(payload)) + Len(payload)

(* Mutant: the length in front of a string is not counted.                 *)
StringSizeBare(f, v) == IF v.has THEN TagSize(f) + Len(v.value) ELSE 0

StringSize(f, v) ==
  IF v.has THEN TagSize(f) + VarintSize(Len(v.value)) + Len(v.value) ELSE 0

FieldSize(f, v) ==
  CASE Storage(f) = "ArenaString" -> StringSize(f, v)
    [] Storage(f) = "LazyField"   -> IF LazySize(v) > 0 THEN TagSize(f) + LazySize(v) ELSE 0
    [] Storage(f) = "message"     ->
         LET payload == Len(Encoded[v])
         IN  IF payload > 0 THEN TagSize(f) + VarintSize(payload) + payload ELSE 0
    [] OTHER                      ->
         IF IsDefaultLiteral(Type[f], v) THEN 0 ELSE TagSize(f) + ScalarSize(Type[f], v)

WriteTag(f) == WriteVarint(Tag(f))

(* A length and that many bytes.                                           *)
Delimited(bytes) == WriteVarint(Len(bytes)) \o bytes

FieldBytes(f, v) ==
  CASE Storage(f) = "ArenaString" ->
         IF v.has THEN WriteTag(f) \o Delimited(v.value) ELSE <<>>
    [] Storage(f) = "LazyField"   ->
         IF LazySize(v) > 0 THEN WriteTag(f) \o WriteLengthDelimitedBytes(LazyPayload(v))
         ELSE <<>>
    [] Storage(f) = "message"     ->
         IF Len(Encoded[v]) > 0 THEN WriteTag(f) \o Delimited(Encoded[v]) ELSE <<>>
    [] OTHER                      ->
         IF IsDefaultLiteral(Type[f], v) THEN <<>>
         ELSE WriteTag(f) \o ScalarBytes(Type[f], v)

(***************************************************************************)
(* The case of _InternalParse(), after the wire type has been compared:    *)
(* where the occurrence whose payload starts at p ends, or Null, and what  *)
(* is in the member then.                                                  *)
(***************************************************************************)

(* The bytes whose length the varint reader r has read.                    *)
Chunk(buf, r) ==
  [ptr |-> IF r.ptr = Null THEN Null ELSE r.ptr + r.value,
   bytes |-> Memory(buf, r.ptr, r.value)]

ReadString(v, buf, p) ==
  LET chunk == Chunk(buf, ReadVarint(buf, p))
  IN  [ptr |-> chunk.ptr, value |-> SetText(v, chunk.bytes)]

(* Mutant: the state is left as it was.                                    *)
DeferredStale(v, bytes) == Lazy(TRUE, v.parsed, bytes, v.content)

(* LazyField::ParseFrom() keeps the bytes for later.                       *)
Deferred(v, bytes) == Lazy(TRUE, FALSE, bytes, v.content)

ReadLazy(v, buf, p) ==
  LET chunk == Chunk(buf, ReadVarint32(buf, p))
  IN  [ptr |-> chunk.ptr, value |-> Deferred(v, chunk.bytes)]

(* static_cast<int>(size) drops bits, and has a sign.                      *)
IsNegative(size) == size % Word32 >= Word32 \div 2

(* ParseFromArray() starts over, and takes an int, which must not be       *)
(* negative; what it leaves when it fails is open, which NULL stands for.  *)
(* The pointer moves on by the whole size.                                 *)
ReadSubmessage(v, buf, p) ==
  LET chunk == Chunk(buf, ReadVarint(buf, p))
      size  == Len(chunk.bytes)
      bytes == SubSeq(chunk.bytes, 1, size % Word32)
  IN  IF chunk.ptr = Null THEN [ptr |-> Null, value |-> v]
      ELSE IF ~IsNegative(size) /\ Parses(bytes)
           THEN [ptr |-> chunk.ptr, value |-> Decoded[bytes]]
      ELSE [ptr |-> Null, value |-> NULL]

ReadField(f, v, buf, p) ==
  CASE Storage(f) = "ArenaString" -> ReadString(v, buf, p)
    [] Storage(f) = "LazyField"   -> ReadLazy(v, buf, p)
    [] Storage(f) = "message"     -> ReadSubmessage(v, buf, p)
    [] OTHER                      -> ReadScalar(Type[f], buf, p)

(***************************************************************************)
(* MergeImpl().                                                            *)
(***************************************************************************)

(* Mutant: a string is copied whether or not the source has one.           *)
MergeTextAlways(to, source) == SetText(to, source.value)

MergeText(to, source) == IF source.has THEN SetText(to, source.value) ELSE to

(* A lazy field of the source counts as set if it is initialized, which it *)
(* also is when it has no value.  Its submessage is then assigned, which   *)
(* takes a class whose operator= copies; that of the classes emitted here  *)
(* is deleted, so with one of them this line does not compile.             *)
MergeField(f, to, source) ==
  CASE Storage(f) = "ArenaString" -> MergeText(to, source)
    [] Storage(f) = "LazyField"   ->
         IF LazyInitialized(source) THEN Owned(Content(source)) ELSE to
    [] Storage(f) = "message"     ->
         IF Len(Encoded[source]) > 0 THEN Merged[to][source] ELSE to
    [] OTHER                      -> IF IsDefaultLiteral(Type[f], source) THEN to ELSE source

(* What merging does to its source.                                        *)
Consulted(f, v) == IF Storage(f) = "LazyField" THEN Opened(v) ELSE v

(* What arrives of a value that is not handed on if it compares equal to   *)
(* the default: a negative zero becomes a positive one.                    *)
Settled(f, x) ==
  IF Storage(f) = "scalar" /\ IsDefaultLiteral(Type[f], x) THEN Zero(Type[f]) ELSE x

(* The values the member of a field can have.                              *)
FieldStates(f) ==
  CASE Storage(f) = "ArenaString" -> [has : BOOLEAN, value : Shorter(Word)]
    [] Storage(f) = "LazyField"   -> [has : BOOLEAN, parsed : BOOLEAN, bytes : Shorter(Word32),
                                      content : Contents]
    [] Storage(f) = "message"     -> Contents
    [] Type[f] \in FixedTypes     -> [1 .. WidthOf(Type[f]) -> Byte]
    [] OTHER                      -> NumbersOf(cpp_scalar_type[Type[f]])

(* What its getter can return.                                             *)
ValuesOf(f) ==
  CASE Storage(f) = "ArenaString"              -> Shorter(Word)
    [] Storage(f) \in {"LazyField", "message"} -> Contents
    [] OTHER                                   -> FieldStates(f)

ASSUME NullAssumption ==
  NULL \notin Seq(Byte) /\ \A f \in Fields : NULL \notin FieldStates(f)

=============================================================================
