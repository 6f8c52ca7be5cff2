# Verification of cpp-proto-optimizer

The repository is a `protoc` plugin (Python, `compiler/`) that generates C++ message
classes, and the C++ runtime those classes use (`runtime/`): `LazyField<T>`, a submessage
that is parsed on first access; `ArenaString`, a string field in one tagged word; and
`UnknownFieldSkipper`. This directory models the parts that have state, concurrency or
arithmetic that is easy to get wrong, checks them with TLC on small instances and proves
the most important facts with TLAPS.

## Inventory

| Component | State | Operations | Interacts with | Hard because | Correct when |
|---|---|---|---|---|---|
| `LazyField` (`lazy_field.h`) | mutex `mu_`, atomic `state_`, `unparsed_bytes_`, `message_`, `arena_`, `has_value_` | `ParseFrom`, `Get`, `Mutable`, `IsInitialized`, `ByteSizeLong`, `Serialize`, `Clear`, `SetAllocated`, destructor | generated messages call it; it calls the submessage's `ParseFromArray`, `Clear`, `ByteSizeLong`, `SerializeWithCachedSizesToArray`, and `Arena::CreateMessage` | const methods run concurrently and write; double-checked locking; a message is on the heap or on an arena | readers never see a message in the making; the field behaves as if parsed eagerly; nothing leaks, nothing is deleted twice; every call returns |
| `ArenaString` (`arena_string.h/.cc`) | `tagged_ptr_`: address and kind in one word; one static default string | constructors, `Set`, `Mutable`, `Clear`, destructor, `Get`, `IsDefault`, `Size` | generated messages call it; `Arena::Create` | memory ownership lives in two bits; callers keep pointers; the default string is shared | tag and memory agree; one owner per string; fields are independent cells |
| `UnknownFieldSkipper` (`unknown_field_skipper.h`) | none (pure) | `SkipField*`, `SkipMessage`, `SkipGroup*`, varint readers | generated `_InternalParse` | recursion over nested groups, byte limits, two implementations of one function | both implementations skip the same, and what the wire format says |
| Wire helpers (`message_generator.py:681-754`, `lazy_field.h:244-297`) | none (pure) | `ReadVarint`, `WriteVarint`, `VarintSize`, `ReadTag`, `WriteTag`, 32 bit versions | all serialization | widths, limits, truncation | reading inverts writing; sizes are exact |
| Generated message (`message_generator.py`) | one member per field, `arena_` | `Clear`, `ByteSizeLong`, `_InternalSerialize`, `_InternalParse`, `MergeImpl`, `CopyFrom`, `IsInitialized`, accessors | composes the runtime parts | presence is encoded differently in each storage kind; size and bytes are computed apart; a failed parse leaves a prefix | parse inverts serialize; copying copies; merging keeps what the source lacks |
| Pipeline (`plugin.py`, `cpp_generator.py`) | the response under construction | `main`, `generate_header`, `generate_source` | protoc; `MessageGenerator`; the C++ preprocessor | a file may fail between its header and its source; names of outputs, of includes and of guards are made by three rules | an error is reported with exit status 1, and only then; the generated files find each other |
| `FieldGenerator` (`field_generator.py`) | none; the members it emits | declaration, accessors, parse, serialize, clear, for four kinds of field | nothing imports it; its fragments call a runtime | a second translation of what `MessageGenerator` translates, with tables of its own | it emits the same field, but for what is known |
| `helpers.py` | none | tables of types, names, includes | nothing imports it | a third table of types | the tables agree |
| Unit tests (`tests/`) | none | - | the runtime | they say what the code should do | the code does it |
| Build, examples | none | - | - | - | - |

`PROJECT.json` lists the hazards of this code line by line with the properties that
watch them.

## Plan

1. `LazyField`: the concurrent core (done: model, runs, proofs).
2. `ArenaString` over `StringFields` (done: model, runs, proofs).
3. `Wire`, `Skipper`: pure operators against each other and against the grammar of the
   wire format (done: model and run).
4. `Scalars`, `GeneratedField`, `GeneratedMessage`: the emitted methods over fields of
   every type (done: model and runs).
5. `FieldGenerator`: the second generator of a field beside the first (done: model, run,
   proofs).
6. `CppGenerator`, `Plugin`, `TranslationUnits`: the driver over several files, with
   failures, and what its output means to a compiler (done: model and runs; of the
   driver, proofs).
7. `MCTests`: the unit tests that expect what the code does not do (done: run).
8. Proofs. Done: every safety property that a run checks, and the two refinements. Left:
   what is listed at the end of the section on proofs.

`LazyField` implements `EagerField` and `ArenaString` implements `StringFields`;
`GeneratedMessage` composes fields that do what those two say when one thread uses them.
The wire modules have no state; `MCWire` gives them a buffer that grows, `GeneratedMessage`
parses with them, and `FieldGenerator` compares with them. What recurses is a recursive
function, so that modules can be proved about.

## Modules

- `LazyFieldState` - constants with their assumptions, variables, and helpers of the lazy
  field; `LazyField` - one action per method or per step of one, and the properties;
  `LazyFieldInvariant` - the inductive
  invariant; `EagerField` - the abstract field; `MCLazyField` - small instances;
  `LazyFieldProofs` - the inductive invariant and what is safe and never lost, that the
  field implements `EagerField`, and what its calls return.
- `ArenaString` - several string fields over a shared memory; `StringFields` - the
  abstract cells; `ArenaStringProofs` - the theorems about both.
- `Wire` - varints; `Skipper` - both versions of `UnknownFieldSkipper`; `Scalars` - the
  scalar types and their payloads; `MCWire` - their properties over all buffers of a
  bounded length; `CodecProofs` - induction over numbers, what is written for any number
  or scalar is measured and read back, and skipping ends, in both versions at the same
  place; `WireProofs` - the theorems about readers and skippers, over all buffers.
- `GeneratedField` - what the class does with one field; `GeneratedMessage` - the emitted
  class; `MCMessage` - a class with one field of each kind, and the inputs it parses;
  `FieldProofs` - what holds of one field of any type; `MessageProofs` - the theorems about
  the class, whatever its fields.
- `FieldGenerator` - the fragments of `field_generator.py`, beside `GeneratedField`;
  `MCFieldGenerator` - a field of every type; `FieldGeneratorProofs` - the theorems about
  both members, for any field.
- `CppGenerator` - names, guards and includes of generated files; `Plugin` - the driver;
  `TranslationUnits` - the generated files as the preprocessor sees them; `MCPlugin` -
  names of files; `PluginProofs` - the theorems about the driver and about what the
  preprocessor sees.
- `MCTests` - three unit tests, line by line, over `ArenaString` and `Skipper`.

### LazyField

`mu`, `state`, `bytes`, `message`, `arena`, `hasValue` are the members. `place[o]` says
whether the message at address `o` is unused, on the heap, freed, or on which arena;
`content[o]` is its value, `Torn` while `ParseFromArray` is half way through it. Each
thread has a `pc`, the call it is in (`op`), and the results of its call (`ref`, `sized`,
`written`, `answer`), which it keeps until `Finish`.

A step of a thread is one access that another thread may observe: the lock-free load of
`state_` (`EnsureParsed`, `Mutable`), `Lock`, then inside `EnsureParsedLocked()`
`CreateMessage`, `CheckState` (the second test, and the begin of the parse),
`FinishParse`, `Publish`, then `Unlock` or, for `Mutable()`, `MarkDirty` and `SetPresent`,
and the unlocked read of `message_` (`Return`). `ByteSizeLong` and `Serialize` begin a
call that waits for the mutex like any other; `Measure` and `Write` are the bodies, done
with the mutex held, and release it. The generated `_InternalSerialize()` calls one after
the other, and the field is unlocked in between.

`ParseFrom`, `Clear`, `SetAllocated` and the destructor are one step each and need that no
other call is in progress: protobuf messages allow concurrent calls of const methods only.
`Mutable()` needs the same unless `MutableShared` is set. `SetAllocated` receives
`nullptr`, with any arena, the message the field has, with the arena that message is on, or
a fresh one. `Value` is what the field stands for, and `EagerField` what it promises: the
actions of a `Mutable()` there belong to a thread that has called it (`opening`, `editing`),
so that no step of a reading call maps to one of them.

A payload is an element of `Payloads`; `Decoded` maps it to the value it parses to or to
`Malformed`, and `Encoded` maps a value to the bytes it serializes to. Several payloads may
stand for one value: protobuf encodings are not canonical.

`HasProtobufArena` is the macro `PROTOOPT_HAS_PROTOBUF_ARENA` where the template is
instantiated. Only `arena_string.cc` defines it, after its includes, so the repository's
builds have it FALSE in `LazyField`; `lazy_readers` sets it to check the code as it was
meant, `lazy_old_arena` shows what is lost without it, and `HeapMessagesAreDeleted` says
for every build when a message on the heap is deleted and when it is left behind.

Memory orders: `state_` is stored with release or stronger order and loaded with acquire
order on the lock-free paths; all other members are written under the mutex or before the
store of `state_`. Interleaving semantics is exact for that. `has_value_` is not atomic;
const methods never write it, so only `MutableShared` instances read it while it is
written, and there each read gives the old or the new value.

### ArenaString

`tagged_ptr` is a number: an address that is a multiple of 4 plus the kind, and the
operators `Encode`, `DecodePtr` and `DecodeType` do the code's masking. Several fields
share the memory (`place`, `content`) and the static default string. `held[f]` is the
pointer a caller got from `Mutable()`; the caller may assign through it at any later time
until the field is cleared or destroyed. Every call may be given any arena or none, as
the tests do. Kind `kFixedSizeArena` has branches in `Mutable()` and `Clear()` but no code
creates it; `TypeOK` says so.

### Wire and Skipper

A buffer is a sequence of bytes, a pointer an index into it, `Null` is `nullptr`. The
code's pointer readers do not know where the buffer ends: what they read there is not
theirs, and C++ gives it no meaning. In the model such a pointer is beyond the end, and a
byte that is copied from there is `Behind`, which can be any byte; a parse that gets there
has failed. `ReadLoop` is the one loop all five
readers in the code consist of, unrolled or not; the readers differ in how many bytes they
take and what they do with bits that do not fit, and that is what their definitions say.

`Radix`, `Groups`, `Groups32`, `Word` and `Word32` stand for 128, 10, 5, 2^64 and 2^32.
`WordAssumption` says that the short word is the low part of the long one, and
`GroupsAssumption` that the largest number of each word needs exactly the bytes its readers
take, and leaves bits of the last one unused. The small instances keep this.

The stream version of the skipper calls protobuf's `CodedInputStream`, which is not in the
repository; `StreamVarint`, `StreamReadTag` and `StreamSkip` say what it does with the
input: it fails at the end, drops bits that do not fit, and refuses a size that is negative
as an `int`.

### Scalars, GeneratedField, GeneratedMessage

`Scalars` follows `FieldInfo` for the fourteen scalar types: their C++ type, their wire
type, and a payload that is measured, written and read by three methods with a case
distinction each. A member of a varint type is a number in two's complement, one of a fixed
type is the bytes that `memcpy` finds in it. `ProtobufBytes` is what protobuf writes, and
owes nothing to the code.

`GeneratedField` has an operator for what the generator writes for one field into each
method: `FieldSize` for `_byte_size_lines`, `FieldBytes` for `_serialize_lines`,
`ReadField` for `_parse_case_lines`, `Cleared` for `_clear_line`, `MergeField` for the
branches of `MergeImpl()`, `Constructed` for `_arena_constructor_initializers`. They take
the value of the member and return its next one. It is `[has, value]` for an `ArenaString`
(as in `StringFields`), and `[has, parsed, bytes, content]` for a `LazyField` (its
`has_value_`, whether `state_` is past `UNPARSED`, its bytes, and the value of its
message). A submessage is of another class: it is a value with an encoding, and `Decoded`
is what `ParseFromArray` makes of the byte strings it accepts; like protobuf's it accepts
only messages whose required fields are set, which those without any field (`Default`) need
not be, and no size that is negative as an `int`. The `IsInitialized()` of the classes
emitted here asks submessages only, so it is in classes made by other generators that
scalars can be missing. `Fresh` is a submessage that was constructed on an arena: its
strings are present and empty, so it serializes to bytes although it reads as empty, and to
merge it overwrites strings. `Seen` is what getters tell of a submessage.

`MergeImpl()` assigns a lazy submessage, which needs a class whose `operator=` copies. Those
that the generator emits have none, because `ArenaString` deletes it (`arena_string.h:36`)
and a mutex and an atomic in `LazyField` do, too: `MergeField` describes the line for a
submessage of another class. For the same reason, and because `SubmessageAssumption` says
that what a complete submessage serializes to parses, submessages have no lazy fields of
their own. A message that a lazy field makes on an arena is `Default` and not `Fresh`,
because without the macro it is made with `new`.

In `GeneratedMessage`, `msg[m][f]` is the member of field `f` in object `m`. Every method
is one step, as one thread uses a message at a time; `_InternalParse()` makes one step per
occurrence of a field, because it may end in the middle and leave what it has read.
`Begin` hands it an input, `Transfer` what another message serializes to. `wire`, `before`
and `from` are history: no action reads them.

### FieldGenerator

The plugin does not use `field_generator.py`; it is a second translation of the same
descriptors, and the module puts it beside the first. Each of its four generators has a
definition for the member with its accessors, and for reading, writing and clearing it.
`class` is the member that `MessageGenerator` emits and `fragments` the one of the
fragments, `NULL` for a pointer that is null; every call goes to both. The functions the
fragments call (`VarintParse`, `ReadMessage`, `WireFormat::Write...`) are not in the
repository and stand for protobuf's functions of these names, `ReadString` for one that
calls `Set()`. `history` is what the field was given since it was last overwritten.
Messages are on the heap, where a submessage that reads the same is the same.

Each of the three tables of C++ types is transcribed by itself (`CPP_TYPE_MAP`,
`helpers_type_map`, `cpp_scalar_type`). A `CppType` is a name, and whether it is held as a
value, behind a pointer or in a `LazyField`; `TypeName` gives the parts of a submessage's
full name, of which the class keeps the last.

### CppGenerator, Plugin, TranslationUnits

A file name is a sequence of the parts the code looks at. `HeaderName`, `IncludeName` and
`header_guard` are the three rules that make other names of it; `Upper` puts a part into
upper case (`UpperCase`, for the letters) and turns dots and slashes into underscores. A
generated header is its guard, its includes and its body, which is everything behind them.

`Plugin` makes one step per statement of `main()` that can fail or changes the response.
Whether a file fails is decided by the code of the generators: `generate_header()` calls a
method that `MessageGenerator` does not have, for each message of the file, so exactly the
files without messages are generated. Writes to standard output may fail, inside the
handlers too, and so may the flush when the interpreter exits.

`TranslationUnits` preprocesses the generated sources, line by line: `Preprocess` passes
over an `#include` of a header whose guard is defined, and otherwise puts the header's own
includes and its body in place of the line. `Steps` bounds the number of lines. There is
no header of a file that declares messages, in this call or an earlier one.

### MCTests

`ArenaConstruction`, `SetEmpty` and `InlineSkip` are the lines of three tests, each a call of
the model or a comparison; `failed` collects the tests that fail. The fourth test that the
code contradicts, of an absent lazy field, needs threads, and is a property of
`lazy_absent`.

## Runs

| Run | Instance | Shows |
|---|---|---|
| `lazy_readers` | 3 threads, 3 addresses, 2 arenas, 4 payloads, 3 values of which two are without a required field and one has no payload that parses to it, 2 mutating calls, arena support compiled in | the inductive invariant; references are safe; `IsInitialized()` answers as for an eager field; what is written has the measured size, with an exact exception, and stands for the field's value; no leak, no foreign delete; refinement of `EagerField` |
| `lazy_mutable_shared` | 2 threads, `Mutable()` overlaps everything, 2 mutating calls, fairness, no arena support | the invariant, reference safety, which messages on the heap are deleted, and that every call returns that is not starved by others that measure and serialize |
| `lazy_absent` | 2 threads | violated: a test says `IsInitialized()` is false of a default field |
| `lazy_old_arena` | 2 threads, 4 addresses, 2 arenas, 3 mutating calls, no arena support | violated: a comment says the old arena owns the message that is let go |
| `strings` | 2 fields, 3 strings, 2 arenas, 2 values | the inductive invariant; tag, ownership, pointer stability, what is left to an arena, refinement of `StringFields` |
| `wire` | all buffers of up to 5 bytes out of 8 | the readers agree; reading inverts writing; scalars are encoded as in protobuf, but for the sints; both skippers do the same, and skip well-formed fields with groups in groups exactly |
| `message_parse` | 1 message, 6 fields, pairs out of 26 occurrences, 2 calls, fairness | a parse applies exactly the occurrences before the one that ends it, which leaves open an eager submessage only; the last one wins; every parse ends |
| `message_copy` | 2 messages, 5 fields, single occurrences, 3 calls | sizes are exact; parsing inverts serializing, copying copies, merging keeps, with exact exceptions |
| `field_generators` | a field of each of 16 kinds, 3 calls | the two generators of a field emit the same one, with exact exceptions |
| `plugin` | requests of up to 3 files out of 6 names, every way to import | the inductive invariant; exit status and response agree, whatever fails; outputs have different names, and sources see what they import, with exact exceptions |
| `plugin_messages` | requests of up to 1 file | violated: the README says a file with a message is generated |
| `tests` | 3 tests, one after the other | violated: each of them expects what the code does not do |

Bounds. `MaxCalls` bounds the mutating calls; with one address more than that, an
allocation always finds memory, so no behaviour is cut off by a full memory. Two mutating
calls put any state that one of them leaves before each of the others: set - clear, install -
move, parse - mutate; three are used where a message is to be lost on a second arena.
Three threads are enough for one to parse, one to wait and one to read, or to measure, to
parse and to write. The proofs cover any number of each. In `strings`,
three addresses serve two fields with one string to spare; when none is left only calls
that need none go on.

In `wire` a byte carries one hexadecimal digit, short words have 7 bits and long ones 10,
and the longest varint has three bytes, so that buffers of five bytes hold a tag, the
longest varint and what follows, and well-formed fields are followed by any two bytes; the
eight bytes make the zero tag, tags of groups 1 and 2 and of scalars, and numbers that
exceed either word. The run stops where the buffer is full, so deadlock is not checked
there. In the message runs a byte carries two bits, so that the tags of the class take two
and three bytes and a length takes one or two. The class has a varint and a 64 bit fixed
scalar, a flag, a string, and a lazy and an eager submessage; the other scalar types,
which share their code, are in `wire` and `field_generators`. A pair of occurrences holds
every order of a field, an unknown field, a known field with the wrong wire type, and an
input that ends the parse; the second call gives the first one's message, fresh, set or
parsed, back to the parser. Two messages and three calls hold every set - set - copy; they
do without the flag, which is copied like any number. There the submessages that are empty
lack a required field.

In `field_generators` a byte carries three bits and words have 8 and 10 of them, an even
number, as in the code, so that a zigzag form fits its word, and a length of eight and
more takes two bytes. Numbers are small, the largest, and those around the sign, and three
calls hold parse - clear - parse and two parses over a value. In `plugin` the names are
`a/b.proto`, `A/b.proto`, `a.b.proto` and `a_b_proto`, which have one guard and differ in
case, slash and dot, `a.protos/b.proto`, with `.proto` in the middle, and `c`, without it,
as has `a_b_proto`; three files are enough for an import through another file. `tests` has
the fields, the bytes and the words of `strings` and `wire`.

`WriteFitsSize` states its exception exactly: if the field was measured unparsed, and
another reader parsed it before it was written, and its bytes are not what its message
serializes to, then the measured size is that of the bytes and the written payload is the
message's. The README of the repository names the difference in bytes under
"Determinism".

Fairness. `FairSpec` gives each thread weak fairness of the steps of a call it has begun:
a thread inside a call is runnable whenever it does not wait for the mutex, and the
operating system runs it. It gives no strong fairness of the mutex, which `std::mutex`
does not have: `Lock` is possible only while the mutex is free, and threads that call
`ByteSizeLong()` and `Serialize()` again and again can take it each time a waiting thread
might. `CallsReturn` therefore excepts the behaviours in which other threads are inside
those bodies infinitely often, and says that nothing else starves a thread. Nothing is
assumed about callers: they may never call, and never give a result back. `FairSpec` of
`GeneratedMessage` is weak fairness of the steps of the parser: the thread that has called
it goes on. For the steps behind a tag it is written out, with the condition under which
one is possible in the place of ENABLED.

Known exceptions. Some properties name what the code does otherwise than one might hope,
so that they fail if it does more: `MergeKeeps`, that merging a message without a lazy
field overwrites the destination's with an empty one, because `MergeImpl()` takes
`IsInitialized()` for presence; `CopyCopies`, that a lazy submessage without its required
fields is not copied, for the same reason; `RoundTrip`, that such a submessage is read
back as an empty one, and that an eager one is refused if it is written; `LastWins`, that
an eager submessage that ended the parse is left open; `ResponseIsWhole`, that the
response with an error has the header entry of the file that failed, without content;
`ScalarsAreProtobuf` and `WritesProtobuf`, that a sint is written without zigzag;
`RoundTrip` and `CopyCopies`, that a negative zero does not arrive; `ValuesFollowCalls`,
that the class replaces a submessage that occurs again and the fragments merge it;
`EachReadsTheOther`, that the fragment of a lazy field writes no tag; `WritesProtobuf`,
besides, that a lazy field writes what it could not parse as it came, until a getter has
looked; `TablesAgree`, how the C++ types of submessages differ; `InlineIsStream`, that the
pointer version refuses what has a number of more than 32 bits; `OutputsDistinct`, that
header and source of a file without `.proto` have one name; `SourcesSeeImports`, that a
directory called `a.protos` breaks the includes, that `a/b.proto`, `A/b.proto` and
`a.b.proto` cannot be in one translation unit, and that a file that declares messages has
no header.

What the repository says and the code does not do, besides these: the runs that are
violated, of which `tests` shows that a string constructed on an arena is not the default one
(`arena_string_test.cc:22`), that setting a default string to the empty one leaves it the
default (`:37`), and that `SkipVarintInline()` skips one byte of `{0x08, 0x7f}`
(`skip_unknown_test.cc:84`, which moreover calls it without the name of its class); and
`ParseFrom()` with another arena keeps the old one, although the comment at
`lazy_field.h:73` says it re-parses on the new one. The models do what the code does.

## Proofs

The theorems hold for all values of the constants that the named assumptions admit: any
number of threads, messages, strings, arenas, fields, files, payloads. Each module's
safety properties follow from an inductive invariant, which a run checks, too.

**LazyField** (`LazyFieldProofs`; assumptions in `LazyFieldState`).

- `FieldInvariant`: `Spec => []IndInv`. The safety properties are not inductive: that a
  reader's message is complete follows from where every other thread is. `IndInv` adds
  that the mutex is held exactly by the thread in a locked region (`LockInv`), that only
  the thread at "parse" has a torn message (`TornInv`), that a parsed field's message is
  the meaning of its bytes until somebody may write (`CacheInv`), and what holds at each
  point of a call (`StepInv`). The proof has one lemma per conjunct, and in it one step
  per action.
- `ReadsAreSafe`: a reference from `Get()` or `Mutable()` is good while it is used.
- `NothingIsLost`, `DeletesAreOfHeap`: from `OwnershipInv`, that where the message is can
  be told from `arena_`. The first assumes that messages are created on arenas, or that
  there are none; otherwise it is false, which `lazy_old_arena` shows.
- `LetGoIsDeleted` assumes nothing: it tells, for every build, the messages on the heap
  that are deleted when the field lets them go from those that are left behind.
- `LazyIsEager`: `Spec => Eager!Spec`. The proof takes each action to the abstract one of
  its name, or to a stutter: `ParseFrom` to the eager parse, and every step of
  `EnsureParsedLocked()` to nothing, since the value the field stands for does not change;
  `SetPresent` maps to `Touch` of the thread that is in `Mutable()`, and no other step
  may make the field present.
- `MeasuredIsWritten`, `ValueIsWritten`, `AnswersAreEager`: from `MeasureInv`, what the
  size that a thread measured has to do with the field until that thread writes. That no
  other thread changes the field in between follows from who may overlap whom, that
  another one may parse it is the exception which `WriteFitsSize` states.
  `EncodingAssumption` is used here: what a complete message serializes to parses to it.

**ArenaString** (`ArenaStringProofs`; assumptions in `ArenaString`).

- `StringInvariant`: `Spec => []IndInv`, and from it `TagsAreTrue`, `OwnersAreUnique` and
  `PointersAreStable`. That no two fields share a string needs that unused memory has no
  field, which needs the tags; that a write through a pointer stays out of the default
  string needs that pointers are to strings of a field's own. All of it rests on a lemma
  that `DecodePtr` and `DecodeType` invert `Encode` at addresses that are multiples of 4.
- `ClearingStrands`: what is left to an arena, as an action property.
- `StringsAreCells`: `Spec => Cells!Spec`. Each call maps to the one of its name on the
  cell of its field, and leaves every other cell alone.

**Plugin** (`PluginProofs`; assumptions in `Plugin` and `CppGenerator`), for requests of
any length and names of any shape.

- `PluginInvariant`: `Spec => []IndInv`. `FilesInv` says which entries the response has at
  each step, by the number of wanted files so far, so that there is no gap; `OutcomeInv`
  that an error is set exactly if something failed. `StatusIsTrue` and `ResponsesAreWhole`
  follow.
- `OutputsAreDistinct` assumes `PlainNames`, that no part of a name is ".pb.h" or ".pb.cc":
  `x.pb.h.proto` and `x.proto.proto` have one header. TLC evaluates it for the names of the
  runs. The theorem needs that two wanted
  files have different numbers, and that a number up to twice the count belongs to a
  wanted file: this is an induction over the files, by `SetsHaveLeast`.
- `SourcesSeeWhatTheyImport` assumes the same. It is an induction over the lines that the
  preprocessor reads, for any graph of imports. `Orderly` holds whatever the names are:
  every body, taken or to come, belongs to a guard of its own that is defined, and a name
  that no file has is that of a bad import (`IncludesArePlain`). `Ahead` holds if all
  headers are found and their guards differ: a guard is defined only if the body has been
  taken, behind those it needs, or is to come behind them (`Defined`). When a header is
  passed over because its guard is defined, its body has been taken and is not to come:
  the lines in front of a body that is to come are about files that come before its own
  in the request (`Descends`), in the order in which protoc sends them. At the end of the
  text the files whose body is there are closed under imports, and are all (`AllAreThere`).
  That the end is reached within `Steps` follows from `Weight`: a header that is entered
  uses up a guard, which counts for more lines than the header puts in (`LinesGetFewer`).

**Wire** (`CodecProofs`, `WireProofs`; assumptions in `Wire` and `MCWire`), for all
numbers, all buffers and all widths.

- `EveryNumberIsReadBack`: the writer's recursion ends, the bytes it leaves stand for the
  number (`StandsAt`), the reader stops at the last of them and nowhere before, and the
  digits add up to the number again, which the word has room for. `GroupsAssumption` is
  used here: with one byte less for the reader it is false.
- `ReadingInverts`: from it, and from `DigitsFit`, that a number read from some bytes is
  never longer to write than they are.
- `AllReadersAgree`: a number ends at one place at most (`EndIsUnique`), within the limit
  of a reader or behind it, and the low 32 bits of the low 64 bits are the low 32 bits.
- `AllScalarsAreProtobuf`: different numbers are written differently, since what was
  written is read back (`NumbersDiffer`), so a sint is written as in protobuf only where
  its zigzag form is its two's complement. That is so for zero only, if 2^64 is not 2
  more than a multiple of 3 (`ThirdAssumption`): otherwise a number could be its own
  zigzag form (`ZigZagMoves`).
- `VersionsAgree`: the two versions walk through a buffer with readers of different widths
  and different ideas of the end. `Reads` says what either walk needs of its reader, that a
  tag leads forward; then a function with the equations of the walk exists
  (`WalksExist`, position by position from the end of the buffer) and is the only one. The
  walks are compared in the same direction (`WalksAgree`), from `WidthsAgree` and
  `ScalarsAgree`, step by step, and part only where a number is too large for the pointer
  version, in what the stream version has skipped by then. The theorem is about every tag
  of 32 bits. A stream counts in an `int`, so `LengthAssumption` bounds the buffer by 2^31.
- `WellFormedIsSkipped`: a field `Passes` if both versions skip it to its last byte,
  whatever follows. Varints, fixed and delimited fields do (`VarintsPass`, `FixedPass`,
  `DelimitedPass`), and so does a group of any number of fields that do, between its tags
  (`GroupsPass`), again from the end backwards. `Grammar` is the least set that has the
  simple fields, with any number and payload, and the groups of fields in it (`HasAll`), so
  all of it passes; the fields that the run tries are among them.

**GeneratedMessage** (`FieldProofs`, `MessageProofs`; assumptions in `Wire`, `Skipper`,
`Scalars`, `GeneratedField` and `GeneratedMessage`), for classes with any number of fields
of any types, any number of messages and any inputs.

- `MessagesAreTyped`: `Spec => []TypeOK`. `TypeOK` is inductive: `Sound` is what it says of
  one member, each operation of `GeneratedField` keeps it, by the four kinds of storage
  (`ClearedIsSound`, `WritesAreSound`, `OpenedIsSound`, `MergeIsSound`, `ReadingIsSound`),
  and the steps of the class put them together. That the parse keeps a pointer needs that
  skipping an unknown field returns one. The skipper recurses over the input, into a group
  and on behind its fields, so `GroupsAreSkipped` shows first that the recursion ends:
  every tag is read from behind the one before it, so what the calls return is known from
  the end of the buffer backwards (`OneMoreIsKnown`), and only so (`StepsDecide`).
- `MessageSizeIsExact`: `FieldsAreMeasured` says of each kind of field, with each of the
  writers of lengths and tags, that as many bytes are written as are counted, and
  `SizesAddUp` adds them up over the fields. It needs `TypeOK`: of a member with a value
  that its storage cannot hold nothing could be said.
- `MergingKeeps`: a field that writes no bytes is absent or compares equal to its default
  (`NothingIsWritten`), as every field begins with a tag, and that is what `MergeImpl()`
  asks for, except for lazy fields.
- `CopyingCopies` assumes `MergingCopies`, that a submessage that is merged into an empty
  one arrives as it is. Of the class itself the theorem says what becomes of lazy fields
  and negative zeros; the hypothesis says it of the classes of its submessages, for which
  it holds if they have neither. The instance of `message_copy` satisfies it.
- `MessagesRoundTrip`: `RoundTrip` only looks at the end of a transfer. `TransferInv` adds
  what holds on the way: the input is what the source serializes to, and at each tag the
  first fields of the class have been read and the others are cleared (`Stage`). What is
  written for the fields stands in the input one after the other (`NextStands`); a tag is
  read back as the number that was written (`TagsAreFound`) and is no other field's
  (`TagsDiffer`); then so are numbers, payloads and strings (`ScalarsAreFound`,
  `PayloadsArrive`), and the casts between a member's type and the wire's restore its
  value (`CastsRestore`). A field of which nothing is written counts as read, so what it
  is cleared to must be what its getters return (`EmptyArrives`). Where an eager
  submessage lacks required fields the parse stops (`Stuck`), and the theorem says that
  it does nowhere else.
- `LastAlwaysWins` is about inputs of any length, made of any occurrences that are what
  they claim when a reader has only their bytes in front of it (`WiresAreFaithful`; TLC
  evaluates it for the inputs of the runs as `OccurrencesAssumption`): a field ends with
  its last byte and has its value, or cannot be read; an unknown one is skipped or cannot
  be; or there is no tag. Bytes that a field would have to borrow from the next occurrence
  are none of these, and `LastWins` says nothing of them. The theorem says that standing
  among others changes nothing. What is read without coming to the end of its bytes does
  not depend on what is behind them: that is shown from the digits of a varint up to nested
  groups (`ReadingMoves`, `SkippingMoves` and the other lemmas named "moves"), and for the
  fields also whatever they were before (`FieldMoves`). `WireInv` adds to `LastWins` what
  holds on the way: the parser stands between two occurrences (`Position`), those before it
  end nothing, and each field has the value of its last one among them (`Came`).

The assumptions of these theorems ask for what the C++ types hold: a tag fits 32 bits (a
field's number has 29), a member has a number of its type (`NumbersOf`), the length of a
string fits `size_t`. Submessages are shorter than 2^32 bytes, since `LazyField` casts
their lengths to `uint32_t`; protobuf allows 2^31. That a submessage's bytes parse exactly
if its required fields are there is what `ParseFromArray()` promises.

**FieldGenerator** (`FieldGeneratorProofs`; assumptions as for `GeneratedMessage`, and in
`FieldGenerator`), for fields of any number and type and any number of calls.

- `TablesAlwaysAgree`: type by type, over tables that were transcribed apart, and for
  submessages by whether they are lazy and how many parts their names have.
- `MembersFollow`: `Spec => []IndInv`. `ValuesFollowCalls` speaks of the values of the
  members, but what arrives next depends on their states: `Follows` adds that the member of
  the class is one that its storage can hold, that the other one is its copy, and for an
  eager submessage that what the fragments made of their calls, absent or not, is what
  merging makes of the history. Merging in sequence is a fold, so `OneMoreIsMerged` shows
  first that a fold over one more element is one more step (`FoldsExist`, `FoldsAgree`).
  `PayloadsAreTaken` says what both readers find of a payload that protobuf sends.
  `CallsAreFollowed` follows.
- `ProtobufIsWritten`: `FragmentsAreWritten` and `ClassIsWritten` go through the four kinds
  of storage; for the sints of the class the property says "exactly if", which needs
  that different bytes behind one tag are different (`TailsStay`).
- `EachIsRead` assumes `MergingCopies`, as `CopyingCopies` does. It puts the two sides
  together: what is written stands in the buffer behind its tag (`PayloadIsBehind`), and
  `ProtobufIsRead` and `ClassIsRead` say what each receiver makes of it.

`GivenAssumption` says that a caller gives a member what it can hold, and that different
submessages serialize differently; `BitsAssumption` that words have an even number of bits,
as 32 and 64 are: their values are even, and not 2 more than a multiple of 3.

The module library states induction with an operator as a parameter, which cannot be
instantiated here. `CodecProofs` and `PluginProofs` say the same about sets: a set of
numbers has a least element, and one that is closed under induction is all of
them. Recursive functions are defined by CHOOSE, so `RecursionExists`, and `RunsExist` in
`PluginProofs`, show that there is a function with the equations of `WriteVarint`,
`VarintSize`, `Digits` or `Unit` before anything can be said of it.

Only model-checked are the liveness properties `CallsReturn` and `ParseEnds`, which are out
of the prover's reach.

## Not modelled

The varint in front of a lazy field's payload where threads interleave (`GeneratedField`
has it); the contents of submessages beyond a value; the label "repeated", which the
generators ignore; enums and bytes beyond their numbers and strings; what a read past the
end of a buffer does to the process; failure of memory allocation; arena destruction,
after which no field on the arena is used; `New()`, which constructs a message, and
`GetMetadata()`, which returns two null pointers; which C++ declaration the name of a type
finds (`FieldInfo.message_type_name` takes its last component); the namespaces and the
wording of the generated text; in `helpers.py`, the guesses at file names, guards and
includes, which nothing uses.
