--------------------------- MODULE LazyFieldState ---------------------------
(***************************************************************************)
(* protoopt::LazyField<MessageType>, runtime/include/protoopt/lazy_field.h *)
(* - its parameters, its state, and the helpers its operations share.      *)
(* Module LazyField has the operations.                                    *)
(***************************************************************************)
EXTENDS Naturals

CONSTANTS
  Threads,            (* the threads that call the field                   *)
  NoThread,           (* the owner of a free mutex                         *)
  Objs,               (* the addresses a MessageType can be allocated at   *)
  Arenas,             (* the google::protobuf::Arena objects               *)
  NULL,               (* nullptr                                           *)
  Contents,           (* the values of a MessageType                       *)
  Default,            (* the value after the constructor or Clear()        *)
  Complete,           (* the values whose IsInitialized() is true          *)
  Torn,               (* a message that ParseFromArray is half way through *)
  Payloads,           (* the byte strings a field can hold                 *)
  Empty,              (* the byte string of length zero                    *)
  Malformed,          (* the outcome of parsing bytes that are bad         *)
  Decoded,            (* what ParseFromArray makes of a byte string        *)
  Encoded,            (* what a MessageType serializes to                  *)
  HasProtobufArena,   (* PROTOOPT_HAS_PROTOBUF_ARENA where the template is *)
                      (* instantiated; no header of the project defines it *)
  MutableShared,      (* may Mutable() overlap other calls?                *)
  MaxCalls            (* bound on the number of mutating calls             *)

ASSUME ThreadsAssumption == NoThread \notin Threads

ASSUME ObjectsAssumption ==
  /\ NULL \notin Objs
  /\ NULL \notin Arenas
  /\ Arenas \cap {"unused", "heap", "freed"} = {}

ASSUME ContentsAssumption ==
  /\ Default \in Contents
  /\ Complete \subseteq Contents
  /\ Torn \notin Contents
  /\ Malformed \notin Contents

ASSUME PayloadsAssumption ==
  /\ Empty \in Payloads
  /\ NULL \notin Payloads
  /\ Decoded \in [Payloads -> Contents \cup {Malformed}]
  /\ Encoded \in [Contents -> Payloads]

ASSUME BoundsAssumption ==
  /\ HasProtobufArena \in BOOLEAN
  /\ MutableShared \in BOOLEAN
  /\ MaxCalls \in Nat

VARIABLES
  (* The members of the field.                                             *)
  mu, state, bytes, message, arena, hasValue,
  (* The memory: where each MessageType lives and what it holds.           *)
  place, content,
  (* The threads: where each one is, in which call, the reference it was   *)
  (* handed, what its ByteSizeLong() measured, what its Serialize() wrote, *)
  (* and what its IsInitialized() answered.                                *)
  pc, op, ref, sized, written, answer,
  (* Is the field not yet destroyed, and how many mutating calls it got.   *)
  alive, calls

fieldVars  == <<state, bytes, message, arena, hasValue>>
memVars    == <<place, content>>
resultVars == <<ref, sized, written, answer>>
vars == <<mu, fieldVars, memVars, pc, op, resultVars, alive, calls>>

States  == {"UNPARSED", "PARSED", "DIRTY"}
(* Where a thread holds the mutex: on its way to the message, in           *)
(* ByteSizeLong(), in Serialize().                                         *)
Ensuring == {"create", "check", "parse", "publish", "ensured", "present"}
Encoding == {"measure", "write"}
Locked   == Ensuring \cup Encoding
Results  == {"using", "sized", "written", "answered"}
Labels   == {"idle", "load", "lock", "return"} \cup Locked \cup Results
Readers  == {"Get", "IsInitialized", "ByteSizeLong", "Serialize"}
Calls    == Readers \cup {"none", "Mutable"}

(***************************************************************************)
(* The state of the field.                                                 *)
(***************************************************************************)

(* state_ != UNPARSED, the test made without the mutex.                    *)
IsParsed == state # "UNPARSED"

(* Where Arena::CreateMessage(a) puts a message: nullptr means the heap.   *)
Home(a) == IF a = NULL THEN "heap" ELSE a

(* What the code makes of a payload: bytes that do not parse are dropped.  *)
Meaning(p) ==
  IF p = Empty \/ Decoded[p] = Malformed THEN Default ELSE Decoded[p]

(* A message with all its required fields can be read back from what it    *)
(* serializes to.                                                          *)
ASSUME EncodingAssumption == \A c \in Complete : Meaning(Encoded[c]) = c

(* Bytes that parsing and serializing again reproduces.                    *)
Canonical(p) == Encoded[Meaning(p)] = p

(***************************************************************************)
(* Who may call what.                                                      *)
(***************************************************************************)

Idle(t) == alive /\ pc[t] = "idle"

(* No call is in progress and no reference is in use.                      *)
Quiescent == alive /\ \A u \in Threads : pc[u] = "idle"

(* A const method overlaps any call that may be shared.                    *)
MayRead(t) ==
  /\ Idle(t)
  /\ MutableShared \/ \A u \in Threads : op[u] # "Mutable"

MayOpen(t) ==
  /\ Idle(t)
  /\ MutableShared \/ Quiescent
  /\ calls < MaxCalls

(* Every other mutating method has the field for itself.                   *)
MayMutate == Quiescent /\ calls < MaxCalls

Goto(t, label) == pc' = [pc EXCEPT ![t] = label]
Enter(t, name, label) == Goto(t, label) /\ op' = [op EXCEPT ![t] = name]

=============================================================================
