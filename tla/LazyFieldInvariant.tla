-------------------------- MODULE LazyFieldInvariant --------------------------
(***************************************************************************)
(* The inductive invariant of LazyField: what is true of the field at      *)
(* every point of every call, which is why the double-checked locking of   *)
(* EnsureParsed() is right.                                                *)
(***************************************************************************)
EXTENDS LazyField

(* The mutex is held exactly by the thread inside EnsureParsedLocked(),    *)
(* the rest of EnsureParsedNonConst(), ByteSizeLong() or Serialize().      *)
LockInv == \A t \in Threads : pc[t] \in Locked <=> mu = t

(* Which call a thread is in agrees with where it is.                      *)
CallInv ==
  \A t \in Threads :
    /\ pc[t] = "idle" <=> op[t] = "none"
    /\ op[t] = "ByteSizeLong" => pc[t] \in {"lock", "measure", "sized"}
    /\ op[t] = "Serialize" => pc[t] \in {"lock", "write", "written"}
    /\ pc[t] \in {"measure", "sized"} => op[t] = "ByteSizeLong"
    /\ pc[t] \in {"write", "written"} => op[t] = "Serialize"
    /\ pc[t] = "load" => op[t] \in {"Get", "IsInitialized"}
    /\ pc[t] = "present" => op[t] = "Mutable"
    /\ pc[t] = "using" => op[t] \in {"Get", "Mutable"}
    /\ pc[t] = "answered" => op[t] = "IsInitialized"
    /\ pc[t] # "idle" => alive

(* Mutable() has the field for itself, unless the instance shares it.      *)
ExclusiveInv ==
  ~MutableShared =>
    \A t, u \in Threads : op[t] = "Mutable" /\ u # t => op[u] = "none"

(* The message of a field that is alive is allocated; a field that is      *)
(* parsed has one; an absent field's message, if any, is the default one.  *)
MessageInv ==
  /\ message # NULL /\ alive => place[message] \notin {"unused", "freed"}
  /\ IsParsed => message # NULL
  /\ ~hasValue /\ message # NULL => content[message] = Default

(* A message is half parsed only while a thread is inside ParseFromArray.  *)
TornInv ==
  \A o \in Objs : content[o] = Torn => o = message /\ \E t \in Threads : pc[t] = "parse"

(* As long as nobody got a mutable pointer, the message is the bytes.      *)
CacheInv ==
  /\ state = "PARSED" /\ hasValue => content[message] = Meaning(bytes)
  /\ state = "DIRTY" => hasValue \/ \E t \in Threads : pc[t] = "present"

(* What a thread may rely on at each point of its call.                    *)
StepInv ==
  \A t \in Threads :
    /\ pc[t] \in Ensuring \ {"create"} => message # NULL
    /\ pc[t] = "parse" => ~IsParsed /\ hasValue /\ bytes # Empty
    /\ pc[t] = "publish" => ~IsParsed /\ hasValue /\ content[message] = Meaning(bytes)
    /\ pc[t] \in {"ensured", "return", "using"} => IsParsed
    /\ pc[t] = "present" => state = "DIRTY"
    /\ pc[t] = "using" => ref[t] = message
    /\ op[t] = "IsInitialized" /\ pc[t] # "answered" => hasValue
    /\ op[t] = "Mutable" /\ pc[t] \in {"return", "using"} =>
         state = "DIRTY" /\ (hasValue \/ \E u \in Threads : pc[u] = "present")

IndInv ==
  /\ TypeOK
  /\ LockInv
  /\ CallInv
  /\ ExclusiveInv
  /\ MessageInv
  /\ TornInv
  /\ CacheInv
  /\ StepInv

(***************************************************************************)
(* Invariants that hold beside IndInv.                                     *)
(***************************************************************************)

(* Whose the message is can be told from arena_: a field without an arena  *)
(* has its message on the heap.  One with an arena has it there, if        *)
(* messages are created there at all, and no other message is on the heap. *)
OwnershipInv ==
  /\ alive /\ message # NULL /\ arena = NULL => place[message] = "heap"
  /\ HasProtobufArena /\ alive /\ message # NULL => place[message] = Home(arena)
  /\ HasProtobufArena \/ Arenas = {} => NoOrphans

(* A thread that has measured the field and not yet written it.            *)
Measured(t) == pc[t] = "sized" \/ (op[t] = "Serialize" /\ pc[t] # "written")

(* Between ByteSizeLong() and Serialize() the measured payload stays the   *)
(* one that would be written, or the field is parsed from bytes that its   *)
(* message does not serialize to.                                          *)
MeasureInv ==
  \A t \in Threads : Measured(t) /\ ~MutableShared =>
    /\ \/ sized[t] = WireImage
       \/ sized[t] = bytes /\ state = "PARSED" /\ hasValue /\ ~Canonical(bytes)
    /\ op[t] = "Serialize" => sized[t] # NULL

=============================================================================
