------------------------------ MODULE LazyField ------------------------------
(***************************************************************************)
(* The operations of protoopt::LazyField<MessageType>.                     *)
(*                                                                         *)
(* A field keeps the bytes it was parsed from and builds the submessage on *)
(* first access, under a mutex, with an atomic state that is tested before *)
(* and after the mutex is taken so that later accesses need no lock.  The  *)
(* const methods may be called by any number of threads at once.  A        *)
(* mutating method needs the field for itself, which is the rule for every *)
(* protobuf message; its body is one step.  With MutableShared, Mutable()  *)
(* may overlap the const methods and other calls of Mutable().             *)
(*                                                                         *)
(* Between two steps of a thread any other thread may act.  A step is one  *)
(* access to memory another thread may be looking at: what is done under   *)
(* the mutex and cannot be observed without it is one step with the        *)
(* mutex's acquisition and release.                                        *)
(*                                                                         *)
(* A definition marked "Mutant" is a variant of the one after it with a    *)
(* plausible error.  No specification uses it; putting it in the other's   *)
(* place shows that a property notices the error.                          *)
(***************************************************************************)
EXTENDS LazyFieldState

Init ==
  /\ mu = NoThread
  /\ state = "UNPARSED"
  /\ bytes = Empty
  /\ message = NULL
  /\ arena \in Arenas \cup {NULL}
  /\ hasValue = FALSE
  /\ place = [o \in Objs |-> "unused"]
  /\ content = [o \in Objs |-> Default]
  /\ pc = [t \in Threads |-> "idle"]
  /\ op = [t \in Threads |-> "none"]
  /\ ref = [t \in Threads |-> NULL]
  /\ sized = [t \in Threads |-> NULL]
  /\ written = [t \in Threads |-> NULL]
  /\ answer = [t \in Threads |-> FALSE]
  /\ alive = TRUE
  /\ calls = 0

(***************************************************************************)
(* The const methods and Mutable() up to the mutex.                        *)
(***************************************************************************)

Get(t) ==
  /\ MayRead(t)
  /\ Enter(t, "Get", "load")
  /\ UNCHANGED <<mu, fieldVars, memVars, resultVars, alive, calls>>

(* Mutant: the message is asked before the bytes are parsed.               *)
IsInitializedUnparsed(t) ==
  /\ MayRead(t)
  /\ answer' = [answer EXCEPT ![t] =
                  ~hasValue \/ (message # NULL /\ content[message] \in Complete)]
  /\ Enter(t, "IsInitialized", "answered")
  /\ UNCHANGED <<mu, fieldVars, memVars, ref, sized, written, alive, calls>>

(* has_value_ is read without the mutex.                                   *)
IsInitialized(t) ==
  /\ MayRead(t)
  /\ \/ /\ ~hasValue
        /\ answer' = [answer EXCEPT ![t] = TRUE]
        /\ Enter(t, "IsInitialized", "answered")
     \/ /\ hasValue
        /\ Enter(t, "IsInitialized", "load")
        /\ UNCHANGED answer
  /\ UNCHANGED <<mu, fieldVars, memVars, ref, sized, written, alive, calls>>

(* The fast path of EnsureParsed().                                        *)
EnsureParsed(t) ==
  /\ pc[t] = "load"
  /\ Goto(t, IF IsParsed THEN "return" ELSE "lock")
  /\ UNCHANGED <<mu, fieldVars, memVars, op, resultVars, alive, calls>>

(* Mutant: a parsed field is good enough to be written.                    *)
IsMutableParsed == IsParsed /\ message # NULL

(* The fast path of EnsureParsedNonConst().                                *)
IsMutable == state = "DIRTY" /\ message # NULL

Mutable(t) ==
  /\ MayOpen(t)
  /\ calls' = calls + 1
  /\ Enter(t, "Mutable", IF IsMutable THEN "return" ELSE "lock")
  /\ UNCHANGED <<mu, fieldVars, memVars, resultVars, alive>>

(* Each method goes on to its own body.                                    *)
Lock(t) ==
  /\ pc[t] = "lock"
  /\ mu = NoThread
  /\ mu' = t
  /\ \/ op[t] \in {"Get", "IsInitialized", "Mutable"} /\ Goto(t, "create")
     \/ op[t] = "ByteSizeLong" /\ Goto(t, "measure")
     \/ op[t] = "Serialize" /\ Goto(t, "write")
  /\ UNCHANGED <<fieldVars, memVars, op, resultVars, alive, calls>>

(***************************************************************************)
(* EnsureParsedLocked().                                                   *)
(***************************************************************************)

(* Where CreateMessage() allocates; without the macro arena_ is ignored.   *)
CreationPlace == IF HasProtobufArena THEN Home(arena) ELSE "heap"

CreateMessage(t) ==
  /\ pc[t] = "create"
  /\ \/ /\ message # NULL
        /\ UNCHANGED <<message, memVars>>
     \/ /\ message = NULL
        /\ \E o \in Objs :
             /\ place[o] = "unused"
             /\ place' = [place EXCEPT ![o] = CreationPlace]
             /\ content' = [content EXCEPT ![o] = Default]
             /\ message' = o
  /\ Goto(t, "check")
  /\ UNCHANGED <<mu, state, bytes, arena, hasValue, op, resultVars, alive, calls>>

(* Mutant: the state is not tested again under the mutex.                  *)
NeedsParseAgain == hasValue

NeedsParse == hasValue /\ ~IsParsed

(* An absent field is marked parsed and stays absent; a state published by *)
(* another thread while this one waited is kept; an empty payload clears   *)
(* the message; any other payload starts ParseFromArray.                   *)
CheckState(t) ==
  /\ pc[t] = "check"
  /\ \/ /\ ~hasValue
        /\ state' = "PARSED"
        /\ Goto(t, "ensured")
        /\ UNCHANGED content
     \/ /\ hasValue /\ ~NeedsParse
        /\ Goto(t, "ensured")
        /\ UNCHANGED <<state, content>>
     \/ /\ NeedsParse /\ bytes = Empty
        /\ content' = [content EXCEPT ![message] = Default]
        /\ Goto(t, "publish")
        /\ UNCHANGED state
     \/ /\ NeedsParse /\ bytes # Empty
        /\ content' = [content EXCEPT ![message] = Torn]
        /\ Goto(t, "parse")
        /\ UNCHANGED state
  /\ UNCHANGED <<mu, bytes, message, arena, hasValue, place, op, resultVars, alive, calls>>

(* Mutants: the result of ParseFromArray is ignored; the message is        *)
(* cleared whatever the result.                                            *)
OutcomeUnchecked(p) == Decoded[p]
OutcomeCleared(p) == Default

(* A message that did not parse is cleared.                                *)
Outcome(p) == IF Decoded[p] = Malformed THEN Default ELSE Decoded[p]

FinishParse(t) ==
  /\ pc[t] = "parse"
  /\ content' = [content EXCEPT ![message] = Outcome(bytes)]
  /\ Goto(t, "publish")
  /\ UNCHANGED <<mu, fieldVars, place, op, resultVars, alive, calls>>

(* Mutant: the state is not stored.                                        *)
PublishForgets(t) ==
  /\ pc[t] = "publish"
  /\ Goto(t, "ensured")
  /\ UNCHANGED <<mu, fieldVars, memVars, op, resultVars, alive, calls>>

Publish(t) ==
  /\ pc[t] = "publish"
  /\ state' = "PARSED"
  /\ Goto(t, "ensured")
  /\ UNCHANGED <<mu, bytes, message, arena, hasValue, memVars, op, resultVars, alive, calls>>

(***************************************************************************)
(* Back from EnsureParsedLocked().                                         *)
(***************************************************************************)

(* Mutant: has_value_ = true stands in EnsureParsedLocked().               *)
UnlockPresent(t) ==
  /\ pc[t] = "ensured"
  /\ op[t] # "Mutable"
  /\ mu' = NoThread
  /\ hasValue' = TRUE
  /\ Goto(t, "return")
  /\ UNCHANGED <<state, bytes, message, arena, memVars, op, resultVars, alive, calls>>

Unlock(t) ==
  /\ pc[t] = "ensured"
  /\ op[t] # "Mutable"
  /\ mu' = NoThread
  /\ Goto(t, "return")
  /\ UNCHANGED <<fieldVars, memVars, op, resultVars, alive, calls>>

(* Mutable() makes the message the truth and drops the bytes ...           *)
MarkDirty(t) ==
  /\ pc[t] = "ensured"
  /\ op[t] = "Mutable"
  /\ state' = "DIRTY"
  /\ bytes' = IF state = "DIRTY" THEN bytes ELSE Empty
  /\ Goto(t, "present")
  /\ UNCHANGED <<mu, message, arena, hasValue, memVars, op, resultVars, alive, calls>>

(* ... and then makes the field present.                                   *)
SetPresent(t) ==
  /\ pc[t] = "present"
  /\ hasValue' = TRUE
  /\ mu' = NoThread
  /\ Goto(t, "return")
  /\ UNCHANGED <<state, bytes, message, arena, memVars, op, resultVars, alive, calls>>

(* message_ is read without the mutex and handed to the caller, or asked   *)
(* for its own IsInitialized().                                            *)
Return(t) ==
  /\ pc[t] = "return"
  /\ \/ /\ op[t] \in {"Get", "Mutable"}
        /\ ref' = [ref EXCEPT ![t] = message]
        /\ Goto(t, "using")
        /\ UNCHANGED answer
     \/ /\ op[t] = "IsInitialized"
        /\ answer' = [answer EXCEPT ![t] = message # NULL /\ content[message] \in Complete]
        /\ Goto(t, "answered")
        /\ UNCHANGED ref
  /\ UNCHANGED <<mu, fieldVars, memVars, op, sized, written, alive, calls>>

(* The caller writes through the pointer Mutable() returned while it is    *)
(* the only one to use the field.                                          *)
WriteThrough(t, c) ==
  /\ pc[t] = "using"
  /\ op[t] = "Mutable"
  /\ \A u \in Threads \ {t} : pc[u] = "idle"
  /\ content' = [content EXCEPT ![ref[t]] = c]
  /\ UNCHANGED <<mu, fieldVars, place, pc, op, resultVars, alive, calls>>

(* The caller is done with the result of its call.                         *)
Finish(t) ==
  /\ pc[t] \in Results
  /\ Enter(t, "none", "idle")
  /\ ref' = [ref EXCEPT ![t] = NULL]
  /\ sized' = [sized EXCEPT ![t] = NULL]
  /\ written' = [written EXCEPT ![t] = NULL]
  /\ answer' = [answer EXCEPT ![t] = FALSE]
  /\ UNCHANGED <<mu, fieldVars, memVars, alive, calls>>

(***************************************************************************)
(* The two methods that serialize, called one after the other by the       *)
(* generated _InternalSerialize().  Each holds the mutex for its whole     *)
(* body; between them the field is unlocked.                               *)
(***************************************************************************)

(* The bytes the field contributes to the output, NULL if it has none.     *)
WireImage ==
  IF ~hasValue THEN NULL
  ELSE IF ~IsParsed THEN bytes
  ELSE IF message = NULL THEN NULL ELSE Encoded[content[message]]

ByteSizeLong(t) ==
  /\ MayRead(t)
  /\ Enter(t, "ByteSizeLong", "lock")
  /\ UNCHANGED <<mu, fieldVars, memVars, resultVars, alive, calls>>

Measure(t) ==
  /\ pc[t] = "measure"
  /\ sized' = [sized EXCEPT ![t] = WireImage]
  /\ mu' = NoThread
  /\ Goto(t, "sized")
  /\ UNCHANGED <<fieldVars, memVars, op, ref, written, answer, alive, calls>>

(* A field of size zero is not written.                                    *)
Serialize(t) ==
  /\ pc[t] = "sized"
  /\ sized[t] # NULL
  /\ Enter(t, "Serialize", "lock")
  /\ UNCHANGED <<mu, fieldVars, memVars, resultVars, alive, calls>>

Write(t) ==
  /\ pc[t] = "write"
  /\ written' = [written EXCEPT ![t] = WireImage]
  /\ mu' = NoThread
  /\ Goto(t, "written")
  /\ UNCHANGED <<fieldVars, memVars, op, ref, sized, answer, alive, calls>>

(***************************************************************************)
(* The mutating methods other than Mutable().                              *)
(***************************************************************************)

(* Mutant: a field without an arena counts as being on another one.        *)
LeavesAny(a) == a # NULL /\ arena # a

(* The message stays behind on the arena the field was on.                 *)
LeavesArena(a) == a # NULL /\ arena # NULL /\ arena # a

(* The caller's bytes replace the field's; p is what follows the length.   *)
(* A length that cannot be read returns before anything changes.           *)
ParseFrom(p, a) ==
  /\ MayMutate
  /\ LET kept    == IF LeavesArena(a) THEN NULL ELSE message
         deleted == arena = NULL /\ a # NULL /\ kept # NULL
     IN  /\ message' = IF deleted THEN NULL ELSE kept
         /\ place' = [o \in Objs |-> IF deleted /\ o = kept THEN "freed" ELSE place[o]]
  /\ arena' = IF arena = NULL THEN a ELSE arena
  /\ bytes' = p
  /\ state' = "UNPARSED"
  /\ hasValue' = TRUE
  /\ calls' = calls + 1
  /\ UNCHANGED <<mu, content, pc, op, resultVars, alive>>

Clear ==
  /\ MayMutate
  /\ bytes' = Empty
  /\ hasValue' = FALSE
  /\ state' = "UNPARSED"
  /\ content' = [o \in Objs |-> IF o = message THEN Default ELSE content[o]]
  /\ calls' = calls + 1
  /\ UNCHANGED <<mu, message, arena, place, pc, op, resultVars, alive>>

(* Mutant: the message is deleted although an arena owns it.               *)
DeletesReplaced(m) == message # NULL /\ message # m

(* The message that is replaced belongs to the field.                      *)
Deletes(m) == message # NULL /\ message # m /\ arena = NULL

(* m is nullptr, the message the field already has, which stays where it   *)
(* is, or one with value c that the caller allocated on a for the field.   *)
SetAllocated(m, c, a) ==
  /\ MayMutate
  /\ m \in Objs \ {message} => place[m] = "unused"
  /\ m = message /\ m # NULL => a = arena
  /\ place' = [o \in Objs |->
                 IF Deletes(m) /\ o = message THEN "freed"
                 ELSE IF o = m /\ o # message THEN Home(a) ELSE place[o]]
  /\ content' = [o \in Objs |-> IF o = m /\ o # message THEN c ELSE content[o]]
  /\ message' = m
  /\ arena' = a
  /\ hasValue' = (m # NULL)
  /\ bytes' = Empty
  /\ state' = IF m # NULL THEN "DIRTY" ELSE "UNPARSED"
  /\ calls' = calls + 1
  /\ UNCHANGED <<mu, pc, op, resultVars, alive>>

(* ~LazyField().                                                           *)
Destroy ==
  /\ Quiescent
  /\ place' = [o \in Objs |-> IF o = message /\ arena = NULL THEN "freed" ELSE place[o]]
  /\ alive' = FALSE
  /\ UNCHANGED <<mu, fieldVars, content, pc, op, resultVars, calls>>

(* After the destructor nothing happens any more.                          *)
Gone == ~alive /\ UNCHANGED vars

LockedStep(t) ==
  CreateMessage(t) \/ CheckState(t) \/ FinishParse(t) \/ Publish(t)
    \/ Unlock(t) \/ MarkDirty(t) \/ SetPresent(t) \/ Measure(t) \/ Write(t)

Next ==
  \/ \E t \in Threads :
       \/ Get(t) \/ IsInitialized(t) \/ EnsureParsed(t) \/ Mutable(t) \/ Lock(t)
       \/ LockedStep(t)
       \/ Return(t) \/ Finish(t) \/ ByteSizeLong(t) \/ Serialize(t)
       \/ \E c \in Contents : WriteThrough(t, c)
  \/ \E p \in Payloads, a \in Arenas \cup {NULL} : ParseFrom(p, a)
  \/ Clear
  \/ \E m \in Objs \cup {NULL}, c \in Contents, a \in Arenas \cup {NULL} :
       SetAllocated(m, c, a)
  \/ Destroy
  \/ Gone

Spec == Init /\ [][Next]_vars

(* A call that was begun goes on.  The mutex is not fair: a thread that    *)
(* waits for it gets it only if it is free from some point on.             *)
CallStep(t) == EnsureParsed(t) \/ Lock(t) \/ LockedStep(t) \/ Return(t)

FairSpec == Spec /\ \A t \in Threads : WF_vars(CallStep(t))

(***************************************************************************)
(* The value the field stands for, whether or not it has been parsed.      *)
(***************************************************************************)

Value ==
  IF ~hasValue THEN Default
  ELSE IF IsParsed THEN content[message] ELSE Meaning(bytes)

(* The threads in Mutable(), and those of them that have its pointer.      *)
Opening == {t \in Threads : op[t] = "Mutable"}
Editing == {t \in Opening : pc[t] = "using"}

Eager == INSTANCE EagerField WITH
  ValueOf <- [p \in Payloads |-> Meaning(p)],
  present <- hasValue,
  value   <- Value,
  opening <- Opening,
  editing <- Editing

(***************************************************************************)
(* Properties.                                                             *)
(***************************************************************************)

(* Every variable has its type; a message is never left with what a failed *)
(* parse made of it, and what a thread holds is an object or nullptr.      *)
TypeOK ==
  /\ mu \in Threads \cup {NoThread}
  /\ state \in States
  /\ bytes \in Payloads
  /\ message \in Objs \cup {NULL}
  /\ arena \in Arenas \cup {NULL}
  /\ hasValue \in BOOLEAN
  /\ place \in [Objs -> Arenas \cup {"unused", "heap", "freed"}]
  /\ content \in [Objs -> Contents \cup {Torn}]
  /\ pc \in [Threads -> Labels]
  /\ op \in [Threads -> Calls]
  /\ ref \in [Threads -> Objs \cup {NULL}]
  /\ sized \in [Threads -> Payloads \cup {NULL}]
  /\ written \in [Threads -> Payloads \cup {NULL}]
  /\ answer \in [Threads -> BOOLEAN]
  /\ alive \in BOOLEAN
  /\ calls \in 0 .. MaxCalls

(* A reference handed out by Get() or Mutable() is the field's message, is *)
(* alive, and holds the value the field stands for, as long as it is used: *)
(* no other thread's access parses into a message that is being read, and  *)
(* no thread is handed nullptr or a message that is half parsed.           *)
SafeReads ==
  \A t \in Threads : pc[t] = "using" =>
    /\ ref[t] = message
    /\ ref[t] # NULL
    /\ place[ref[t]] \notin {"unused", "freed"}
    /\ IsParsed
    /\ content[ref[t]] \in Contents
    /\ content[ref[t]] = Value

(* IsInitialized() answers what an eagerly parsed field would: a field     *)
(* without a value is initialized, one with a value is if its message is.  *)
(* Only const methods may overlap it.                                      *)
AnswerIsEager ==
  \A t \in Threads : pc[t] = "answered" /\ ~MutableShared =>
    (answer[t] <=> (hasValue => Value \in Complete))

(* Serialize() writes what ByteSizeLong() measured, although the field is  *)
(* unlocked between the two and another reader may parse it then.  The     *)
(* exception is exact: the field still holds the bytes it was parsed from, *)
(* and they are not what its message serializes to.                        *)
WriteFitsSize ==
  \A t \in Threads : pc[t] = "written" /\ ~MutableShared =>
    \/ sized[t] = written[t]
    \/ sized[t] = bytes /\ state = "PARSED" /\ ~Canonical(bytes)

(* What Serialize() writes stands for the value of the field, or is what a *)
(* message without all its required fields serializes to.                  *)
WritesTheValue ==
  \A t \in Threads : pc[t] = "written" /\ ~MutableShared =>
    /\ written[t] # NULL
    /\ \/ Meaning(written[t]) = Value
       \/ Value \notin Complete /\ written[t] = Encoded[Value]

(* A message on the heap is owned by the field, which will delete it: the  *)
(* field has not lost a message it owned, and dies without leaving one.    *)
NoOrphans == \A o \in Objs : place[o] = "heap" => alive /\ o = message /\ arena = NULL

(* delete is applied only to messages on the heap, once.                   *)
DeletesOnlyHeap ==
  [][\A o \in Objs : place'[o] # place[o] /\ place[o] # "unused" =>
       place[o] = "heap" /\ place'[o] = "freed"]_vars

(* A message on the heap that the field lets go, or is destroyed with, is  *)
(* deleted at that moment if the field has no arena.  If it has one, the   *)
(* message is left to it; that happens only where messages are not created *)
(* on arenas, and nobody deletes it then.                                  *)
HeapMessagesAreDeleted ==
  [][\A o \in Objs :
       /\ alive /\ o = message /\ place[o] = "heap"
       /\ ~(alive' /\ o = message')
       => IF arena = NULL THEN place'[o] = "freed"
          ELSE ~HasProtobufArena /\ place'[o] = "heap"]_vars

(* Seen through hasValue and Value, the field behaves like an eager one:   *)
(* no const method changes the value or the presence, an absent field      *)
(* becomes present only while a Mutable() is between its start and its     *)
(* return, and the value changes only through the pointer it returned.     *)
ImplementsEager == Eager!Spec

(* Every call that was begun returns, unless other threads keep measuring  *)
(* and serializing: the mutex is not fair, and ByteSizeLong() and          *)
(* Serialize() take it each time.  Nothing else keeps a thread waiting:    *)
(* the first access to get through publishes a parsed state, also for an   *)
(* absent field, and later accesses take no lock.                          *)
CallsReturn ==
  \A t \in Threads :
    \/ []<>(\E u \in Threads \ {t} : pc[u] \in Encoding)
    \/ (pc[t] \in {"load", "lock"} ~> pc[t] \in Results)

(***************************************************************************)
(* What the repository says of the field and the code does not do.         *)
(***************************************************************************)

(* tests/lazy_field_test.cc expects IsInitialized() to be false for a      *)
(* field without a value; the code answers true.                           *)
AbsentIsNotInitialized ==
  \A t \in Threads : pc[t] = "answered" /\ ~hasValue => ~answer[t]

(* "The old arena keeps ownership of the old message", says ParseFrom() of *)
(* the message it lets go; without the macro no arena owns it.             *)
OldArenaOwnsOldMessage ==
  [][\A a \in Arenas, p \in Payloads :
       ParseFrom(p, a) /\ message # NULL /\ arena \notin {NULL, a}
         => place[message] = arena]_vars

=============================================================================
