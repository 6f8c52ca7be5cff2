---------------------------- MODULE LazyFieldProofs ----------------------------
(***************************************************************************)
(* What is true of LazyField for every number of threads, objects, arenas, *)
(* payloads and calls, and for both values of the two switches.            *)
(*                                                                         *)
(* IndInv is proved one conjunct at a time; each lemma has one step per    *)
(* action.                                                                 *)
(***************************************************************************)
EXTENDS LazyFieldInvariant, TLAPS

(* The tuples of variables, the helpers that move a thread, the parts of   *)
(* the sets of labels and of calls.                                        *)
USE DEF vars, fieldVars, memVars, resultVars, Goto, Enter, Ensuring, Encoding, Readers

(* The initial states satisfy the invariant.                               *)
LEMMA InitEstablishes == Init => IndInv
<1> SUFFICES ASSUME Init PROVE IndInv
  OBVIOUS
<1> USE DEF Init
<1>1. TypeOK
  <2>1. /\ mu \in Threads \cup {NoThread}
        /\ state \in States
        /\ bytes \in Payloads
        /\ message \in Objs \cup {NULL}
        /\ arena \in Arenas \cup {NULL}
        /\ hasValue \in BOOLEAN
    BY PayloadsAssumption DEF States
  <2>2. /\ place \in [Objs -> Arenas \cup {"unused", "heap", "freed"}]
        /\ content \in [Objs -> Contents \cup {Torn}]
    BY ContentsAssumption
  <2>3. /\ pc \in [Threads -> Labels]
        /\ op \in [Threads -> Calls]
    BY DEF Labels, Calls
  <2>4. /\ ref \in [Threads -> Objs \cup {NULL}]
        /\ sized \in [Threads -> Payloads \cup {NULL}]
        /\ written \in [Threads -> Payloads \cup {NULL}]
    OBVIOUS
  <2>5. answer \in [Threads -> BOOLEAN]
    OBVIOUS
  <2>6. /\ alive \in BOOLEAN
        /\ calls \in 0 .. MaxCalls
    BY BoundsAssumption
  <2> QED
    BY <2>1, <2>2, <2>3, <2>4, <2>5, <2>6 DEF TypeOK
<1>2. LockInv /\ CallInv /\ ExclusiveInv /\ StepInv
  BY ThreadsAssumption DEF LockInv, CallInv, ExclusiveInv, StepInv, Locked
<1>3. MessageInv /\ TornInv /\ CacheInv
  BY ContentsAssumption DEF MessageInv, TornInv, CacheInv, IsParsed
<1> QED
  BY <1>1, <1>2, <1>3 DEF IndInv

(* While nobody parses every message is whole, and what the field          *)
(* contributes to the wire is a byte string or nothing.                    *)
LEMMA UnparsingIsWhole ==
  ASSUME IndInv, \A t \in Threads : pc[t] # "parse"
  PROVE  /\ \A o \in Objs : content[o] \in Contents
         /\ WireImage \in Payloads \cup {NULL}
<1>1. \A o \in Objs : content[o] \in Contents
  BY DEF IndInv, TornInv, TypeOK
<1> QED
  BY <1>1, PayloadsAssumption DEF WireImage, IndInv, TypeOK, MessageInv

(* A thread that measures or writes has the mutex, so that nobody parses.  *)
LEMMA EncodersAreAlone ==
  ASSUME IndInv, NEW t \in Threads, pc[t] \in Encoding
  PROVE  mu = t /\ \A u \in Threads : pc[u] \notin Ensuring
BY DEF IndInv, LockInv, Locked

(* Every step keeps the types; a failed parse leaves no value of its own.  *)
LEMMA TypePreserved == IndInv /\ [Next]_vars => TypeOK'
<1> SUFFICES ASSUME IndInv, [Next]_vars PROVE TypeOK'
  OBVIOUS
<1> USE DEF IndInv, TypeOK
<1>1. ASSUME NEW t \in Threads, Get(t)
      PROVE  TypeOK'
  BY <1>1 DEF Get, Labels, Calls
<1>2. ASSUME NEW t \in Threads, IsInitialized(t)
      PROVE  TypeOK'
  BY <1>2 DEF IsInitialized, Labels, Results, Calls
<1>3. ASSUME NEW t \in Threads, EnsureParsed(t)
      PROVE  TypeOK'
  BY <1>3 DEF EnsureParsed, Labels
<1>4. ASSUME NEW t \in Threads, Mutable(t)
      PROVE  TypeOK'
  BY <1>4, BoundsAssumption DEF Mutable, MayOpen, Labels, Calls
<1>5. ASSUME NEW t \in Threads, Lock(t)
      PROVE  TypeOK'
  BY <1>5 DEF Lock, Labels, Locked
<1>6. ASSUME NEW t \in Threads, CreateMessage(t)
      PROVE  TypeOK'
  BY <1>6, ContentsAssumption DEF CreateMessage, CreationPlace, Home,
     Labels, Locked
<1>7. ASSUME NEW t \in Threads, CheckState(t)
      PROVE  TypeOK'
  BY <1>7, ContentsAssumption DEF CheckState, States, Labels, Locked
<1>8. ASSUME NEW t \in Threads, FinishParse(t)
      PROVE  TypeOK'
  BY <1>8, ContentsAssumption, PayloadsAssumption DEF FinishParse,
     Outcome, Labels, Locked
<1>9. ASSUME NEW t \in Threads, Publish(t)
      PROVE  TypeOK'
  BY <1>9 DEF Publish, States, Labels, Locked
<1>10. ASSUME NEW t \in Threads, Unlock(t)
      PROVE  TypeOK'
  BY <1>10 DEF Unlock, Labels
<1>11. ASSUME NEW t \in Threads, MarkDirty(t)
      PROVE  TypeOK'
  BY <1>11, PayloadsAssumption DEF MarkDirty, States, Labels, Locked
<1>12. ASSUME NEW t \in Threads, SetPresent(t)
      PROVE  TypeOK'
  BY <1>12 DEF SetPresent, Labels
<1>13. ASSUME NEW t \in Threads, Return(t)
      PROVE  TypeOK'
  <2>1. answer' \in [Threads -> BOOLEAN]
    <3>1. (message # NULL /\ content[message] \in Complete) \in BOOLEAN
      OBVIOUS
    <3> QED
      BY <1>13, <3>1 DEF Return
  <2>2. pc' \in [Threads -> Labels]
    <3>1. pc' = [pc EXCEPT ![t] = "using"] \/ pc' = [pc EXCEPT ![t] = "answered"]
      BY <1>13, Zenon DEF Return
    <3>2. pc \in [Threads -> Labels] /\ "using" \in Labels /\ "answered" \in Labels
      BY DEF Labels, Results
    <3> HIDE DEF IndInv, TypeOK
    <3> QED
      BY <3>1, <3>2
  <2>3. ref' \in [Threads -> Objs \cup {NULL}]
    BY <1>13 DEF Return
  <2> QED
    BY <1>13, <2>1, <2>2, <2>3 DEF Return
<1>14. ASSUME NEW t \in Threads, Finish(t)
      PROVE  TypeOK'
  BY <1>14 DEF Finish, Labels, Calls
<1>15. ASSUME NEW t \in Threads, ByteSizeLong(t)
      PROVE  TypeOK'
  BY <1>15 DEF ByteSizeLong, Labels, Calls
<1>16. ASSUME NEW t \in Threads, Measure(t)
      PROVE  TypeOK'
  BY <1>16, UnparsingIsWhole, EncodersAreAlone DEF Measure, Labels, Results
<1>17. ASSUME NEW t \in Threads, Serialize(t)
      PROVE  TypeOK'
  BY <1>17 DEF Serialize, Labels, Calls
<1>18. ASSUME NEW t \in Threads, Write(t)
      PROVE  TypeOK'
  BY <1>18, UnparsingIsWhole, EncodersAreAlone DEF Write, Labels, Results
<1>19. ASSUME NEW t \in Threads, NEW c \in Contents, WriteThrough(t, c)
      PROVE  TypeOK'
  BY <1>19 DEF WriteThrough
<1>20. ASSUME NEW p \in Payloads, NEW a \in Arenas \cup {NULL}, ParseFrom(p, a)
      PROVE  TypeOK'
  BY <1>20, BoundsAssumption DEF ParseFrom, MayMutate, States
<1>21. ASSUME Clear
      PROVE  TypeOK'
  <2>1. content' \in [Objs -> Contents \cup {Torn}]
    BY <1>21, ContentsAssumption DEF Clear
  <2>2. calls' \in 0 .. MaxCalls
    BY <1>21, BoundsAssumption DEF Clear, MayMutate
  <2> QED
    BY <1>21, <2>1, <2>2, PayloadsAssumption DEF Clear, States
<1>22. ASSUME NEW m \in Objs \cup {NULL}, NEW c \in Contents, NEW a \in Arenas \cup {NULL}, SetAllocated(m, c, a)
      PROVE  TypeOK'
  BY <1>22, BoundsAssumption, PayloadsAssumption, ContentsAssumption DEF
     SetAllocated, MayMutate, Home, States
<1>23. ASSUME Destroy
      PROVE  TypeOK'
  BY <1>23 DEF Destroy
<1>24. ASSUME UNCHANGED vars
      PROVE  TypeOK'
  BY <1>24
<1> QED
  BY <1>1, <1>2, <1>3, <1>4, <1>5, <1>6, <1>7, <1>8, <1>9, <1>10, <1>11, <1>12,
     <1>13, <1>14, <1>15, <1>16, <1>17, <1>18, <1>19, <1>20, <1>21, <1>22, <1>23, <1>24 DEF Next, LockedStep, Gone

(* The mutex follows the threads: this is mutual exclusion.                *)
LEMMA LockPreserved == IndInv /\ [Next]_vars => LockInv'
<1> SUFFICES ASSUME IndInv, [Next]_vars PROVE LockInv'
  OBVIOUS
<1> USE DEF IndInv, TypeOK
<1>1. ASSUME NEW t \in Threads, Get(t)
      PROVE  LockInv'
  BY <1>1 DEF Get, LockInv, Locked, MayRead, Idle
<1>2. ASSUME NEW t \in Threads, IsInitialized(t)
      PROVE  LockInv'
  BY <1>2 DEF IsInitialized, LockInv, Locked, MayRead, Idle
<1>3. ASSUME NEW t \in Threads, EnsureParsed(t)
      PROVE  LockInv'
  BY <1>3 DEF EnsureParsed, LockInv, Locked
<1>4. ASSUME NEW t \in Threads, Mutable(t)
      PROVE  LockInv'
  BY <1>4 DEF Mutable, LockInv, Locked, MayOpen, Idle
<1>5. ASSUME NEW t \in Threads, Lock(t)
      PROVE  LockInv'
  BY <1>5, ThreadsAssumption DEF Lock, LockInv, Locked
<1>6. ASSUME NEW t \in Threads, CreateMessage(t)
      PROVE  LockInv'
  BY <1>6 DEF CreateMessage, LockInv, Locked
<1>7. ASSUME NEW t \in Threads, CheckState(t)
      PROVE  LockInv'
  BY <1>7 DEF CheckState, LockInv, Locked
<1>8. ASSUME NEW t \in Threads, FinishParse(t)
      PROVE  LockInv'
  BY <1>8 DEF FinishParse, LockInv, Locked
<1>9. ASSUME NEW t \in Threads, Publish(t)
      PROVE  LockInv'
  BY <1>9 DEF Publish, LockInv, Locked
<1>10. ASSUME NEW t \in Threads, Unlock(t)
      PROVE  LockInv'
  BY <1>10, ThreadsAssumption DEF Unlock, LockInv, Locked
<1>11. ASSUME NEW t \in Threads, MarkDirty(t)
      PROVE  LockInv'
  BY <1>11 DEF MarkDirty, LockInv, Locked
<1>12. ASSUME NEW t \in Threads, SetPresent(t)
      PROVE  LockInv'
  BY <1>12, ThreadsAssumption DEF SetPresent, LockInv, Locked
<1>13. ASSUME NEW t \in Threads, Return(t)
      PROVE  LockInv'
  BY <1>13 DEF Return, LockInv, Locked
<1>14. ASSUME NEW t \in Threads, Finish(t)
      PROVE  LockInv'
  BY <1>14 DEF Finish, LockInv, Locked, Results
<1>15. ASSUME NEW t \in Threads, ByteSizeLong(t)
      PROVE  LockInv'
  BY <1>15 DEF ByteSizeLong, LockInv, Locked, MayRead, Idle
<1>16. ASSUME NEW t \in Threads, Measure(t)
      PROVE  LockInv'
  BY <1>16, ThreadsAssumption DEF Measure, LockInv, Locked
<1>17. ASSUME NEW t \in Threads, Serialize(t)
      PROVE  LockInv'
  BY <1>17 DEF Serialize, LockInv, Locked
<1>18. ASSUME NEW t \in Threads, Write(t)
      PROVE  LockInv'
  BY <1>18, ThreadsAssumption DEF Write, LockInv, Locked
<1>19. ASSUME NEW t \in Threads, NEW c \in Contents, WriteThrough(t, c)
      PROVE  LockInv'
  BY <1>19 DEF WriteThrough, LockInv
<1>20. ASSUME NEW p \in Payloads, NEW a \in Arenas \cup {NULL}, ParseFrom(p, a)
      PROVE  LockInv'
  BY <1>20 DEF ParseFrom, LockInv
<1>21. ASSUME Clear
      PROVE  LockInv'
  BY <1>21 DEF Clear, LockInv
<1>22. ASSUME NEW m \in Objs \cup {NULL}, NEW c \in Contents, NEW a \in Arenas \cup {NULL}, SetAllocated(m, c, a)
      PROVE  LockInv'
  BY <1>22 DEF SetAllocated, LockInv
<1>23. ASSUME Destroy
      PROVE  LockInv'
  BY <1>23 DEF Destroy, LockInv
<1>24. ASSUME UNCHANGED vars
      PROVE  LockInv'
  BY <1>24 DEF LockInv
<1> QED
  BY <1>1, <1>2, <1>3, <1>4, <1>5, <1>6, <1>7, <1>8, <1>9, <1>10, <1>11, <1>12,
     <1>13, <1>14, <1>15, <1>16, <1>17, <1>18, <1>19, <1>20, <1>21, <1>22, <1>23, <1>24 DEF Next, LockedStep, Gone

(* A thread's call agrees with its place in it.                            *)
LEMMA CallPreserved == IndInv /\ [Next]_vars => CallInv'
<1> SUFFICES ASSUME IndInv, [Next]_vars PROVE CallInv'
  OBVIOUS
<1> USE DEF IndInv, TypeOK
<1>1. ASSUME NEW t \in Threads, Get(t)
      PROVE  CallInv'
  BY <1>1 DEF Get, CallInv, MayRead, Idle
<1>2. ASSUME NEW t \in Threads, IsInitialized(t)
      PROVE  CallInv'
  BY <1>2 DEF IsInitialized, CallInv, MayRead, Idle
<1>3. ASSUME NEW t \in Threads, EnsureParsed(t)
      PROVE  CallInv'
  BY <1>3 DEF EnsureParsed, CallInv
<1>4. ASSUME NEW t \in Threads, Mutable(t)
      PROVE  CallInv'
  BY <1>4 DEF Mutable, CallInv, MayOpen, Idle
<1>5. ASSUME NEW t \in Threads, Lock(t)
      PROVE  CallInv'
  BY <1>5 DEF Lock, CallInv
<1>6. ASSUME NEW t \in Threads, CreateMessage(t)
      PROVE  CallInv'
  BY <1>6 DEF CreateMessage, CallInv
<1>7. ASSUME NEW t \in Threads, CheckState(t)
      PROVE  CallInv'
  BY <1>7 DEF CheckState, CallInv
<1>8. ASSUME NEW t \in Threads, FinishParse(t)
      PROVE  CallInv'
  BY <1>8 DEF FinishParse, CallInv
<1>9. ASSUME NEW t \in Threads, Publish(t)
      PROVE  CallInv'
  BY <1>9 DEF Publish, CallInv
<1>10. ASSUME NEW t \in Threads, Unlock(t)
      PROVE  CallInv'
  BY <1>10 DEF Unlock, CallInv
<1>11. ASSUME NEW t \in Threads, MarkDirty(t)
      PROVE  CallInv'
  BY <1>11 DEF MarkDirty, CallInv
<1>12. ASSUME NEW t \in Threads, SetPresent(t)
      PROVE  CallInv'
  BY <1>12 DEF SetPresent, CallInv
<1>13. ASSUME NEW t \in Threads, Return(t)
      PROVE  CallInv'
  BY <1>13 DEF Return, CallInv
<1>14. ASSUME NEW t \in Threads, Finish(t)
      PROVE  CallInv'
  BY <1>14 DEF Finish, CallInv
<1>15. ASSUME NEW t \in Threads, ByteSizeLong(t)
      PROVE  CallInv'
  BY <1>15 DEF ByteSizeLong, CallInv, MayRead, Idle
<1>16. ASSUME NEW t \in Threads, Measure(t)
      PROVE  CallInv'
  BY <1>16 DEF Measure, CallInv
<1>17. ASSUME NEW t \in Threads, Serialize(t)
      PROVE  CallInv'
  BY <1>17 DEF Serialize, CallInv
<1>18. ASSUME NEW t \in Threads, Write(t)
      PROVE  CallInv'
  BY <1>18 DEF Write, CallInv
<1>19. ASSUME NEW t \in Threads, NEW c \in Contents, WriteThrough(t, c)
      PROVE  CallInv'
  BY <1>19 DEF WriteThrough, CallInv
<1>20. ASSUME NEW p \in Payloads, NEW a \in Arenas \cup {NULL}, ParseFrom(p, a)
      PROVE  CallInv'
  BY <1>20 DEF ParseFrom, CallInv
<1>21. ASSUME Clear
      PROVE  CallInv'
  BY <1>21 DEF Clear, CallInv
<1>22. ASSUME NEW m \in Objs \cup {NULL}, NEW c \in Contents, NEW a \in Arenas \cup {NULL}, SetAllocated(m, c, a)
      PROVE  CallInv'
  BY <1>22 DEF SetAllocated, CallInv
<1>23. ASSUME Destroy
      PROVE  CallInv'
  BY <1>23 DEF Destroy, CallInv, Quiescent
<1>24. ASSUME UNCHANGED vars
      PROVE  CallInv'
  BY <1>24 DEF CallInv
<1> QED
  BY <1>1, <1>2, <1>3, <1>4, <1>5, <1>6, <1>7, <1>8, <1>9, <1>10, <1>11, <1>12,
     <1>13, <1>14, <1>15, <1>16, <1>17, <1>18, <1>19, <1>20, <1>21, <1>22, <1>23, <1>24 DEF Next, LockedStep, Gone

(* Mutable() begins alone, and nobody joins it.                            *)
LEMMA ExclusivePreserved == IndInv /\ [Next]_vars => ExclusiveInv'
<1> SUFFICES ASSUME IndInv, [Next]_vars PROVE ExclusiveInv'
  OBVIOUS
<1> USE DEF IndInv, TypeOK
<1>1. ASSUME NEW t \in Threads, Get(t)
      PROVE  ExclusiveInv'
  BY <1>1 DEF Get, ExclusiveInv, MayRead
<1>2. ASSUME NEW t \in Threads, IsInitialized(t)
      PROVE  ExclusiveInv'
  BY <1>2 DEF IsInitialized, ExclusiveInv, MayRead
<1>3. ASSUME NEW t \in Threads, EnsureParsed(t)
      PROVE  ExclusiveInv'
  BY <1>3 DEF EnsureParsed, ExclusiveInv
<1>4. ASSUME NEW t \in Threads, Mutable(t)
      PROVE  ExclusiveInv'
  BY <1>4 DEF Mutable, CallInv, ExclusiveInv, MayOpen, Quiescent
<1>5. ASSUME NEW t \in Threads, Lock(t)
      PROVE  ExclusiveInv'
  BY <1>5 DEF Lock, ExclusiveInv
<1>6. ASSUME NEW t \in Threads, CreateMessage(t)
      PROVE  ExclusiveInv'
  BY <1>6 DEF CreateMessage, ExclusiveInv
<1>7. ASSUME NEW t \in Threads, CheckState(t)
      PROVE  ExclusiveInv'
  BY <1>7 DEF CheckState, ExclusiveInv
<1>8. ASSUME NEW t \in Threads, FinishParse(t)
      PROVE  ExclusiveInv'
  BY <1>8 DEF FinishParse, ExclusiveInv
<1>9. ASSUME NEW t \in Threads, Publish(t)
      PROVE  ExclusiveInv'
  BY <1>9 DEF Publish, ExclusiveInv
<1>10. ASSUME NEW t \in Threads, Unlock(t)
      PROVE  ExclusiveInv'
  BY <1>10 DEF Unlock, ExclusiveInv
<1>11. ASSUME NEW t \in Threads, MarkDirty(t)
      PROVE  ExclusiveInv'
  BY <1>11 DEF MarkDirty, ExclusiveInv
<1>12. ASSUME NEW t \in Threads, SetPresent(t)
      PROVE  ExclusiveInv'
  BY <1>12 DEF SetPresent, ExclusiveInv
<1>13. ASSUME NEW t \in Threads, Return(t)
      PROVE  ExclusiveInv'
  BY <1>13 DEF Return, ExclusiveInv
<1>14. ASSUME NEW t \in Threads, Finish(t)
      PROVE  ExclusiveInv'
  BY <1>14 DEF Finish, ExclusiveInv
<1>15. ASSUME NEW t \in Threads, ByteSizeLong(t)
      PROVE  ExclusiveInv'
  BY <1>15 DEF ByteSizeLong, ExclusiveInv, MayRead
<1>16. ASSUME NEW t \in Threads, Measure(t)
      PROVE  ExclusiveInv'
  BY <1>16 DEF Measure, ExclusiveInv
<1>17. ASSUME NEW t \in Threads, Serialize(t)
      PROVE  ExclusiveInv'
  BY <1>17 DEF Serialize, CallInv, ExclusiveInv
<1>18. ASSUME NEW t \in Threads, Write(t)
      PROVE  ExclusiveInv'
  BY <1>18 DEF Write, ExclusiveInv
<1>19. ASSUME NEW t \in Threads, NEW c \in Contents, WriteThrough(t, c)
      PROVE  ExclusiveInv'
  BY <1>19 DEF WriteThrough, ExclusiveInv
<1>20. ASSUME NEW p \in Payloads, NEW a \in Arenas \cup {NULL}, ParseFrom(p, a)
      PROVE  ExclusiveInv'
  BY <1>20 DEF ParseFrom, ExclusiveInv
<1>21. ASSUME Clear
      PROVE  ExclusiveInv'
  BY <1>21 DEF Clear, ExclusiveInv
<1>22. ASSUME NEW m \in Objs \cup {NULL}, NEW c \in Contents, NEW a \in Arenas \cup {NULL}, SetAllocated(m, c, a)
      PROVE  ExclusiveInv'
  BY <1>22 DEF SetAllocated, ExclusiveInv
<1>23. ASSUME Destroy
      PROVE  ExclusiveInv'
  BY <1>23 DEF Destroy, ExclusiveInv
<1>24. ASSUME UNCHANGED vars
      PROVE  ExclusiveInv'
  BY <1>24 DEF ExclusiveInv
<1> QED
  BY <1>1, <1>2, <1>3, <1>4, <1>5, <1>6, <1>7, <1>8, <1>9, <1>10, <1>11, <1>12,
     <1>13, <1>14, <1>15, <1>16, <1>17, <1>18, <1>19, <1>20, <1>21, <1>22, <1>23, <1>24 DEF Next, LockedStep, Gone

(* The message is allocated whenever the field may be asked for it, and is *)
(* the default one while the field is absent.                              *)
LEMMA MessagePreserved == IndInv /\ [Next]_vars => MessageInv'
<1> SUFFICES ASSUME IndInv, [Next]_vars PROVE MessageInv'
  OBVIOUS
<1> USE DEF IndInv, TypeOK
<1>1. ASSUME NEW t \in Threads, Get(t)
      PROVE  MessageInv'
  BY <1>1 DEF Get, MessageInv, IsParsed
<1>2. ASSUME NEW t \in Threads, IsInitialized(t)
      PROVE  MessageInv'
  BY <1>2 DEF IsInitialized, MessageInv, IsParsed
<1>3. ASSUME NEW t \in Threads, EnsureParsed(t)
      PROVE  MessageInv'
  BY <1>3 DEF EnsureParsed, MessageInv, IsParsed
<1>4. ASSUME NEW t \in Threads, Mutable(t)
      PROVE  MessageInv'
  BY <1>4 DEF Mutable, MessageInv, IsParsed, IsMutable
<1>5. ASSUME NEW t \in Threads, Lock(t)
      PROVE  MessageInv'
  BY <1>5 DEF Lock, MessageInv, IsParsed
<1>6. ASSUME NEW t \in Threads, CreateMessage(t)
      PROVE  MessageInv'
  BY <1>6, ObjectsAssumption DEF CreateMessage, MessageInv, Home,
     CreationPlace
<1>7. ASSUME NEW t \in Threads, CheckState(t)
      PROVE  MessageInv'
  BY <1>7 DEF CheckState, MessageInv, StepInv, Locked, NeedsParse
<1>8. ASSUME NEW t \in Threads, FinishParse(t)
      PROVE  MessageInv'
  BY <1>8 DEF FinishParse, MessageInv, StepInv, IsParsed, Outcome
<1>9. ASSUME NEW t \in Threads, Publish(t)
      PROVE  MessageInv'
  BY <1>9 DEF Publish, MessageInv, StepInv, Locked
<1>10. ASSUME NEW t \in Threads, Unlock(t)
      PROVE  MessageInv'
  BY <1>10 DEF Unlock, MessageInv, StepInv
<1>11. ASSUME NEW t \in Threads, MarkDirty(t)
      PROVE  MessageInv'
  BY <1>11 DEF MarkDirty, MessageInv, StepInv
<1>12. ASSUME NEW t \in Threads, SetPresent(t)
      PROVE  MessageInv'
  BY <1>12 DEF SetPresent, MessageInv, IsParsed
<1>13. ASSUME NEW t \in Threads, Return(t)
      PROVE  MessageInv'
  BY <1>13 DEF Return, MessageInv, StepInv
<1>14. ASSUME NEW t \in Threads, Finish(t)
      PROVE  MessageInv'
  BY <1>14 DEF Finish, MessageInv, IsParsed
<1>15. ASSUME NEW t \in Threads, ByteSizeLong(t)
      PROVE  MessageInv'
  BY <1>15 DEF ByteSizeLong, MessageInv, IsParsed
<1>16. ASSUME NEW t \in Threads, Measure(t)
      PROVE  MessageInv'
  BY <1>16 DEF Measure, MessageInv, IsParsed
<1>17. ASSUME NEW t \in Threads, Serialize(t)
      PROVE  MessageInv'
  BY <1>17 DEF Serialize, MessageInv, IsParsed
<1>18. ASSUME NEW t \in Threads, Write(t)
      PROVE  MessageInv'
  BY <1>18 DEF Write, MessageInv, IsParsed
<1>19. ASSUME NEW t \in Threads, NEW c \in Contents, WriteThrough(t, c)
      PROVE  MessageInv'
  BY <1>19 DEF WriteThrough, MessageInv, StepInv
<1>20. ASSUME NEW p \in Payloads, NEW a \in Arenas \cup {NULL}, ParseFrom(p, a)
      PROVE  MessageInv'
  BY <1>20 DEF ParseFrom, MessageInv, IsParsed, LeavesArena
<1>21. ASSUME Clear
      PROVE  MessageInv'
  BY <1>21 DEF Clear, MessageInv, IsParsed
<1>22. ASSUME NEW m \in Objs \cup {NULL}, NEW c \in Contents, NEW a \in Arenas \cup {NULL}, SetAllocated(m, c, a)
      PROVE  MessageInv'
  BY <1>22, ObjectsAssumption DEF SetAllocated, MessageInv, IsParsed,
     Home, Deletes
<1>23. ASSUME Destroy
      PROVE  MessageInv'
  BY <1>23 DEF Destroy, MessageInv, IsParsed
<1>24. ASSUME UNCHANGED vars
      PROVE  MessageInv'
  BY <1>24 DEF MessageInv, IsParsed
<1> QED
  BY <1>1, <1>2, <1>3, <1>4, <1>5, <1>6, <1>7, <1>8, <1>9, <1>10, <1>11, <1>12,
     <1>13, <1>14, <1>15, <1>16, <1>17, <1>18, <1>19, <1>20, <1>21, <1>22, <1>23, <1>24 DEF Next, LockedStep, Gone

(* Only the thread at "parse" has a half parsed message.                   *)
LEMMA TornPreserved == IndInv /\ [Next]_vars => TornInv'
<1> SUFFICES ASSUME IndInv, [Next]_vars PROVE TornInv'
  OBVIOUS
<1> USE DEF IndInv, TypeOK
<1>1. ASSUME NEW t \in Threads, Get(t)
      PROVE  TornInv'
  BY <1>1 DEF Get, TornInv, MayRead, Idle
<1>2. ASSUME NEW t \in Threads, IsInitialized(t)
      PROVE  TornInv'
  BY <1>2 DEF IsInitialized, TornInv, MayRead, Idle
<1>3. ASSUME NEW t \in Threads, EnsureParsed(t)
      PROVE  TornInv'
  BY <1>3 DEF EnsureParsed, TornInv
<1>4. ASSUME NEW t \in Threads, Mutable(t)
      PROVE  TornInv'
  BY <1>4 DEF Mutable, TornInv, MayOpen, Idle, IsMutable
<1>5. ASSUME NEW t \in Threads, Lock(t)
      PROVE  TornInv'
  BY <1>5 DEF Lock, TornInv
<1>6. ASSUME NEW t \in Threads, CreateMessage(t)
      PROVE  TornInv'
  BY <1>6, ObjectsAssumption, ContentsAssumption DEF CreateMessage,
     TornInv
<1>7. ASSUME NEW t \in Threads, CheckState(t)
      PROVE  TornInv'
  BY <1>7, ContentsAssumption DEF CheckState, TornInv, NeedsParse
<1>8. ASSUME NEW t \in Threads, FinishParse(t)
      PROVE  TornInv'
  BY <1>8, ContentsAssumption, PayloadsAssumption DEF FinishParse,
     TornInv, Outcome
<1>9. ASSUME NEW t \in Threads, Publish(t)
      PROVE  TornInv'
  BY <1>9 DEF Publish, TornInv
<1>10. ASSUME NEW t \in Threads, Unlock(t)
      PROVE  TornInv'
  BY <1>10 DEF Unlock, TornInv
<1>11. ASSUME NEW t \in Threads, MarkDirty(t)
      PROVE  TornInv'
  BY <1>11 DEF MarkDirty, TornInv
<1>12. ASSUME NEW t \in Threads, SetPresent(t)
      PROVE  TornInv'
  BY <1>12 DEF SetPresent, TornInv
<1>13. ASSUME NEW t \in Threads, Return(t)
      PROVE  TornInv'
  BY <1>13 DEF Return, TornInv
<1>14. ASSUME NEW t \in Threads, Finish(t)
      PROVE  TornInv'
  BY <1>14 DEF Finish, TornInv, Results
<1>15. ASSUME NEW t \in Threads, ByteSizeLong(t)
      PROVE  TornInv'
  BY <1>15 DEF ByteSizeLong, TornInv, MayRead, Idle
<1>16. ASSUME NEW t \in Threads, Measure(t)
      PROVE  TornInv'
  BY <1>16 DEF Measure, TornInv
<1>17. ASSUME NEW t \in Threads, Serialize(t)
      PROVE  TornInv'
  BY <1>17 DEF Serialize, TornInv
<1>18. ASSUME NEW t \in Threads, Write(t)
      PROVE  TornInv'
  BY <1>18 DEF Write, TornInv
<1>19. ASSUME NEW t \in Threads, NEW c \in Contents, WriteThrough(t, c)
      PROVE  TornInv'
  BY <1>19, ContentsAssumption DEF WriteThrough, TornInv
<1>20. ASSUME NEW p \in Payloads, NEW a \in Arenas \cup {NULL}, ParseFrom(p, a)
      PROVE  TornInv'
  BY <1>20 DEF ParseFrom, TornInv, MayMutate, Quiescent, LeavesArena
<1>21. ASSUME Clear
      PROVE  TornInv'
  BY <1>21, ContentsAssumption DEF Clear, TornInv
<1>22. ASSUME NEW m \in Objs \cup {NULL}, NEW c \in Contents, NEW a \in Arenas \cup {NULL}, SetAllocated(m, c, a)
      PROVE  TornInv'
  BY <1>22, ContentsAssumption DEF SetAllocated, TornInv, MayMutate,
     Quiescent, Deletes
<1>23. ASSUME Destroy
      PROVE  TornInv'
  BY <1>23 DEF Destroy, TornInv
<1>24. ASSUME UNCHANGED vars
      PROVE  TornInv'
  BY <1>24 DEF TornInv
<1> QED
  BY <1>1, <1>2, <1>3, <1>4, <1>5, <1>6, <1>7, <1>8, <1>9, <1>10, <1>11, <1>12,
     <1>13, <1>14, <1>15, <1>16, <1>17, <1>18, <1>19, <1>20, <1>21, <1>22, <1>23, <1>24 DEF Next, LockedStep, Gone

(* A parsed message is the meaning of the bytes until someone may write.   *)
LEMMA CachePreserved == IndInv /\ [Next]_vars => CacheInv'
<1> SUFFICES ASSUME IndInv, [Next]_vars PROVE CacheInv'
  OBVIOUS
<1> USE DEF IndInv, TypeOK
<1>1. ASSUME NEW t \in Threads, Get(t)
      PROVE  CacheInv'
  BY <1>1 DEF Get, CacheInv, MayRead, Idle
<1>2. ASSUME NEW t \in Threads, IsInitialized(t)
      PROVE  CacheInv'
  BY <1>2 DEF IsInitialized, CacheInv, MayRead, Idle
<1>3. ASSUME NEW t \in Threads, EnsureParsed(t)
      PROVE  CacheInv'
  BY <1>3 DEF EnsureParsed, CacheInv
<1>4. ASSUME NEW t \in Threads, Mutable(t)
      PROVE  CacheInv'
  BY <1>4 DEF Mutable, CacheInv, MayOpen, Idle, IsMutable
<1>5. ASSUME NEW t \in Threads, Lock(t)
      PROVE  CacheInv'
  BY <1>5 DEF Lock, CacheInv
<1>6. ASSUME NEW t \in Threads, CreateMessage(t)
      PROVE  CacheInv'
  BY <1>6 DEF CreateMessage, MessageInv, CacheInv, IsParsed
<1>7. ASSUME NEW t \in Threads, CheckState(t)
      PROVE  CacheInv'
  BY <1>7 DEF CheckState, CacheInv, IsParsed, NeedsParse
<1>8. ASSUME NEW t \in Threads, FinishParse(t)
      PROVE  CacheInv'
  BY <1>8 DEF FinishParse, CacheInv, StepInv, IsParsed, Outcome
<1>9. ASSUME NEW t \in Threads, Publish(t)
      PROVE  CacheInv'
  BY <1>9 DEF Publish, CacheInv, StepInv
<1>10. ASSUME NEW t \in Threads, Unlock(t)
      PROVE  CacheInv'
  BY <1>10 DEF Unlock, CacheInv
<1>11. ASSUME NEW t \in Threads, MarkDirty(t)
      PROVE  CacheInv'
  BY <1>11 DEF MarkDirty, CacheInv
<1>12. ASSUME NEW t \in Threads, SetPresent(t)
      PROVE  CacheInv'
  BY <1>12 DEF SetPresent, CacheInv, StepInv
<1>13. ASSUME NEW t \in Threads, Return(t)
      PROVE  CacheInv'
  BY <1>13 DEF Return, CacheInv
<1>14. ASSUME NEW t \in Threads, Finish(t)
      PROVE  CacheInv'
  BY <1>14 DEF Finish, CacheInv, Results
<1>15. ASSUME NEW t \in Threads, ByteSizeLong(t)
      PROVE  CacheInv'
  BY <1>15 DEF ByteSizeLong, CacheInv, MayRead, Idle
<1>16. ASSUME NEW t \in Threads, Measure(t)
      PROVE  CacheInv'
  BY <1>16 DEF Measure, CacheInv
<1>17. ASSUME NEW t \in Threads, Serialize(t)
      PROVE  CacheInv'
  BY <1>17 DEF Serialize, CacheInv
<1>18. ASSUME NEW t \in Threads, Write(t)
      PROVE  CacheInv'
  BY <1>18 DEF Write, CacheInv
<1>19. ASSUME NEW t \in Threads, NEW c \in Contents, WriteThrough(t, c)
      PROVE  CacheInv'
  BY <1>19 DEF WriteThrough, CacheInv, StepInv
<1>20. ASSUME NEW p \in Payloads, NEW a \in Arenas \cup {NULL}, ParseFrom(p, a)
      PROVE  CacheInv'
  BY <1>20 DEF ParseFrom, CacheInv, LeavesArena
<1>21. ASSUME Clear
      PROVE  CacheInv'
  BY <1>21 DEF Clear, CacheInv
<1>22. ASSUME NEW m \in Objs \cup {NULL}, NEW c \in Contents, NEW a \in Arenas \cup {NULL}, SetAllocated(m, c, a)
      PROVE  CacheInv'
  BY <1>22 DEF SetAllocated, CacheInv, Deletes
<1>23. ASSUME Destroy
      PROVE  CacheInv'
  BY <1>23 DEF Destroy, CacheInv
<1>24. ASSUME UNCHANGED vars
      PROVE  CacheInv'
  BY <1>24 DEF CacheInv
<1> QED
  BY <1>1, <1>2, <1>3, <1>4, <1>5, <1>6, <1>7, <1>8, <1>9, <1>10, <1>11, <1>12,
     <1>13, <1>14, <1>15, <1>16, <1>17, <1>18, <1>19, <1>20, <1>21, <1>22, <1>23, <1>24 DEF Next, LockedStep, Gone

(* What a thread relies on at a step survives the steps of the others.     *)
LEMMA StepPreserved == IndInv /\ [Next]_vars => StepInv'
<1> SUFFICES ASSUME IndInv, [Next]_vars PROVE StepInv'
  OBVIOUS
<1> USE DEF IndInv, TypeOK
<1>1. ASSUME NEW t \in Threads, Get(t)
      PROVE  StepInv'
  BY <1>1 DEF Get, StepInv, IsParsed, Locked, MayRead, Idle
<1>2. ASSUME NEW t \in Threads, IsInitialized(t)
      PROVE  StepInv'
  BY <1>2 DEF IsInitialized, StepInv, IsParsed, Locked, MayRead, Idle
<1>3. ASSUME NEW t \in Threads, EnsureParsed(t)
      PROVE  StepInv'
  BY <1>3 DEF EnsureParsed, CallInv, StepInv, IsParsed, Locked
<1>4. ASSUME NEW t \in Threads, Mutable(t)
      PROVE  StepInv'
  BY <1>4 DEF Mutable, CacheInv, StepInv, IsParsed, Locked, MayOpen, Idle,
     IsMutable
<1>5. ASSUME NEW t \in Threads, Lock(t)
      PROVE  StepInv'
  BY <1>5 DEF Lock, StepInv, IsParsed
<1>6. ASSUME NEW t \in Threads, CreateMessage(t)
      PROVE  StepInv'
  BY <1>6, ObjectsAssumption DEF CreateMessage, MessageInv, StepInv,
     IsParsed, Locked
<1>7. ASSUME NEW t \in Threads, CheckState(t)
      PROVE  StepInv'
  BY <1>7 DEF CheckState, LockInv, StepInv, IsParsed, Meaning, Locked,
     NeedsParse
<1>8. ASSUME NEW t \in Threads, FinishParse(t)
      PROVE  StepInv'
  BY <1>8 DEF FinishParse, StepInv, IsParsed, Meaning, Locked, Outcome
<1>9. ASSUME NEW t \in Threads, Publish(t)
      PROVE  StepInv'
  BY <1>9 DEF Publish, LockInv, StepInv, IsParsed, Locked
<1>10. ASSUME NEW t \in Threads, Unlock(t)
      PROVE  StepInv'
  BY <1>10 DEF Unlock, MessageInv, StepInv, IsParsed
<1>11. ASSUME NEW t \in Threads, MarkDirty(t)
      PROVE  StepInv'
  BY <1>11 DEF MarkDirty, MessageInv, StepInv, IsParsed
<1>12. ASSUME NEW t \in Threads, SetPresent(t)
      PROVE  StepInv'
  BY <1>12 DEF SetPresent, MessageInv, StepInv, IsParsed
<1>13. ASSUME NEW t \in Threads, Return(t)
      PROVE  StepInv'
  BY <1>13 DEF Return, MessageInv, StepInv, IsParsed
<1>14. ASSUME NEW t \in Threads, Finish(t)
      PROVE  StepInv'
  BY <1>14 DEF Finish, StepInv, IsParsed, Locked, Results
<1>15. ASSUME NEW t \in Threads, ByteSizeLong(t)
      PROVE  StepInv'
  BY <1>15 DEF ByteSizeLong, StepInv, IsParsed, Locked, MayRead, Idle
<1>16. ASSUME NEW t \in Threads, Measure(t)
      PROVE  StepInv'
  BY <1>16 DEF Measure, StepInv, IsParsed, Locked
<1>17. ASSUME NEW t \in Threads, Serialize(t)
      PROVE  StepInv'
  BY <1>17 DEF Serialize, StepInv, IsParsed, Locked
<1>18. ASSUME NEW t \in Threads, Write(t)
      PROVE  StepInv'
  BY <1>18 DEF Write, StepInv, IsParsed, Locked
<1>19. ASSUME NEW t \in Threads, NEW c \in Contents, WriteThrough(t, c)
      PROVE  StepInv'
  BY <1>19 DEF WriteThrough, StepInv, IsParsed
<1>20. ASSUME NEW p \in Payloads, NEW a \in Arenas \cup {NULL}, ParseFrom(p, a)
      PROVE  StepInv'
  BY <1>20 DEF ParseFrom, StepInv, Locked, MayMutate, Quiescent,
     LeavesArena
<1>21. ASSUME Clear
      PROVE  StepInv'
  BY <1>21 DEF Clear, CallInv, StepInv, MayMutate, Quiescent
<1>22. ASSUME NEW m \in Objs \cup {NULL}, NEW c \in Contents, NEW a \in Arenas \cup {NULL}, SetAllocated(m, c, a)
      PROVE  StepInv'
  BY <1>22 DEF SetAllocated, CallInv, StepInv, Locked, MayMutate,
     Quiescent, Deletes
<1>23. ASSUME Destroy
      PROVE  StepInv'
  BY <1>23 DEF Destroy, StepInv, IsParsed
<1>24. ASSUME UNCHANGED vars
      PROVE  StepInv'
  BY <1>24 DEF StepInv, IsParsed
<1> QED
  BY <1>1, <1>2, <1>3, <1>4, <1>5, <1>6, <1>7, <1>8, <1>9, <1>10, <1>11, <1>12,
     <1>13, <1>14, <1>15, <1>16, <1>17, <1>18, <1>19, <1>20, <1>21, <1>22, <1>23, <1>24 DEF Next, LockedStep, Gone

(* The inductive invariant holds in every state of every behaviour.        *)
THEOREM FieldInvariant == Spec => []IndInv
<1>1. IndInv /\ [Next]_vars => IndInv'
  BY TypePreserved, LockPreserved, CallPreserved, ExclusivePreserved,
     MessagePreserved, TornPreserved, CachePreserved, StepPreserved DEF IndInv
<1> QED
  BY InitEstablishes, <1>1, PTL DEF Spec

(* Every variable keeps its type.                                          *)
THEOREM TypeCorrect == Spec => []TypeOK
<1>1. IndInv => TypeOK
  BY DEF IndInv
<1> QED
  BY FieldInvariant, <1>1, PTL

(* Get() and Mutable() hand out the field's own, live, completely parsed   *)
(* message with the field's value, and it stays so while it is used.       *)
THEOREM ReadsAreSafe == Spec => []SafeReads
<1>1. IndInv => SafeReads
  <2> SUFFICES ASSUME IndInv, NEW t \in Threads, pc[t] = "using"
               PROVE  /\ ref[t] = message
                      /\ ref[t] # NULL
                      /\ place[ref[t]] \notin {"unused", "freed"}
                      /\ IsParsed
                      /\ content[ref[t]] \in Contents
                      /\ content[ref[t]] = Value
    BY DEF SafeReads
  <2>1. ref[t] = message /\ IsParsed
    BY DEF IndInv, StepInv
  <2>2. alive
    BY DEF IndInv, CallInv
  <2>3. message # NULL /\ place[message] \notin {"unused", "freed"}
    BY <2>1, <2>2 DEF IndInv, MessageInv
  <2>4. content[message] # Torn
    BY <2>1, <2>3 DEF IndInv, TypeOK, TornInv, StepInv
  <2>5. content[message] \in Contents
    BY <2>3, <2>4 DEF IndInv, TypeOK
  <2>6. content[message] = Value
    BY <2>1, <2>3 DEF IndInv, MessageInv, Value
  <2> QED
    BY <2>1, <2>3, <2>5, <2>6
<1> QED
  BY FieldInvariant, <1>1, PTL

(***************************************************************************)
(* Who owns the messages: what is deleted is on the heap, and, where       *)
(* messages are created on arenas, nothing on the heap is lost.            *)
(***************************************************************************)

(* Before anything is allocated there is nothing to own.                   *)
LEMMA InitOwns == Init => OwnershipInv
BY DEF Init, OwnershipInv, NoOrphans

(* The only steps that allocate, install, let go or delete a message keep  *)
(* the account of whose it is; all others leave message, arena and memory. *)
LEMMA OwnershipPreserved == IndInv /\ OwnershipInv /\ [Next]_vars => OwnershipInv'
<1> SUFFICES ASSUME IndInv, OwnershipInv, [Next]_vars PROVE OwnershipInv'
  OBVIOUS
<1>1. CASE UNCHANGED <<message, arena, place, alive>>
  BY <1>1 DEF OwnershipInv, NoOrphans, Home
<1>2. ASSUME NEW t \in Threads, CreateMessage(t)
      PROVE  OwnershipInv'
  BY <1>2, ObjectsAssumption DEF CreateMessage, CreationPlace, OwnershipInv, NoOrphans, Home,
     IndInv, TypeOK, CallInv
<1>3. ASSUME NEW p \in Payloads, NEW a \in Arenas \cup {NULL}, ParseFrom(p, a)
      PROVE  OwnershipInv'
  BY <1>3, ObjectsAssumption DEF ParseFrom, LeavesArena, MayMutate, Quiescent, OwnershipInv,
     NoOrphans, Home, IndInv, TypeOK
<1>4. ASSUME NEW m \in Objs \cup {NULL}, NEW c \in Contents, NEW a \in Arenas \cup {NULL},
             SetAllocated(m, c, a)
      PROVE  OwnershipInv'
  BY <1>4, ObjectsAssumption DEF SetAllocated, Deletes, MayMutate, Quiescent, OwnershipInv,
     NoOrphans, Home, IndInv, TypeOK
<1>5. ASSUME Destroy
      PROVE  OwnershipInv'
  BY <1>5, ObjectsAssumption DEF Destroy, Quiescent, OwnershipInv, NoOrphans, Home, IndInv, TypeOK
<1> QED
  BY <1>1, <1>2, <1>3, <1>4, <1>5 DEF Next, LockedStep, Gone, Get, IsInitialized,
     EnsureParsed, Mutable, Lock, CheckState, FinishParse, Publish, Unlock, MarkDirty,
     SetPresent, Return, Finish, ByteSizeLong, Measure, Serialize, Write, WriteThrough, Clear

(* arena_ tells whose the message is, at all times.                        *)
LEMMA OwnershipHolds == Spec => []OwnershipInv
BY InitOwns, OwnershipPreserved, FieldInvariant, PTL DEF Spec

(* With messages created on arenas, or without any arena, the field never  *)
(* loses a message it has on the heap, and leaves none when it is          *)
(* destroyed.                                                              *)
THEOREM NothingIsLost ==
  ASSUME HasProtobufArena \/ Arenas = {} PROVE Spec => []NoOrphans
<1>1. OwnershipInv => NoOrphans
  BY DEF OwnershipInv
<1> QED
  BY <1>1, OwnershipHolds, PTL

(* In every build, a message on the heap that the field lets go is deleted *)
(* then and there, unless the field has an arena and messages are not      *)
(* created on arenas.                                                      *)
THEOREM LetGoIsDeleted == Spec => HeapMessagesAreDeleted
<1> DEFINE Settled(o) ==
      /\ alive /\ o = message /\ place[o] = "heap"
      /\ ~(alive' /\ o = message')
      => IF arena = NULL THEN place'[o] = "freed"
         ELSE ~HasProtobufArena /\ place'[o] = "heap"
    Deleted == \A o \in Objs : Settled(o)
<1>1. IndInv /\ OwnershipInv /\ [Next]_vars => [Deleted]_vars
  <2> SUFFICES ASSUME IndInv, OwnershipInv, Next, NEW o \in Objs PROVE Settled(o)
    BY DEF vars
  <2>1. CASE UNCHANGED <<message, alive>>
    BY <2>1
  <2>2. ASSUME NEW t \in Threads, CreateMessage(t)
        PROVE  Settled(o)
    BY <2>2, ObjectsAssumption DEF CreateMessage
  <2>3. ASSUME NEW p \in Payloads, NEW a \in Arenas \cup {NULL}, ParseFrom(p, a)
        PROVE  Settled(o)
    BY <2>3, ObjectsAssumption DEF ParseFrom, LeavesArena, OwnershipInv, Home, IndInv, TypeOK
  <2>4. ASSUME NEW m \in Objs \cup {NULL}, NEW c \in Contents, NEW a \in Arenas \cup {NULL},
               SetAllocated(m, c, a)
        PROVE  Settled(o)
    BY <2>4, ObjectsAssumption DEF SetAllocated, Deletes, OwnershipInv, Home, IndInv, TypeOK
  <2>5. ASSUME Destroy
        PROVE  Settled(o)
    BY <2>5, ObjectsAssumption DEF Destroy, OwnershipInv, Home, IndInv, TypeOK
  <2> QED
    BY <2>1, <2>2, <2>3, <2>4, <2>5 DEF Next, LockedStep, Gone, Get, IsInitialized,
       EnsureParsed, Mutable, Lock, CheckState, FinishParse, Publish, Unlock, MarkDirty,
       SetPresent, Return, Finish, ByteSizeLong, Measure, Serialize, Write, WriteThrough, Clear
<1> QED
  BY <1>1, OwnershipHolds, FieldInvariant, PTL DEF Spec, HeapMessagesAreDeleted

(* With and without them, delete is applied to messages on the heap only,  *)
(* and to each at most once.                                               *)
THEOREM DeletesAreOfHeap == Spec => DeletesOnlyHeap
<1> DEFINE Deleted ==
      \A o \in Objs : place'[o] # place[o] /\ place[o] # "unused" =>
        place[o] = "heap" /\ place'[o] = "freed"
<1>1. IndInv /\ OwnershipInv /\ [Next]_vars => [Deleted]_vars
  <2> SUFFICES ASSUME IndInv, OwnershipInv, Next PROVE Deleted
    BY DEF vars
  <2>1. CASE UNCHANGED place
    BY <2>1
  <2>2. ASSUME NEW t \in Threads, CreateMessage(t)
        PROVE  Deleted
    BY <2>2 DEF CreateMessage, IndInv, TypeOK
  <2>3. ASSUME NEW p \in Payloads, NEW a \in Arenas \cup {NULL}, ParseFrom(p, a)
        PROVE  Deleted
    BY <2>3 DEF ParseFrom, LeavesArena, MayMutate, Quiescent, OwnershipInv
  <2>4. ASSUME NEW m \in Objs \cup {NULL}, NEW c \in Contents, NEW a \in Arenas \cup {NULL},
               SetAllocated(m, c, a)
        PROVE  Deleted
    BY <2>4 DEF SetAllocated, Deletes, MayMutate, Quiescent, OwnershipInv
  <2>5. ASSUME Destroy
        PROVE  Deleted
    BY <2>5, ObjectsAssumption DEF Destroy, Quiescent, OwnershipInv
  <2> QED
    BY <2>1, <2>2, <2>3, <2>4, <2>5 DEF Next, LockedStep, Gone, Get, IsInitialized,
       EnsureParsed, Mutable, Lock, CheckState, FinishParse, Publish, Unlock, MarkDirty,
       SetPresent, Return, Finish, ByteSizeLong, Measure, Serialize, Write, WriteThrough, Clear
<1> QED
  BY <1>1, OwnershipHolds, FieldInvariant, PTL DEF Spec, DeletesOnlyHeap

(***************************************************************************)
(* A LazyField behaves like a field that is parsed eagerly, also where     *)
(* Mutable() overlaps other calls; and what its const methods answer and   *)
(* write is right where it does not.                                       *)
(***************************************************************************)

(* What a thread does on its way to the message, which is all of a const   *)
(* method and Mutable() up to where it sets has_value_.                    *)
Access(t) ==
  \/ Get(t) \/ IsInitialized(t) \/ EnsureParsed(t) \/ Mutable(t) \/ Lock(t)
  \/ CreateMessage(t) \/ CheckState(t) \/ FinishParse(t) \/ Publish(t)
  \/ Unlock(t) \/ MarkDirty(t) \/ Return(t) \/ Finish(t)
  \/ ByteSizeLong(t) \/ Measure(t) \/ Serialize(t) \/ Write(t)

(* No such step changes the value or the presence: the message is built    *)
(* while the bytes count, and counts when it is what they mean.            *)
LEMMA AccessKeepsValue ==
  ASSUME IndInv, NEW t \in Threads, Access(t)
  PROVE  UNCHANGED hasValue /\ Value' = Value
<1>1. ASSUME UNCHANGED <<state, bytes, message, hasValue, content>>
      PROVE  UNCHANGED hasValue /\ Value' = Value
  BY <1>1 DEF Value, IsParsed, Meaning
<1>2. CASE CreateMessage(t)
  <2>1. hasValue /\ IsParsed => message # NULL
    BY DEF IndInv, MessageInv
  <2> QED
    BY <1>2, <2>1 DEF CreateMessage, Value, IsParsed, Meaning
<1>3. CASE CheckState(t)
  BY <1>3 DEF CheckState, NeedsParse, Value, IsParsed, Meaning
<1>4. CASE FinishParse(t)
  BY <1>4 DEF FinishParse, IndInv, StepInv, Value, IsParsed, Meaning
<1>5. CASE Publish(t)
  BY <1>5 DEF Publish, IndInv, StepInv, Value, IsParsed, Meaning
<1>6. CASE MarkDirty(t)
  BY <1>6 DEF MarkDirty, IndInv, StepInv, Value, IsParsed, Meaning
<1> QED
  BY <1>1, <1>2, <1>3, <1>4, <1>5, <1>6 DEF Access, Get, IsInitialized, EnsureParsed, Mutable,
     Lock, Unlock, Return, Finish, ByteSizeLong, Measure, Serialize, Write

(* Of these steps, Mutable() is the start of a mutating call, and handing  *)
(* out and giving back its pointer are what they are; no other is noticed. *)
LEMMA AccessIsEager ==
  ASSUME IndInv, NEW t \in Threads, Access(t)
  PROVE  Eager!Next \/ UNCHANGED Eager!vars
<1>1. UNCHANGED hasValue /\ Value' = Value
  BY AccessKeepsValue
<1>2. /\ pc \in [Threads -> Labels]
      /\ op \in [Threads -> Calls]
  BY DEF IndInv, TypeOK
<1>3. CASE Mutable(t)
  <2>1. pc[t] = "idle" /\ op[t] # "Mutable" /\ pc'[t] # "using"
    BY <1>2, <1>3 DEF Mutable, MayOpen, Idle, IndInv, CallInv
  <2>2. Opening' = Opening \cup {t} /\ UNCHANGED Editing
    BY <1>2, <1>3, <2>1 DEF Mutable, Opening, Editing
  <2>3. Eager!StartMutable(t)
    BY <1>1, <1>3, <2>1, <2>2 DEF Mutable, Opening, Eager!StartMutable, Eager!Call
  <2> QED
    BY <2>3 DEF Eager!Next
<1>4. CASE Return(t)
  <2>1. CASE op[t] = "Mutable"
    <3>1. Editing' = Editing \cup {t} /\ UNCHANGED Opening
      BY <1>2, <1>4, <2>1 DEF Return, Editing, Opening
    <3>2. t \in Opening \ Editing
      BY <1>4, <2>1 DEF Return, Editing, Opening
    <3>3. hasValue \/ Opening \ (Editing \cup {t}) # {}
      <4>1. pc[t] = "return"
        BY <1>4 DEF Return
      <4>2. hasValue \/ \E u \in Threads : pc[u] = "present"
        BY <2>1, <4>1 DEF IndInv, StepInv
      <4>3. ASSUME NEW u \in Threads, pc[u] = "present"
            PROVE  u \in Opening \ (Editing \cup {t})
        BY <4>1, <4>3 DEF IndInv, CallInv, Opening, Editing
      <4> QED
        BY <4>2, <4>3
    <3>4. Eager!Open(t)
      BY <1>1, <1>4, <3>1, <3>2, <3>3 DEF Return, Eager!Open
    <3> QED
      BY <3>4 DEF Eager!Next
  <2>2. CASE op[t] # "Mutable"
    <3>1. UNCHANGED <<Opening, Editing>>
      BY <1>2, <1>4, <2>2 DEF Return, Editing, Opening
    <3> QED
      BY <1>1, <1>4, <3>1 DEF Return, Eager!vars
  <2> QED
    BY <2>1, <2>2
<1>5. CASE Finish(t)
  <2>1. CASE op[t] = "Mutable"
    <3>1. t \in Editing
      BY <1>5, <2>1 DEF Finish, Editing, Opening, Results, IndInv, CallInv
    <3>2. Editing' = Editing \ {t} /\ Opening' = Opening \ {t}
      BY <1>2, <1>5 DEF Finish, Editing, Opening
    <3>3. Eager!Close(t)
      BY <1>1, <1>5, <3>1, <3>2 DEF Finish, Eager!Close
    <3> QED
      BY <3>3 DEF Eager!Next
  <2>2. CASE op[t] # "Mutable"
    <3>1. UNCHANGED <<Opening, Editing>>
      BY <1>2, <1>5, <2>2 DEF Finish, Editing, Opening
    <3> QED
      BY <1>1, <1>5, <3>1 DEF Finish, Eager!vars
  <2> QED
    BY <2>1, <2>2
<1>6. CASE Get(t) \/ IsInitialized(t) \/ ByteSizeLong(t) \/ Serialize(t)
  <2>1. op[t] # "Mutable" /\ op'[t] # "Mutable"
    BY <1>2, <1>6 DEF Get, IsInitialized, ByteSizeLong, Serialize, MayRead, Idle, IndInv, CallInv
  <2>2. /\ \A u \in Threads \ {t} : pc'[u] = pc[u] /\ op'[u] = op[u]
        /\ UNCHANGED calls
    BY <1>2, <1>6 DEF Get, IsInitialized, ByteSizeLong, Serialize
  <2>3. UNCHANGED <<Opening, Editing>>
    BY <2>1, <2>2 DEF Editing, Opening
  <2> QED
    BY <1>1, <2>2, <2>3 DEF Eager!vars
<1>7. CASE \/ EnsureParsed(t) \/ Lock(t) \/ CreateMessage(t) \/ CheckState(t) \/ FinishParse(t)
           \/ Publish(t) \/ Unlock(t) \/ MarkDirty(t) \/ Measure(t) \/ Write(t)
  <2>1. pc[t] # "using" /\ pc'[t] # "using" /\ UNCHANGED <<op, calls>>
    BY <1>2, <1>7 DEF EnsureParsed, Lock, CreateMessage, CheckState, FinishParse, Publish,
       Unlock, MarkDirty, Measure, Write
  <2>2. \A u \in Threads \ {t} : pc'[u] = pc[u]
    BY <1>2, <1>7 DEF EnsureParsed, Lock, CreateMessage, CheckState, FinishParse, Publish,
       Unlock, MarkDirty, Measure, Write
  <2>3. UNCHANGED <<Opening, Editing>>
    BY <2>1, <2>2 DEF Editing, Opening
  <2> QED
    BY <1>1, <2>1, <2>3 DEF Eager!vars
<1> QED
  BY <1>3, <1>4, <1>5, <1>6, <1>7 DEF Access

(* Every step of the lazy field is a step of the eager one, or changes     *)
(* nothing that it shows.                                                  *)
LEMMA StepIsEagerStep ==
  IndInv /\ [Next]_vars => [Eager!Next]_(Eager!vars)
<1> SUFFICES ASSUME IndInv, [Next]_vars
             PROVE  Eager!Next \/ UNCHANGED Eager!vars
  OBVIOUS
<1>1. ASSUME Quiescent
      PROVE  Opening = {} /\ Editing = {}
  BY <1>1 DEF Quiescent, Opening, Editing, IndInv, CallInv
<1>2. ASSUME NEW t \in Threads, Access(t)
      PROVE  Eager!Next \/ UNCHANGED Eager!vars
  BY <1>2, AccessIsEager
<1>3. ASSUME NEW t \in Threads, SetPresent(t)
      PROVE  Eager!Next
  <2>1. state = "DIRTY"
    BY <1>3 DEF SetPresent, IndInv, StepInv
  <2>2. Value' = Value
    <3>1. message # NULL
      BY <2>1 DEF IndInv, MessageInv, IsParsed
    <3>2. ~hasValue => content[message] = Default
      BY <3>1 DEF IndInv, MessageInv
    <3> QED
      BY <1>3, <2>1, <3>2 DEF SetPresent, Value, IsParsed
  <2>3. UNCHANGED <<Opening, Editing>>
    BY <1>3 DEF SetPresent, Opening, Editing, IndInv, TypeOK
  <2>4. t \in Opening \ Editing
    BY <1>3 DEF SetPresent, Opening, Editing, IndInv, CallInv
  <2>5. Eager!Touch(t)
    BY <1>3, <2>2, <2>3, <2>4 DEF SetPresent, Eager!Touch
  <2> QED
    BY <2>5 DEF Eager!Next
<1>4. ASSUME NEW t \in Threads, NEW c \in Contents, WriteThrough(t, c)
      PROVE  Eager!Next
  <2>1. IsParsed /\ ref[t] = message /\ hasValue
    BY <1>4 DEF WriteThrough, IndInv, StepInv
  <2>2. message \in Objs
    BY <2>1 DEF IndInv, TypeOK, MessageInv
  <2>3. Value' = c
    BY <1>4, <2>1, <2>2 DEF WriteThrough, Value, IsParsed, IndInv, TypeOK
  <2>4. Editing = {t} /\ Opening = {t} /\ UNCHANGED <<Opening, Editing>>
    BY <1>4 DEF WriteThrough, Opening, Editing, IndInv, CallInv
  <2>5. Eager!Write(t, c)
    BY <1>4, <2>1, <2>3, <2>4 DEF WriteThrough, Eager!Write
  <2> QED
    BY <2>5 DEF Eager!Next
<1>5. ASSUME NEW p \in Payloads, NEW a \in Arenas \cup {NULL}, ParseFrom(p, a)
      PROVE  Eager!Next
  <2>1. Value' = Meaning(p) /\ hasValue' = TRUE
    BY <1>5 DEF ParseFrom, Value, IsParsed, Meaning
  <2>2. Opening = {} /\ UNCHANGED <<Opening, Editing>>
    BY <1>5, <1>1 DEF ParseFrom, MayMutate, Opening, Editing
  <2>3. Eager!Parse(p)
    BY <1>5, <2>1, <2>2 DEF ParseFrom, Eager!Parse, Eager!Call
  <2> QED
    BY <2>3 DEF Eager!Next
<1>6. ASSUME Clear
      PROVE  Eager!Next
  <2>1. Opening = {} /\ UNCHANGED <<Opening, Editing>>
    BY <1>6, <1>1 DEF Clear, MayMutate, Opening, Editing
  <2>2. Eager!Erase
    BY <1>6, <2>1 DEF Clear, Value, Eager!Erase, Eager!Call
  <2> QED
    BY <2>2 DEF Eager!Next
<1>7. ASSUME NEW m \in Objs \cup {NULL}, NEW c \in Contents, NEW a \in Arenas \cup {NULL},
             SetAllocated(m, c, a)
      PROVE  Eager!Next
  <2>1. Opening = {} /\ UNCHANGED <<Opening, Editing>>
    BY <1>7, <1>1 DEF SetAllocated, MayMutate, Opening, Editing
  <2>2. CASE m = NULL
    <3>1. Eager!Erase
      BY <1>7, <2>1, <2>2 DEF SetAllocated, Value, Eager!Erase, Eager!Call
    <3> QED
      BY <3>1 DEF Eager!Next
  <2>3. CASE m # NULL
    <3>1. content'[m] \in Contents
      <4>1. \A t \in Threads : pc[t] # "parse"
        BY <1>7 DEF SetAllocated, MayMutate, Quiescent
      <4>2. content[m] # Torn
        BY <2>3, <4>1 DEF IndInv, TornInv
      <4> QED
        BY <1>7, <2>3, <4>2 DEF SetAllocated, IndInv, TypeOK
    <3>2. Value' = content'[m] /\ hasValue' = TRUE
      BY <1>7, <2>3 DEF SetAllocated, Value, IsParsed
    <3>3. Eager!Adopt(content'[m])
      BY <1>7, <2>1, <3>2 DEF SetAllocated, Eager!Adopt, Eager!Call
    <3> QED
      BY <3>1, <3>3 DEF Eager!Next
  <2> QED
    BY <2>2, <2>3
<1>8. ASSUME Destroy \/ UNCHANGED vars
      PROVE  UNCHANGED Eager!vars
  BY <1>8 DEF Destroy, Value, IsParsed, Meaning, Opening, Editing, Eager!vars
<1> QED
  BY <1>2, <1>3, <1>4, <1>5, <1>6, <1>7, <1>8 DEF Next, LockedStep, Gone, Access

(* Seen through has_value_ and the value it stands for, the field is an    *)
(* eager one.                                                              *)
THEOREM LazyIsEager == Spec => ImplementsEager
<1>1. Init => Eager!Init
  BY DEF Init, Eager!Init, Value, Opening, Editing
<1> QED
  BY <1>1, StepIsEagerStep, FieldInvariant, PTL DEF Spec, ImplementsEager, Eager!Spec

(***************************************************************************)
(* What the const methods answer and write is what they would of an eager  *)
(* field.  Where Mutable() overlaps other calls it need not be: a caller   *)
(* that looks at its result may find the field changed.                    *)
(*                                                                         *)
(* A thread that holds a result keeps the mutating methods out.  The only  *)
(* thing that others can do to the field is to parse it, which keeps its   *)
(* value and bytes, but not always the bytes it would be written as.       *)
(***************************************************************************)

(* A thread has the result of a const method to compare or look at.        *)
Holds(t) == pc[t] \in {"answered", "written"} \/ Measured(t)

(* The steps of the const methods.                                         *)
Read(t) ==
  \/ Get(t) \/ IsInitialized(t) \/ EnsureParsed(t) \/ Lock(t)
  \/ CreateMessage(t) \/ CheckState(t) \/ FinishParse(t) \/ Publish(t) \/ Unlock(t)
  \/ Return(t) \/ Finish(t) \/ ByteSizeLong(t) \/ Measure(t) \/ Serialize(t) \/ Write(t)

(* While a thread holds such a result, no mutating method does anything.   *)
LEMMA HoldersKeepMutatorsOut ==
  ASSUME IndInv, ~MutableShared, [Next]_vars, NEW t \in Threads, Holds(t)
  PROVE  UNCHANGED vars \/ \E u \in Threads : Read(u)
<1>1. op[t] \notin {"none", "Mutable"} /\ pc[t] # "idle"
  BY DEF Holds, Measured, IndInv, CallInv
<1>2. \A u \in Threads : op[u] # "Mutable"
  BY <1>1 DEF IndInv, ExclusiveInv
<1>3. ~Quiescent
  BY <1>1 DEF Quiescent
<1>4. \A u \in Threads : ~Mutable(u)
  BY <1>3 DEF Mutable, MayOpen
<1>5. \A u \in Threads : ~MarkDirty(u) /\ ~SetPresent(u)
  BY <1>2 DEF MarkDirty, SetPresent, IndInv, CallInv
<1>6. \A u \in Threads, c \in Contents : ~WriteThrough(u, c)
  BY <1>2 DEF WriteThrough
<1>7. /\ \A p \in Payloads, a \in Arenas \cup {NULL} : ~ParseFrom(p, a)
      /\ \A m \in Objs \cup {NULL}, c \in Contents, a \in Arenas \cup {NULL} :
           ~SetAllocated(m, c, a)
      /\ ~Clear
      /\ ~Destroy
  BY <1>3 DEF ParseFrom, SetAllocated, Clear, Destroy, MayMutate
<1> QED
  BY <1>4, <1>5, <1>6, <1>7 DEF Next, LockedStep, Gone, Read

(* A const method keeps what the field says.  Of what the field would be   *)
(* written as it may change one thing: bytes become what their message     *)
(* serializes to.                                                          *)
LEMMA ReadKeepsField ==
  ASSUME IndInv, NEW t \in Threads, Read(t)
  PROVE  /\ UNCHANGED <<hasValue, bytes>>
         /\ Value' = Value
         /\ state = "PARSED" => state' = "PARSED"
         /\ \/ WireImage' = WireImage
            \/ /\ hasValue
               /\ WireImage = bytes
               /\ WireImage' = Encoded[Meaning(bytes)]
               /\ state' = "PARSED"
<1>1. UNCHANGED hasValue /\ Value' = Value
  BY AccessKeepsValue DEF Read, Access
<1>2. UNCHANGED bytes /\ (state = "PARSED" => state' = "PARSED")
  BY DEF Read, Get, IsInitialized, EnsureParsed, Lock, CreateMessage, CheckState, FinishParse,
     Publish, Unlock, Return, Finish, ByteSizeLong, Measure, Serialize, Write
<1>3. CASE CreateMessage(t)
  <2>1. hasValue /\ IsParsed => message # NULL
    BY DEF IndInv, MessageInv
  <2> QED
    BY <1>1, <1>2, <1>3, <2>1 DEF CreateMessage, WireImage, IsParsed
<1>4. CASE CheckState(t)
  BY <1>1, <1>2, <1>4 DEF CheckState, NeedsParse, WireImage, IsParsed
<1>5. CASE FinishParse(t)
  BY <1>1, <1>2, <1>5 DEF FinishParse, IndInv, StepInv, WireImage, IsParsed
<1>6. CASE Publish(t)
  <2>1. ~IsParsed /\ hasValue /\ message # NULL /\ content[message] = Meaning(bytes)
    BY <1>6 DEF Publish, IndInv, StepInv, Locked
  <2> QED
    BY <1>1, <1>2, <1>6, <2>1 DEF Publish, WireImage, IsParsed
<1>7. ASSUME UNCHANGED <<state, bytes, message, hasValue, content>>
      PROVE  WireImage' = WireImage
  BY <1>7 DEF WireImage, IsParsed
<1> QED
  BY <1>1, <1>2, <1>3, <1>4, <1>5, <1>6, <1>7 DEF Read, Get, IsInitialized, EnsureParsed, Lock,
     Unlock, Return, Finish, ByteSizeLong, Measure, Serialize, Write

(* A thread keeps its result until it is done with it.                     *)
LEMMA ResultsStay ==
  ASSUME IndInv, NEW t \in Threads, NEW u \in Threads, Read(u), Holds(t), Holds(t)'
  PROVE  /\ sized'[t] = sized[t]
         /\ answer'[t] = answer[t]
         /\ pc[t] = "written" => written'[t] = written[t]
<1>1. /\ pc \in [Threads -> Labels]
      /\ op \in [Threads -> Calls]
      /\ sized \in [Threads -> Payloads \cup {NULL}]
      /\ written \in [Threads -> Payloads \cup {NULL}]
      /\ answer \in [Threads -> BOOLEAN]
  BY DEF IndInv, TypeOK
<1>2. CASE u = t
  <2>1. ~Finish(t)
    BY <1>1 DEF Finish, Holds, Measured
  <2>2. pc[t] \in {"answered", "written", "sized", "lock", "write"}
    BY DEF Holds, Measured, IndInv, CallInv
  <2>3. Lock(t) \/ Serialize(t) \/ Write(t)
    BY <1>2, <2>1, <2>2 DEF Read, Get, IsInitialized, MayRead, Idle, EnsureParsed,
       CreateMessage, CheckState, FinishParse, Publish, Unlock, Return, ByteSizeLong, Measure
  <2> QED
    BY <1>1, <2>3 DEF Lock, Serialize, Write
<1>3. CASE u # t
  BY <1>1, <1>3 DEF Read, Get, IsInitialized, EnsureParsed, Lock, CreateMessage, CheckState,
     FinishParse, Publish, Unlock, Return, Finish, ByteSizeLong, Measure, Serialize, Write
<1> QED
  BY <1>2, <1>3

(* A thread gets a result from its own call.                               *)
LEMMA ResultsAreOfCalls ==
  ASSUME IndInv, [Next]_vars, NEW t \in Threads
  PROVE  /\ Measured(t)' /\ ~Measured(t) => Measure(t)
         /\ op'[t] = "Serialize" /\ op[t] # "Serialize" => Serialize(t)
         /\ pc'[t] = "written" /\ pc[t] # "written" => Write(t)
         /\ pc'[t] = "answered" /\ pc[t] # "answered" => IsInitialized(t) \/ Return(t)
<1>1. pc \in [Threads -> Labels] /\ op \in [Threads -> Calls]
  BY DEF IndInv, TypeOK
<1>2. CASE pc'[t] = pc[t] /\ op'[t] = op[t]
  BY <1>2 DEF Measured
<1>3. CASE pc'[t] # pc[t] \/ op'[t] # op[t]
  <2>1. \A u \in Threads \ {t} :
          ~ (\/ Get(u) \/ IsInitialized(u) \/ EnsureParsed(u) \/ Mutable(u) \/ Lock(u)
             \/ LockedStep(u) \/ Return(u) \/ Finish(u) \/ ByteSizeLong(u) \/ Serialize(u))
    BY <1>1, <1>3 DEF Get, IsInitialized, EnsureParsed, Mutable, Lock, LockedStep,
       CreateMessage, CheckState, FinishParse, Publish, Unlock, MarkDirty, SetPresent, Return,
       Finish, ByteSizeLong, Measure, Serialize, Write
  <2>2. ~ UNCHANGED <<pc, op>>
    BY <1>3
  <2>3. \/ Get(t) \/ IsInitialized(t) \/ EnsureParsed(t) \/ Mutable(t) \/ Lock(t)
        \/ LockedStep(t) \/ Return(t) \/ Finish(t) \/ ByteSizeLong(t) \/ Serialize(t)
    BY <2>1, <2>2 DEF Next, WriteThrough, ParseFrom, Clear, SetAllocated, Destroy, Gone
  <2>4. CASE Get(t) \/ EnsureParsed(t) \/ Mutable(t) \/ Lock(t) \/ Finish(t) \/ ByteSizeLong(t)
    BY <1>1, <2>4 DEF Get, EnsureParsed, Mutable, Lock, Finish, ByteSizeLong, Measured
  <2>5. CASE LockedStep(t)
    BY <1>1, <2>5 DEF LockedStep, CreateMessage, CheckState, FinishParse, Publish, Unlock,
       MarkDirty, SetPresent, Measure, Write, Measured
  <2>6. CASE IsInitialized(t) \/ Return(t) \/ Serialize(t)
    BY <1>1, <2>6 DEF IsInitialized, Return, Serialize, Measured, IndInv, CallInv
  <2> QED
    BY <2>3, <2>4, <2>5, <2>6
<1> QED
  BY <1>2, <1>3

(* What was measured stays what would be written, with the exception that  *)
(* MeasureInv states.                                                      *)
LEMMA MeasureEstablished == Init => MeasureInv
BY DEF Init, MeasureInv, Measured

LEMMA MeasurePreserved == IndInv /\ MeasureInv /\ [Next]_vars => MeasureInv'
<1> DEFINE Kept(t) == \/ sized[t] = WireImage
                      \/ sized[t] = bytes /\ state = "PARSED" /\ hasValue /\ ~Canonical(bytes)
<1> SUFFICES ASSUME IndInv, MeasureInv, [Next]_vars, ~MutableShared,
                    NEW t \in Threads, Measured(t)'
             PROVE  Kept(t)' /\ (op'[t] = "Serialize" => sized'[t] # NULL)
  BY DEF MeasureInv
<1>1. CASE Measured(t)
  <2>1. Kept(t) /\ (op[t] = "Serialize" => sized[t] # NULL)
    BY <1>1 DEF MeasureInv
  <2>2. CASE UNCHANGED vars
    BY <2>1, <2>2 DEF WireImage, IsParsed, Canonical, Meaning
  <2>3. ASSUME NEW u \in Threads, Read(u)
        PROVE  Kept(t)' /\ (op'[t] = "Serialize" => sized'[t] # NULL)
    <3>1. sized'[t] = sized[t]
      BY <1>1, <2>3, ResultsStay DEF Holds
    <3>2. op'[t] = "Serialize" => sized[t] # NULL
      BY <2>1, ResultsAreOfCalls DEF Serialize
    <3>3. /\ UNCHANGED <<hasValue, bytes>>
          /\ state = "PARSED" => state' = "PARSED"
          /\ \/ WireImage' = WireImage
             \/ /\ hasValue
                /\ WireImage = bytes
                /\ WireImage' = Encoded[Meaning(bytes)]
                /\ state' = "PARSED"
      BY <2>3, ReadKeepsField
    <3> QED
      BY <2>1, <3>1, <3>2, <3>3 DEF Canonical, Meaning
  <2> QED
    BY <1>1, <2>2, <2>3, HoldersKeepMutatorsOut DEF Holds
<1>2. CASE ~Measured(t)
  <2>1. Measure(t)
    BY <1>2, ResultsAreOfCalls
  <2>2. sized \in [Threads -> Payloads \cup {NULL}]
    BY DEF IndInv, TypeOK
  <2>3. sized'[t] = WireImage
    BY <2>1, <2>2 DEF Measure
  <2>4. WireImage' = WireImage
    BY <2>1 DEF Measure, WireImage, IsParsed
  <2>5. op'[t] # "Serialize"
    BY <2>1 DEF Measure, IndInv, CallInv
  <2> QED
    BY <2>3, <2>4, <2>5
<1> QED
  BY <1>1, <1>2

LEMMA MeasureHolds == Spec => []MeasureInv
BY MeasureEstablished, MeasurePreserved, FieldInvariant, PTL DEF Spec

(* Serialize() writes what ByteSizeLong() measured, unless the field was   *)
(* parsed in between from bytes that its message does not serialize to.    *)
THEOREM MeasuredIsWritten == Spec => []WriteFitsSize
<1>1. Init => WriteFitsSize
  BY DEF Init, WriteFitsSize
<1>2. IndInv /\ MeasureInv /\ WriteFitsSize /\ [Next]_vars => WriteFitsSize'
  <2> SUFFICES ASSUME IndInv, MeasureInv, WriteFitsSize, [Next]_vars, ~MutableShared,
                      NEW t \in Threads, pc'[t] = "written"
               PROVE  (\/ sized[t] = written[t]
                       \/ sized[t] = bytes /\ state = "PARSED" /\ ~Canonical(bytes))'
    BY DEF WriteFitsSize
  <2>1. CASE pc[t] = "written"
    <3>1. \/ sized[t] = written[t]
          \/ sized[t] = bytes /\ state = "PARSED" /\ ~Canonical(bytes)
      BY <2>1 DEF WriteFitsSize
    <3>2. CASE UNCHANGED vars
      BY <3>1, <3>2 DEF Canonical, Meaning
    <3>3. ASSUME NEW u \in Threads, Read(u)
          PROVE  (\/ sized[t] = written[t]
                  \/ sized[t] = bytes /\ state = "PARSED" /\ ~Canonical(bytes))'
      <4>1. sized'[t] = sized[t] /\ written'[t] = written[t]
        BY <2>1, <3>3, ResultsStay DEF Holds
      <4>2. UNCHANGED bytes /\ (state = "PARSED" => state' = "PARSED")
        BY <3>3, ReadKeepsField
      <4> QED
        BY <3>1, <4>1, <4>2 DEF Canonical, Meaning
    <3> QED
      BY <2>1, <3>2, <3>3, HoldersKeepMutatorsOut DEF Holds
  <2>2. CASE pc[t] # "written"
    <3>1. Write(t) /\ Measured(t)
      BY <2>2, ResultsAreOfCalls DEF Write, Measured, IndInv, CallInv
    <3>2. \/ sized[t] = WireImage
          \/ sized[t] = bytes /\ state = "PARSED" /\ ~Canonical(bytes)
      BY <3>1 DEF MeasureInv
    <3>3. written \in [Threads -> Payloads \cup {NULL}]
      BY DEF IndInv, TypeOK
    <3> QED
      BY <3>1, <3>2, <3>3 DEF Write, Canonical, Meaning
  <2> QED
    BY <2>1, <2>2
<1> QED
  BY <1>1, <1>2, FieldInvariant, MeasureHolds, PTL DEF Spec

(* What Serialize() writes is never nothing where something was measured,  *)
(* and stands for the value of the field; where the message lacks required *)
(* fields it is what that message serializes to.                           *)
THEOREM ValueIsWritten == Spec => []WritesTheValue
<1>1. Init => WritesTheValue
  BY DEF Init, WritesTheValue
<1>2. IndInv /\ MeasureInv /\ WritesTheValue /\ [Next]_vars => WritesTheValue'
  <2> SUFFICES ASSUME IndInv, MeasureInv, WritesTheValue, [Next]_vars, ~MutableShared,
                      NEW t \in Threads, pc'[t] = "written"
               PROVE  (/\ written[t] # NULL
                       /\ \/ Meaning(written[t]) = Value
                          \/ Value \notin Complete /\ written[t] = Encoded[Value])'
    BY DEF WritesTheValue
  <2>1. CASE pc[t] = "written"
    <3>1. /\ written[t] # NULL
          /\ \/ Meaning(written[t]) = Value
             \/ Value \notin Complete /\ written[t] = Encoded[Value]
      BY <2>1 DEF WritesTheValue
    <3>2. CASE UNCHANGED vars
      BY <3>1, <3>2 DEF Value, IsParsed, Meaning
    <3>3. ASSUME NEW u \in Threads, Read(u)
          PROVE  written'[t] = written[t] /\ Value' = Value
      BY <2>1, <3>3, ResultsStay, ReadKeepsField DEF Holds
    <3> QED
      BY <2>1, <3>1, <3>2, <3>3, HoldersKeepMutatorsOut DEF Holds, Meaning
  <2>2. CASE pc[t] # "written"
    <3>1. Write(t) /\ Measured(t)
      BY <2>2, ResultsAreOfCalls DEF Write, Measured, IndInv, CallInv
    <3>2. hasValue /\ (IsParsed => message # NULL)
      <4>1. sized[t] # NULL /\ (sized[t] = WireImage \/ hasValue)
        BY <3>1 DEF Write, MeasureInv, IndInv, CallInv
      <4> QED
        BY <4>1 DEF WireImage, IndInv, MessageInv
    <3>3. written'[t] = IF IsParsed THEN Encoded[Value] ELSE bytes
      <4>1. written \in [Threads -> Payloads \cup {NULL}]
        BY DEF IndInv, TypeOK
      <4> QED
        BY <3>1, <3>2, <4>1 DEF Write, WireImage, Value
    <3>4. Value' = Value
      BY <3>1, AccessKeepsValue DEF Access
    <3>5. CASE ~IsParsed
      <4>1. bytes # NULL /\ Meaning(bytes) = Value
        BY <3>2, <3>5, PayloadsAssumption DEF Value, IndInv, TypeOK
      <4> QED
        BY <3>3, <3>4, <3>5, <4>1 DEF Meaning
    <3>6. CASE IsParsed
      <4>1. Value \in Contents
        <5>1. \A u \in Threads : pc[u] # "parse"
          BY <3>1, EncodersAreAlone DEF Write
        <5>2. \A o \in Objs : content[o] \in Contents
          BY <5>1, UnparsingIsWhole
        <5> QED
          BY <3>2, <3>6, <5>2 DEF Value, IndInv, TypeOK
      <4>2. Encoded[Value] # NULL
        BY <4>1, PayloadsAssumption
      <4>3. Value \in Complete => Meaning(Encoded[Value]) = Value
        BY EncodingAssumption
      <4> QED
        BY <3>3, <3>4, <3>6, <4>2, <4>3 DEF Meaning
    <3> QED
      BY <3>5, <3>6
  <2> QED
    BY <2>1, <2>2
<1> QED
  BY <1>1, <1>2, FieldInvariant, MeasureHolds, PTL DEF Spec

(* IsInitialized() answers for the value that the field stands for, also   *)
(* where it read has_value_ without the mutex.                             *)
THEOREM AnswersAreEager == Spec => []AnswerIsEager
<1>1. Init => AnswerIsEager
  BY DEF Init, AnswerIsEager
<1>2. IndInv /\ AnswerIsEager /\ [Next]_vars => AnswerIsEager'
  <2> SUFFICES ASSUME IndInv, AnswerIsEager, [Next]_vars, ~MutableShared,
                      NEW t \in Threads, pc'[t] = "answered"
               PROVE  (answer[t] <=> (hasValue => Value \in Complete))'
    BY DEF AnswerIsEager
  <2>1. CASE pc[t] = "answered"
    <3>1. answer[t] <=> (hasValue => Value \in Complete)
      BY <2>1 DEF AnswerIsEager
    <3>2. CASE UNCHANGED vars
      BY <3>1, <3>2 DEF Value, IsParsed, Meaning
    <3>3. ASSUME NEW u \in Threads, Read(u)
          PROVE  answer'[t] = answer[t] /\ UNCHANGED hasValue /\ Value' = Value
      BY <2>1, <3>3, ResultsStay, ReadKeepsField DEF Holds
    <3> QED
      BY <2>1, <3>1, <3>2, <3>3, HoldersKeepMutatorsOut DEF Holds
  <2>2. CASE pc[t] # "answered"
    <3>1. IsInitialized(t) \/ Return(t)
      BY <2>2, ResultsAreOfCalls
    <3>2. /\ pc \in [Threads -> Labels]
          /\ answer \in [Threads -> BOOLEAN]
      BY DEF IndInv, TypeOK
    <3>3. UNCHANGED hasValue /\ Value' = Value
      BY <3>1, AccessKeepsValue DEF Access
    <3>4. CASE IsInitialized(t)
      <4>1. ~hasValue /\ answer'[t] = TRUE
        BY <3>2, <3>4 DEF IsInitialized
      <4> QED
        BY <3>3, <4>1
    <3>5. CASE Return(t)
      <4>1. op[t] = "IsInitialized" /\ pc[t] = "return"
        BY <3>2, <3>5 DEF Return
      <4>2. hasValue /\ IsParsed /\ message # NULL
        BY <4>1 DEF IndInv, StepInv, MessageInv
      <4>3. Value = content[message]
        BY <4>2 DEF Value
      <4>4. answer'[t] = (content[message] \in Complete)
        BY <3>2, <3>5, <4>1, <4>2 DEF Return
      <4> QED
        BY <3>3, <4>2, <4>3, <4>4
    <3> QED
      BY <3>1, <3>4, <3>5
  <2> QED
    BY <2>1, <2>2
<1> QED
  BY <1>1, <1>2, FieldInvariant, PTL DEF Spec

================================================================================
