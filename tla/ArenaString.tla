----------------------------- MODULE ArenaString -----------------------------
(***************************************************************************)
(* protoopt::ArenaString, runtime/src/protoopt/arena_string.cc - a string  *)
(* field that is one word: the address of a std::string with its kind in   *)
(* the two low bits.  The string is the process-wide default one, which    *)
(* every default field shares and which is never deleted, or a string of   *)
(* the field's own on the heap or on an arena.                             *)
(*                                                                         *)
(* Several fields share the memory.  Callers pass any arena to any call,   *)
(* as the tests do, and keep the pointer Mutable() returned until the      *)
(* field is cleared or destroyed.                                          *)
(***************************************************************************)
EXTENDS Integers

CONSTANTS
  Fields,             (* the ArenaString objects of the process            *)
  Strings,            (* the addresses a std::string can be allocated at   *)
  DefaultString,      (* the address of the default string                 *)
  Values, EmptyValue, (* what a string can hold                            *)
  Arenas, NULL,       (* the arenas, and nullptr                           *)
  HasProtobufArena    (* is google/protobuf/arena.h there to be included?  *)

ASSUME AlignmentAssumption ==
  /\ Strings \cup {DefaultString} \subseteq Nat \ {0}
  /\ \A s \in Strings \cup {DefaultString} : s % 4 = 0
  /\ DefaultString \notin Strings

ASSUME StringAssumption ==
  /\ EmptyValue \in Values
  /\ NULL \notin Strings /\ NULL \notin Arenas /\ NULL \notin Values
  /\ Arenas \cap {"unused", "heap", "static", "freed"} = {}
  /\ HasProtobufArena \in BOOLEAN

VARIABLES
  tagged_ptr,  (* the word of each field                                   *)
  place,       (* where each string lives                                  *)
  content,     (* what each string holds                                   *)
  life,        (* which fields are constructed, and which destroyed        *)
  held         (* the pointer from Mutable() somebody holds to each field  *)

vars == <<tagged_ptr, place, content, life, held>>

Addresses == Strings \cup {DefaultString}

(***************************************************************************)
(* The word.                                                               *)
(***************************************************************************)

kDefault        == 0
kFixedSizeArena == 1
kAllocated      == 2
kMutableArena   == 3

Encode(ptr, type) == ptr + type
DecodePtr(word)   == word - (word % 4)
DecodeType(word)  == word % 4

Ptr(f)         == DecodePtr(tagged_ptr[f])
CurrentType(f) == DecodeType(tagged_ptr[f])
IsDefault(f)   == CurrentType(f) = kDefault
DefaultWord    == Encode(DefaultString, kDefault)

(***************************************************************************)
(* Allocation: strings s, for which the allocator returns unused memory.   *)
(***************************************************************************)

OnArena(a) == HasProtobufArena /\ a # NULL

(* Mutant: the kind of an arena string gets the arena bit only.            *)
TypeOnFixed(a) == IF OnArena(a) THEN kFixedSizeArena ELSE kAllocated

AllocateString(s, a) == [place EXCEPT ![s] = IF OnArena(a) THEN a ELSE "heap"]
TypeOn(a) == IF OnArena(a) THEN kMutableArena ELSE kAllocated

Unused == {s \in Strings : place[s] = "unused"}

(* delete, if the field's word says that its string is on the heap.        *)
Delete(f, where) ==
  IF CurrentType(f) = kAllocated THEN [where EXCEPT ![Ptr(f)] = "freed"] ELSE where

SetTagged(f, s, type, where) ==
  IF s = Ptr(f) /\ type = CurrentType(f)
    THEN place' = where /\ UNCHANGED tagged_ptr
    ELSE place' = Delete(f, where) /\ tagged_ptr' = [tagged_ptr EXCEPT ![f] = Encode(s, type)]

Live(f) == life[f] = "live"

(***************************************************************************)
(* The operations.                                                         *)
(***************************************************************************)

Init ==
  /\ tagged_ptr = [f \in Fields |-> DefaultWord]
  /\ place = [s \in Addresses |-> IF s = DefaultString THEN "static" ELSE "unused"]
  /\ content = [s \in Addresses |-> EmptyValue]
  /\ life = [f \in Fields |-> "none"]
  /\ held = [f \in Fields |-> NULL]

(* The two constructors; nullptr stands for the one without an arena.      *)
Construct(f, a) ==
  /\ life[f] = "none"
  /\ life' = [life EXCEPT ![f] = "live"]
  /\ \/ /\ a = NULL
        /\ UNCHANGED <<tagged_ptr, place>>
     \/ /\ a # NULL
        /\ \E s \in Unused : SetTagged(f, s, TypeOn(a), AllocateString(s, a))
  /\ UNCHANGED <<content, held>>

(* Mutant: a string on another arena than the caller's is replaced.        *)
OwnMoves(f, a, s, v) ==
  \/ /\ CurrentType(f) = kAllocated \/ (CurrentType(f) = kMutableArena /\ place[Ptr(f)] = a)
     /\ s = Ptr(f)
     /\ content' = [content EXCEPT ![s] = IF v = NULL THEN @ ELSE v]
     /\ UNCHANGED <<tagged_ptr, place>>
  \/ /\ CurrentType(f) # kAllocated /\ ~(CurrentType(f) = kMutableArena /\ place[Ptr(f)] = a)
     /\ s \in Unused
     /\ SetTagged(f, s, TypeOn(a), AllocateString(s, a))
     /\ content' = [content EXCEPT ![s] = IF v = NULL THEN content[Ptr(f)] ELSE v]

(* The string Mutable() returns: the field's own one, or a new one, which  *)
(* is empty unless it replaces a string of fixed size.  Then v is assigned *)
(* to it, if there is something to assign.                                 *)
Own(f, a, s, v) ==
  \/ /\ CurrentType(f) \in {kAllocated, kMutableArena}
     /\ s = Ptr(f)
     /\ content' = [content EXCEPT ![s] = IF v = NULL THEN @ ELSE v]
     /\ UNCHANGED <<tagged_ptr, place>>
  \/ /\ CurrentType(f) \in {kDefault, kFixedSizeArena}
     /\ s \in Unused
     /\ SetTagged(f, s, TypeOn(a), AllocateString(s, a))
     /\ content' = [content EXCEPT ![s] =
                      IF v # NULL THEN v
                      ELSE IF CurrentType(f) = kDefault THEN EmptyValue ELSE content[Ptr(f)]]

Mutable(f, a) ==
  /\ Live(f)
  /\ \E s \in Strings : Own(f, a, s, NULL) /\ held' = [held EXCEPT ![f] = s]
  /\ UNCHANGED life

(* Setting a default field to the empty string does nothing.               *)
Set(f, v, a) ==
  /\ Live(f)
  /\ \/ /\ v = EmptyValue /\ IsDefault(f)
        /\ UNCHANGED <<tagged_ptr, place, content>>
     \/ /\ ~(v = EmptyValue /\ IsDefault(f))
        /\ \E s \in Strings : Own(f, a, s, v)
  /\ UNCHANGED <<life, held>>

(* The holder of the pointer assigns to the string.                        *)
WriteThrough(f, v) ==
  /\ held[f] # NULL
  /\ content' = [content EXCEPT ![held[f]] = v]
  /\ UNCHANGED <<tagged_ptr, place, life, held>>

(* Mutant: the heap string is deleted and stays the field's string.        *)
ClearKeepsWord(f) ==
  /\ Live(f)
  /\ place' = Delete(f, place)
  /\ held' = [held EXCEPT ![f] = NULL]
  /\ UNCHANGED <<tagged_ptr, content, life>>

(* Mutant: the heap string is not deleted.                                 *)
ClearLeaks(f) ==
  /\ Live(f)
  /\ tagged_ptr' = [tagged_ptr EXCEPT ![f] = DefaultWord]
  /\ held' = [held EXCEPT ![f] = NULL]
  /\ UNCHANGED <<place, content, life>>

(* Mutant: nothing is done about a string that the arena owns.             *)
ClearIgnoresArena(f) ==
  /\ Live(f)
  /\ place' = Delete(f, place)
  /\ tagged_ptr' = [tagged_ptr EXCEPT ![f] =
                      IF CurrentType(f) = kMutableArena THEN @ ELSE DefaultWord]
  /\ held' = [held EXCEPT ![f] = NULL]
  /\ UNCHANGED <<content, life>>

(* A heap string is deleted; one on an arena is left to the arena.         *)
Clear(f) ==
  /\ Live(f)
  /\ place' = Delete(f, place)
  /\ tagged_ptr' = [tagged_ptr EXCEPT ![f] = DefaultWord]
  /\ held' = [held EXCEPT ![f] = NULL]
  /\ UNCHANGED <<content, life>>

Destroy(f) ==
  /\ Live(f)
  /\ place' = Delete(f, place)
  /\ tagged_ptr' = [tagged_ptr EXCEPT ![f] = DefaultWord]
  /\ life' = [life EXCEPT ![f] = "gone"]
  /\ held' = [held EXCEPT ![f] = NULL]
  /\ UNCHANGED content

AllGone == (\A f \in Fields : life[f] = "gone") /\ UNCHANGED vars

Next ==
  \/ \E f \in Fields, a \in Arenas \cup {NULL} : Construct(f, a) \/ Mutable(f, a)
  \/ \E f \in Fields, v \in Values, a \in Arenas \cup {NULL} : Set(f, v, a)
  \/ \E f \in Fields, v \in Values : WriteThrough(f, v)
  \/ \E f \in Fields : Clear(f) \/ Destroy(f)
  \/ AllGone

Spec == Init /\ [][Next]_vars

(***************************************************************************)
(* Properties.                                                             *)
(***************************************************************************)

(* Every variable has its type, and no field ever is of the fixed size     *)
(* kind, for which Mutable() and Clear() have a branch.                    *)
TypeOK ==
  /\ tagged_ptr \in [Fields -> {Encode(s, type) : s \in Addresses,
                                  type \in {kDefault, kAllocated, kMutableArena}}]
  /\ place \in [Addresses -> Arenas \cup {"unused", "heap", "static", "freed"}]
  /\ content \in [Addresses -> Values]
  /\ life \in [Fields -> {"none", "live", "gone"}]
  /\ held \in [Fields -> Strings \cup {NULL}]

(* The two low bits tell the truth about where the string is, whichever    *)
(* arena each call was given: what is deleted is on the heap.              *)
TagTellsPlace ==
  \A f \in Fields :
    /\ IsDefault(f) => Ptr(f) = DefaultString
    /\ CurrentType(f) = kAllocated => place[Ptr(f)] = "heap"
    /\ CurrentType(f) = kMutableArena => place[Ptr(f)] \in Arenas

(* Only the default string is shared, and every string on the heap has a   *)
(* field that will delete it: there is neither a leak nor a double delete. *)
OneOwner ==
  /\ \A f, g \in Fields : f # g /\ Ptr(f) = Ptr(g) => IsDefault(f)
  /\ \A s \in Strings : place[s] = "heap" => \E f \in Fields : Ptr(f) = s /\ Live(f)

(* The pointer from Mutable() stays the field's string across calls of     *)
(* Set() and Mutable() with any arena: what is written through it is what  *)
(* Get() returns, and it never is the default string.                      *)
PointerStable ==
  \A f \in Fields : held[f] # NULL => held[f] = Ptr(f) /\ ~IsDefault(f)

(* The default string is never deleted, is the only one in its place, and  *)
(* stays empty; so is memory that nobody has written to.                   *)
MemoryInv ==
  /\ \A s \in Addresses : place[s] = "static" <=> s = DefaultString
  /\ \A s \in Addresses : place[s] \in {"static", "unused"} => content[s] = EmptyValue

(* A field has a string, and a caller a pointer to it, only while it lives.*)
LifeInv == \A f \in Fields : ~Live(f) => tagged_ptr[f] = DefaultWord /\ held[f] = NULL

(* Together these are inductive: that no two fields come to share a string *)
(* follows from the tags only because an unused string has no field, and   *)
(* that what is assigned through a pointer stays out of the default string *)
(* only because a pointer is to a string of a field's own.                 *)
IndInv ==
  /\ TypeOK
  /\ TagTellsPlace
  /\ OneOwner
  /\ PointerStable
  /\ MemoryInv
  /\ LifeInv

Stranded == {s \in Strings : place[s] \in Arenas /\ \A f \in Fields : Ptr(f) # s}

(* A string on an arena is left to it only when its field is cleared or    *)
(* destroyed, one at a time: Set() and Mutable() never leave one behind,   *)
(* whatever arenas they are given, and nothing that was left is used again.*)
OnlyClearingStrands ==
  [][/\ Stranded \subseteq Stranded'
     /\ Stranded' # Stranded =>
          \E f \in Fields : /\ Stranded' = Stranded \cup {Ptr(f)}
                            /\ tagged_ptr'[f] = DefaultWord]_vars

Cells == INSTANCE StringFields WITH
  value <- [f \in Fields |-> content[Ptr(f)]],
  has   <- [f \in Fields |-> ~IsDefault(f)],
  open  <- {f \in Fields : held[f] # NULL}

(* Seen through Get() and IsDefault(), fields are independent cells: no    *)
(* operation on one changes the value of another through memory.  The      *)
(* cells are those of the code: arena_string_test.cc has another opinion   *)
(* of what a string on an arena and an empty value are (MCTests).          *)
ImplementsCells == Cells!Spec

=============================================================================
