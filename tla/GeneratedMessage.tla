-------------------------- MODULE GeneratedMessage --------------------------
(***************************************************************************)
(* The class that compiler/generator/message_generator.py emits for a      *)
(* message: its fields in the order of the descriptor, and the methods     *)
(* that are put together field by field out of what GeneratedField says.   *)
(*                                                                         *)
(* A message is used by one thread at a time, so a method is one step, but *)
(* parsing goes on loop by loop, because it may end in the middle.         *)
(***************************************************************************)
EXTENDS GeneratedField

CONSTANTS
  Messages,     (* objects of the class                                    *)
  Order,        (* the fields in their order in the descriptor             *)
  Required,     (* the fields with label required                          *)
  Given,        (* the values that callers give to each field              *)
  Wires,        (* the inputs: sequences of occurrences                    *)
  MaxCalls      (* bound on the number of calls                            *)

ASSUME ClassAssumption ==
  /\ Order \in Seq(Fields) /\ ToSet(Order) = Fields /\ IsInjective(Order)
  /\ Required \subseteq Fields
  /\ NULL \notin Messages
  /\ MaxCalls \in Nat

ASSUME GivenAssumption == \A f \in Fields : Given[f] \subseteq ValuesOf(f)

(* An occurrence is what the wire has for a field, "on", or for none, NULL: *)
(* its bytes, the value they stand for, and whether they end the parse.    *)
ASSUME WiresAssumption ==
  \A w \in Wires : Len(w) \in Nat /\ DOMAIN w = 1 .. Len(w) /\ \A i \in DOMAIN w :
    /\ w[i].on \in Fields \cup {NULL}
    /\ w[i].bytes \in Seq(Byte)
    /\ w[i].ends \in {"no", "stopped", "failed"}

VARIABLES
  msg,        (* the fields of each message                                *)
  onArena,    (* was the message constructed on an arena?                  *)
  parsing,    (* the message that is being parsed, NULL if there is none   *)
  input, ptr, (* what it is parsed from, and how far that has come         *)
  outcome,    (* how the last parse ended: "none" yet, "done", "stopped"   *)
              (* before the end of the input, or "failed"                  *)
  wire,       (* what the input was made of, and what the message was when *)
  before,     (* its parse began: nothing reads these, but they tell what  *)
  from,       (* the parse should do; the message the input is from        *)
  calls

parseVars == <<parsing, input, ptr, outcome, wire, before, from>>
vars == <<msg, onArena, parseVars, calls>>

ByteSizeLong(fields) ==
  LET total[i \in 0 .. Len(Order)] ==
        IF i = 0 THEN 0 ELSE total[i - 1] + FieldSize(Order[i], fields[Order[i]])
  IN  total[Len(Order)]

Serialized(fields) == FlattenSeq([i \in DOMAIN Order |-> FieldBytes(Order[i], fields[Order[i]])])

(***************************************************************************)
(* The methods that are one step.                                          *)
(***************************************************************************)

Idle == parsing = NULL

Call == Idle /\ calls < MaxCalls /\ calls' = calls + 1

Init ==
  /\ onArena \in [Messages -> BOOLEAN]
  /\ msg = [m \in Messages |-> [f \in Fields |-> Constructed(f, onArena[m])]]
  /\ parsing = NULL /\ input = <<>> /\ ptr = Null /\ outcome = "none"
  /\ wire = <<>> /\ before = <<>> /\ from = NULL
  /\ calls = 0

Store(m, f, v) ==
  /\ msg' = [msg EXCEPT ![m][f] = v]
  /\ UNCHANGED <<onArena, parseVars>>

Set(m, f, x) ==
  /\ Call
  /\ "set" \in Accessors(f)
  /\ Store(m, f, Assigned(f, msg[m][f], x))

(* The pointer that mutable_ returns is written through at once.           *)
Mutate(m, f, x) ==
  /\ Call
  /\ "mutable" \in Accessors(f)
  /\ Store(m, f, Mutated(f, x))

(* The getter of a lazy field, which may parse it.                         *)
GetLazy(m, f) ==
  /\ Idle
  /\ f \in Lazies
  /\ Store(m, f, Opened(msg[m][f]))
  /\ UNCHANGED calls

Clear(m) ==
  /\ Call
  /\ msg' = [msg EXCEPT ![m] = [f \in Fields |-> Cleared(f)]]
  /\ UNCHANGED <<onArena, parseVars>>

(* IsInitialized() asks the required submessages only.                     *)
IsInitialized(fields) ==
  \A f \in Required :
    /\ Storage(f) = "message" => fields[f] \in Complete
    /\ Storage(f) = "LazyField" => LazyInitialized(fields[f])

MergeInto(to, m, n) ==
  msg' = [msg EXCEPT ![m] = [f \in Fields |-> MergeField(f, to[f], msg[n][f])],
                     ![n] = [f \in Fields |-> Consulted(f, msg[n][f])]]

MergeFrom(m, n) ==
  /\ m # n
  /\ Call
  /\ MergeInto(msg[m], m, n)
  /\ UNCHANGED <<onArena, parseVars>>

(* Mutant: the destination is not cleared.                                 *)
CopyOver(m, n) ==
  /\ m # n
  /\ Call
  /\ MergeInto(msg[m], m, n)
  /\ UNCHANGED <<onArena, parseVars>>

CopyFrom(m, n) ==
  /\ m # n
  /\ Call
  /\ MergeInto([f \in Fields |-> Cleared(f)], m, n)
  /\ UNCHANGED <<onArena, parseVars>>

(***************************************************************************)
(* _InternalParse().  Begin() hands it a wire; Transfer() clears m and     *)
(* hands it what n serializes to.                                          *)
(***************************************************************************)

Values(fields) == [f \in Fields |-> Observed(f, fields[f])]

Start(m, bytes) ==
  /\ Call
  /\ parsing' = m
  /\ input' = bytes
  /\ ptr' = 1
  /\ UNCHANGED <<onArena, outcome>>

Begin(m, w) ==
  /\ Start(m, FlattenSeq([i \in DOMAIN w |-> w[i].bytes]))
  /\ wire' = w
  /\ before' = Values(msg[m])
  /\ UNCHANGED <<msg, from>>

Transfer(m, n) ==
  /\ m # n
  /\ Start(m, Serialized(msg[n]))
  /\ msg' = [msg EXCEPT ![m] = [f \in Fields |-> Cleared(f)]]
  /\ from' = n
  /\ UNCHANGED <<wire, before>>

Parsing == parsing # NULL /\ outcome = "none"
Looping == Parsing /\ ptr <= Len(input)
NextTag == ReadTag(input, ptr)

End(how) ==
  /\ outcome' = how
  /\ UNCHANGED <<msg, onArena, parsing, input, ptr, wire, before, from, calls>>

(* ctx->Done(): the end, or past it.                                       *)
Done ==
  /\ Parsing
  /\ ptr > Len(input)
  /\ End(IF Inside(input, ptr) THEN "done" ELSE "failed")

(* Mutant: a tag that cannot be read does not end the loop.                *)
GoOn == /\ Looping /\ NextTag.value = 0
        /\ ptr' = NextTag.ptr
        /\ UNCHANGED <<msg, onArena, parsing, input, outcome, wire, before, from, calls>>

(* A tag that is zero or cannot be read: the pointer is returned.          *)
Stop == Looping /\ NextTag.value = 0 /\ End("stopped")

Advance(p) ==
  /\ ptr' = p
  /\ UNCHANGED <<onArena, parsing, input, outcome, wire, before, from, calls>>

(* The case of field f, and its wire type is the expected one.             *)
Occurs(f) == Looping /\ NextTag.value = Tag(f)

Keep(f, v, p) == msg' = [msg EXCEPT ![parsing][f] = v] /\ Advance(p)

Current(f) == msg[parsing][f]

ParseField(f) ==
  /\ Occurs(f)
  /\ \E r \in {ReadField(f, Current(f), input, NextTag.ptr)} :
       \/ r.ptr # Null /\ Keep(f, r.value, r.ptr)
       \/ r.ptr = Null /\ r.value # NULL /\ End("failed")
       \/ /\ r.ptr = Null /\ r.value = NULL
          /\ \E c \in Contents : msg' = [msg EXCEPT ![parsing][f] = c]
          /\ outcome' = "failed"
          /\ UNCHANGED <<onArena, parsing, input, ptr, wire, before, from, calls>>

(* A field the class does not have, or one with another wire type.         *)
SkipUnknown ==
  /\ Looping
  /\ NextTag.value # 0 /\ \A f \in Fields : NextTag.value # Tag(f)
  /\ LET next == SkipFieldInline(input, NextTag.ptr, NextTag.value)
     IN  IF next = Null THEN End("failed") ELSE UNCHANGED msg /\ Advance(next)

ParseStep ==
  \/ Done \/ Stop \/ SkipUnknown
  \/ \E f \in Fields : ParseField(f)

(* The caller has seen how the parse ended.                                *)
Return ==
  /\ outcome # "none"
  /\ parsing' = NULL /\ input' = <<>> /\ ptr' = Null /\ outcome' = "none"
  /\ wire' = <<>> /\ before' = <<>> /\ from' = NULL
  /\ UNCHANGED <<msg, onArena, calls>>

Next ==
  \/ \E m \in Messages, f \in Fields :
       \/ GetLazy(m, f)
       \/ \E x \in Given[f] : Set(m, f, x) \/ Mutate(m, f, x)
  \/ \E m \in Messages : Clear(m)
  \/ \E m, n \in Messages : MergeFrom(m, n) \/ CopyFrom(m, n) \/ Transfer(m, n)
  \/ \E m \in Messages, w \in Wires : Begin(m, w)
  \/ ParseStep
  \/ Return

Spec == Init /\ [][Next]_vars

(* A thread that parses goes on parsing.  The second conjunct is           *)
(* WF_vars(SkipUnknown \/ \E f \in Fields : ParseField(f)), as one of these  *)
(* steps is possible exactly while Tagged.                                 *)
Tagged == Looping /\ NextTag.value # 0

FairSpec ==
  /\ Spec
  /\ WF_vars(Done \/ Stop)
  /\ []<>~Tagged \/ []<><<Tagged>>_vars

(***************************************************************************)
(* Properties.                                                             *)
(***************************************************************************)

(* Every variable has its type, and only a string that has a value of its  *)
(* own, or a lazy field with a value, is not empty.                        *)
TypeOK ==
  /\ DOMAIN msg = Messages /\ \A m \in Messages : DOMAIN msg[m] = Fields
  /\ \A m \in Messages, f \in Fields :
       /\ msg[m][f] \in FieldStates(f)
       /\ Storage(f) = "ArenaString" => msg[m][f].has \/ msg[m][f].value = <<>>
       /\ f \in Lazies => msg[m][f].has \/ Observed(f, msg[m][f]) = Default
  /\ onArena \in [Messages -> BOOLEAN]
  /\ {parsing, from} \subseteq Messages \cup {NULL}
  /\ outcome \in {"none", "done", "stopped", "failed"}
  /\ input \in Seq(Byte) /\ ptr \in Nat
  /\ Parsing => ptr # Null
  /\ calls \in 0 .. MaxCalls

(* ByteSizeLong() adds up exactly the bytes that _InternalSerialize()      *)
(* writes, whatever was done to the message, in every storage kind: the    *)
(* caller allocates as many.                                               *)
SizeIsExact ==
  \A m \in Messages : ByteSizeLong(msg[m]) = Len(Serialized(msg[m]))

(* Is an occurrence what it claims, read by itself?  A field ends with its *)
(* last byte and has its value, or cannot be read; an unknown one is       *)
(* skipped to the last byte, or cannot be; or there is no tag.  What would *)
(* need more bytes is none of these.                                       *)
Carries(o, f) ==
  LET tag == ReadTag(o.bytes, 1)
      r   == ReadField(f, Cleared(f), o.bytes, tag.ptr)
      all == Len(o.bytes) + 1
  IN  /\ tag.value = Tag(f)
      /\ \/ o.ends = "no" /\ r.ptr = all /\ Observed(f, r.value) = o.value
         \/ /\ o.ends = "failed" /\ r.ptr = Null
            /\ Storage(f) = "message" =>
                 LET chunk == Chunk(o.bytes, ReadVarint(o.bytes, tag.ptr))
                 IN  chunk.ptr \in {Null, all} \/ IsNegative(Len(chunk.bytes))

IsUnknown(o) ==
  LET tag  == ReadTag(o.bytes, 1)
      next == SkipFieldInline(o.bytes, tag.ptr, tag.value)
  IN  /\ tag.value # 0 /\ \A f \in Fields : tag.value # Tag(f)
      /\ \/ o.ends = "no" /\ next = Len(o.bytes) + 1
         \/ o.ends = "failed" /\ next = Null

HasNoTag(o) ==
  /\ o.ends = "stopped"
  /\ ReadTag(o.bytes, 1).value = 0 /\ ReadVarint(o.bytes, 1).ptr # Beyond(o.bytes)

Faithful(o) == IF o.on \in Fields THEN Carries(o, o.on) ELSE IsUnknown(o) \/ HasNoTag(o)

WiresAreFaithful == \A w \in Wires : \A i \in DOMAIN w : Faithful(w[i])

(* The occurrences before the one that ends the parse, and that one.       *)
Stopper == SelectInSeq(wire, LAMBDA o : o.ends # "no")
Applied == IF Stopper = 0 THEN DOMAIN wire ELSE 1 .. Stopper - 1

(* The value an input without occurrences of f leaves as it was, and the   *)
(* last occurrence decides otherwise.                                      *)
Decided(f) ==
  LET on == {i \in Applied : wire[i].on = f}
  IN  IF on = {} THEN before[f] ELSE wire[Max(on)].value

(* When a parse of a wire has ended, each field has the value of its last  *)
(* occurrence before the bytes that ended the parse, or its old one; no    *)
(* unknown field, no known one with another wire type, and no number,      *)
(* string or lazy field that cannot be read makes a difference.  Only an   *)
(* eagerly parsed submessage that ended the parse is left open.            *)
LastWins ==
  outcome # "none" /\ from = NULL =>
    /\ outcome = IF Stopper = 0 THEN "done" ELSE wire[Stopper].ends
    /\ \A f \in Fields :
         \/ Stopper # 0 /\ wire[Stopper].on = f /\ Storage(f) = "message"
         \/ Observed(f, Current(f)) = Decided(f)

Submessages == {f \in Fields : Type[f] = "message"}

(* Parsing what a message serializes to gives its values back, a negative  *)
(* zero as a positive one.  It fails exactly when an eagerly parsed        *)
(* submessage is written, for it is not if that takes no bytes, and lacks  *)
(* required fields; a lazy one that lacks them is read as an empty one; if *)
(* all submessages are required and IsInitialized() is true, neither       *)
(* happens.                                                                *)
RoundTrip ==
  outcome # "none" /\ from # NULL =>
    LET sent    == Values(msg[from])
        partial == {f \in Submessages :
                      FieldBytes(f, msg[from][f]) # <<>> /\ sent[f] \notin Complete}
    IN  /\ outcome = "done" <=> partial \subseteq Lazies
        /\ outcome = "done" =>
             \A f \in Fields :
               Observed(f, Current(f)) =
                 IF f \in partial THEN Default ELSE Settled(f, sent[f])
        /\ Submessages \subseteq Required /\ IsInitialized(msg[from]) =>
             partial = {} /\ outcome = "done"

(* CopyFrom() gives the destination the values of the source, and what     *)
(* the source stands for does not change; only a lazy submessage that      *)
(* lacks required fields is not copied but left empty.                     *)
CopyCopies ==
  [][\A m, n \in Messages : CopyFrom(m, n) =>
       \A f \in Fields :
         LET source == Observed(f, msg[n][f])
         IN  /\ Observed(f, msg'[n][f]) = source
             /\ Observed(f, msg'[m][f]) =
                  IF f \in Lazies /\ source \notin Complete THEN Default
                  ELSE Settled(f, source)]_vars

(* MergeFrom() leaves alone what the source would not even serialize.  The *)
(* exception is exact: a lazy field becomes present and empty, because an  *)
(* absent one counts as initialized.                                       *)
MergeKeeps ==
  [][\A m, n \in Messages : MergeFrom(m, n) =>
       \A f \in Fields : FieldBytes(f, msg[n][f]) = <<>> =>
         Observed(f, msg'[m][f]) =
           IF f \in Lazies THEN Default ELSE Observed(f, msg[m][f])]_vars

(* Every parse comes to an end.                                            *)
ParseEnds == Parsing ~> outcome # "none"

=============================================================================
