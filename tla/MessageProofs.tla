---------------------------- MODULE MessageProofs ---------------------------
(***************************************************************************)
(* What holds of the generated class for any fields, of whatever types,    *)
(* any number of messages and whatever bytes they are parsed from.         *)
(***************************************************************************)
EXTENDS GeneratedMessage, FieldProofs

(***************************************************************************)
(* Sums over the fields.                                                   *)
(***************************************************************************)

(* The sums of the sizes, one after the other.                             *)
Sums(t, size, n) ==
  /\ t \in [0 .. n -> Nat]
  /\ \A i \in 0 .. n : t[i] = IF i = 0 THEN 0 ELSE t[i - 1] + size[i]

(* They exist.                                                             *)
LEMMA TotalsExist ==
  ASSUME NEW n \in Nat, NEW size, \A i \in 1 .. n : size[i] \in Nat
  PROVE  \E t : Sums(t, size, n)
<1> DEFINE D == 0 .. n
           B == {0}
           base == [k \in B |-> 0]
           pred == [k \in D |-> IF k = 0 THEN 0 ELSE k - 1]
           rec == [k \in D |-> [x \in Nat |-> IF k = 0 THEN 0 ELSE x + size[k]]]
<1>1. 0 \in D /\ D \in SUBSET Nat /\ \A k \in D \ {0} : k - 1 \in D /\ k - 1 < k
  OBVIOUS
<1>2. \A k \in D \ {0} : size[k] \in Nat
  OBVIOUS
<1> HIDE DEF D
<1>3. /\ B \in SUBSET D /\ D \in SUBSET Nat /\ pred \in [D -> Nat]
      /\ base \in [B -> Nat] /\ rec \in [D -> [Nat -> Nat]] /\ Nat # {}
  BY <1>1, <1>2
<1>4. Descends(D, B, pred)
  BY <1>1 DEF Descends
<1>5. \E f \in [D -> Nat] : Recurs(f, D, B, base, pred, rec)
  <2> HIDE DEF B, base, pred, rec
  <2> QED
    BY <1>3, <1>4, RecursionExists, Zenon
<1>6. PICK f \in [D -> Nat] : Recurs(f, D, B, base, pred, rec)
  BY <1>5
<1>7. \A i \in D : f[i] = IF i = 0 THEN 0 ELSE f[i - 1] + size[i]
  <2> SUFFICES ASSUME NEW i \in D
               PROVE  f[i] = IF i = 0 THEN 0 ELSE f[i - 1] + size[i]
    OBVIOUS
  <2>1. CASE i = 0
    BY <1>6, <2>1 DEF Recurs
  <2>2. CASE i # 0
    <3>1. f[i] = rec[i][f[pred[i]]] /\ pred[i] = i - 1 /\ i - 1 \in D
      BY <1>1, <1>6, <2>2 DEF Recurs
    <3>2. f[i - 1] \in Nat
      BY <1>6, <3>1
    <3> QED
      BY <2>2, <3>1, <3>2
  <2> QED
    BY <2>1, <2>2
<1> QED
  BY <1>6, <1>7 DEF D, Sums

(* The size of a message is the length of what is written, if each field's *)
(* is.                                                                     *)
LEMMA SizesAddUp ==
  ASSUME NEW fields,
         \A f \in Fields : /\ FieldBytes(f, fields[f]) \in Seq(Byte)
                           /\ FieldSize(f, fields[f]) = Len(FieldBytes(f, fields[f]))
  PROVE  /\ Serialized(fields) \in Seq(Byte)
         /\ ByteSizeLong(fields) = Len(Serialized(fields))
<1> DEFINE n == Len(Order)
           w == [i \in 1 .. n |-> FieldBytes(Order[i], fields[Order[i]])]
           size == [i \in 1 .. n |-> FieldSize(Order[i], fields[Order[i]])]
           sum[i \in 0 .. n] ==
             IF i = 0 THEN 0 ELSE sum[i - 1] + FieldSize(Order[i], fields[Order[i]])
<1>1. n \in Nat /\ DOMAIN Order = 1 .. n /\ \A i \in 1 .. n : Order[i] \in Fields
  BY ClassAssumption
<1>2. \A i \in 1 .. n : w[i] \in Seq(Byte) /\ size[i] = Len(w[i]) /\ size[i] \in Nat
  BY <1>1
<1>3. Len(w) = n /\ (n = 0 => w = <<>>)
  BY <1>1
<1>4. Serialized(fields) = FlattenSeq(w)
  BY <1>1 DEF Serialized
<1>5. ByteSizeLong(fields) = sum[n]
  BY DEF ByteSizeLong
<1> HIDE DEF n, w
<1>6. PICK part : Grows(part, w, n)
  BY <1>1, <1>2, PartsExist
<1>7. FlattenSeq(w) = part[n] /\ part[n] \in Seq(Byte)
  BY <1>1, <1>2, <1>3, <1>6, FlattenedIsPart
<1>8. PICK t : Sums(t, size, n)
  <2> HIDE DEF size, sum
  <2>1. \A i \in 1 .. n : size[i] \in Nat
    BY <1>2
  <2> QED
    BY <1>1, <2>1, TotalsExist
<1> DEFINE Adds(h) == h = [i \in 0 .. n |->
                           IF i = 0 THEN 0 ELSE h[i - 1] + FieldSize(Order[i], fields[Order[i]])]
<1>9. Adds(t)
  <2>1. \A i \in 0 .. n : i # 0 => size[i] = FieldSize(Order[i], fields[Order[i]])
    BY <1>1
  <2> HIDE DEF size
  <2>2. ASSUME NEW i \in 0 .. n
        PROVE  t[i] = IF i = 0 THEN 0 ELSE t[i - 1] + FieldSize(Order[i], fields[Order[i]])
    <3>1. t[i] = IF i = 0 THEN 0 ELSE t[i - 1] + size[i]
      BY <1>8 DEF Sums
    <3> QED
      BY <2>1, <3>1
  <2>3. t = [i \in 0 .. n |-> t[i]]
    BY <1>8 DEF Sums
  <2> QED
    BY <2>2, <2>3
<1>10. Adds(sum)
  BY <1>9
<1> HIDE DEF sum
<1>11. sum[0] = 0 /\ \A i \in 1 .. n : sum[i] = sum[i - 1] + size[i]
  <2>1. 0 \in 0 .. n /\ \A i \in 1 .. n : i \in 0 .. n /\ i # 0
    BY <1>1
  <2>2. sum[0] = 0
    BY <1>10, <2>1
  <2>3. ASSUME NEW i \in 1 .. n
        PROVE  sum[i] = sum[i - 1] + size[i]
    <3>1. i \in 0 .. n /\ i # 0
      BY <2>1
    <3>2. sum[i] = sum[i - 1] + FieldSize(Order[i], fields[Order[i]])
      BY <1>10, <3>1
    <3> QED
      BY <3>2
  <2> QED
    BY <2>2, <2>3
<1> HIDE DEF size
<1> DEFINE T == {k \in Nat : k <= n => sum[k] = Len(part[k])}
<1>12. ASSUME NEW k \in Nat, k < n, k \in T
       PROVE  k + 1 \in T
  <2>1. k + 1 \in 1 .. n /\ (k + 1) - 1 = k /\ k \in 0 .. n
    BY <1>1, <1>12
  <2>2. part[k + 1] = part[k] \o w[k + 1] /\ part[k] \in Seq(Byte)
    BY <1>6, <2>1 DEF Grows
  <2>3. sum[k + 1] = sum[k] + size[k + 1]
    BY <1>11, <2>1
  <2>4. Len(part[k + 1]) = Len(part[k]) + Len(w[k + 1])
    <3>1. w[k + 1] \in Seq(Byte)
      BY <1>2, <2>1
    <3> QED
      BY <2>2, <3>1
  <2>5. sum[k] = Len(part[k]) /\ size[k + 1] = Len(w[k + 1])
    BY <1>1, <1>2, <1>12, <2>1
  <2>6. sum[k + 1] = Len(part[k + 1])
    BY <2>3, <2>4, <2>5
  <2> QED
    BY <2>6
<1>13. 0 \in T /\ T \in SUBSET Nat
  BY <1>6, <1>11 DEF Grows
<1>14. n \in T
  <2> HIDE DEF T
  <2> QED
    BY <1>1, <1>12, <1>13, SetsClimb
<1>15. sum[n] = Len(part[n])
  BY <1>1, <1>14
<1> QED
  BY <1>4, <1>5, <1>7, <1>15

(***************************************************************************)
(* The message.                                                            *)
(***************************************************************************)

(* The members of a message are sound.                                     *)
SoundFields(fields) == DOMAIN fields = Fields /\ \A f \in Fields : Sound(f, fields[f])

SoundMessages(all) == DOMAIN all = Messages /\ \A m \in Messages : SoundFields(all[m])

(* Where the parse is.                                                     *)
Parser ==
  /\ {parsing, from} \subseteq Messages \cup {NULL}
  /\ outcome \in {"none", "done", "stopped", "failed"}
  /\ input \in Seq(Byte) /\ ptr \in Nat
  /\ Parsing => ptr # Null

(* TypeOK, message by message.                                             *)
LEMMA TypeInParts ==
  TypeOK <=> /\ SoundMessages(msg)
             /\ onArena \in [Messages -> BOOLEAN]
             /\ Parser
             /\ calls \in 0 .. MaxCalls
<1>1. SoundMessages(msg) <=>
        /\ DOMAIN msg = Messages /\ \A m \in Messages : DOMAIN msg[m] = Fields
        /\ \A m \in Messages, f \in Fields : Sound(f, msg[m][f])
  BY DEF SoundMessages, SoundFields
<1> QED
  BY <1>1 DEF TypeOK, Parser, Sound

(* A serialized message is a sequence of bytes of the size measured.       *)
LEMMA MessagesAreMeasured ==
  ASSUME NEW fields, SoundFields(fields)
  PROVE  /\ Serialized(fields) \in Seq(Byte)
         /\ ByteSizeLong(fields) = Len(Serialized(fields))
<1>1. \A f \in Fields : Measured(f, fields[f])
  BY FieldsAreMeasured DEF SoundFields
<1> QED
  BY <1>1, SizesAddUp DEF Measured

(* The input that a wire is.                                               *)
LEMMA WiresAreBytes ==
  ASSUME NEW w \in Wires
  PROVE  FlattenSeq([i \in DOMAIN w |-> w[i].bytes]) \in Seq(Byte)
<1> DEFINE n == Len(w)
           b == [i \in DOMAIN w |-> w[i].bytes]
<1>1. n \in Nat /\ DOMAIN w = 1 .. n /\ \A i \in 1 .. n : b[i] \in Seq(Byte)
  BY WiresAssumption
<1>2. Len(b) = n /\ (n = 0 => b = <<>>)
  BY <1>1
<1> HIDE DEF n, b
<1>3. PICK part : Grows(part, b, n)
  BY <1>1, PartsExist
<1>4. FlattenSeq(b) \in Seq(Byte)
  BY <1>1, <1>2, <1>3, FlattenedIsPart
<1> QED
  BY <1>4 DEF b

(* Clear() leaves sound members.                                           *)
LEMMA ClearedFields ==
  SoundFields([f \in Fields |-> Cleared(f)])
BY ClearedIsSound DEF SoundFields

(* One member is replaced.                                                 *)
LEMMA StoredIsSound ==
  ASSUME SoundMessages(msg), NEW m \in Messages, NEW f \in Fields, NEW v, Sound(f, v)
  PROVE  SoundMessages([msg EXCEPT ![m][f] = v])
BY DEF SoundMessages, SoundFields

(* All members of a message are replaced.                                  *)
LEMMA ReplacedIsSound ==
  ASSUME SoundMessages(msg), NEW m \in Messages, NEW fields, SoundFields(fields)
  PROVE  SoundMessages([msg EXCEPT ![m] = fields])
BY DEF SoundMessages

(* One message is merged into another.                                     *)
LEMMA MergedIsSound ==
  ASSUME SoundMessages(msg), NEW m \in Messages, NEW n \in Messages,
         NEW to, SoundFields(to), MergeInto(to, m, n)
  PROVE  SoundMessages(msg')
<1> DEFINE a == [f \in Fields |-> MergeField(f, to[f], msg[n][f])]
           b == [f \in Fields |-> Consulted(f, msg[n][f])]
<1>1. \A f \in Fields : Sound(f, to[f]) /\ Sound(f, msg[n][f])
  BY DEF SoundMessages, SoundFields
<1>2. SoundFields(a) /\ SoundFields(b)
  BY <1>1, MergeIsSound DEF SoundFields
<1>3. msg' = [msg EXCEPT ![m] = a, ![n] = b]
  BY DEF MergeInto
<1> HIDE DEF a, b
<1> QED
  BY <1>2, <1>3 DEF SoundMessages
(* The tag behind the pointer.                                             *)
LEMMA NextTagIsTyped ==
  ASSUME input \in Seq(Byte), ptr \in Nat, Parsing => ptr # Null, Looping
  PROVE  NextTag.ptr \in Nat \ {0} /\ NextTag.value \in Nat
<1>1. ptr \in Nat \ {0} /\ input \in Seq(Byte)
  BY DEF Looping, Null
<1> DEFINE r == ReadVarint(input, ptr)
<1>2. r \in Readings(Word)
  BY <1>1, ReadersAreTyped
<1>3. Word \in Nat /\ Word32 \in Nat \ {0}
  BY WordAssumption
<1> HIDE DEF r
<1>4. r.ptr \in Nat /\ r.value \in Nat
  BY <1>2, <1>3 DEF Readings
<1>5. r.value % Word32 \in Nat
  BY <1>3, <1>4, Divides
<1>6. NextTag = IF r.ptr = Null THEN [ptr |-> ptr, value |-> 0]
                ELSE [r EXCEPT !.value = @ % Word32]
  BY DEF NextTag, ReadTag, r
<1>7. r.ptr # Null => NextTag.ptr = r.ptr /\ NextTag.value = r.value % Word32
  BY <1>2, <1>6 DEF Readings
<1> QED
  BY <1>1, <1>4, <1>5, <1>6, <1>7 DEF Null

(* Constructed messages have their types.                                  *)
LEMMA InitIsTyped ==
  ASSUME Init
  PROVE  TypeOK
<1>1. SoundMessages(msg)
  <2>1. \A m \in Messages : SoundFields([f \in Fields |-> Constructed(f, onArena[m])])
    <3> SUFFICES ASSUME NEW m \in Messages
                 PROVE  SoundFields([f \in Fields |-> Constructed(f, onArena[m])])
      OBVIOUS
    <3>1. onArena[m] \in BOOLEAN
      BY DEF Init
    <3> QED
      BY <3>1, ClearedIsSound DEF SoundFields
  <2>2. msg = [m \in Messages |-> [f \in Fields |-> Constructed(f, onArena[m])]]
    BY DEF Init
  <2> QED
    BY <2>1, <2>2 DEF SoundMessages
<1>2. Parser
  BY DEF Init, Parser, Parsing, Null
<1>3. calls \in 0 .. MaxCalls
  BY ClassAssumption DEF Init
<1> QED
  BY <1>1, <1>2, <1>3, TypeInParts DEF Init

(* A step that leaves the parse alone, or the messages.                    *)
Idling == SoundMessages(msg') /\ UNCHANGED <<onArena, parseVars>> /\ calls' \in 0 .. MaxCalls

(* No step leaves a type.                                                  *)
LEMMA StepKeepsType ==
  ASSUME TypeOK, [Next]_vars
  PROVE  TypeOK'
<1> DEFINE Typed == /\ SoundMessages(msg') /\ onArena' \in [Messages -> BOOLEAN] /\ Parser'
                    /\ calls' \in 0 .. MaxCalls
<1>1. /\ SoundMessages(msg) /\ onArena \in [Messages -> BOOLEAN] /\ Parser
      /\ calls \in 0 .. MaxCalls
  BY TypeInParts
<1>2. Call => calls' \in 0 .. MaxCalls
  BY <1>1, ClassAssumption DEF Call
<1>3. Idling => Typed
  BY <1>1 DEF Idling, parseVars, Parser, Parsing
<1>4. \A m \in Messages : SoundFields(msg[m]) /\ \A f \in Fields : Sound(f, msg[m][f])
  BY <1>1 DEF SoundMessages, SoundFields
<1> HIDE DEF Typed
<1>5. ASSUME NEW m \in Messages, NEW f \in Fields, NEW v, Sound(f, v), Store(m, f, v),
             calls' \in 0 .. MaxCalls
      PROVE  Typed
  <2>1. SoundMessages([msg EXCEPT ![m][f] = v])
    BY <1>1, <1>5, StoredIsSound
  <2> QED
    BY <1>3, <1>5, <2>1 DEF Store, Idling
<1>6. ASSUME NEW m \in Messages, NEW f \in Fields, NEW x \in Given[f], Set(m, f, x)
      PROVE  Typed
  <2>1. Sound(f, Assigned(f, msg[m][f], x))
    BY <1>4, <1>6, WritesAreSound, GivenAssumption DEF Set
  <2> QED
    BY <1>2, <1>5, <1>6, <2>1 DEF Set
<1>7. ASSUME NEW m \in Messages, NEW f \in Fields, NEW x \in Given[f], Mutate(m, f, x)
      PROVE  Typed
  <2>1. Sound(f, Mutated(f, x))
    BY <1>4, <1>7, WritesAreSound, GivenAssumption DEF Mutate
  <2> QED
    BY <1>2, <1>5, <1>7, <2>1 DEF Mutate
<1>8. ASSUME NEW m \in Messages, NEW f \in Fields, GetLazy(m, f)
      PROVE  Typed
  <2>1. Sound(f, Opened(msg[m][f]))
    BY <1>4, <1>8, OpenedIsSound DEF GetLazy
  <2> QED
    BY <1>1, <1>5, <1>8, <2>1 DEF GetLazy
<1>9. ASSUME NEW m \in Messages, Clear(m)
      PROVE  Typed
  <2>1. SoundMessages([msg EXCEPT ![m] = [f \in Fields |-> Cleared(f)]])
    BY <1>1, ClearedFields, ReplacedIsSound
  <2> QED
    BY <1>2, <1>3, <1>9, <2>1 DEF Clear, Idling
<1>10. ASSUME NEW m \in Messages, NEW n \in Messages, MergeFrom(m, n)
       PROVE  Typed
  <2>1. SoundMessages(msg')
    BY <1>1, <1>4, <1>10, MergedIsSound DEF MergeFrom
  <2> QED
    BY <1>2, <1>3, <1>10, <2>1 DEF MergeFrom, Idling
<1>11. ASSUME NEW m \in Messages, NEW n \in Messages, CopyFrom(m, n)
       PROVE  Typed
  <2>1. SoundMessages(msg')
    BY <1>1, <1>11, ClearedFields, MergedIsSound DEF CopyFrom
  <2> QED
    BY <1>2, <1>3, <1>11, <2>1 DEF CopyFrom, Idling
<1>12. ASSUME NEW m \in Messages, NEW bytes \in Seq(Byte), Start(m, bytes),
              from' \in Messages \cup {NULL}, SoundMessages(msg')
       PROVE  Typed
  <2>1. /\ parsing' = m /\ input' = bytes /\ ptr' = 1 /\ outcome' = outcome
        /\ onArena' = onArena /\ calls' \in 0 .. MaxCalls
    BY <1>2, <1>12 DEF Start
  <2>2. Parser'
    BY <1>1, <1>12, <2>1 DEF Parser, Null
  <2> QED
    BY <1>1, <1>12, <2>1, <2>2 DEF Typed
<1>13. ASSUME NEW m \in Messages, NEW w \in Wires, Begin(m, w)
       PROVE  Typed
  <2>1. FlattenSeq([i \in DOMAIN w |-> w[i].bytes]) \in Seq(Byte)
    BY WiresAreBytes
  <2>2. from' \in Messages \cup {NULL} /\ SoundMessages(msg')
    BY <1>1, <1>13 DEF Begin, Parser
  <2> QED
    BY <1>12, <1>13, <2>1, <2>2 DEF Begin
<1>14. ASSUME NEW m \in Messages, NEW n \in Messages, Transfer(m, n)
       PROVE  Typed
  <2>1. Serialized(msg[n]) \in Seq(Byte)
    BY <1>4, MessagesAreMeasured
  <2>2. from' \in Messages \cup {NULL}
    BY <1>14 DEF Transfer
  <2>3. SoundMessages(msg')
    BY <1>1, <1>14, ClearedFields, ReplacedIsSound DEF Transfer
  <2> QED
    BY <1>12, <1>14, <2>1, <2>2, <2>3 DEF Transfer
<1>15. ASSUME NEW how \in {"done", "stopped", "failed"}, End(how)
       PROVE  Typed
  <2>1. /\ UNCHANGED <<msg, onArena, parsing, input, ptr, from, calls>>
        /\ outcome' = how /\ how # "none"
    BY <1>15 DEF End
  <2>2. Parser'
    BY <1>1, <2>1 DEF Parser, Parsing
  <2> QED
    BY <1>1, <2>1, <2>2 DEF Typed
<1>16. ASSUME NEW p \in Nat, p # Null, Advance(p), SoundMessages(msg')
       PROVE  Typed
  <2>1. UNCHANGED <<onArena, parsing, input, outcome, from, calls>> /\ ptr' = p
    BY <1>16 DEF Advance
  <2>2. Parser'
    BY <1>1, <1>16, <2>1 DEF Parser, Parsing
  <2> QED
    BY <1>1, <1>16, <2>1, <2>2 DEF Typed
<1>17. Looping => /\ NextTag.ptr \in Nat \ {0} /\ NextTag.value \in Nat
                  /\ parsing \in Messages /\ input \in Seq(Byte)
  BY <1>1, NextTagIsTyped DEF Parser, Looping, Parsing
<1>18. ASSUME NEW f \in Fields, ParseField(f)
       PROVE  Typed
  <2> DEFINE r == ReadField(f, Current(f), input, NextTag.ptr)
  <2>1. /\ NextTag.ptr \in Nat \ {0} /\ parsing \in Messages /\ input \in Seq(Byte)
        /\ Sound(f, Current(f))
    BY <1>4, <1>17, <1>18 DEF ParseField, Occurs, Current
  <2>2. r.ptr \in Nat /\ (r.ptr # Null => Sound(f, r.value))
        /\ (r.value = NULL => Storage(f) = "message")
    BY <2>1, ReadingIsSound
  <2>3. \/ r.ptr # Null /\ Keep(f, r.value, r.ptr)
        \/ r.ptr = Null /\ r.value # NULL /\ End("failed")
        \/ /\ r.value = NULL
           /\ \E c \in Contents : msg' = [msg EXCEPT ![parsing][f] = c]
           /\ outcome' = "failed"
           /\ UNCHANGED <<onArena, parsing, input, ptr, wire, before, from, calls>>
    BY <1>18 DEF ParseField
  <2> HIDE DEF r
  <2>4. CASE r.ptr # Null /\ Keep(f, r.value, r.ptr)
    <3>1. SoundMessages([msg EXCEPT ![parsing][f] = r.value])
      BY <1>1, <2>1, <2>2, <2>4, StoredIsSound
    <3> QED
      BY <1>16, <2>2, <2>4, <3>1 DEF Keep
  <2>5. CASE End("failed")
    BY <1>15, <2>5
  <2>6. CASE /\ r.value = NULL
             /\ \E c \in Contents : msg' = [msg EXCEPT ![parsing][f] = c]
             /\ outcome' = "failed"
             /\ UNCHANGED <<onArena, parsing, input, ptr, wire, before, from, calls>>
    <3>1. PICK c \in Contents : msg' = [msg EXCEPT ![parsing][f] = c]
      BY <2>6
    <3>2. Sound(f, c)
      BY <2>2, <2>6, SoundSubmessages
    <3>3. SoundMessages(msg')
      BY <1>1, <2>1, <3>1, <3>2, StoredIsSound
    <3>4. Parser'
      BY <1>1, <2>6 DEF Parser, Parsing
    <3> QED
      BY <1>1, <2>6, <3>3, <3>4 DEF Typed
  <2> QED
    BY <2>3, <2>4, <2>5, <2>6
<1>19. ASSUME SkipUnknown
       PROVE  Typed
  <2> DEFINE next == SkipFieldInline(input, NextTag.ptr, NextTag.value)
  <2>1. next \in Nat
    BY <1>17, <1>19, FieldsAreSkipped DEF SkipUnknown
  <2>2. IF next = Null THEN End("failed") ELSE UNCHANGED msg /\ Advance(next)
    BY <1>19 DEF SkipUnknown
  <2> HIDE DEF next
  <2> QED
    BY <1>1, <1>15, <1>16, <2>1, <2>2
<1>20. ASSUME Done \/ Stop
       PROVE  Typed
  BY <1>15, <1>20 DEF Done, Stop
<1>21. ASSUME Return
       PROVE  Typed
  <2>1. parsing' = NULL /\ input' = <<>> /\ ptr' = 0 /\ outcome' = "none" /\ from' = NULL
    BY <1>21 DEF Return, Null
  <2>2. Parser'
    BY <2>1 DEF Parser, Parsing
  <2> QED
    BY <1>1, <1>21, <2>2 DEF Return, Typed
<1>22. ASSUME UNCHANGED vars
       PROVE  Typed
  BY <1>1, <1>3, <1>22 DEF vars, Idling
<1>23. Typed
  BY <1>6, <1>7, <1>8, <1>9, <1>10, <1>11, <1>13, <1>14, <1>18, <1>19, <1>20, <1>21, <1>22
     DEF Next, ParseStep
<1>24. SoundMessages(msg') =>
         /\ DOMAIN msg' = Messages /\ \A m \in Messages : DOMAIN msg'[m] = Fields
         /\ \A m \in Messages, f \in Fields : Sound(f, msg'[m][f])
  BY DEF SoundMessages, SoundFields
<1> QED
  BY <1>23, <1>24 DEF Typed, TypeOK, Parser, Sound

(* Every variable has its type, in particular every member is one its      *)
(* storage can hold, a string that was not set is empty and an absent lazy *)
(* field reads as the default.                                             *)
THEOREM MessagesAreTyped == Spec => []TypeOK
<1>1. Init => TypeOK
  BY InitIsTyped
<1>2. TypeOK /\ [Next]_vars => TypeOK'
  BY StepKeepsType
<1> QED
  BY <1>1, <1>2, PTL DEF Spec

(* What ByteSizeLong() returns, which is what the caller allocates, is what*)
(* _InternalSerialize() writes.                                            *)
THEOREM MessageSizeIsExact == Spec => []SizeIsExact
<1>1. TypeOK => SizeIsExact
  <2> SUFFICES ASSUME TypeOK, NEW m \in Messages
               PROVE  ByteSizeLong(msg[m]) = Len(Serialized(msg[m]))
    BY DEF SizeIsExact
  <2>1. SoundFields(msg[m])
    BY TypeInParts DEF SoundMessages
  <2> QED
    BY <2>1, MessagesAreMeasured
<1> QED
  BY <1>1, MessagesAreTyped, PTL

(***************************************************************************)
(* Merging.                                                                *)
(***************************************************************************)

(* The messages after a merge.                                             *)
LEMMA MergedFields ==
  ASSUME TypeOK, NEW m \in Messages, NEW n \in Messages, m # n, NEW to, MergeInto(to, m, n),
         NEW f \in Fields
  PROVE  /\ msg'[m][f] = MergeField(f, to[f], msg[n][f])
         /\ msg'[n][f] = Consulted(f, msg[n][f])
         /\ Sound(f, msg[m][f]) /\ Sound(f, msg[n][f])
<1>1. SoundMessages(msg)
  BY TypeInParts
<1> QED
  BY <1>1 DEF MergeInto, SoundMessages, SoundFields

(* Merging leaves alone what the source would not even serialize, with the *)
(* exception of lazy fields, which it makes present and empty.             *)
THEOREM MergingKeeps == Spec => MergeKeeps
<1>1. ASSUME TypeOK, NEW m \in Messages, NEW n \in Messages, MergeFrom(m, n),
             NEW f \in Fields, FieldBytes(f, msg[n][f]) = <<>>
      PROVE  Observed(f, msg'[m][f]) = IF f \in Lazies THEN Default ELSE Observed(f, msg[m][f])
  <2>1. m # n /\ MergeInto(msg[m], m, n)
    BY <1>1 DEF MergeFrom
  <2>2. msg'[m][f] = MergeField(f, msg[m][f], msg[n][f]) /\ Sound(f, msg[n][f])
    BY <1>1, <2>1, MergedFields
  <2> QED
    BY <1>1, <2>2, EmptyIsMerged
<1> DEFINE Kept == \A m, n \in Messages : MergeFrom(m, n) =>
                     \A f \in Fields : FieldBytes(f, msg[n][f]) = <<>> =>
                       Observed(f, msg'[m][f]) =
                         IF f \in Lazies THEN Default ELSE Observed(f, msg[m][f])
<1>2. TypeOK => Kept
  BY <1>1
<1> QED
  BY <1>2, MessagesAreTyped, PTL DEF MergeKeeps

(* CopyFrom() gives the destination the values of the source, whose own    *)
(* do not change; only a lazy submessage that lacks required fields is not *)
(* copied but left empty.                                                  *)
THEOREM CopyingCopies ==
  ASSUME MergingCopies
  PROVE  Spec => CopyCopies
<1>1. ASSUME TypeOK, NEW m \in Messages, NEW n \in Messages, CopyFrom(m, n), NEW f \in Fields
      PROVE  LET source == Observed(f, msg[n][f])
             IN  /\ Observed(f, msg'[n][f]) = source
                 /\ Observed(f, msg'[m][f]) =
                      IF f \in Lazies /\ source \notin Complete THEN Default
                      ELSE Settled(f, source)
  <2> DEFINE to == [g \in Fields |-> Cleared(g)]
  <2>1. m # n /\ MergeInto(to, m, n)
    BY <1>1 DEF CopyFrom
  <2>2. to[f] = Cleared(f)
    OBVIOUS
  <2> HIDE DEF to
  <2>3. /\ msg'[m][f] = MergeField(f, to[f], msg[n][f])
        /\ msg'[n][f] = Consulted(f, msg[n][f])
        /\ Sound(f, msg[n][f])
    BY <1>1, <2>1, MergedFields
  <2> QED
    BY <2>2, <2>3, ClearedIsMerged, ConsultingIsReading
<1> DEFINE Copied == \A m, n \in Messages : CopyFrom(m, n) =>
                       \A f \in Fields :
                         LET source == Observed(f, msg[n][f])
                         IN  /\ Observed(f, msg'[n][f]) = source
                             /\ Observed(f, msg'[m][f]) =
                                  IF f \in Lazies /\ source \notin Complete THEN Default
                                  ELSE Settled(f, source)
<1>2. TypeOK => Copied
  BY <1>1
<1> QED
  BY <1>2, MessagesAreTyped, PTL DEF CopyCopies
(***************************************************************************)
(* The round trip.  What is written for the fields stands in the input one *)
(* after the other, each with a tag that is no other field's, so the parser*)
(* finds each and nothing else; Stage says how far it has come.            *)
(***************************************************************************)

(* What is written of each field, in order.                                *)
Written(fields) == [i \in 1 .. Len(Order) |-> FieldBytes(Order[i], fields[Order[i]])]

(* The first k fields have been read into to, and p is behind them.        *)
Stage(fields, to, p, k) ==
  /\ \E part : /\ Grows(part, Written(fields), Len(Order))
               /\ p = Len(part[k]) + 1
  /\ \A i \in 1 .. Len(Order) :
       LET f == Order[i]
       IN  IF i <= k THEN ~ Stuck(f, fields[f]) /\ Arrived(f, fields[f], to[f])
           ELSE to[f] = Cleared(f)

LEMMA OrderType ==
  /\ Len(Order) \in Nat /\ DOMAIN Order = 1 .. Len(Order)
  /\ \A i \in 1 .. Len(Order) : Order[i] \in Fields
  /\ \A i, j \in 1 .. Len(Order) : Order[i] = Order[j] => i = j
  /\ \A f \in Fields : \E i \in 1 .. Len(Order) : f = Order[i]
<1>1. Order \in Seq(Fields) /\ ToSet(Order) = Fields /\ IsInjective(Order)
  BY ClassAssumption
<1>2. DOMAIN Order = 1 .. Len(Order) /\ Len(Order) \in Nat
  BY <1>1
<1> QED
  BY <1>1, <1>2 DEF ToSet, IsInjective

(* The parts of a serialized message.                                      *)
LEMMA SerializedIsParts ==
  ASSUME NEW fields, SoundFields(fields)
  PROVE  /\ \A i \in 1 .. Len(Order) : Written(fields)[i] \in Seq(Byte)
         /\ \E part : Grows(part, Written(fields), Len(Order))
         /\ \A part : Grows(part, Written(fields), Len(Order)) =>
              Serialized(fields) = part[Len(Order)]
<1> DEFINE n == Len(Order)
           w == Written(fields)
<1>1. n \in Nat /\ DOMAIN Order = 1 .. n /\ \A i \in 1 .. n : Order[i] \in Fields
  BY OrderType
<1>2. \A i \in 1 .. n : w[i] \in Seq(Byte)
  <2> SUFFICES ASSUME NEW i \in 1 .. n
               PROVE  w[i] \in Seq(Byte)
    OBVIOUS
  <2>1. Sound(Order[i], fields[Order[i]]) /\ Order[i] \in Fields
    BY <1>1 DEF SoundFields
  <2>2. w[i] = FieldBytes(Order[i], fields[Order[i]])
    BY DEF Written
  <2> QED
    BY <2>1, <2>2, FieldsAreMeasured DEF Measured
<1>3. Len(w) = n /\ (n = 0 => w = <<>>)
  BY <1>1 DEF Written
<1>4. Serialized(fields) = FlattenSeq(w)
  BY <1>1 DEF Serialized, Written
<1> HIDE DEF w, n
<1>5. \E part : Grows(part, w, n)
  BY <1>1, <1>2, PartsExist
<1>6. ASSUME NEW part, Grows(part, w, n)
      PROVE  FlattenSeq(w) = part[n]
  BY <1>1, <1>2, <1>3, <1>6, FlattenedIsPart
<1> QED
  BY <1>2, <1>4, <1>5, <1>6 DEF w, n

(* Nothing has been read at first.                                         *)
LEMMA FirstStage ==
  ASSUME NEW fields, SoundFields(fields), NEW to, \A f \in Fields : to[f] = Cleared(f)
  PROVE  0 \in 0 .. Len(Order) /\ Stage(fields, to, 1, 0)
<1>1. Len(Order) \in Nat /\ \A i \in 1 .. Len(Order) : Order[i] \in Fields
  BY OrderType
<1>2. PICK part : Grows(part, Written(fields), Len(Order))
  BY SerializedIsParts
<1>3. 1 = Len(part[0]) + 1
  BY <1>2 DEF Grows
<1>4. \A i \in 1 .. Len(Order) : ~ (i <= 0)
  OBVIOUS
<1> QED
  BY <1>1, <1>2, <1>3, <1>4 DEF Stage

(* Fields of which nothing is written count as read,                       *)
LEMMA StageAdvances ==
  ASSUME NEW fields, SoundFields(fields), NEW to, NEW p,
         NEW k \in 0 .. Len(Order) - 1, Stage(fields, to, p, k),
         Written(fields)[k + 1] = <<>>
  PROVE  Stage(fields, to, p, k + 1)
<1> DEFINE n == Len(Order)
           w == Written(fields)
           f == Order[k + 1]
<1>1. n \in Nat /\ k + 1 \in 1 .. n /\ f \in Fields
  <2>1. n \in Nat
    BY OrderType
  <2>2. k + 1 \in 1 .. n
    BY <2>1
  <2> QED
    BY <2>1, <2>2, OrderType
<1>2. PICK part : Grows(part, w, n) /\ p = Len(part[k]) + 1
  BY DEF Stage
<1>3. part[k + 1] = part[k]
  <2>1. (k + 1) - 1 = k /\ k \in 0 .. n
    BY <1>1
  <2>2. part[k + 1] = part[k] \o w[k + 1] /\ part[k] \in Seq(Byte)
    BY <1>1, <1>2, <2>1 DEF Grows
  <2> HIDE DEF w
  <2>3. w[k + 1] = <<>>
    BY DEF w
  <2> QED
    BY <2>2, <2>3
<1>4. ~ Stuck(f, fields[f]) /\ Arrived(f, fields[f], to[f])
  <2>1. Sound(f, fields[f])
    BY <1>1 DEF SoundFields
  <2>2. FieldBytes(f, fields[f]) = <<>>
    BY <1>1 DEF Written
  <2>3. to[f] = Cleared(f)
    <3>1. ~ (k + 1 <= k)
      OBVIOUS
    <3> QED
      BY <1>1, <3>1 DEF Stage
  <2> QED
    BY <1>1, <2>1, <2>2, <2>3, EmptyArrives
<1>5. ASSUME NEW i \in 1 .. n
      PROVE  IF i <= k + 1
             THEN ~ Stuck(Order[i], fields[Order[i]]) /\ Arrived(Order[i], fields[Order[i]], to[Order[i]])
             ELSE to[Order[i]] = Cleared(Order[i])
  <2>1. IF i <= k
        THEN ~ Stuck(Order[i], fields[Order[i]]) /\ Arrived(Order[i], fields[Order[i]], to[Order[i]])
        ELSE to[Order[i]] = Cleared(Order[i])
    BY DEF Stage
  <2>2. i = k + 1 \/ (i <= k + 1 <=> i <= k)
    BY <1>1
  <2>3. k + 1 <= k + 1
    OBVIOUS
  <2> QED
    BY <1>4, <2>1, <2>2, <2>3
<1> QED
  BY <1>2, <1>3, <1>5 DEF Stage

(* so the next one, if there is any, begins at p.                          *)
LEMMA NextStands ==
  ASSUME NEW fields, SoundFields(fields), NEW to, NEW p,
         \E k \in 0 .. Len(Order) : Stage(fields, to, p, k)
  PROVE  \E k \in 0 .. Len(Order) : /\ Stage(fields, to, p, k)
                                    /\ k = Len(Order) \/ Written(fields)[k + 1] # <<>>
<1> DEFINE n == Len(Order)
           S == {d \in 0 .. n : Stage(fields, to, p, n - d)}
<1>1. n \in Nat
  BY OrderType
<1> HIDE DEF n
<1>2. PICK j \in 0 .. n : Stage(fields, to, p, j)
  BY DEF n
<1>3. n - j \in S
  <2>1. n - j \in 0 .. n /\ n - (n - j) = j
    BY <1>1
  <2> QED
    BY <1>2, <2>1
<1>4. S \in SUBSET Nat /\ S # {}
  BY <1>3
<1> HIDE DEF S
<1>5. PICK d \in S : \A e \in S : d <= e
  BY <1>4, SetsHaveLeast
<1>6. d \in 0 .. n /\ Stage(fields, to, p, n - d)
  BY <1>5 DEF S
<1>7. ASSUME n - d # n, Written(fields)[(n - d) + 1] = <<>>
      PROVE  FALSE
  <2>1. n - d \in 0 .. n - 1 /\ d - 1 \in 0 .. n /\ n - (d - 1) = (n - d) + 1 /\ ~ (d <= d - 1)
    BY <1>1, <1>6, <1>7
  <2> DEFINE k == n - d
  <2>2. k \in 0 .. Len(Order) - 1 /\ Stage(fields, to, p, k) /\ Written(fields)[k + 1] = <<>>
    BY <1>6, <1>7, <2>1 DEF n
  <2> HIDE DEF k
  <2>3. Stage(fields, to, p, k + 1)
    BY <2>2, StageAdvances
  <2>4. d - 1 \in S
    BY <2>1, <2>3 DEF S, k
  <2> QED
    BY <1>5, <2>1, <2>4
<1>8. n - d \in 0 .. n
  BY <1>1, <1>6
<1> QED
  BY <1>6, <1>7, <1>8 DEF n

(* It is read.                                                             *)
LEMMA NextArrives ==
  ASSUME NEW fields, SoundFields(fields), NEW to, DOMAIN to = Fields, NEW p,
         NEW k \in 0 .. Len(Order), Stage(fields, to, p, k),
         k # Len(Order) => Written(fields)[k + 1] # <<>>
  PROVE  LET buf == Serialized(fields)
             f   == Order[k + 1]
         IN  /\ p \in Nat \ {0}
             /\ k = Len(Order) => p = Len(buf) + 1
             /\ k # Len(Order) =>
                  /\ k + 1 \in 1 .. Len(Order) /\ f \in Fields
                  /\ p <= Len(buf)
                  /\ ReadTag(buf, p).value = Tag(f)
                  /\ \A x : LET r == ReadField(f, x, buf, ReadTag(buf, p).ptr)
                            IN  IF Stuck(f, fields[f]) THEN r.ptr = Null
                                ELSE /\ r.ptr # Null
                                     /\ Arrived(f, fields[f], r.value)
                                     /\ Stage(fields, [to EXCEPT ![f] = r.value], r.ptr, k + 1)
<1> DEFINE n == Len(Order)
           w == Written(fields)
           buf == Serialized(fields)
           f == Order[k + 1]
           v == fields[f]
<1>1. n \in Nat /\ \A i \in 1 .. n : w[i] \in Seq(Byte)
  BY OrderType, SerializedIsParts
<1>2. PICK part : Grows(part, w, n) /\ p = Len(part[k]) + 1
  BY DEF Stage
<1>3. buf = part[n] /\ buf \in Seq(Byte) /\ part[k] \in Seq(Byte)
  BY <1>1, <1>2, SerializedIsParts, MessagesAreMeasured DEF Grows
<1>4. p \in Nat \ {0} /\ (k = n => p = Len(buf) + 1)
  <2> HIDE DEF buf
  <2> QED
    BY <1>2, <1>3
<1>5. ASSUME k # n
      PROVE  /\ k + 1 \in 1 .. n /\ f \in Fields /\ Sound(f, v)
             /\ w[k + 1] = FieldBytes(f, v) /\ FieldBytes(f, v) # <<>>
             /\ Holds(buf, p, FieldBytes(f, v)) /\ p <= Len(buf)
             /\ part[k + 1] = part[k] \o FieldBytes(f, v)
  <2>1. k + 1 \in 1 .. n /\ k \in 0 .. n - 1 /\ (k + 1) - 1 = k
    BY <1>1, <1>5
  <2>2. f \in Fields
    BY <2>1, OrderType
  <2>3. Sound(f, v)
    BY <2>2 DEF SoundFields
  <2>4. w[k + 1] = FieldBytes(f, v)
    BY <2>1 DEF Written
  <2>5. Holds(part[n], Len(part[k]) + 1, w[k + 1])
    <3> HIDE DEF w, n
    <3> QED
      BY <1>1, <1>2, <2>1, PartsStand
  <2>6. part[k + 1] = part[k] \o w[k + 1]
    BY <1>2, <2>1 DEF Grows
  <2>7. w[k + 1] # <<>>
    BY <1>5
  <2> HIDE DEF w, buf
  <2>8. Holds(buf, p, w[k + 1])
    BY <1>2, <1>3, <2>5
  <2>9. p <= Len(buf)
    <3>1. w[k + 1] \in Seq(Byte)
      BY <1>1, <2>1
    <3>2. Len(w[k + 1]) \in Nat \ {0}
      BY <2>7, <3>1
    <3>3. p + Len(w[k + 1]) - 1 <= Len(buf) /\ Len(buf) \in Nat
      BY <1>3, <2>8 DEF Holds
    <3> QED
      BY <1>4, <3>2, <3>3
  <2> QED
    BY <2>1, <2>2, <2>3, <2>4, <2>6, <2>7, <2>8, <2>9
<1>6. ASSUME k # n, NEW x, NEW r, r = ReadField(f, x, buf, ReadTag(buf, p).ptr)
      PROVE  /\ ReadTag(buf, p).value = Tag(f)
             /\ IF Stuck(f, v) THEN r.ptr = Null
                ELSE /\ r.ptr # Null
                     /\ Arrived(f, v, r.value)
                     /\ Stage(fields, [to EXCEPT ![f] = r.value], r.ptr, k + 1)
  <2> DEFINE q == p + Len(FieldBytes(f, v))
  <2>1. /\ ReadTag(buf, p).value = Tag(f)
        /\ IF Stuck(f, v) THEN r.ptr = Null
           ELSE r.ptr = q /\ Arrived(f, v, r.value)
    <3>1. f \in Fields /\ Sound(f, v) /\ FieldBytes(f, v) # <<>>
      BY <1>5, <1>6
    <3>2. buf \in Seq(Byte) /\ p \in Nat \ {0} /\ Holds(buf, p, FieldBytes(f, v))
      BY <1>3, <1>4, <1>5, <1>6
    <3>3. r = ReadField(f, x, buf, ReadTag(buf, p).ptr)
      BY <1>6
    <3> HIDE DEF buf, f, v
    <3> QED
      BY <3>1, <3>2, <3>3, FieldsArrive
  <2>2. q = Len(part[k + 1]) + 1 /\ q # Null
    <3> DEFINE b == FieldBytes(f, v)
    <3>1. b \in Seq(Byte) /\ part[k + 1] = part[k] \o b
      BY <1>1, <1>5, <1>6
    <3> HIDE DEF b
    <3>2. Len(part[k + 1]) = Len(part[k]) + Len(b) /\ Len(part[k]) \in Nat /\ Len(b) \in Nat
      BY <1>3, <3>1
    <3>3. p + Len(b) = Len(part[k + 1]) + 1 /\ p + Len(b) # 0
      BY <1>2, <3>2
    <3> QED
      BY <3>3 DEF b, Null
  <2> HIDE DEF q
  <2>3. ASSUME ~ Stuck(f, v)
        PROVE  Stage(fields, [to EXCEPT ![f] = r.value], q, k + 1)
    <3> DEFINE o == [to EXCEPT ![f] = r.value]
    <3>1. o[f] = r.value /\ \A g \in Fields : g # f => o[g] = to[g]
      BY <1>5, <1>6
    <3>2. ASSUME NEW i \in 1 .. n
          PROVE  IF i <= k + 1
                 THEN ~ Stuck(Order[i], fields[Order[i]]) /\ Arrived(Order[i], fields[Order[i]], o[Order[i]])
                 ELSE o[Order[i]] = Cleared(Order[i])
      <4> HIDE DEF o
      <4>1. IF i <= k
            THEN ~ Stuck(Order[i], fields[Order[i]]) /\ Arrived(Order[i], fields[Order[i]], to[Order[i]])
            ELSE to[Order[i]] = Cleared(Order[i])
        BY DEF Stage
      <4>2. CASE i = k + 1
        <5>1. i <= k + 1 /\ Order[i] = f
          BY <1>1, <4>2
        <5> QED
          BY <2>1, <2>3, <3>1, <5>1
      <4>3. CASE i # k + 1
        <5>1. (i <= k + 1 <=> i <= k)
          BY <1>1, <4>3
        <5>2. Order[i] # f /\ Order[i] \in Fields
          BY <1>5, <1>6, <4>3, OrderType
        <5>3. o[Order[i]] = to[Order[i]]
          BY <3>1, <5>2
        <5> QED
          BY <4>1, <5>1, <5>3
      <4> QED
        BY <4>2, <4>3
    <3> QED
      BY <1>2, <2>2, <3>2 DEF Stage
  <2> QED
    BY <2>1, <2>2, <2>3
<1>7. k # n => ReadTag(buf, p).value = Tag(f)
  BY <1>6
<1> QED
  BY <1>4, <1>5, <1>6, <1>7

(* How a parse of what from serializes to ends, and what it has done when  *)
(* it has not ended yet.                                                   *)
Ends(sent, got) ==
  /\ outcome = "none" => \E k \in 0 .. Len(Order) : Stage(sent, got, ptr, k)
  /\ outcome = "done" =>
       \A f \in Fields : ~ Stuck(f, sent[f]) /\ Arrived(f, sent[f], got[f])
  /\ outcome = "failed" => \E f \in Fields : Stuck(f, sent[f])
  /\ outcome # "stopped"

Transferred ==
  from # NULL => /\ parsing # NULL /\ from # parsing
                 /\ input = Serialized(msg[from])
                 /\ Ends(msg[from], msg[parsing])

(* Only a parse has an outcome and an input, which nothing else changes.   *)
TransferInv == (Idle => outcome = "none" /\ from = NULL) /\ Transferred

LEMMA TransferBegins ==
  ASSUME TypeOK, TransferInv, NEW m \in Messages, NEW n \in Messages, Transfer(m, n)
  PROVE  TransferInv'
<1>1. SoundMessages(msg) /\ NULL \notin Messages
  BY TypeInParts, ClassAssumption
<1>2. /\ m # n /\ parsing' = m /\ from' = n /\ ptr' = 1 /\ outcome' = outcome
      /\ input' = Serialized(msg[n]) /\ outcome = "none"
      /\ msg' = [msg EXCEPT ![m] = [f \in Fields |-> Cleared(f)]]
  BY DEF Transfer, Start, Call, TransferInv
<1>3. /\ SoundFields(msg[n]) /\ msg'[n] = msg[n]
      /\ msg'[m] = [f \in Fields |-> Cleared(f)]
  BY <1>1, <1>2 DEF SoundMessages
<1>4. \E k \in 0 .. Len(Order) : Stage(msg[n], msg'[m], 1, k)
  <2>1. \A f \in Fields : msg'[m][f] = Cleared(f)
    BY <1>3
  <2> QED
    BY <1>3, <2>1, FirstStage
<1> QED
  BY <1>1, <1>2, <1>3, <1>4 DEF TransferInv, Transferred, Ends, Idle

(* What a step of such a parse does.                                       *)
LEMMA TransferGoesOn ==
  ASSUME TypeOK, TransferInv, from # NULL, ParseStep
  PROVE  TransferInv'
<1> DEFINE sent == msg[from]
           got  == msg[parsing]
<1>1. /\ outcome = "none" /\ from # parsing /\ from \in Messages /\ parsing \in Messages
      /\ input = Serialized(sent) /\ \E k \in 0 .. Len(Order) : Stage(sent, got, ptr, k)
  <2>1. Parsing
    BY DEF ParseStep, Done, Stop, SkipUnknown, ParseField, Occurs, Looping
  <2>2. {parsing, from} \subseteq Messages \cup {NULL}
    BY TypeInParts DEF Parser
  <2> QED
    BY <2>1, <2>2 DEF Parsing, TransferInv, Transferred, Ends
<1>2. SoundFields(sent) /\ SoundFields(got) /\ DOMAIN got = Fields /\ DOMAIN msg = Messages
  BY <1>1, TypeInParts DEF SoundMessages, SoundFields
<1> HIDE DEF sent, got
<1>3. PICK k \in 0 .. Len(Order) : /\ Stage(sent, got, ptr, k)
                                   /\ k = Len(Order) \/ Written(sent)[k + 1] # <<>>
  BY <1>1, <1>2, NextStands
<1>4. Len(Order) \in Nat /\ input \in Seq(Byte)
  BY OrderType, TypeInParts DEF Parser
<1> DEFINE g == Order[k + 1]
<1>5. /\ ptr \in Nat \ {0}
      /\ k = Len(Order) => ptr = Len(input) + 1
      /\ k # Len(Order) =>
           /\ k + 1 \in 1 .. Len(Order) /\ g \in Fields
           /\ ptr <= Len(input)
           /\ NextTag.value = Tag(g)
           /\ \A x : LET r == ReadField(g, x, input, NextTag.ptr)
                     IN  IF Stuck(g, sent[g]) THEN r.ptr = Null
                         ELSE /\ r.ptr # Null
                              /\ Arrived(g, sent[g], r.value)
                              /\ Stage(sent, [got EXCEPT ![g] = r.value], r.ptr, k + 1)
  BY <1>1, <1>2, <1>3, NextArrives DEF NextTag
<1>6. ASSUME Done
      PROVE  TransferInv'
  <2>1. k = Len(Order)
    BY <1>4, <1>5, <1>6 DEF Done
  <2>2. ptr = Len(input) + 1 /\ Inside(input, ptr)
    BY <1>4, <1>5, <2>1 DEF Inside
  <2>3. End("done")
    BY <1>6, <2>2 DEF Done
  <2>4. \A f \in Fields : ~ Stuck(f, sent[f]) /\ Arrived(f, sent[f], got[f])
    <3> SUFFICES ASSUME NEW f \in Fields
                 PROVE  ~ Stuck(f, sent[f]) /\ Arrived(f, sent[f], got[f])
      OBVIOUS
    <3>1. PICK i \in 1 .. Len(Order) : f = Order[i]
      BY OrderType
    <3>2. i <= k
      BY <2>1
    <3> QED
      BY <1>3, <3>1, <3>2 DEF Stage
  <2> QED
    BY <2>3, <2>4 DEF End, TransferInv, Transferred, Ends, Idle, sent, got
<1>7. ~ Stop /\ ~ SkipUnknown
  <2>1. ASSUME Looping
        PROVE  k # Len(Order)
    BY <1>4, <1>5, <2>1 DEF Looping
  <2>2. ASSUME Looping
        PROVE  NextTag.value # 0 /\ \E f \in Fields : NextTag.value = Tag(f)
    BY <1>5, <2>1, <2>2, TagsDiffer
  <2> QED
    BY <2>2 DEF Stop, SkipUnknown
<1>8. ASSUME NEW f \in Fields, ParseField(f)
      PROVE  TransferInv'
  <2> DEFINE r == ReadField(f, Current(f), input, NextTag.ptr)
  <2>1. Looping /\ NextTag.value = Tag(f)
    BY <1>8 DEF ParseField, Occurs
  <2>2. k # Len(Order)
    BY <1>4, <1>5, <2>1 DEF Looping
  <2>3. f = g
    BY <1>5, <2>1, <2>2, TagsDiffer
  <2>4. IF Stuck(f, sent[f]) THEN r.ptr = Null
        ELSE /\ r.ptr # Null
             /\ Arrived(f, sent[f], r.value)
             /\ Stage(sent, [got EXCEPT ![f] = r.value], r.ptr, k + 1)
    BY <1>5, <2>2, <2>3
  <2>5. \/ r.ptr # Null /\ Keep(f, r.value, r.ptr)
        \/ r.ptr = Null /\ End("failed")
        \/ /\ r.ptr = Null
           /\ \E c \in Contents : msg' = [msg EXCEPT ![parsing][f] = c]
           /\ outcome' = "failed"
           /\ UNCHANGED <<onArena, parsing, input, ptr, wire, before, from, calls>>
    BY <1>8 DEF ParseField
  <2> HIDE DEF r, g
  <2>6. CASE r.ptr # Null /\ Keep(f, r.value, r.ptr)
    <3>1. Stage(sent, [got EXCEPT ![f] = r.value], r.ptr, k + 1) /\ k + 1 \in 0 .. Len(Order)
      BY <1>4, <1>5, <2>2, <2>4, <2>6
    <3>2. /\ msg' = [msg EXCEPT ![parsing][f] = r.value] /\ ptr' = r.ptr
          /\ UNCHANGED <<onArena, parsing, input, outcome, wire, before, from, calls>>
      BY <2>6 DEF Keep, Advance
    <3>3. msg'[from] = msg[from] /\ msg'[parsing] = [got EXCEPT ![f] = r.value]
      BY <1>1, <1>2, <3>2 DEF got
    <3> QED
      BY <1>1, <3>1, <3>2, <3>3 DEF TransferInv, Transferred, Ends, Idle, sent
  <2>7. CASE r.ptr = Null /\ End("failed")
    <3>1. Stuck(f, sent[f])
      BY <2>4, <2>7
    <3> QED
      BY <1>1, <2>7, <3>1 DEF End, TransferInv, Transferred, Ends, Idle, sent
  <2>8. CASE /\ r.ptr = Null
             /\ \E c \in Contents : msg' = [msg EXCEPT ![parsing][f] = c]
             /\ outcome' = "failed"
             /\ UNCHANGED <<onArena, parsing, input, ptr, wire, before, from, calls>>
    <3>1. Stuck(f, sent[f])
      BY <2>4, <2>8
    <3>2. msg'[from] = msg[from]
      BY <1>1, <2>8
    <3> QED
      BY <1>1, <2>8, <3>1, <3>2 DEF TransferInv, Transferred, Ends, Idle, sent
  <2> QED
    BY <2>5, <2>6, <2>7, <2>8
<1> QED
  BY <1>6, <1>7, <1>8 DEF ParseStep

LEMMA StepKeepsTransfer ==
  ASSUME TypeOK, TransferInv, [Next]_vars
  PROVE  TransferInv'
<1>1. NULL \notin Messages
  BY ClassAssumption
<1>2. ASSUME UNCHANGED parseVars, Idle
      PROVE  TransferInv'
  BY <1>2 DEF parseVars, TransferInv, Transferred, Idle
<1>3. ASSUME UNCHANGED vars
      PROVE  TransferInv'
  BY <1>3 DEF vars, parseVars, TransferInv, Transferred, Idle, Ends
<1>4. ASSUME NEW m \in Messages, NEW f \in Fields,
             GetLazy(m, f) \/ (\E x \in Given[f] : Set(m, f, x) \/ Mutate(m, f, x))
      PROVE  TransferInv'
  BY <1>2, <1>4 DEF GetLazy, Set, Mutate, Store, Call
<1>5. ASSUME NEW m \in Messages, Clear(m)
      PROVE  TransferInv'
  BY <1>2, <1>5 DEF Clear, Call
<1>6. ASSUME NEW m \in Messages, NEW n \in Messages, MergeFrom(m, n) \/ CopyFrom(m, n)
      PROVE  TransferInv'
  BY <1>2, <1>6 DEF MergeFrom, CopyFrom, Call
<1>7. ASSUME NEW m \in Messages, NEW w \in Wires, Begin(m, w)
      PROVE  TransferInv'
  BY <1>1, <1>7 DEF Begin, Start, Call, TransferInv, Transferred, Idle
<1>8. ASSUME ParseStep, from = NULL
      PROVE  TransferInv'
  <2>1. Parsing
    BY <1>8 DEF ParseStep, Done, Stop, SkipUnknown, ParseField, Occurs, Looping
  <2>2. parsing' = parsing /\ from' = from
    BY <1>8 DEF ParseStep, Done, Stop, SkipUnknown, ParseField, Keep, Advance, End
  <2> QED
    BY <1>8, <2>1, <2>2 DEF Parsing, TransferInv, Transferred, Idle
<1>9. ASSUME Return
      PROVE  TransferInv'
  BY <1>9 DEF Return, TransferInv, Transferred, Idle
<1> QED
  BY <1>3, <1>4, <1>5, <1>6, <1>7, <1>8, <1>9, TransferBegins, TransferGoesOn DEF Next

(* What it says of a parse that has ended.                                 *)
LEMMA TransferIsRoundTrip ==
  ASSUME TypeOK, TransferInv
  PROVE  RoundTrip
<1> SUFFICES ASSUME outcome # "none", from # NULL
             PROVE  RoundTrip
  BY DEF RoundTrip
<1> DEFINE sent == Values(msg[from])
           partial == {f \in Submessages :
                         FieldBytes(f, msg[from][f]) # <<>> /\ sent[f] \notin Complete}
<1>1. /\ from \in Messages /\ parsing \in Messages /\ outcome \in {"done", "failed"}
      /\ Ends(msg[from], msg[parsing])
  <2>1. {parsing, from} \subseteq Messages \cup {NULL} /\ outcome \in {"none", "done", "stopped", "failed"}
    BY TypeInParts DEF Parser
  <2> QED
    BY <2>1 DEF TransferInv, Transferred, Ends
<1>2. SoundFields(msg[from])
  BY <1>1, TypeInParts DEF SoundMessages
<1>3. \A f \in Fields : sent[f] = Observed(f, msg[from][f])
  BY DEF Values
<1>4. /\ \A f \in partial : /\ f \in Fields /\ Type[f] = "message"
                            /\ FieldBytes(f, msg[from][f]) # <<>>
                            /\ Observed(f, msg[from][f]) \notin Complete
      /\ \A f \in Fields : /\ Type[f] = "message" /\ FieldBytes(f, msg[from][f]) # <<>>
                           /\ Observed(f, msg[from][f]) \notin Complete
                           => f \in partial
  BY <1>3 DEF Submessages
<1> HIDE DEF partial, sent
<1>5. \A f \in Fields : Stuck(f, msg[from][f]) <=> f \in partial /\ f \notin Lazies
  BY <1>4 DEF Stuck
<1>6. outcome = "done" <=> partial \subseteq Lazies
  <2>1. ASSUME outcome = "done", NEW f \in partial
        PROVE  f \in Lazies
    BY <1>1, <1>4, <1>5, <2>1 DEF Ends
  <2>2. ASSUME outcome = "failed"
        PROVE  ~ (partial \subseteq Lazies)
    BY <1>1, <1>5, <2>2 DEF Ends
  <2> QED
    BY <1>1, <2>1, <2>2
<1>7. ASSUME outcome = "done", NEW f \in Fields
      PROVE  Observed(f, Current(f)) = IF f \in partial THEN Default ELSE Settled(f, sent[f])
  <2>1. Arrived(f, msg[from][f], Current(f))
    BY <1>1, <1>7 DEF Ends, Current
  <2>2. CASE f \notin partial /\ Type[f] = "message" /\ sent[f] \notin Complete
    <3>1. FieldBytes(f, msg[from][f]) = <<>> /\ Sound(f, msg[from][f])
      BY <1>2, <1>3, <1>4, <2>2 DEF SoundFields
    <3>2. sent[f] = Default
      BY <1>3, <2>2, <3>1, EmptyIsDefault
    <3>3. Settled(f, sent[f]) = sent[f]
      BY <2>2, StorageKinds DEF Settled, ScalarTypes, cpp_scalar_type
    <3> QED
      BY <1>3, <2>1, <2>2, <3>2, <3>3 DEF Arrived
  <2>3. CASE f \in partial \/ Type[f] # "message" \/ sent[f] \in Complete
    BY <1>3, <1>4, <2>1, <2>3 DEF Arrived
  <2> QED
    BY <2>2, <2>3
<1>8. ASSUME Submessages \subseteq Required, IsInitialized(msg[from])
      PROVE  partial = {}
  <2> SUFFICES ASSUME NEW f \in partial
               PROVE  FALSE
    OBVIOUS
  <2>1. /\ f \in Fields /\ Type[f] = "message" /\ f \in Required
        /\ FieldBytes(f, msg[from][f]) # <<>>
        /\ Observed(f, msg[from][f]) \notin Complete
    BY <1>4, <1>8 DEF Submessages
  <2>2. CASE Storage(f) = "LazyField"
    <3>1. LazyInitialized(msg[from][f])
      BY <1>8, <2>1, <2>2 DEF IsInitialized
    <3>2. Content(msg[from][f]) \in Contents /\ Observed(f, msg[from][f]) = Seen[Content(msg[from][f])]
      BY <1>2, <2>1, <2>2, SoundLazies DEF SoundFields, Observed
    <3>3. ~ msg[from][f].has
      BY <2>1, <3>1, <3>2, SubmessageAssumption DEF LazyInitialized
    <3>4. FieldBytes(f, msg[from][f]) = <<>>
      <4>1. LazyPayload(msg[from][f]) = NULL
        BY <3>3 DEF LazyPayload
      <4>2. ~ (LazySize(msg[from][f]) > 0)
        BY <4>1 DEF LazySize
      <4> QED
        BY <2>2, <4>2 DEF FieldBytes
    <3> QED
      BY <2>1, <3>4
  <2>3. CASE Storage(f) = "message"
    <3>1. msg[from][f] \in Complete
      BY <1>8, <2>1, <2>3 DEF IsInitialized
    <3>2. Observed(f, msg[from][f]) = Seen[msg[from][f]] /\ msg[from][f] \in Contents
      BY <2>3, <3>1, SubmessageAssumption DEF Observed
    <3> QED
      BY <2>1, <3>1, <3>2, SubmessageAssumption
  <2>4. Storage(f) \in {"LazyField", "message"}
    BY <2>1, StorageKinds DEF StringTypes, ScalarTypes, cpp_scalar_type
  <2> QED
    BY <2>2, <2>3, <2>4
<1> QED
  BY <1>6, <1>7, <1>8 DEF RoundTrip, partial, sent

LEMMA TransfersAreKept == Spec => []TransferInv
<1>1. Init => TransferInv
  BY DEF Init, TransferInv, Transferred, Idle
<1>2. TypeOK /\ TransferInv /\ [Next]_vars => TransferInv'
  BY StepKeepsTransfer
<1> QED
  BY <1>1, <1>2, MessagesAreTyped, PTL DEF Spec

(* Parsing what a message serializes to gives its values back, in every    *)
(* class, whatever the message and the receiver went through; it fails     *)
(* exactly when an eager submessage that is written lacks required fields. *)
THEOREM MessagesRoundTrip == Spec => []RoundTrip
<1>1. TypeOK /\ TransferInv => RoundTrip
  BY TransferIsRoundTrip
<1> QED
  BY <1>1, MessagesAreTyped, TransfersAreKept, PTL

(***************************************************************************)
(* Parsing what other code wrote.  An occurrence that is what it claims is *)
(* that wherever it stands, so the parse goes from one to the next.        *)
(***************************************************************************)

(* What a parser finds at p if o stands there.                             *)
IsReadAt(o, s, p) ==
  LET tag  == ReadTag(s, p)
      next == p + Len(o.bytes)
      skip == SkipFieldInline(s, tag.ptr, tag.value)
  IN  /\ p <= Len(s) /\ next # Null
      /\ o.on \in Fields =>
           /\ tag.value = Tag(o.on)
           /\ \/ /\ o.ends = "no"
                 /\ \A v : LET r == ReadField(o.on, v, s, tag.ptr)
                           IN  r.ptr = next /\ Observed(o.on, r.value) = o.value
              \/ o.ends = "failed" /\ \A v : ReadField(o.on, v, s, tag.ptr).ptr = Null
      /\ o.on \notin Fields =>
           \/ /\ tag.value # 0 /\ \A f \in Fields : tag.value # Tag(f)
              /\ \/ o.ends = "no" /\ skip = next
                 \/ o.ends = "failed" /\ skip = Null
           \/ o.ends = "stopped" /\ tag.value = 0

LEMMA OccurrenceIsRead ==
  ASSUME NEW o, o.bytes \in Seq(Byte), Faithful(o),
         NEW s \in Seq(Byte), NEW p \in Nat \ {0}, Holds(s, p, o.bytes)
  PROVE  IsReadAt(o, s, p)
<1> DEFINE b     == o.bytes
           alone == ReadTag(b, 1)
           tag   == ReadTag(s, p)
           next  == p + Len(b)
<1>1. next # Null /\ Len(b) \in Nat /\ Inside(b, Len(b) + 1) /\ p + (Len(b) + 1) - 1 = next
  BY DEF Null, Inside
<1>2. alone.value # 0 \/ ReadVarint(b, 1).ptr # Beyond(b)
  <2>1. CASE o.on \in Fields
    <3>1. alone.value = Tag(o.on)
      BY <2>1 DEF Faithful, Carries
    <3> QED
      BY <2>1, <3>1, TagsDiffer
  <2>2. CASE o.on \notin Fields
    BY <2>2 DEF Faithful, IsUnknown, HasNoTag
  <2> QED
    BY <2>1, <2>2
<1>3. /\ p <= Len(s) /\ tag.value = alone.value
      /\ alone.value # 0 => /\ alone.ptr \in Nat \ {0} /\ alone.value \in Nat
                            /\ tag.ptr = p + alone.ptr - 1
  BY <1>2, TagMoves
<1>4. ASSUME o.on \in Fields
      PROVE  /\ tag.value = Tag(o.on)
             /\ \/ /\ o.ends = "no"
                   /\ \A v : LET r == ReadField(o.on, v, s, tag.ptr)
                             IN  r.ptr = next /\ Observed(o.on, r.value) = o.value
                \/ o.ends = "failed" /\ \A v : ReadField(o.on, v, s, tag.ptr).ptr = Null
  <2> DEFINE f == o.on
             x == ReadField(f, Cleared(f), b, alone.ptr)
  <2>1. /\ alone.value = Tag(f)
        /\ \/ o.ends = "no" /\ x.ptr = Len(b) + 1 /\ Observed(f, x.value) = o.value
           \/ /\ o.ends = "failed" /\ x.ptr = Null
              /\ IsHopeless(f, b, alone.ptr)
    BY <1>4 DEF Faithful, Carries, IsHopeless
  <2>2. alone.ptr \in Nat \ {0} /\ tag.ptr = p + alone.ptr - 1
    BY <1>3, <1>4, <2>1, TagsDiffer
  <2> HIDE DEF alone, tag, next, f, b
  <2>3. \A v : LET y == ReadField(f, v, s, tag.ptr)
               IN  /\ x.ptr = Len(b) + 1 => /\ y.ptr = next
                                            /\ Observed(f, y.value) = Observed(f, x.value)
                   /\ x.ptr = Null /\ IsHopeless(f, b, alone.ptr) => y.ptr = Null
    <3> TAKE v
    <3> DEFINE q == alone.ptr
               y == ReadField(f, v, s, p + q - 1)
    <3>1. b \in Seq(Byte) /\ Holds(s, p, b) /\ f \in Fields /\ next = p + Len(b)
      BY <1>4 DEF b, f, next
    <3>2. q \in Nat \ {0} /\ ReadField(f, v, s, tag.ptr) = y
      BY <2>2
    <3> HIDE DEF q
    <3>3. /\ ReadField(f, Cleared(f), b, q).ptr = Len(b) + 1 =>
               /\ y.ptr = p + Len(b)
               /\ Observed(f, y.value) = Observed(f, ReadField(f, Cleared(f), b, q).value)
          /\ ReadField(f, Cleared(f), b, q).ptr = Null /\ IsHopeless(f, b, q) => y.ptr = Null
      BY <3>1, <3>2, FieldMoves
    <3> HIDE DEF y
    <3> QED
      BY <3>1, <3>2, <3>3 DEF q
  <2> HIDE DEF x
  <2> QED
    BY <1>3, <2>1, <2>3 DEF f
<1>5. ASSUME o.on \notin Fields, IsUnknown(o)
      PROVE  /\ tag.value # 0 /\ \A f \in Fields : tag.value # Tag(f)
             /\ \/ o.ends = "no" /\ SkipFieldInline(s, tag.ptr, tag.value) = next
                \/ o.ends = "failed" /\ SkipFieldInline(s, tag.ptr, tag.value) = Null
  <2> DEFINE x == SkipFieldInline(b, alone.ptr, alone.value)
             y == SkipFieldInline(s, tag.ptr, tag.value)
  <2>1. /\ alone.value # 0 /\ \A f \in Fields : alone.value # Tag(f)
        /\ \/ o.ends = "no" /\ x = Len(b) + 1
           \/ o.ends = "failed" /\ x = Null
    BY <1>5 DEF IsUnknown
  <2>2. Moved(b, p, x, y)
    <3> HIDE DEF alone, tag, b
    <3>1. b \in Seq(Byte) /\ Holds(s, p, b)
      BY DEF b
    <3>2. /\ alone.ptr \in Nat \ {0} /\ alone.value \in Nat
          /\ y = SkipFieldInline(s, p + alone.ptr - 1, alone.value)
      BY <1>3, <2>1
    <3> HIDE DEF y
    <3> QED
      BY <3>1, <3>2, SkippingMoves
  <2> HIDE DEF x, y, alone, tag, next
  <2> QED
    BY <1>1, <1>3, <2>1, <2>2 DEF Moved, y
<1>6. ASSUME o.on \notin Fields, HasNoTag(o)
      PROVE  o.ends = "stopped" /\ tag.value = 0
  BY <1>3, <1>6 DEF HasNoTag
<1>7. o.on \notin Fields => IsUnknown(o) \/ HasNoTag(o)
  BY DEF Faithful
<1> QED
  BY <1>1, <1>3, <1>4, <1>5, <1>6, <1>7 DEF IsReadAt

(* The bytes of the occurrences, and the place behind the first k of them. *)
BytesOf(w) == [i \in DOMAIN w |-> w[i].bytes]

Position(w, p, k) == \E part : Grows(part, BytesOf(w), Len(w)) /\ p = Len(part[k]) + 1

LEMMA WiresAreTyped ==
  ASSUME NEW w \in Wires
  PROVE  /\ Len(w) \in Nat /\ DOMAIN w = 1 .. Len(w)
         /\ Len(BytesOf(w)) = Len(w) /\ (Len(w) = 0 => BytesOf(w) = <<>>)
         /\ \A i \in 1 .. Len(w) : BytesOf(w)[i] = w[i].bytes /\ w[i].bytes \in Seq(Byte)
<1>1. /\ Len(w) \in Nat /\ DOMAIN w = 1 .. Len(w)
      /\ \A i \in 1 .. Len(w) : w[i].bytes \in Seq(Byte)
  BY WiresAssumption
<1> QED
  BY <1>1 DEF BytesOf

LEMMA FirstPosition ==
  ASSUME NEW w \in Wires
  PROVE  Position(w, 1, 0)
<1>1. \E part : Grows(part, BytesOf(w), Len(w))
  BY WiresAreTyped, PartsExist
<1>2. \A part : Grows(part, BytesOf(w), Len(w)) => 1 = Len(part[0]) + 1
  BY DEF Grows
<1> QED
  BY <1>1, <1>2 DEF Position

(* There stands the next one, and behind it is the next place.             *)
LEMMA NextPosition ==
  ASSUME NEW w \in Wires, NEW p, NEW k \in 0 .. Len(w), Position(w, p, k)
  PROVE  LET buf == FlattenSeq(BytesOf(w))
         IN  /\ buf \in Seq(Byte) /\ p \in Nat \ {0}
             /\ k = Len(w) => p = Len(buf) + 1
             /\ k # Len(w) =>
                  /\ k + 1 \in 1 .. Len(w) /\ w[k + 1].bytes \in Seq(Byte)
                  /\ Holds(buf, p, w[k + 1].bytes)
                  /\ Position(w, p + Len(w[k + 1].bytes), k + 1)
<1> DEFINE n   == Len(w)
           b   == BytesOf(w)
           buf == FlattenSeq(b)
<1>1. /\ n \in Nat /\ Len(b) = n /\ (n = 0 => b = <<>>)
      /\ \A i \in 1 .. n : b[i] = w[i].bytes /\ b[i] \in Seq(Byte)
  BY WiresAreTyped
<1>2. PICK part : Grows(part, b, n) /\ p = Len(part[k]) + 1
  BY DEF Position
<1> HIDE DEF n, b
<1>3. \A i \in 0 .. n : part[i] \in Seq(Byte) /\ Len(part[i]) \in Nat
  <2>1. \A i \in 0 .. n : part[i] \in Seq(Byte)
    BY <1>2 DEF Grows
  <2> QED
    BY <2>1
<1>4. buf = part[n] /\ buf \in Seq(Byte)
  BY <1>1, <1>2, FlattenedIsPart
<1>5. k \in 0 .. n /\ p \in Nat \ {0}
  <2>1. k \in 0 .. n
    BY DEF n
  <2> QED
    BY <1>2, <1>3, <2>1
<1> HIDE DEF buf
<1>6. ASSUME k # n
      PROVE  /\ k + 1 \in 1 .. n /\ b[k + 1] \in Seq(Byte) /\ Holds(buf, p, b[k + 1])
             /\ p + Len(b[k + 1]) = Len(part[k + 1]) + 1
  <2>1. k \in 0 .. n - 1 /\ k + 1 \in 1 .. n /\ (k + 1) - 1 = k
    BY <1>1, <1>5, <1>6
  <2>2. b[k + 1] \in Seq(Byte) /\ part[k] \in Seq(Byte)
    BY <1>1, <1>3, <1>5, <2>1
  <2>3. Holds(buf, p, b[k + 1])
    BY <1>1, <1>2, <1>4, <2>1, PartsStand
  <2>4. part[k + 1] = part[k] \o b[k + 1]
    BY <1>2, <2>1 DEF Grows
  <2>5. Len(part[k + 1]) = Len(part[k]) + Len(b[k + 1]) /\ Len(b[k + 1]) \in Nat
        /\ Len(part[k]) \in Nat
    BY <2>2, <2>4
  <2>6. p + Len(b[k + 1]) = Len(part[k + 1]) + 1
    <3> DEFINE x == Len(part[k])
               y == Len(b[k + 1])
    <3>1. x \in Nat /\ y \in Nat /\ p = x + 1 /\ Len(part[k + 1]) = x + y
      BY <1>2, <2>5
    <3> HIDE DEF x, y
    <3>2. p + y = Len(part[k + 1]) + 1
      BY <3>1
    <3> QED
      BY <3>2 DEF y
  <2> QED
    BY <2>1, <2>2, <2>3, <2>6
<1>7. ASSUME k # n
      PROVE  /\ w[k + 1].bytes = b[k + 1]
             /\ Position(w, p + Len(w[k + 1].bytes), k + 1)
  <2>1. w[k + 1].bytes = b[k + 1]
    BY <1>1, <1>6, <1>7
  <2> QED
    BY <1>2, <1>6, <1>7, <2>1 DEF Position, b, n
<1> QED
  BY <1>2, <1>4, <1>5, <1>6, <1>7 DEF buf, b, n

(* The value of f after the first k occurrences.                           *)
ValueAfter(w, old, f, k) ==
  LET on == {i \in 1 .. k : w[i].on = f}
  IN  IF on = {} THEN old[f] ELSE w[Max(on)].value

LEMMA NoneDecides ==
  ASSUME NEW w, NEW old, NEW f
  PROVE  ValueAfter(w, old, f, 0) = old[f]
<1>1. {i \in 1 .. 0 : w[i].on = f} = {}
  OBVIOUS
<1> QED
  BY <1>1 DEF ValueAfter

LEMMA NextDecides ==
  ASSUME NEW w, NEW old, NEW f, NEW k \in Nat
  PROVE  /\ w[k + 1].on = f => ValueAfter(w, old, f, k + 1) = w[k + 1].value
         /\ w[k + 1].on # f => ValueAfter(w, old, f, k + 1) = ValueAfter(w, old, f, k)
<1> DEFINE on(j) == {i \in 1 .. j : w[i].on = f}
<1>1. ASSUME w[k + 1].on = f
      PROVE  Max(on(k + 1)) = k + 1 /\ on(k + 1) # {}
  <2>1. k + 1 \in on(k + 1) /\ \A i \in on(k + 1) : i \in Nat /\ k + 1 >= i
    BY <1>1
  <2> HIDE DEF on
  <2> QED
    BY <2>1 DEF Max
<1>2. ASSUME w[k + 1].on # f
      PROVE  on(k + 1) = on(k)
  BY <1>2
<1> QED
  BY <1>1, <1>2 DEF ValueAfter

(* The first k occurrences have been parsed, and another one ended it.     *)
Came(got, k) ==
  /\ \A i \in 1 .. k : wire[i].ends = "no"
  /\ \A f \in Fields : Observed(f, got[f]) = ValueAfter(wire, before, f, k)

Ended(got, k) ==
  /\ wire[k + 1].ends = outcome
  /\ \A i \in 1 .. k : wire[i].ends = "no"
  /\ \A f \in Fields : \/ wire[k + 1].on = f /\ Storage(f) = "message"
                       \/ Observed(f, got[f]) = ValueAfter(wire, before, f, k)

Progress(got) ==
  /\ outcome = "none" => \E k \in 0 .. Len(wire) : Position(wire, ptr, k) /\ Came(got, k)
  /\ outcome = "done" => Came(got, Len(wire))
  /\ outcome \in {"stopped", "failed"} => \E k \in 0 .. Len(wire) - 1 : Ended(got, k)

WireInv ==
  parsing # NULL /\ from = NULL =>
    /\ wire \in Wires /\ input = FlattenSeq(BytesOf(wire))
    /\ Progress(msg[parsing])

(* What a step of such a parse does.                                       *)
LEMMA WireGoesOn ==
  ASSUME WiresAreFaithful, TypeOK, WireInv, from = NULL, ParseStep
  PROVE  WireInv'
<1> DEFINE got == msg[parsing]
           n   == Len(wire)
<1>1. /\ outcome = "none" /\ parsing # NULL /\ parsing \in Messages
      /\ wire \in Wires /\ input = FlattenSeq(BytesOf(wire))
      /\ \E k \in 0 .. n : Position(wire, ptr, k) /\ Came(got, k)
  <2>1. Parsing
    BY DEF ParseStep, Done, Stop, SkipUnknown, ParseField, Occurs, Looping
  <2>2. {parsing, from} \subseteq Messages \cup {NULL}
    BY TypeInParts DEF Parser
  <2> QED
    BY <2>1, <2>2 DEF Parsing, WireInv, Progress
<1>2. DOMAIN got = Fields /\ DOMAIN msg = Messages
  BY <1>1, TypeInParts DEF SoundMessages, SoundFields
<1>3. PICK k \in 0 .. n : Position(wire, ptr, k) /\ Came(got, k)
  BY <1>1
<1> DEFINE o    == wire[k + 1]
           next == ptr + Len(o.bytes)
           skip == SkipFieldInline(input, NextTag.ptr, NextTag.value)
<1>4. n \in Nat /\ DOMAIN wire = 1 .. n /\ k \in Nat /\ input \in Seq(Byte) /\ Len(input) \in Nat
  <2>1. n \in Nat /\ DOMAIN wire = 1 .. n
    BY <1>1, WiresAreTyped
  <2>2. input \in Seq(Byte)
    BY TypeInParts DEF Parser
  <2> QED
    BY <2>1, <2>2
<1>5. /\ ptr \in Nat \ {0}
      /\ k = n => ptr = Len(input) + 1
      /\ k # n => /\ k + 1 \in 1 .. n /\ o.bytes \in Seq(Byte)
                  /\ Holds(input, ptr, o.bytes)
                  /\ Position(wire, next, k + 1)
  BY <1>1, <1>3, NextPosition
<1>6. \A f \in Fields : ValueAfter(wire, before, f, k + 1) =
                          IF o.on = f THEN o.value ELSE ValueAfter(wire, before, f, k)
  <2> TAKE f \in Fields
  <2>1. ValueAfter(wire, before, f, k + 1) =
          IF wire[k + 1].on = f THEN wire[k + 1].value ELSE ValueAfter(wire, before, f, k)
    BY <1>4, NextDecides
  <2> QED
    BY <2>1
<1>7. k # n => Faithful(o)
  <2>1. \A i \in DOMAIN wire : Faithful(wire[i])
    BY <1>1 DEF WiresAreFaithful
  <2> QED
    BY <1>4, <1>5, <2>1
<1> HIDE DEF got, n, o
<1>8. k # n => /\ ptr <= Len(input) /\ next # Null
               /\ o.on \in Fields =>
                    /\ NextTag.value = Tag(o.on)
                    /\ \/ /\ o.ends = "no"
                          /\ \A v : LET r == ReadField(o.on, v, input, NextTag.ptr)
                                    IN  r.ptr = next /\ Observed(o.on, r.value) = o.value
                       \/ /\ o.ends = "failed"
                          /\ \A v : ReadField(o.on, v, input, NextTag.ptr).ptr = Null
               /\ o.on \notin Fields =>
                    \/ /\ NextTag.value # 0 /\ \A f \in Fields : NextTag.value # Tag(f)
                       /\ \/ o.ends = "no" /\ skip = next
                          \/ o.ends = "failed" /\ skip = Null
                    \/ o.ends = "stopped" /\ NextTag.value = 0
  <2> SUFFICES ASSUME k # n
               PROVE  IsReadAt(o, input, ptr)
    BY DEF IsReadAt, NextTag, next, skip
  <2> QED
    BY <1>4, <1>5, <1>7, OccurrenceIsRead
<1> HIDE DEF next, skip
<1>9. Looping => k # n /\ k \in 0 .. n - 1 /\ k + 1 \in 0 .. n
  <2>1. k \in 0 .. n /\ Looping => ptr <= Len(input)
    BY DEF Looping, n
  <2> QED
    BY <1>4, <1>5, <2>1
(* the next occurrence does not end it,                                    *)
<1>10. ASSUME k # n, o.ends = "no", ptr' = next, k + 1 \in 0 .. n,
             UNCHANGED <<parsing, input, outcome, wire, before, from>>,
             \A f \in Fields : Observed(f, msg'[parsing][f]) =
                                 IF o.on = f THEN o.value ELSE Observed(f, got[f])
      PROVE  WireInv'
  <2>1. \A i \in 1 .. k + 1 : wire[i].ends = "no"
    <3> SUFFICES ASSUME NEW i \in 1 .. k + 1
                 PROVE  wire[i].ends = "no"
      OBVIOUS
    <3>1. i \in 1 .. k \/ i = k + 1
      BY <1>4
    <3> QED
      BY <1>3, <1>10, <3>1 DEF Came, o
  <2>2. ASSUME NEW f \in Fields
        PROVE  Observed(f, msg'[parsing][f]) = ValueAfter(wire, before, f, k + 1)
    <3>1. Observed(f, got[f]) = ValueAfter(wire, before, f, k)
      BY <1>3 DEF Came
    <3> QED
      BY <1>10, <1>6, <3>1
  <2>3. Came(msg[parsing], k + 1)'
    BY <1>10, <2>1, <2>2 DEF Came
  <2>4. Position(wire, ptr, k + 1)'
    BY <1>5, <1>10
  <2> QED
    BY <1>1, <1>10, <2>3, <2>4 DEF WireInv, Progress, n
(* or it does.                                                             *)
<1>11. ASSUME k # n, k \in 0 .. n - 1, outcome' \in {"stopped", "failed"}, o.ends = outcome',
             UNCHANGED <<parsing, input, wire, before, from>>,
             \A f \in Fields : \/ o.on = f /\ Storage(f) = "message"
                             \/ msg'[parsing][f] = got[f]
      PROVE  WireInv'
  <2>1. Ended(msg[parsing], k)'
    BY <1>3, <1>11 DEF Came, Ended, o
  <2> QED
    BY <1>1, <1>11, <2>1 DEF WireInv, Progress, n
<1>12. ASSUME Done
       PROVE  WireInv'
  <2>1. k = n /\ Inside(input, ptr)
    BY <1>4, <1>5, <1>8, <1>12 DEF Done, Inside
  <2>2. End("done")
    BY <1>12, <2>1 DEF Done
  <2>3. /\ outcome' = "done" /\ msg'[parsing] = got
        /\ UNCHANGED <<parsing, input, wire, before, from>>
    BY <2>2 DEF End, got
  <2>4. Came(msg[parsing], n)'
    BY <1>3, <2>1, <2>3 DEF Came, n
  <2> QED
    BY <1>1, <2>3, <2>4 DEF WireInv, Progress, n
<1>13. ASSUME Stop
       PROVE  WireInv'
  <2>1. k # n /\ k \in 0 .. n - 1 /\ NextTag.value = 0
    BY <1>9, <1>13 DEF Stop
  <2>2. o.ends = "stopped"
    BY <1>8, <2>1, TagsDiffer
  <2>3. /\ outcome' = "stopped" /\ msg'[parsing] = got
        /\ UNCHANGED <<parsing, input, wire, before, from>>
    BY <1>13 DEF Stop, End, got
  <2> QED
    BY <1>11, <2>1, <2>2, <2>3
<1>14. ASSUME SkipUnknown
       PROVE  WireInv'
  <2>1. /\ k # n /\ k \in 0 .. n - 1 /\ k + 1 \in 0 .. n
        /\ NextTag.value # 0 /\ \A f \in Fields : NextTag.value # Tag(f)
    BY <1>9, <1>14 DEF SkipUnknown
  <2>2. o.on \notin Fields /\ \/ o.ends = "no" /\ skip = next
                              \/ o.ends = "failed" /\ skip = Null
    BY <1>8, <2>1
  <2>3. IF skip = Null THEN End("failed") ELSE UNCHANGED msg /\ Advance(skip)
    BY <1>14 DEF SkipUnknown, skip
  <2>4. CASE o.ends = "no" /\ skip = next
    <3>1. UNCHANGED <<msg, parsing, input, outcome, wire, before, from>> /\ ptr' = next
      BY <1>8, <2>1, <2>3, <2>4 DEF Advance
    <3>2. \A f \in Fields : Observed(f, msg'[parsing][f]) = Observed(f, got[f]) /\ o.on # f
      BY <2>2, <3>1 DEF got
    <3> QED
      BY <1>10, <2>1, <2>4, <3>1, <3>2
  <2>5. CASE o.ends = "failed" /\ skip = Null
    <3>1. /\ outcome' = "failed" /\ msg'[parsing] = got
          /\ UNCHANGED <<parsing, input, wire, before, from>>
      BY <2>3, <2>5 DEF End, got
    <3> QED
      BY <1>11, <2>1, <2>5, <3>1
  <2> QED
    BY <2>2, <2>4, <2>5
<1>15. ASSUME NEW f \in Fields, ParseField(f)
       PROVE  WireInv'
  <2> DEFINE r == ReadField(f, Current(f), input, NextTag.ptr)
  <2>1. /\ k # n /\ k \in 0 .. n - 1 /\ k + 1 \in 0 .. n
        /\ NextTag.value = Tag(f)
    BY <1>9, <1>15 DEF ParseField, Occurs
  <2>2. o.on = f
    BY <1>8, <2>1, TagsDiffer
  <2>3. \/ o.ends = "no" /\ r.ptr = next /\ Observed(f, r.value) = o.value
        \/ o.ends = "failed" /\ r.ptr = Null
    BY <1>8, <2>1, <2>2
  <2>4. \/ r.ptr # Null /\ Keep(f, r.value, r.ptr)
        \/ r.ptr = Null /\ End("failed")
        \/ /\ r.ptr = Null /\ r.value = NULL
           /\ \E c \in Contents : msg' = [msg EXCEPT ![parsing][f] = c]
           /\ outcome' = "failed"
           /\ UNCHANGED <<onArena, parsing, input, ptr, wire, before, from, calls>>
    BY <1>15 DEF ParseField
  <2>7. r.value = NULL => Storage(f) = "message"
    <3>1. Sound(f, Current(f))
      BY <1>1, TypeInParts DEF SoundMessages, SoundFields, Current
    <3>2. NextTag.ptr \in Nat \ {0}
      BY <1>15, TypeInParts, NextTagIsTyped DEF ParseField, Occurs, Looping, Parsing, Parser
    <3> QED
      BY <1>4, <3>1, <3>2, ReadingIsSound
  <2> HIDE DEF r
  <2>5. CASE o.ends = "no" /\ r.ptr = next /\ Observed(f, r.value) = o.value
    <3>1. Keep(f, r.value, r.ptr)
      BY <1>8, <2>1, <2>4, <2>5
    <3>2. /\ msg' = [msg EXCEPT ![parsing][f] = r.value] /\ ptr' = next
          /\ UNCHANGED <<parsing, input, outcome, wire, before, from>>
      BY <2>5, <3>1 DEF Keep, Advance
    <3>3. msg'[parsing] = [got EXCEPT ![f] = r.value]
      BY <1>1, <1>2, <3>2 DEF got
    <3>4. \A g \in Fields : Observed(g, msg'[parsing][g]) =
                              IF o.on = g THEN o.value ELSE Observed(g, got[g])
      BY <1>2, <2>2, <2>5, <3>3
    <3> QED
      BY <1>10, <2>1, <2>5, <3>2, <3>4
  <2>6. CASE o.ends = "failed" /\ r.ptr = Null
    <3>1. /\ outcome' = "failed" /\ UNCHANGED <<parsing, input, wire, before, from>>
          /\ \A g \in Fields : \/ g = f /\ Storage(g) = "message"
                              \/ msg'[parsing][g] = got[g]
      BY <1>1, <1>2, <2>4, <2>6, <2>7 DEF End, got
    <3> QED
      BY <1>11, <2>1, <2>2, <2>6, <3>1
  <2> QED
    BY <2>3, <2>5, <2>6
<1> QED
  BY <1>12, <1>13, <1>14, <1>15 DEF ParseStep

LEMMA StepKeepsWire ==
  ASSUME WiresAreFaithful, TypeOK, TransferInv, WireInv, [Next]_vars
  PROVE  WireInv'
<1>1. NULL \notin Messages
  BY ClassAssumption
<1>2. ASSUME UNCHANGED parseVars, Idle
      PROVE  WireInv'
  BY <1>2 DEF parseVars, WireInv, Idle
<1>3. ASSUME UNCHANGED vars
      PROVE  WireInv'
  BY <1>3 DEF vars, parseVars, WireInv, Progress, Came, Ended
<1>4. ASSUME NEW m \in Messages, NEW f \in Fields,
             GetLazy(m, f) \/ (\E x \in Given[f] : Set(m, f, x) \/ Mutate(m, f, x))
      PROVE  WireInv'
  BY <1>2, <1>4 DEF GetLazy, Set, Mutate, Store, Call
<1>5. ASSUME NEW m \in Messages, Clear(m)
      PROVE  WireInv'
  BY <1>2, <1>5 DEF Clear, Call
<1>6. ASSUME NEW m \in Messages, NEW n \in Messages, MergeFrom(m, n) \/ CopyFrom(m, n)
      PROVE  WireInv'
  BY <1>2, <1>6 DEF MergeFrom, CopyFrom, Call
<1>7. ASSUME NEW m \in Messages, NEW n \in Messages, Transfer(m, n)
      PROVE  WireInv'
  BY <1>1, <1>7 DEF Transfer, WireInv
<1>8. ASSUME NEW m \in Messages, NEW w \in Wires, Begin(m, w)
      PROVE  WireInv'
  <2>1. /\ outcome' = "none" /\ parsing' = m /\ ptr' = 1 /\ msg' = msg
        /\ input' = FlattenSeq(BytesOf(w)) /\ wire' = w /\ before' = Values(msg[m])
    BY <1>8 DEF Begin, Start, Call, Idle, TransferInv, BytesOf
  <2>2. Position(w, 1, 0) /\ Len(w) \in Nat
    BY FirstPosition, WiresAreTyped
  <2>3. ASSUME NEW f \in Fields
        PROVE  Observed(f, msg[m][f]) = ValueAfter(w, Values(msg[m]), f, 0)
    BY NoneDecides DEF Values
  <2>4. (Position(wire, ptr, 0) /\ Came(msg[parsing], 0))'
    BY <2>1, <2>2, <2>3 DEF Came
  <2>5. 0 \in 0 .. Len(w)
    BY <2>2
  <2> QED
    BY <2>1, <2>4, <2>5 DEF WireInv, Progress
<1>9. ASSUME ParseStep, from # NULL
      PROVE  WireInv'
  <2>1. from' = from
    BY <1>9 DEF ParseStep, Done, Stop, SkipUnknown, ParseField, Keep, Advance, End
  <2> QED
    BY <1>9, <2>1 DEF WireInv
<1>10. ASSUME Return
       PROVE  WireInv'
  BY <1>10 DEF Return, WireInv
<1> QED
  BY <1>3, <1>4, <1>5, <1>6, <1>7, <1>8, <1>9, <1>10, WireGoesOn DEF Next

(* What it says of a parse that has ended.                                 *)
LEMMA WireDecides ==
  ASSUME TypeOK, TransferInv, WireInv
  PROVE  LastWins
<1> SUFFICES ASSUME outcome # "none", from = NULL
             PROVE  LastWins
  BY DEF LastWins
<1> DEFINE n == Len(wire)
           S == {i \in 1 .. n : wire[i].ends # "no"}
<1>1. /\ parsing # NULL /\ wire \in Wires /\ Progress(msg[parsing])
      /\ outcome \in {"done", "stopped", "failed"}
  <2>1. outcome \in {"none", "done", "stopped", "failed"}
    BY TypeInParts DEF Parser
  <2> QED
    BY <2>1 DEF TransferInv, WireInv, Idle
<1>2. n \in Nat /\ DOMAIN wire = 1 .. n
  BY <1>1, WiresAreTyped
<1>3. Stopper = IF S # {} THEN Min(S) ELSE 0
  BY DEF Stopper, SelectInSeq
<1>4. ASSUME NEW k \in Nat, Applied = 1 .. k, NEW f \in Fields
      PROVE  Decided(f) = ValueAfter(wire, before, f, k)
  BY <1>4 DEF Decided, ValueAfter
<1>5. CASE outcome = "done"
  <2>1. Came(msg[parsing], n)
    BY <1>1, <1>5 DEF Progress
  <2>2. S = {}
    BY <1>2, <2>1 DEF Came
  <2>3. Stopper = 0 /\ Applied = 1 .. n
    BY <1>2, <1>3, <2>2 DEF Applied
  <2> HIDE DEF n
  <2> QED
    BY <1>2, <1>4, <1>5, <2>1, <2>3 DEF LastWins, Came, Current
<1>6. CASE outcome \in {"stopped", "failed"}
  <2>1. PICK k \in 0 .. n - 1 : Ended(msg[parsing], k)
    BY <1>1, <1>6 DEF Progress
  <2>2. k \in Nat /\ k + 1 \in DOMAIN wire /\ k + 1 # 0 /\ (k + 1) - 1 = k
    BY <1>2
  <2>3. k + 1 \in S /\ \A i \in S : k + 1 <= i
    <3>1. k + 1 \in S
      BY <1>6, <2>1, <2>2 DEF Ended
    <3>2. ASSUME NEW i \in S
          PROVE  k + 1 <= i
      <4>1. i \in 1 .. n /\ i \notin 1 .. k
        BY <1>2, <2>1 DEF Ended
      <4> QED
        BY <1>2, <2>2, <4>1
    <3> QED
      BY <3>1, <3>2
  <2>4. S \in SUBSET Nat
    BY <1>2
  <2> HIDE DEF S
  <2>5. Min(S) = k + 1
    BY <2>3, <2>4, MinIsLeast
  <2>6. Stopper = k + 1 /\ Applied = 1 .. k
    <3>1. Stopper = k + 1
      BY <1>3, <2>3, <2>5
    <3> QED
      BY <2>2, <3>1 DEF Applied
  <2> QED
    BY <1>4, <2>1, <2>2, <2>6 DEF LastWins, Ended, Current
<1> QED
  BY <1>1, <1>5, <1>6

(* When a parse of bytes that other code wrote has ended, each field has   *)
(* the value of its last occurrence before the bytes that ended it, in     *)
(* every class and for every input whose occurrences are what they claim,  *)
(* read one at a time: where they stand, and what is between them, makes   *)
(* no difference.  Only an eager submessage that ended the parse is open.  *)
THEOREM LastAlwaysWins == ASSUME WiresAreFaithful PROVE Spec => []LastWins
<1>1. Init => WireInv
  BY DEF Init, WireInv
<1>2. TypeOK /\ TransferInv /\ WireInv /\ [Next]_vars => WireInv'
  BY StepKeepsWire
<1>3. TypeOK /\ TransferInv /\ WireInv => LastWins
  BY WireDecides
<1> QED
  BY <1>1, <1>2, <1>3, MessagesAreTyped, TransfersAreKept, PTL DEF Spec

=============================================================================
