-------------------------- MODULE ArenaStringProofs --------------------------
(***************************************************************************)
(* What is true of ArenaString for every set of fields, strings, arenas    *)
(* and values, and with and without protobuf's arena.                      *)
(*                                                                         *)
(* Every operation that moves a field's word either gives the field a      *)
(* fresh string or makes it the default one.  There is one lemma for each  *)
(* of these two moves, and one for each thing they must not disturb.       *)
(***************************************************************************)
EXTENDS ArenaString, TLAPS

Kinds == {kDefault, kAllocated, kMutableArena}

(* The two low bits of an address are free, so address and kind come out   *)
(* of the word as they went in.                                            *)
LEMMA WordDecodes ==
  ASSUME NEW s \in Addresses, NEW type \in Kinds
  PROVE  DecodePtr(Encode(s, type)) = s /\ DecodeType(Encode(s, type)) = type
<1>1. s \in Nat /\ s % 4 = 0
  BY AlignmentAssumption DEF Addresses
<1>2. type \in 0 .. 3
  BY DEF Kinds, kDefault, kAllocated, kMutableArena
<1>3. (s + type) % 4 = type
  BY <1>1, <1>2, Z3
<1> QED
  BY <1>1, <1>2, <1>3 DEF Encode, DecodePtr, DecodeType

(* The word of each field is the one of its address and its kind.          *)
LEMMA WordsAreWhole ==
  ASSUME TypeOK, NEW f \in Fields
  PROVE  /\ Ptr(f) \in Addresses
         /\ CurrentType(f) \in Kinds
         /\ tagged_ptr[f] = Encode(Ptr(f), CurrentType(f))
<1>1. PICK s \in Addresses, type \in Kinds : tagged_ptr[f] = Encode(s, type)
  BY DEF TypeOK, Kinds
<1> QED
  BY <1>1, WordDecodes DEF Ptr, CurrentType

(* A field that is not the default one has a string of its own, which is   *)
(* in use, and lives.                                                      *)
LEMMA OwnStringInUse ==
  ASSUME IndInv, NEW f \in Fields, ~IsDefault(f)
  PROVE  /\ Ptr(f) \in Strings
         /\ place[Ptr(f)] \in Arenas \cup {"heap"}
         /\ CurrentType(f) \in {kAllocated, kMutableArena}
         /\ Live(f)
         /\ \A g \in Fields \ {f} : Ptr(g) # Ptr(f)
<1>1. CurrentType(f) \in {kAllocated, kMutableArena}
  BY WordsAreWhole DEF IndInv, IsDefault, Kinds
<1>2. place[Ptr(f)] \in Arenas \cup {"heap"}
  BY <1>1 DEF IndInv, TagTellsPlace
<1>3. Ptr(f) \in Strings
  <2>1. place[Ptr(f)] # "static"
    BY <1>2, StringAssumption
  <2> QED
    BY <2>1, WordsAreWhole DEF IndInv, MemoryInv, Addresses
<1>4. Live(f)
  <2>1. DecodeType(DefaultWord) = kDefault
    BY WordDecodes DEF DefaultWord, Addresses, Kinds
  <2> QED
    BY <2>1 DEF IndInv, LifeInv, IsDefault, CurrentType
<1>5. \A g \in Fields \ {f} : Ptr(g) # Ptr(f)
  BY DEF IndInv, OneOwner
<1> QED
  BY <1>1, <1>2, <1>3, <1>4, <1>5

(* A field gets the string s, fresh from the allocator: it was the default *)
(* one, nothing is deleted, and the words of the others stay.              *)
LEMMA FreshWord ==
  ASSUME IndInv, NEW f \in Fields, IsDefault(f),
         NEW a \in Arenas \cup {NULL}, NEW s \in Unused,
         SetTagged(f, s, TypeOn(a), AllocateString(s, a))
  PROVE  /\ place' = AllocateString(s, a)
         /\ tagged_ptr' = [tagged_ptr EXCEPT ![f] = Encode(s, TypeOn(a))]
         /\ Ptr(f)' = s
         /\ CurrentType(f)' = TypeOn(a)
         /\ \A g \in Fields \ {f} :
              Ptr(g)' = Ptr(g) /\ CurrentType(g)' = CurrentType(g)
<1>1. s \in Addresses /\ TypeOn(a) \in Kinds /\ TypeOn(a) # kDefault
  BY DEF Unused, Addresses, TypeOn, Kinds, kDefault, kAllocated, kMutableArena
<1>2. CurrentType(f) = kDefault /\ CurrentType(f) # kAllocated
  BY DEF IsDefault, kDefault, kAllocated
<1>3. /\ place' = AllocateString(s, a)
      /\ tagged_ptr' = [tagged_ptr EXCEPT ![f] = Encode(s, TypeOn(a))]
  BY <1>1, <1>2 DEF SetTagged, Delete
<1>4. tagged_ptr'[f] = Encode(s, TypeOn(a)) /\ \A g \in Fields \ {f} : tagged_ptr'[g] = tagged_ptr[g]
  BY <1>3 DEF IndInv, TypeOK
<1> QED
  BY <1>1, <1>3, <1>4, WordDecodes DEF Ptr, CurrentType

(* A field becomes the default one; the words of the others stay.          *)
LEMMA ResetWord ==
  ASSUME IndInv, NEW f \in Fields,
         tagged_ptr' = [tagged_ptr EXCEPT ![f] = DefaultWord]
  PROVE  /\ Ptr(f)' = DefaultString
         /\ CurrentType(f)' = kDefault
         /\ \A g \in Fields \ {f} :
              Ptr(g)' = Ptr(g) /\ CurrentType(g)' = CurrentType(g)
<1>1. DefaultString \in Addresses /\ kDefault \in Kinds
  BY DEF Addresses, Kinds
<1>2. tagged_ptr'[f] = DefaultWord /\ \A g \in Fields \ {f} : tagged_ptr'[g] = tagged_ptr[g]
  BY DEF IndInv, TypeOK
<1> QED
  BY <1>1, <1>2, WordDecodes DEF Ptr, CurrentType, DefaultWord

(* What the invariant says of words and places alone.                      *)
Placed ==
  /\ tagged_ptr \in [Fields -> {Encode(s, type) : s \in Addresses, type \in Kinds}]
  /\ place \in [Addresses -> Arenas \cup {"unused", "heap", "static", "freed"}]
  /\ TagTellsPlace
  /\ OneOwner
  /\ \A s \in Addresses : place[s] = "static" <=> s = DefaultString

(* A fresh string leaves tags true and owners unique: no field had it.     *)
LEMMA FreshKeepsPlaced ==
  ASSUME IndInv, NEW f \in Fields, IsDefault(f),
         NEW a \in Arenas \cup {NULL}, NEW s \in Unused,
         SetTagged(f, s, TypeOn(a), AllocateString(s, a)),
         life'[f] = "live", \A g \in Fields \ {f} : life'[g] = life[g]
  PROVE  Placed'
<1>1. s \in Strings /\ place[s] = "unused" /\ s \in Addresses /\ s # DefaultString
  BY AlignmentAssumption DEF Unused, Addresses
<1>2. \/ TypeOn(a) = kAllocated /\ place' = [place EXCEPT ![s] = "heap"]
      \/ TypeOn(a) = kMutableArena /\ a \in Arenas /\ place' = [place EXCEPT ![s] = a]
  BY FreshWord DEF AllocateString, TypeOn, OnArena
<1>3. /\ place' \in [Addresses -> Arenas \cup {"unused", "heap", "static", "freed"}]
      /\ \A r \in Addresses \ {s} : place'[r] = place[r]
      /\ \/ TypeOn(a) = kAllocated /\ place'[s] = "heap"
         \/ TypeOn(a) = kMutableArena /\ place'[s] \in Arenas
  BY <1>1, <1>2 DEF IndInv, TypeOK
<1>4. tagged_ptr' \in [Fields -> {Encode(r, type) : r \in Addresses, type \in Kinds}]
  <2>1. TypeOn(a) \in Kinds
    BY DEF TypeOn, Kinds
  <2>2. tagged_ptr' = [tagged_ptr EXCEPT ![f] = Encode(s, TypeOn(a))]
    BY FreshWord
  <2> QED
    BY <1>1, <2>1, <2>2 DEF IndInv, TypeOK, Kinds
<1>5. Ptr(f)' = s /\ CurrentType(f)' = TypeOn(a) /\ CurrentType(f)' # kDefault
  BY FreshWord DEF TypeOn, kAllocated, kMutableArena, kDefault
<1>6. \A g \in Fields \ {f} :
        /\ Ptr(g)' = Ptr(g) /\ CurrentType(g)' = CurrentType(g)
        /\ Ptr(g) \in Addresses \ {s} /\ place'[Ptr(g)] = place[Ptr(g)]
  <2> SUFFICES ASSUME NEW g \in Fields \ {f}
               PROVE  /\ Ptr(g)' = Ptr(g) /\ CurrentType(g)' = CurrentType(g)
                      /\ Ptr(g) \in Addresses \ {s}
    BY <1>3
  <2>1. Ptr(g)' = Ptr(g) /\ CurrentType(g)' = CurrentType(g)
    BY FreshWord
  <2>2. IsDefault(g) => Ptr(g) = DefaultString
    BY DEF IndInv, TagTellsPlace
  <2>3. ~IsDefault(g) => Ptr(g) # s
    BY <1>1, OwnStringInUse, StringAssumption
  <2> QED
    BY <1>1, <2>1, <2>2, <2>3, WordsAreWhole DEF IndInv
<1>7. TagTellsPlace'
  <2> SUFFICES ASSUME NEW g \in Fields
               PROVE  /\ CurrentType(g)' = kDefault => Ptr(g)' = DefaultString
                      /\ CurrentType(g)' = kAllocated => place'[Ptr(g)'] = "heap"
                      /\ CurrentType(g)' = kMutableArena => place'[Ptr(g)'] \in Arenas
    BY DEF TagTellsPlace, IsDefault
  <2>1. CASE g = f
    BY <2>1, <1>3, <1>5 DEF kAllocated, kMutableArena, kDefault
  <2>2. CASE g # f
    BY <2>2, <1>6 DEF IndInv, TagTellsPlace, IsDefault
  <2> QED
    BY <2>1, <2>2
<1>8. OneOwner'
  <2>1. ASSUME NEW g \in Fields, NEW h \in Fields, g # h, Ptr(g)' = Ptr(h)'
        PROVE  CurrentType(g)' = kDefault
    BY <2>1, <1>5, <1>6 DEF IndInv, OneOwner, IsDefault
  <2>2. ASSUME NEW r \in Strings, place'[r] = "heap"
        PROVE  \E g \in Fields : Ptr(g)' = r /\ life'[g] = "live"
    <3>1. CASE r = s
      BY <3>1, <1>5
    <3>2. CASE r # s
      <4>1. PICK g \in Fields : Ptr(g) = r /\ Live(g)
        BY <2>2, <3>2, <1>3 DEF IndInv, OneOwner, Addresses
      <4>2. g # f
        BY <4>1, AlignmentAssumption DEF IndInv, TagTellsPlace
      <4> QED
        BY <4>1, <4>2, <1>6 DEF Live
    <3> QED
      BY <3>1, <3>2
  <2> QED
    BY <2>1, <2>2 DEF OneOwner, IsDefault, Live
<1>9. \A r \in Addresses : place'[r] = "static" <=> r = DefaultString
  BY <1>1, <1>3, StringAssumption DEF IndInv, MemoryInv
<1> QED
  BY <1>3, <1>4, <1>7, <1>8, <1>9 DEF Placed

(* Clearing leaves tags true and owners unique: what is deleted was on the *)
(* heap, and no other field had it.                                        *)
LEMMA ResetKeepsPlaced ==
  ASSUME IndInv, NEW f \in Fields,
         place' = Delete(f, place),
         tagged_ptr' = [tagged_ptr EXCEPT ![f] = DefaultWord],
         \A g \in Fields \ {f} : life'[g] = life[g]
  PROVE  Placed'
<1>1. /\ place' \in [Addresses -> Arenas \cup {"unused", "heap", "static", "freed"}]
      /\ \A r \in Addresses :
           place'[r] = IF CurrentType(f) = kAllocated /\ r = Ptr(f) THEN "freed" ELSE place[r]
  <2> place \in [Addresses -> Arenas \cup {"unused", "heap", "static", "freed"}]
    BY DEF IndInv, TypeOK
  <2>1. CASE CurrentType(f) = kAllocated
    <3>1. place' = [place EXCEPT ![Ptr(f)] = "freed"]
      BY <2>1 DEF Delete
    <3> QED
      BY <2>1, <3>1
  <2>2. CASE CurrentType(f) # kAllocated
    BY <2>2 DEF Delete
  <2> QED
    BY <2>1, <2>2
<1>2. tagged_ptr' \in [Fields -> {Encode(r, type) : r \in Addresses, type \in Kinds}]
  BY DEF IndInv, TypeOK, Kinds, DefaultWord, Addresses
<1>3. Ptr(f)' = DefaultString /\ CurrentType(f)' = kDefault
  BY ResetWord
<1>4. \A g \in Fields \ {f} :
        /\ Ptr(g)' = Ptr(g) /\ CurrentType(g)' = CurrentType(g)
        /\ place'[Ptr(g)] = place[Ptr(g)]
  <2> SUFFICES ASSUME NEW g \in Fields \ {f}
               PROVE  /\ Ptr(g)' = Ptr(g) /\ CurrentType(g)' = CurrentType(g)
                      /\ place'[Ptr(g)] = place[Ptr(g)]
    OBVIOUS
  <2>1. CurrentType(f) = kAllocated => Ptr(g) # Ptr(f)
    BY OwnStringInUse DEF IsDefault, kDefault, kAllocated
  <2> QED
    BY <1>1, <2>1, ResetWord, WordsAreWhole DEF IndInv
<1>5. TagTellsPlace'
  <2> SUFFICES ASSUME NEW g \in Fields
               PROVE  /\ CurrentType(g)' = kDefault => Ptr(g)' = DefaultString
                      /\ CurrentType(g)' = kAllocated => place'[Ptr(g)'] = "heap"
                      /\ CurrentType(g)' = kMutableArena => place'[Ptr(g)'] \in Arenas
    BY DEF TagTellsPlace, IsDefault
  <2>1. CASE g = f
    BY <2>1, <1>3 DEF kAllocated, kMutableArena, kDefault
  <2>2. CASE g # f
    BY <2>2, <1>4 DEF IndInv, TagTellsPlace, IsDefault
  <2> QED
    BY <2>1, <2>2
<1>6. OneOwner'
  <2>1. ASSUME NEW g \in Fields, NEW h \in Fields, g # h, Ptr(g)' = Ptr(h)'
        PROVE  CurrentType(g)' = kDefault
    <3>1. g # f /\ h = f => IsDefault(g)
      <4>1. DefaultString \notin Strings
        BY AlignmentAssumption
      <4> QED
        BY <2>1, <1>3, <1>4, <4>1, OwnStringInUse
    <3>2. g # f /\ h # f => IsDefault(g)
      BY <2>1, <1>4 DEF IndInv, OneOwner
    <3> QED
      BY <2>1, <1>3, <1>4, <3>1, <3>2 DEF IsDefault
  <2>2. ASSUME NEW r \in Strings, place'[r] = "heap"
        PROVE  \E g \in Fields : Ptr(g)' = r /\ life'[g] = "live"
    <3>1. place[r] = "heap" /\ ~(CurrentType(f) = kAllocated /\ r = Ptr(f))
      BY <2>2, <1>1 DEF Addresses
    <3>2. PICK g \in Fields : Ptr(g) = r /\ Live(g)
      BY <2>2, <3>1 DEF IndInv, OneOwner
    <3>3. g # f
      <4> SUFFICES ASSUME g = f PROVE FALSE
        OBVIOUS
      <4>1. ~IsDefault(f)
        BY <3>2, AlignmentAssumption DEF IndInv, TagTellsPlace
      <4>2. CurrentType(f) = kMutableArena
        BY <3>1, <3>2, <4>1, OwnStringInUse
      <4> QED
        BY <3>1, <3>2, <4>2, StringAssumption DEF IndInv, TagTellsPlace
    <3> QED
      BY <3>2, <3>3, <1>4 DEF Live
  <2> QED
    BY <2>1, <2>2 DEF OneOwner, IsDefault, Live
<1>7. \A r \in Addresses : place'[r] = "static" <=> r = DefaultString
  <2>1. CurrentType(f) = kAllocated => Ptr(f) # DefaultString
    BY OwnStringInUse, AlignmentAssumption DEF IsDefault, kDefault, kAllocated
  <2> QED
    BY <1>1, <2>1 DEF IndInv, MemoryInv
<1> QED
  BY <1>1, <1>2, <1>5, <1>6, <1>7 DEF Placed

(* The invariant is what is said of words and places, and the rest.        *)
Rest ==
  /\ content \in [Addresses -> Values]
  /\ life \in [Fields -> {"none", "live", "gone"}]
  /\ held \in [Fields -> Strings \cup {NULL}]
  /\ \A s \in Addresses : place[s] \in {"static", "unused"} => content[s] = EmptyValue
  /\ PointerStable
  /\ LifeInv

LEMMA InvariantParts == (IndInv <=> Placed /\ Rest) /\ (Placed' /\ Rest' => IndInv')
BY DEF IndInv, TypeOK, MemoryInv, Placed, Rest, Kinds

(* After Own() the field has the string s, with v, or, if there is nothing *)
(* to assign, with the value the field had; no other field notices.        *)
LEMMA OwnResult ==
  ASSUME IndInv, NEW f \in Fields, Live(f), UNCHANGED life,
         NEW a \in Arenas \cup {NULL}, NEW s \in Strings, NEW v \in Values \cup {NULL},
         Own(f, a, s, v)
  PROVE  /\ Placed'
         /\ Ptr(f)' = s /\ CurrentType(f)' # kDefault
         /\ ~IsDefault(f) => Ptr(f) = s
         /\ content' = [content EXCEPT ![s] = IF v = NULL THEN content[Ptr(f)] ELSE v]
         /\ place'[s] \notin {"static", "unused"}
         /\ \A r \in Addresses \ {s} : place'[r] = place[r]
         /\ \A g \in Fields \ {f} :
              /\ Ptr(g)' = Ptr(g) /\ CurrentType(g)' = CurrentType(g)
              /\ tagged_ptr'[g] = tagged_ptr[g]
              /\ Ptr(g) # s
<1>1. s \in Addresses
  BY DEF Addresses
<1>2. place \in [Addresses -> Arenas \cup {"unused", "heap", "static", "freed"}]
  BY DEF IndInv, TypeOK
<1>3. CASE /\ CurrentType(f) \in {kAllocated, kMutableArena}
           /\ s = Ptr(f)
           /\ content' = [content EXCEPT ![s] = IF v = NULL THEN @ ELSE v]
           /\ UNCHANGED <<tagged_ptr, place>>
  <2>1. ~IsDefault(f)
    BY <1>3 DEF IsDefault, kAllocated, kMutableArena, kDefault
  <2>2. place[s] \in Arenas \cup {"heap"} /\ \A g \in Fields \ {f} : Ptr(g) # s
    BY <1>3, <2>1, OwnStringInUse
  <2>3. place[s] \notin {"static", "unused"}
    BY <2>2, StringAssumption
  <2>4. \A g \in Fields : Ptr(g)' = Ptr(g) /\ CurrentType(g)' = CurrentType(g)
    BY <1>3 DEF Ptr, CurrentType
  <2>5. Placed'
    <3>1. TagTellsPlace' /\ OneOwner'
      BY <1>3, <2>4 DEF IndInv, TagTellsPlace, OneOwner, IsDefault, Live
    <3> QED
      BY <1>3, <3>1, InvariantParts DEF Placed
  <2> QED
    BY <1>3, <2>1, <2>2, <2>3, <2>4, <2>5 DEF IsDefault
<1>4. CASE /\ CurrentType(f) \in {kDefault, kFixedSizeArena}
           /\ s \in Unused
           /\ SetTagged(f, s, TypeOn(a), AllocateString(s, a))
           /\ content' = [content EXCEPT ![s] =
                            IF v # NULL THEN v
                            ELSE IF CurrentType(f) = kDefault THEN EmptyValue
                                 ELSE content[Ptr(f)]]
  <2>1. IsDefault(f)
    BY <1>4, WordsAreWhole DEF IndInv, IsDefault, Kinds, kFixedSizeArena, kDefault,
       kAllocated, kMutableArena
  <2>2. content[Ptr(f)] = EmptyValue
    BY <2>1 DEF IndInv, TagTellsPlace, MemoryInv, Addresses
  <2>3. content' = [content EXCEPT ![s] = IF v = NULL THEN content[Ptr(f)] ELSE v]
    BY <1>4, <2>1, <2>2 DEF IsDefault
  <2>4. /\ place' = AllocateString(s, a)
        /\ tagged_ptr' = [tagged_ptr EXCEPT ![f] = Encode(s, TypeOn(a))]
        /\ Ptr(f)' = s /\ CurrentType(f)' = TypeOn(a)
        /\ \A g \in Fields \ {f} : Ptr(g)' = Ptr(g) /\ CurrentType(g)' = CurrentType(g)
    BY <1>4, <2>1, FreshWord
  <2>5. Placed'
    BY <1>4, <2>1, FreshKeepsPlaced DEF Live
  <2>6. CurrentType(f)' # kDefault
    BY <2>4 DEF TypeOn, kDefault, kAllocated, kMutableArena
  <2>7. place'[s] \in Arenas \cup {"heap"} /\ \A r \in Addresses \ {s} : place'[r] = place[r]
    BY <1>1, <1>2, <2>4 DEF AllocateString, OnArena
  <2>8. ASSUME NEW g \in Fields \ {f}
        PROVE  tagged_ptr'[g] = tagged_ptr[g] /\ Ptr(g) # s
    <3>1. tagged_ptr'[g] = tagged_ptr[g]
      BY <2>4 DEF IndInv, TypeOK
    <3>2. Ptr(g) # s
      <4>1. place[s] = "unused" /\ s # DefaultString
        BY <1>4, AlignmentAssumption DEF Unused
      <4> QED
        BY <4>1, OwnStringInUse, StringAssumption DEF IndInv, TagTellsPlace
    <3> QED
      BY <3>1, <3>2
  <2> QED
    BY <2>1, <2>3, <2>4, <2>5, <2>6, <2>7, <2>8, StringAssumption
<1> QED
  BY <1>3, <1>4 DEF Own

(* A constructor with an arena gives the field an empty string there.      *)
LEMMA ConstructResult ==
  ASSUME IndInv, NEW f \in Fields, NEW a \in Arenas \cup {NULL}, a # NULL, Construct(f, a)
  PROVE  \E s \in Strings :
           /\ Placed'
           /\ IsDefault(f)
           /\ Ptr(f)' = s /\ CurrentType(f)' # kDefault
           /\ place[s] = "unused"
           /\ place'[s] \notin {"static", "unused"}
           /\ \A r \in Addresses \ {s} : place'[r] = place[r]
           /\ \A g \in Fields \ {f} :
                /\ Ptr(g)' = Ptr(g) /\ CurrentType(g)' = CurrentType(g)
                /\ tagged_ptr'[g] = tagged_ptr[g]
<1>1. PICK s \in Unused : SetTagged(f, s, TypeOn(a), AllocateString(s, a))
  BY DEF Construct
<1>2. IsDefault(f)
  BY OwnStringInUse DEF Construct, Live
<1>3. life'[f] = "live" /\ \A g \in Fields \ {f} : life'[g] = life[g]
  BY DEF Construct, IndInv, TypeOK
<1>4. Placed'
  BY <1>1, <1>2, <1>3, FreshKeepsPlaced
<1>5. /\ place' = AllocateString(s, a)
      /\ tagged_ptr' = [tagged_ptr EXCEPT ![f] = Encode(s, TypeOn(a))]
      /\ Ptr(f)' = s /\ CurrentType(f)' = TypeOn(a)
      /\ \A g \in Fields \ {f} : Ptr(g)' = Ptr(g) /\ CurrentType(g)' = CurrentType(g)
  BY <1>1, <1>2, FreshWord
<1>6. CurrentType(f)' # kDefault
  BY <1>5 DEF TypeOn, kDefault, kAllocated, kMutableArena
<1>7. place \in [Addresses -> Arenas \cup {"unused", "heap", "static", "freed"}]
  BY DEF IndInv, TypeOK
<1>8. place'[s] \in Arenas \cup {"heap"} /\ \A r \in Addresses \ {s} : place'[r] = place[r]
  BY <1>1, <1>5, <1>7 DEF AllocateString, OnArena, Unused, Addresses
<1>9. \A g \in Fields \ {f} : tagged_ptr'[g] = tagged_ptr[g]
  BY <1>5 DEF IndInv, TypeOK
<1> QED
  BY <1>1, <1>2, <1>4, <1>5, <1>6, <1>8, <1>9, StringAssumption DEF Unused

(* Clear() and the destructor delete, make the field the default one, and  *)
(* take the pointer from its holder.                                       *)
LEMMA ResetResult ==
  ASSUME IndInv, NEW f \in Fields, Clear(f) \/ Destroy(f)
  PROVE  IndInv'
<1>1. /\ place' = Delete(f, place)
      /\ tagged_ptr' = [tagged_ptr EXCEPT ![f] = DefaultWord]
      /\ held' = [held EXCEPT ![f] = NULL]
      /\ UNCHANGED content
  BY DEF Clear, Destroy
<1>2. /\ life' \in [Fields -> {"none", "live", "gone"}]
      /\ \A g \in Fields \ {f} : life'[g] = life[g]
  BY DEF Clear, Destroy, IndInv, TypeOK
<1>3. Placed'
  BY <1>1, <1>2, ResetKeepsPlaced
<1>4. /\ held' \in [Fields -> Strings \cup {NULL}]
      /\ held'[f] = NULL /\ \A g \in Fields \ {f} : held'[g] = held[g]
      /\ tagged_ptr'[f] = DefaultWord /\ \A g \in Fields \ {f} : tagged_ptr'[g] = tagged_ptr[g]
  BY <1>1 DEF IndInv, TypeOK
<1>5. \A s \in Addresses :
        place'[s] \in {"static", "unused"} => content'[s] = EmptyValue
  <2>1. \A s \in Addresses : place'[s] \in {place[s], "freed"}
    <3>1. place \in [Addresses -> Arenas \cup {"unused", "heap", "static", "freed"}]
      BY DEF IndInv, TypeOK
    <3> QED
      BY <1>1, <3>1 DEF Delete
  <2> QED
    BY <1>1, <2>1 DEF IndInv, MemoryInv
<1>6. PointerStable'
  BY <1>4, ResetWord, <1>1 DEF IndInv, PointerStable, IsDefault
<1>7. LifeInv'
  BY <1>2, <1>4 DEF IndInv, LifeInv, Live
<1> QED
  BY <1>1, <1>2, <1>3, <1>4, <1>5, <1>6, <1>7, InvariantParts DEF Rest, IndInv, TypeOK

(* Set() and Mutable() keep the invariant where they take a string of the  *)
(* field's own.                                                            *)
LEMMA OwnKeeps ==
  ASSUME IndInv, NEW f \in Fields, Live(f), UNCHANGED life,
         NEW a \in Arenas \cup {NULL}, NEW s \in Strings, NEW v \in Values \cup {NULL},
         Own(f, a, s, v),
         held' \in {held, [held EXCEPT ![f] = s]}
  PROVE  IndInv'
<1>1. content' \in [Addresses -> Values]
  BY OwnResult, WordsAreWhole DEF IndInv, TypeOK
<1>2. \A r \in Addresses : place'[r] \in {"static", "unused"} => content'[r] = EmptyValue
  <2>1. content' = [content EXCEPT ![s] = IF v = NULL THEN content[Ptr(f)] ELSE v]
    BY OwnResult
  <2>2. \A r \in Addresses \ {s} : content'[r] = content[r]
    BY <2>1 DEF IndInv, TypeOK
  <2> QED
    BY <2>2, OwnResult DEF IndInv, MemoryInv
<1>3. held' \in [Fields -> Strings \cup {NULL}]
  BY DEF IndInv, TypeOK
<1>4. PointerStable'
  <2> SUFFICES ASSUME NEW g \in Fields, held'[g] # NULL
               PROVE  held'[g] = Ptr(g)' /\ CurrentType(g)' # kDefault
    BY DEF PointerStable, IsDefault
  <2>1. CASE g = f
    <3>1. held'[f] \in {held[f], s}
      BY DEF IndInv, TypeOK
    <3>2. held'[f] = s
      BY <2>1, <3>1, OwnResult DEF IndInv, PointerStable
    <3> QED
      BY <2>1, <3>2, OwnResult
  <2>2. CASE g # f
    <3>1. held'[g] = held[g]
      BY <2>2 DEF IndInv, TypeOK
    <3> QED
      BY <2>2, <3>1, OwnResult DEF IndInv, PointerStable, IsDefault
  <2> QED
    BY <2>1, <2>2
<1>5. LifeInv'
  <2> SUFFICES ASSUME NEW g \in Fields, life[g] # "live"
               PROVE  tagged_ptr'[g] = DefaultWord /\ held'[g] = NULL
    BY DEF LifeInv, Live
  <2>1. g # f
    BY DEF Live
  <2>2. held'[g] = held[g]
    BY <2>1 DEF IndInv, TypeOK
  <2> QED
    BY <2>1, <2>2, OwnResult DEF IndInv, LifeInv, Live
<1>6. Rest'
  BY <1>1, <1>2, <1>3, <1>4, <1>5 DEF Rest, IndInv, TypeOK
<1> QED
  BY <1>6, OwnResult, InvariantParts

(* In the beginning every field is the default one.                        *)
LEMMA InitEstablishes == Init => IndInv
<1> SUFFICES ASSUME Init PROVE IndInv
  OBVIOUS
<1>1. \A f \in Fields : Ptr(f) = DefaultString /\ CurrentType(f) = kDefault
  BY WordDecodes DEF Init, Ptr, CurrentType, DefaultWord, Addresses, Kinds
<1>2. TypeOK
  BY StringAssumption DEF Init, TypeOK, DefaultWord, Addresses
<1>3. TagTellsPlace /\ OneOwner
  <2>1. \A s \in Strings : place[s] = "unused"
    BY AlignmentAssumption DEF Init, Addresses
  <2> QED
    BY <1>1, <2>1 DEF TagTellsPlace, OneOwner, IsDefault, kDefault, kAllocated, kMutableArena
<1>4. PointerStable /\ MemoryInv /\ LifeInv
  BY DEF Init, PointerStable, MemoryInv, LifeInv
<1> QED
  BY <1>2, <1>3, <1>4 DEF IndInv

(* Every operation keeps the invariant.                                    *)
LEMMA NextKeeps == IndInv /\ [Next]_vars => IndInv'
<1> SUFFICES ASSUME IndInv, [Next]_vars PROVE IndInv'
  OBVIOUS
<1>1. ASSUME NEW f \in Fields, NEW a \in Arenas \cup {NULL}, Construct(f, a)
      PROVE  IndInv'
  <2> USE <1>1
  <2>1. /\ UNCHANGED <<content, held>>
        /\ life' \in [Fields -> {"none", "live", "gone"}]
        /\ ~Live(f)
        /\ \A g \in Fields \ {f} : life'[g] = life[g]
    BY DEF Construct, IndInv, TypeOK, Live
  <2>2. CASE a = NULL /\ UNCHANGED <<tagged_ptr, place>>
    <3>1. TagTellsPlace'
      BY <2>2 DEF IndInv, TagTellsPlace, IsDefault, Ptr, CurrentType
    <3>2. OneOwner'
      <4>1. \A g \in Fields : Live(g) => Live(g)'
        BY <2>1 DEF Live
      <4> QED
        BY <2>2, <4>1 DEF IndInv, OneOwner, IsDefault, Ptr, CurrentType
    <3>3. PointerStable' /\ MemoryInv'
      BY <2>1, <2>2 DEF IndInv, PointerStable, MemoryInv, IsDefault, Ptr, CurrentType
    <3>4. LifeInv'
      BY <2>1, <2>2 DEF IndInv, LifeInv, Live
    <3>5. TypeOK'
      BY <2>1, <2>2 DEF IndInv, TypeOK
    <3> QED
      BY <3>1, <3>2, <3>3, <3>4, <3>5 DEF IndInv
  <2>3. CASE a # NULL
    <3>1. PICK s \in Strings :
            /\ Placed'
            /\ place'[s] \notin {"static", "unused"}
            /\ \A r \in Addresses \ {s} : place'[r] = place[r]
            /\ \A g \in Fields \ {f} :
                 /\ Ptr(g)' = Ptr(g) /\ CurrentType(g)' = CurrentType(g)
                 /\ tagged_ptr'[g] = tagged_ptr[g]
      BY <2>3, ConstructResult
    <3>2. held[f] = NULL
      BY <2>1 DEF IndInv, LifeInv
    <3>3. PointerStable'
      BY <2>1, <3>1, <3>2 DEF IndInv, PointerStable, IsDefault
    <3>4. LifeInv'
      <4>1. life'[f] = "live"
        BY DEF Construct, IndInv, TypeOK
      <4> QED
        BY <2>1, <3>1, <4>1 DEF IndInv, LifeInv, Live
    <3>5. \A r \in Addresses : place'[r] \in {"static", "unused"} => content'[r] = EmptyValue
      BY <2>1, <3>1 DEF IndInv, MemoryInv
    <3>6. Rest'
      BY <2>1, <3>3, <3>4, <3>5 DEF Rest, IndInv, TypeOK
    <3> QED
      BY <3>1, <3>6, InvariantParts
  <2> QED
    BY <2>2, <2>3 DEF Construct
<1>2. ASSUME NEW f \in Fields, NEW a \in Arenas \cup {NULL}, Mutable(f, a)
      PROVE  IndInv'
  BY <1>2, OwnKeeps DEF Mutable
<1>3. ASSUME NEW f \in Fields, NEW v \in Values, NEW a \in Arenas \cup {NULL}, Set(f, v, a)
      PROVE  IndInv'
  <2>1. CASE UNCHANGED <<tagged_ptr, place, content>>
    <3>1. UNCHANGED vars
      BY <1>3, <2>1 DEF Set, vars
    <3> QED
      BY <3>1 DEF vars, IndInv, TypeOK, TagTellsPlace, OneOwner, PointerStable, MemoryInv,
         LifeInv, IsDefault, Live, Ptr, CurrentType
  <2>2. CASE \E s \in Strings : Own(f, a, s, v)
    BY <1>3, <2>2, OwnKeeps DEF Set
  <2> QED
    BY <1>3, <2>1, <2>2 DEF Set
<1>4. ASSUME NEW f \in Fields, NEW v \in Values, WriteThrough(f, v)
      PROVE  IndInv'
  <2> USE <1>4
  <2>1. /\ held[f] = Ptr(f) /\ ~IsDefault(f)
        /\ content' = [content EXCEPT ![held[f]] = v]
        /\ UNCHANGED <<tagged_ptr, place, life, held>>
    BY DEF WriteThrough, IndInv, PointerStable
  <2>2. place[held[f]] \notin {"static", "unused"}
    BY <2>1, OwnStringInUse, StringAssumption
  <2>3. MemoryInv'
    BY <2>1, <2>2 DEF IndInv, MemoryInv, TypeOK
  <2>4. TypeOK'
    <3>1. content \in [Addresses -> Values]
      BY DEF IndInv, TypeOK
    <3>2. content' \in [Addresses -> Values]
      BY <2>1, <3>1
    <3> QED
      BY <2>1, <3>2 DEF IndInv, TypeOK
  <2>5. TagTellsPlace' /\ OneOwner' /\ PointerStable' /\ LifeInv'
    BY <2>1 DEF IndInv, TagTellsPlace, OneOwner, PointerStable, LifeInv, IsDefault,
       Live, Ptr, CurrentType
  <2> QED
    BY <2>3, <2>4, <2>5 DEF IndInv
<1>5. ASSUME NEW f \in Fields, Clear(f) \/ Destroy(f)
      PROVE  IndInv'
  BY <1>5, ResetResult
<1>6. ASSUME UNCHANGED vars
      PROVE  IndInv'
  BY <1>6 DEF vars, IndInv, TypeOK, TagTellsPlace, OneOwner, PointerStable, MemoryInv,
     LifeInv, IsDefault, Live, Ptr, CurrentType
<1> QED
  BY <1>1, <1>2, <1>3, <1>4, <1>5, <1>6 DEF Next, AllGone

(* The invariant holds in every state of every behaviour.                  *)
THEOREM StringInvariant == Spec => []IndInv
BY InitEstablishes, NextKeeps, PTL DEF Spec

(* Tags are true: what a field deletes is on the heap, whatever arenas its *)
(* calls were given.                                                       *)
THEOREM TagsAreTrue == Spec => []TagTellsPlace
<1>1. IndInv => TagTellsPlace
  BY DEF IndInv
<1> QED
  BY <1>1, StringInvariant, PTL

(* There is neither a leak nor a double delete.                            *)
THEOREM OwnersAreUnique == Spec => []OneOwner
<1>1. IndInv => OneOwner
  BY DEF IndInv
<1> QED
  BY <1>1, StringInvariant, PTL

(* The pointer from Mutable() stays the field's own string.                *)
THEOREM PointersAreStable == Spec => []PointerStable
<1>1. IndInv => PointerStable
  BY DEF IndInv
<1> QED
  BY <1>1, StringInvariant, PTL

(* Only clearing leaves strings to their arenas, one at a time, and what   *)
(* was left stays so: a fresh string is unused, and one that is replaced   *)
(* was the default one.                                                    *)
THEOREM ClearingStrands == Spec => OnlyClearingStrands
<1> DEFINE Strands ==
      /\ Stranded \subseteq Stranded'
      /\ Stranded' # Stranded =>
           \E f \in Fields : /\ Stranded' = Stranded \cup {Ptr(f)}
                             /\ tagged_ptr'[f] = DefaultWord
<1>1. ASSUME IndInv, UNCHANGED <<tagged_ptr, place>>
      PROVE  Strands
  BY <1>1 DEF Stranded, Ptr
<1>2. ASSUME IndInv, NEW f \in Fields, NEW s \in Strings,
             Ptr(f)' = s, IsDefault(f) \/ Ptr(f) = s,
             IsDefault(f) => place[s] = "unused",
             \A r \in Addresses \ {s} : place'[r] = place[r],
             \A g \in Fields \ {f} : Ptr(g)' = Ptr(g)
      PROVE  Stranded' = Stranded
  <2>1. \A r \in Strings \ {s} : (\A g \in Fields : Ptr(g)' # r) <=> \A g \in Fields : Ptr(g) # r
    BY <1>2, AlignmentAssumption DEF IndInv, TagTellsPlace
  <2>2. s \notin Stranded /\ s \notin Stranded'
    BY <1>2, StringAssumption DEF Stranded
  <2> QED
    BY <1>2, <2>1, <2>2 DEF Stranded, Addresses
<1>3. ASSUME IndInv, NEW f \in Fields, NEW a \in Arenas \cup {NULL}, Construct(f, a)
      PROVE  Strands
  <2>1. CASE a # NULL
    <3>1. PICK s \in Strings :
            /\ IsDefault(f)
            /\ Ptr(f)' = s
            /\ place[s] = "unused"
            /\ \A r \in Addresses \ {s} : place'[r] = place[r]
            /\ \A g \in Fields \ {f} : Ptr(g)' = Ptr(g)
      BY <1>3, <2>1, ConstructResult
    <3> QED
      BY <1>3, <3>1, <1>2
  <2> QED
    BY <1>3, <2>1, <1>1 DEF Construct
<1>4. ASSUME IndInv, NEW f \in Fields, NEW a \in Arenas \cup {NULL}, NEW s \in Strings,
             NEW v \in Values \cup {NULL}, Own(f, a, s, v), Live(f), UNCHANGED life
      PROVE  Stranded' = Stranded
  <2>1. IsDefault(f) => place[s] = "unused"
    BY <1>4 DEF Own, Unused, IsDefault, kDefault, kAllocated, kMutableArena
  <2>2. /\ Ptr(f)' = s
        /\ IsDefault(f) \/ Ptr(f) = s
        /\ \A r \in Addresses \ {s} : place'[r] = place[r]
        /\ \A g \in Fields \ {f} : Ptr(g)' = Ptr(g)
    BY <1>4, OwnResult
  <2> QED
    BY <1>2, <1>4, <2>1, <2>2
<1>5. ASSUME IndInv, NEW f \in Fields, NEW a \in Arenas \cup {NULL}, Mutable(f, a)
      PROVE  Strands
  BY <1>5, <1>4 DEF Mutable
<1>6. ASSUME IndInv, NEW f \in Fields, NEW v \in Values, NEW a \in Arenas \cup {NULL}, Set(f, v, a)
      PROVE  Strands
  BY <1>6, <1>4, <1>1 DEF Set
<1>7. ASSUME IndInv, NEW f \in Fields, NEW v \in Values, WriteThrough(f, v)
      PROVE  Strands
  BY <1>7, <1>1 DEF WriteThrough
<1>8. ASSUME IndInv, NEW f \in Fields, Clear(f) \/ Destroy(f)
      PROVE  Strands
  <2>1. /\ place' = Delete(f, place)
        /\ tagged_ptr' = [tagged_ptr EXCEPT ![f] = DefaultWord]
    BY <1>8 DEF Clear, Destroy
  <2>2. /\ Ptr(f)' = DefaultString
        /\ \A g \in Fields \ {f} : Ptr(g)' = Ptr(g)
    BY <1>8, <2>1, ResetWord
  <2>3. tagged_ptr'[f] = DefaultWord
    BY <1>8, <2>1 DEF IndInv, TypeOK
  <2>4. \A r \in Strings : (\A g \in Fields : Ptr(g)' # r) <=>
                           r = Ptr(f) \/ \A g \in Fields : Ptr(g) # r
    <3>1. \A r \in Strings : r = Ptr(f) => ~IsDefault(f) /\ \A g \in Fields \ {f} : Ptr(g) # r
      BY <1>8, OwnStringInUse, AlignmentAssumption DEF IndInv, TagTellsPlace
    <3> QED
      BY <2>2, <3>1, AlignmentAssumption
  <2>5. \A r \in Strings :
          place'[r] \in Arenas <=> place[r] \in Arenas
    <3>1. place \in [Addresses -> Arenas \cup {"unused", "heap", "static", "freed"}]
      BY <1>8 DEF IndInv, TypeOK
    <3>2. CurrentType(f) = kAllocated => place[Ptr(f)] = "heap"
      BY <1>8 DEF IndInv, TagTellsPlace
    <3>3. \A r \in Strings : \/ place'[r] = place[r]
                             \/ place[r] = "heap" /\ place'[r] = "freed"
      BY <2>1, <3>1, <3>2 DEF Delete, Addresses
    <3> QED
      BY <3>3, StringAssumption
  <2> QED
    BY <2>3, <2>4, <2>5 DEF Stranded
<1>9. IndInv /\ [Next]_vars => [Strands]_vars
  BY <1>1, <1>3, <1>5, <1>6, <1>7, <1>8 DEF Next, AllGone, vars
<1> QED
  BY <1>9, StringInvariant, PTL DEF Spec, OnlyClearingStrands

(* When one field changes its value or its presence and no other does, its *)
(* cell does.                                                              *)
LEMMA OneCell ==
  ASSUME NEW f \in Fields, NEW v, NEW h \in BOOLEAN,
         content'[Ptr(f)'] = v, h <=> CurrentType(f)' # kDefault,
         \A g \in Fields \ {f} :
           content'[Ptr(g)'] = content[Ptr(g)] /\ CurrentType(g)' = CurrentType(g)
  PROVE  Cells!Cell(f, v, h)
BY DEF Cells!Cell, IsDefault

(* The same, where the field takes or keeps a string of its own.           *)
LEMMA OwnCell ==
  ASSUME IndInv, NEW f \in Fields, Live(f), UNCHANGED life,
         NEW a \in Arenas \cup {NULL}, NEW s \in Strings, NEW v \in Values \cup {NULL},
         Own(f, a, s, v)
  PROVE  Cells!Cell(f, IF v = NULL THEN content[Ptr(f)] ELSE v, TRUE)
<1>1. content' = [content EXCEPT ![s] = IF v = NULL THEN content[Ptr(f)] ELSE v]
  BY OwnResult
<1>2. content \in [Addresses -> Values] /\ s \in Addresses
  BY DEF IndInv, TypeOK, Addresses
<1>3. /\ Ptr(f)' = s /\ CurrentType(f)' # kDefault
      /\ \A g \in Fields \ {f} :
           Ptr(g)' = Ptr(g) /\ CurrentType(g)' = CurrentType(g) /\ Ptr(g) # s
  BY OwnResult
<1>4. \A g \in Fields : Ptr(g) \in Addresses
  BY WordsAreWhole DEF IndInv
<1>5. /\ content'[Ptr(f)'] = IF v = NULL THEN content[Ptr(f)] ELSE v
      /\ \A g \in Fields \ {f} : content'[Ptr(g)'] = content[Ptr(g)]
  BY <1>1, <1>2, <1>3, <1>4
<1> QED
  BY <1>3, <1>4, <1>5, OneCell

(* Every step of the strings is a step of the cells.                       *)
LEMMA StepIsCellStep ==
  IndInv /\ [Next]_vars => [Cells!Next]_(Cells!vars)
<1> SUFFICES ASSUME IndInv, [Next]_vars PROVE Cells!Next \/ UNCHANGED Cells!vars
  OBVIOUS
<1>1. ASSUME UNCHANGED vars
      PROVE  UNCHANGED Cells!vars
  BY <1>1 DEF vars, Cells!vars, IsDefault, Ptr, CurrentType
<1>2. ASSUME NEW f \in Fields, NEW a \in Arenas \cup {NULL}, Construct(f, a)
      PROVE  \E h \in BOOLEAN : Cells!Construct(f, h)
  <2>1. content[Ptr(f)] = EmptyValue /\ IsDefault(f)
    <3>1. IsDefault(f)
      BY <1>2, OwnStringInUse DEF Construct, Live
    <3> QED
      BY <3>1 DEF IndInv, TagTellsPlace, MemoryInv, Addresses
  <2>2. CASE a = NULL /\ UNCHANGED <<tagged_ptr, place>>
    <3>1. Cells!Cell(f, EmptyValue, FALSE)
      BY <1>2, <2>1, <2>2, OneCell DEF Construct, IsDefault, Ptr, CurrentType
    <3> QED
      BY <1>2, <3>1 DEF Construct, Cells!Construct
  <2>3. CASE a # NULL
    <3>1. PICK s \in Strings :
            /\ Ptr(f)' = s /\ CurrentType(f)' # kDefault
            /\ place[s] = "unused"
            /\ \A g \in Fields \ {f} : Ptr(g)' = Ptr(g) /\ CurrentType(g)' = CurrentType(g)
      BY <1>2, <2>3, ConstructResult
    <3>2. content[s] = EmptyValue
      BY <3>1 DEF IndInv, MemoryInv, Addresses
    <3>3. Cells!Cell(f, EmptyValue, TRUE)
      BY <1>2, <3>1, <3>2, OneCell DEF Construct
    <3> QED
      BY <1>2, <3>3 DEF Construct, Cells!Construct
  <2> QED
    BY <1>2, <2>2, <2>3 DEF Construct
<1>3. ASSUME NEW f \in Fields, NEW a \in Arenas \cup {NULL}, Mutable(f, a)
      PROVE  Cells!Mutable(f)
  <2>1. PICK s \in Strings : Own(f, a, s, NULL) /\ held' = [held EXCEPT ![f] = s]
    BY <1>3 DEF Mutable
  <2>2. Cells!Cell(f, content[Ptr(f)], TRUE)
    BY <1>3, <2>1, OwnCell DEF Mutable
  <2>3. s # NULL
    BY StringAssumption
  <2>4. {g \in Fields : held'[g] # NULL} = {g \in Fields : held[g] # NULL} \cup {f}
    BY <2>1, <2>3 DEF IndInv, TypeOK
  <2> QED
    BY <1>3, <2>2, <2>4 DEF Mutable, Live, Cells!Mutable
<1>4. ASSUME NEW f \in Fields, NEW v \in Values, NEW a \in Arenas \cup {NULL}, Set(f, v, a)
      PROVE  Cells!Set(f, v)
  <2>1. UNCHANGED <<life, held>> /\ life[f] = "live" /\ v # NULL
    BY <1>4, StringAssumption DEF Set, Live
  <2>2. CASE v = EmptyValue /\ IsDefault(f) /\ UNCHANGED <<tagged_ptr, place, content>>
    <3>1. content[Ptr(f)] = EmptyValue
      BY <2>2 DEF IndInv, TagTellsPlace, MemoryInv, Addresses
    <3>2. Cells!Cell(f, v, FALSE)
      BY <2>2, <3>1, OneCell DEF IsDefault, Ptr, CurrentType
    <3> QED
      BY <2>1, <2>2, <3>2 DEF Cells!Set
  <2>3. CASE ~(v = EmptyValue /\ IsDefault(f)) /\ \E s \in Strings : Own(f, a, s, v)
    <3>1. Cells!Cell(f, v, TRUE)
      BY <1>4, <2>1, <2>3, OwnCell DEF Set
    <3>2. (~IsDefault(f) \/ v # EmptyValue) = TRUE
      BY <2>3
    <3> QED
      BY <2>1, <3>1, <3>2 DEF Cells!Set
  <2> QED
    BY <1>4, <2>2, <2>3 DEF Set
<1>5. ASSUME NEW f \in Fields, NEW v \in Values, WriteThrough(f, v)
      PROVE  Cells!Write(f, v)
  <2>1. /\ held[f] = Ptr(f) /\ ~IsDefault(f) /\ held[f] # NULL
        /\ content' = [content EXCEPT ![Ptr(f)] = v]
        /\ UNCHANGED <<tagged_ptr, place, life, held>>
    BY <1>5 DEF WriteThrough, IndInv, PointerStable
  <2>2. \A g \in Fields : Ptr(g)' = Ptr(g) /\ CurrentType(g)' = CurrentType(g)
    BY <2>1 DEF Ptr, CurrentType
  <2>3. content \in [Addresses -> Values] /\ \A g \in Fields : Ptr(g) \in Addresses
    BY WordsAreWhole DEF IndInv, TypeOK
  <2>4. \A g \in Fields \ {f} : Ptr(g) # Ptr(f)
    BY <2>1, OwnStringInUse
  <2>5. Cells!Cell(f, v, ~IsDefault(f))
    BY <2>1, <2>2, <2>3, <2>4, OneCell DEF IsDefault
  <2> QED
    BY <2>1, <2>5 DEF Cells!Write
<1>6. ASSUME NEW f \in Fields, Clear(f) \/ Destroy(f)
      PROVE  Cells!Clear(f) \/ Cells!Destroy(f)
  <2>1. /\ tagged_ptr' = [tagged_ptr EXCEPT ![f] = DefaultWord]
        /\ held' = [held EXCEPT ![f] = NULL]
        /\ UNCHANGED content
    BY <1>6 DEF Clear, Destroy
  <2>2. /\ Ptr(f)' = DefaultString /\ CurrentType(f)' = kDefault
        /\ \A g \in Fields \ {f} : Ptr(g)' = Ptr(g) /\ CurrentType(g)' = CurrentType(g)
    BY <2>1, ResetWord
  <2>3. content[DefaultString] = EmptyValue
    BY DEF IndInv, MemoryInv, Addresses
  <2>4. Cells!Cell(f, EmptyValue, FALSE)
    BY <2>1, <2>2, <2>3, OneCell
  <2>5. {g \in Fields : held'[g] # NULL} = {g \in Fields : held[g] # NULL} \ {f}
    BY <2>1 DEF IndInv, TypeOK
  <2> QED
    BY <1>6, <2>4, <2>5 DEF Clear, Destroy, Live, Cells!Clear, Cells!Destroy
<1> QED
  BY <1>1, <1>2, <1>3, <1>4, <1>5, <1>6 DEF Next, AllGone, Cells!Next

(* Seen through Get() and IsDefault(), the fields are independent cells.   *)
THEOREM StringsAreCells == Spec => ImplementsCells
<1>1. Init => Cells!Init
  <2> SUFFICES ASSUME Init PROVE Cells!Init
    OBVIOUS
  <2>1. \A f \in Fields : Ptr(f) = DefaultString /\ CurrentType(f) = kDefault
    BY WordDecodes DEF Init, Ptr, CurrentType, DefaultWord, Addresses, Kinds
  <2> QED
    BY <2>1 DEF Init, Cells!Init, IsDefault, Addresses
<1> QED
  BY <1>1, StepIsCellStep, StringInvariant, PTL DEF Spec, ImplementsCells, Cells!Spec

=============================================================================
