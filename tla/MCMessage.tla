----------------------------- MODULE MCMessage -----------------------------
(***************************************************************************)
(* A class with one field of each kind, and a flag.  A byte has two bits   *)
(* besides the one that says whether another follows, so that tags take    *)
(* several bytes and so does the length of the longer text.  Short words   *)
(* have 7 bits and long ones 9.                                            *)
(***************************************************************************)
EXTENDS GeneratedMessage, TLC

AllFields  == <<"id", "ratio", "name", "late", "now", "flag">>
AllNumbers == [id |-> 1, ratio |-> 2, name |-> 3, late |-> 4, now |-> 5, flag |-> 7]
AllTypes   == [id |-> "int32", ratio |-> "double", name |-> "string",
               late |-> "message", now |-> "message", flag |-> "bool"]

(* The class without the flag, which adds nothing to copying.              *)
MostFields  == SubSeq(AllFields, 1, 5)
Most(table) == [f \in ToSet(MostFields) |-> table[f]]
MostNumbers == Most(AllNumbers)
MostTypes   == Most(AllTypes)

(* A submessage is empty, set, or lacks a required field; it is "fresh"    *)
(* where it is empty and was constructed on an arena.  "set" has a second  *)
(* encoding.  In a strict class the empty ones lack that field as well.    *)
SubContents == {"empty", "fresh", "set", "partial"}
SubSeen     == [c \in SubContents |-> IF c = "fresh" THEN "empty" ELSE c]
SubEncoded  == [empty |-> <<>>, fresh |-> <<6, 0>>, set |-> <<4, 2, 1>>, partial |-> <<4, 2, 0>>]
StrictDecoded == (<<4, 2, 1>> :> "set") @@ (<<4, 2, 5, 0>> :> "set")
SubDecoded  == StrictDecoded @@ (<<>> :> "empty") @@ (<<6, 0>> :> "empty")
SubMerged   == [c \in SubContents |->
                  [d \in SubContents |-> IF d = "empty" THEN c ELSE d]]

(* 127 is the int32 -1, and <<0, 4>> a negative zero.                      *)
AllGiven ==
  [id |-> {1, 127}, ratio |-> {<<0, 4>>, <<5, 1>>}, flag |-> {1},
   name |-> {<<>>, <<1, 0, 7, 2>>}, late |-> SubContents \ {"fresh"},
   now |-> SubContents \ {"fresh"}]
MostGiven == Most(AllGiven)

(* Before parsing it is enough that a field has been set.                  *)
FewGiven ==
  [id |-> {1}, ratio |-> {<<5, 1>>}, flag |-> {1}, name |-> {<<1, 0, 7, 2>>},
   late |-> {"set"}, now |-> {"set"}]

(***************************************************************************)
(* Occurrences.                                                            *)
(***************************************************************************)

Occurrence(f, bytes, value, ends) ==
  [on |-> f, bytes |-> bytes, value |-> value, ends |-> ends]

Header(number, type) == WriteVarint(TagOf(number, type))
Sized(bytes) == WriteVarint(Len(bytes)) \o bytes

(* A length of zero, a number 1 and the tag of field 1 in the longest form;*)
(* a varint that goes on for too long.                                     *)
LongZero == <<4, 4, 4, 4, 0>>
LongOne  == <<5, 4, 4, 4, 0>>
LongTag  == <<4, 6, 4, 4, 0>>
Endless  == <<4, 4, 4, 4, 4>>

Good ==
  {Occurrence("id", Header(1, VARINT) \o WriteVarint(1), 1, "no"),
   Occurrence("id", LongTag \o LongOne, 1, "no"),
   Occurrence("id", Header(1, VARINT) \o WriteVarint(Word - 1), 127, "no"),
   Occurrence("ratio", Header(2, FIXED64) \o <<5, 1>>, <<5, 1>>, "no"),
   Occurrence("flag", Header(7, VARINT) \o WriteVarint(Word32), 1, "no"),
   Occurrence("name", Header(3, LENGTH_DELIMITED) \o Sized(<<1, 0, 7, 2>>), <<1, 0, 7, 2>>, "no"),
   Occurrence("name", Header(3, LENGTH_DELIMITED) \o LongZero, <<>>, "no"),
   Occurrence("late", Header(4, LENGTH_DELIMITED) \o Sized(<<4, 2, 5, 0>>), "set", "no"),
   Occurrence("late", Header(4, LENGTH_DELIMITED) \o Sized(<<>>), "empty", "no"),
   Occurrence("late", Header(4, LENGTH_DELIMITED) \o Sized(<<3>>), "empty", "no"),
   Occurrence("now", Header(5, LENGTH_DELIMITED) \o Sized(<<4, 2, 5, 0>>), "set", "no"),
   Occurrence("now", Header(5, LENGTH_DELIMITED) \o Sized(<<>>), "empty", "no")}

(* Field 6 is unknown; the others come with a wire type that is not theirs.*)
Unknown ==
  {Occurrence(NULL, Header(6, VARINT) \o WriteVarint(Word - 1), NULL, "no"),
   Occurrence(NULL, Header(6, START_GROUP) \o Header(1, VARINT) \o <<1>> \o Header(6, END_GROUP),
              NULL, "no"),
   Occurrence(NULL, Header(1, LENGTH_DELIMITED) \o Sized(Header(1, VARINT)), NULL, "no"),
   Occurrence(NULL, Header(4, VARINT) \o <<2>>, NULL, "no"),
   Occurrence(NULL, Header(2, FIXED32) \o <<1>>, NULL, "no")}

Bad ==
  {Occurrence("id", Header(1, VARINT) \o Endless, 0, "failed"),
   Occurrence("late", Header(4, LENGTH_DELIMITED) \o LongZero, "empty", "failed"),
   Occurrence("now", Header(5, LENGTH_DELIMITED) \o Sized(<<3>>), "empty", "failed"),
   Occurrence("now", Header(5, LENGTH_DELIMITED) \o WriteVarint(Word32 \div 2), "empty", "failed"),
   Occurrence("name", Header(3, LENGTH_DELIMITED) \o Endless, <<>>, "failed"),
   Occurrence(NULL, Header(6, END_GROUP), NULL, "failed"),
   Occurrence(NULL, Header(6, START_GROUP) \o Header(5, END_GROUP), NULL, "failed"),
   Occurrence(NULL, <<0>>, NULL, "stopped"),
   Occurrence(NULL, Endless, NULL, "stopped")}

(* The inputs of the class without the flag, whose submessages are strict. *)
Single == {<<o>> : o \in {o \in Good : o.on # "flag" /\ <<o.on, o.value>> # <<"now", "empty">>}}
Pairs  ==
  {p \in Good \X Good : p[1].on \in {p[2].on, "now"}}
    \cup (Good \X (Unknown \cup Bad)) \cup (Unknown \X (Good \cup Bad))
    \cup (Bad \X {o \in Good : o.on = "ratio"})

(* They are what they claim, which LastWins takes for granted.             *)
ASSUME OccurrencesAssumption == WiresAreFaithful

Symmetry == Permutations(Messages)

=============================================================================
