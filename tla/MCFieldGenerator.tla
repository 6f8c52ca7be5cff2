--------------------------- MODULE MCFieldGenerator ---------------------------
(***************************************************************************)
(* One field of every type, and a lazy one.  Short words have 8 bits and   *)
(* long ones 10, so that the tag of each field fits into a short one.      *)
(***************************************************************************)
EXTENDS FieldGenerator, TLC

Order == <<"int32", "double", "string", "lazy", "message", "bool", "int64", "uint64", "fixed64",
           "fixed32", "float", "uint32", "sfixed32", "sfixed64", "sint32", "sint64", "enum",
           "bytes">>

AllFields  == ToSet(Order)
AllNumbers == [f \in AllFields |-> CHOOSE i \in DOMAIN Order : Order[i] = f]
AllTypes   == [f \in AllFields |-> IF f = "lazy" THEN "message" ELSE f]

AllNames   == [f \in {"lazy", "message"} |-> IF f = "lazy" THEN <<"package", "M">> ELSE <<"M">>]

(* A submessage has one of two optional fields set, or both, or lacks a    *)
(* required one.                                                           *)
SubContents == {"empty", "a", "b", "ab", "partial"}
SubEncoded  == [empty |-> <<>>, a |-> <<9, 1, 1, 7>>, b |-> <<10, 1, 2, 1, 1>>,
                ab |-> <<9, 1, 1, 7, 10, 1, 2, 1, 1>>, partial |-> <<9, 1, 0>>]
SubSeen     == [c \in SubContents |-> c]
SubComplete == SubContents \ {"partial"}
SubDecoded  == [bytes \in {SubEncoded[c] : c \in SubComplete} |->
                  CHOOSE c \in SubComplete : SubEncoded[c] = bytes]
SubMerged   ==
  [c \in SubContents |-> [d \in SubContents |->
     CASE d = "empty"             -> c
       [] c = "empty" \/ c = d     -> d
       [] "partial" \in {c, d}    -> "partial"
       [] OTHER                   -> "ab"]]

(* Words have their largest, their smallest negative and some small values.*)
Numbers(word) == {1, 2, word \div 2 - 1, word \div 2, word - 1}

AllGiven ==
  [f \in AllFields |->
     CASE AllTypes[f] = "message"                      -> SubContents
       [] AllTypes[f] \in StringTypes                  -> {<<>>, <<3>>, <<1, 0, 7, 2, 8, 8, 15, 0>>}
       [] AllTypes[f] = "bool"                         -> {0, 1}
       [] AllTypes[f] \in Fixed64Types                 -> {<<0, 0>>, <<0, Radix>>, <<9, 1>>}
       [] AllTypes[f] \in Fixed32Types                 -> {<<0>>, <<Radix>>, <<15>>}
       [] cpp_scalar_type[AllTypes[f]] \in {"int32_t", "uint32_t"} -> Numbers(Word32)
       [] OTHER                                        -> Numbers(Word)]

=============================================================================
