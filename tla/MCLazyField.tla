---------------------------- MODULE MCLazyField ----------------------------
(***************************************************************************)
(* Small instances of LazyField for TLC.                                   *)
(*                                                                         *)
(* A submessage has two values; a required field is missing in the first.  *)
(* "p1" is the encoding of the second, "long1" another one (a field occurs *)
(* twice, or a number takes more bytes than it needs), "bad" does not      *)
(* parse.                                                                  *)
(***************************************************************************)
EXTENDS LazyFieldInvariant, TLC

SmallDecoded == [none |-> "zero", p1 |-> "one", long1 |-> "one", bad |-> "malformed"]
SmallEncoded == [zero |-> "none", one |-> "p1"]

(* With a third value that lacks a required field too, and is refused when *)
(* it is read back.                                                        *)
PartialEncoded == [zero |-> "none", one |-> "p1", part |-> "bad"]

(* Threads, addresses and arenas are interchangeable in runs without       *)
(* liveness.                                                               *)
Symmetry == Permutations(Threads) \cup Permutations(Objs) \cup Permutations(Arenas)

=============================================================================
