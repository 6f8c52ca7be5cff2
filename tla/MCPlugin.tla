------------------------------ MODULE MCPlugin ------------------------------
(***************************************************************************)
(* Names of files: a/b.proto, A/b.proto, a.b.proto and a_b_proto have the  *)
(* same guard; a.protos/b.proto and c have others.                         *)
(***************************************************************************)
EXTENDS TranslationUnits

AllNames ==
  {<<"a", "/", "b", ".proto">>, <<"A", "/", "b", ".proto">>, <<"a", ".", "b", ".proto">>,
   <<"a", "_", "b", "_", "proto">>, <<"a", ".proto", "s", "/", "b", ".proto">>, <<"c">>}

Capitals == [a |-> "A", A |-> "A", b |-> "B", c |-> "C", s |-> "S", proto |-> "PROTO"]

ASSUME PlainNamesAssumption == PlainNames

=============================================================================
