----------------------------- MODULE EagerField -----------------------------
(***************************************************************************)
(* What a lazily parsed submessage field promises its users: it behaves    *)
(* like a field that is parsed eagerly.  The field is a presence bit and a *)
(* message value; reading never changes either of them; parsing, mutating, *)
(* clearing and replacing the submessage change them at once.              *)
(*                                                                         *)
(* "opening" is the set of threads that have called Mutable() and are not  *)
(* done with its result, "editing" the set of those that have the pointer  *)
(* it returned, and "calls" counts the mutating calls.  They tell a step   *)
(* of a mutating call from a step of a reading one, which must leave       *)
(* everything here unchanged.                                              *)
(***************************************************************************)
EXTENDS Naturals

CONSTANTS
  Threads,
  Contents,   (* the values of the submessage                              *)
  Default,    (* the value of a submessage without any field set           *)
  Payloads,   (* the byte strings a field can be parsed from               *)
  ValueOf     (* the value each byte string stands for                     *)

VARIABLES present, value, opening, editing, calls

vars == <<present, value, opening, editing, calls>>

Init ==
  /\ present = FALSE
  /\ value   = Default
  /\ opening = {}
  /\ editing = {}
  /\ calls   = 0

Call == calls' = calls + 1

(* The field occurs on the wire with payload p.                            *)
Parse(p) ==
  /\ opening = {}
  /\ Call
  /\ present' = TRUE
  /\ value'   = ValueOf[p]
  /\ UNCHANGED <<opening, editing>>

(* The submessage is removed.                                              *)
Erase ==
  /\ opening = {}
  /\ Call
  /\ present' = FALSE
  /\ value'   = Default
  /\ UNCHANGED <<opening, editing>>

(* A submessage built elsewhere is installed.                              *)
Adopt(c) ==
  /\ opening = {}
  /\ Call
  /\ present' = TRUE
  /\ value'   = c
  /\ UNCHANGED <<opening, editing>>

(* Mutable(): started, then the field becomes present with the value it    *)
(* had, then the pointer is handed out, written through and given up.      *)
StartMutable(t) ==
  /\ t \notin opening
  /\ Call
  /\ opening' = opening \cup {t}
  /\ UNCHANGED <<present, value, editing>>

Touch(t) ==
  /\ t \in opening \ editing
  /\ present' = TRUE
  /\ UNCHANGED <<value, opening, editing, calls>>

(* Of two overlapping calls, one may return while the other is about to    *)
(* make the field present.                                                 *)
Open(t) ==
  /\ t \in opening \ editing
  /\ present \/ opening \ (editing \cup {t}) # {}
  /\ editing' = editing \cup {t}
  /\ UNCHANGED <<present, value, opening, calls>>

Write(t, c) ==
  /\ editing = {t} /\ opening = {t}
  /\ present
  /\ value' = c
  /\ UNCHANGED <<present, opening, editing, calls>>

Close(t) ==
  /\ t \in editing
  /\ opening' = opening \ {t}
  /\ editing' = editing \ {t}
  /\ UNCHANGED <<present, value, calls>>

Next ==
  \/ \E p \in Payloads : Parse(p)
  \/ Erase
  \/ \E c \in Contents : Adopt(c)
  \/ \E t \in Threads : StartMutable(t) \/ Touch(t) \/ Open(t) \/ Close(t)
  \/ \E t \in Threads, c \in Contents : Write(t, c)

Spec == Init /\ [][Next]_vars

=============================================================================
