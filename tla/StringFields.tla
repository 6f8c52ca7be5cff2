---------------------------- MODULE StringFields ----------------------------
(***************************************************************************)
(* What ArenaString promises: each string field is a cell of its own, with *)
(* a value and a bit that tells whether the field differs from the default *)
(* one.  A pointer from Mutable() reads and writes that cell until the     *)
(* field is cleared or destroyed.  No operation on one field is visible in *)
(* another, and storage does not appear here at all.                       *)
(***************************************************************************)
CONSTANTS Fields, Values, EmptyValue

VARIABLES
  life,     (* has the field been constructed, has it been destroyed?      *)
  value,    (* what Get() returns                                          *)
  has,      (* ~IsDefault()                                                *)
  open      (* the fields to which somebody holds a pointer                *)

vars == <<life, value, has, open>>

Init ==
  /\ life  = [f \in Fields |-> "none"]
  /\ value = [f \in Fields |-> EmptyValue]
  /\ has   = [f \in Fields |-> FALSE]
  /\ open  = {}

Cell(f, v, h) ==
  /\ value' = [value EXCEPT ![f] = v]
  /\ has'   = [has EXCEPT ![f] = h]

(* A field that is constructed on an arena has its string from the start.  *)
Construct(f, h) ==
  /\ life[f] = "none"
  /\ life' = [life EXCEPT ![f] = "live"]
  /\ Cell(f, EmptyValue, h)
  /\ UNCHANGED open

(* Setting the empty value leaves a default field the default one.         *)
Set(f, v) ==
  /\ life[f] = "live"
  /\ Cell(f, v, has[f] \/ v # EmptyValue)
  /\ UNCHANGED <<life, open>>

Mutable(f) ==
  /\ life[f] = "live"
  /\ Cell(f, value[f], TRUE)
  /\ open' = open \cup {f}
  /\ UNCHANGED life

Write(f, v) ==
  /\ f \in open
  /\ Cell(f, v, has[f])
  /\ UNCHANGED <<life, open>>

Clear(f) ==
  /\ life[f] = "live"
  /\ Cell(f, EmptyValue, FALSE)
  /\ open' = open \ {f}
  /\ UNCHANGED life

Destroy(f) ==
  /\ life[f] = "live"
  /\ life' = [life EXCEPT ![f] = "gone"]
  /\ Cell(f, EmptyValue, FALSE)
  /\ open' = open \ {f}

Next ==
  \E f \in Fields :
    \/ \E h \in BOOLEAN : Construct(f, h)
    \/ \E v \in Values : Set(f, v) \/ Write(f, v)
    \/ Mutable(f) \/ Clear(f) \/ Destroy(f)

Spec == Init /\ [][Next]_vars

=============================================================================
