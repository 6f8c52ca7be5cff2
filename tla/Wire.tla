-------------------------------- MODULE Wire --------------------------------
(***************************************************************************)
(* The varint readers and writers of the project: those every generated    *)
(* source file gets (compiler/generator/message_generator.py), those of    *)
(* LazyField and those of UnknownFieldSkipper.                             *)
(*                                                                         *)
(* A buffer is a sequence of bytes and a pointer is an index into it; one  *)
(* past the last byte is the end.  None of the readers knows where the     *)
(* buffer ends, so one that needs a byte after the end reads memory that   *)
(* is not its own: its pointer is then beyond the end, its value means     *)
(* nothing, and nothing is said about what follows.                        *)
(*                                                                         *)
(* The widths are parameters: a byte carries one digit and a bit that says *)
(* whether another byte follows.                                           *)
(***************************************************************************)
EXTENDS Naturals, SequencesExt

CONSTANTS
  Radix,     (* 128: the digits a byte carries                             *)
  Groups,    (* 10: the bytes of the longest varint                        *)
  Groups32,  (* 5: the bytes of the longest 32 bit varint                  *)
  Word,      (* 2^64                                                       *)
  Word32     (* 2^32                                                       *)

(* A short word is the low part of a long one and holds more than a digit. *)
ASSUME WordAssumption ==
  /\ {Radix, Groups, Groups32, Word, Word32} \subseteq Nat
  /\ Radix > 1
  /\ Radix < Word32 /\ Word32 < Word /\ Word % Word32 = 0

Byte == 0 .. 2 * Radix - 1

(* nullptr, and a pointer beyond the end of a buffer.                      *)
Null == 0
Beyond(buf) == Len(buf) + 2

(* Is p a pointer into buf, or to its end?                                 *)
Inside(buf, p) == p \in 1 .. Len(buf) + 1

Continues(b) == b >= Radix

(***************************************************************************)
(* Reading.                                                                *)
(***************************************************************************)

(* The number with the digits from p to last, the least significant first: *)
(* what the last k of them add up to.                                      *)
Digits(buf, p, last) ==
  LET top[k \in 0 .. last] ==
        IF k = 0 THEN 0 ELSE (buf[last + 1 - k] % Radix) + Radix * top[k - 1]
  IN  top[last + 1 - p]

(* The loop of every reader: digits are added at increasing shifts, those  *)
(* that the word has no room for are lost, and after the last group        *)
(* another byte is an error.                                               *)
ReadLoop(buf, p, groups, word) ==
  LET last == SelectInSubSeq(buf, p, Min({p + groups - 1, Len(buf)}),
                             LAMBDA b : ~Continues(b))
  IN  IF last # 0
      THEN [ptr |-> last + 1, value |-> Digits(buf, p, last) % word]
      ELSE [ptr |-> IF p + groups - 1 <= Len(buf) THEN Null ELSE Beyond(buf),
            value |-> 0]

(* ReadVarint() of the generated code.                                     *)
ReadVarint(buf, p) == ReadLoop(buf, p, Groups, Word)

(* LazyField::ReadVarint32(): five bytes at most, what exceeds 32 bits is  *)
(* lost.                                                                   *)
ReadVarint32(buf, p) == ReadLoop(buf, p, Groups32, Word32)

(* UnknownFieldSkipper::ReadVarint64Inline().                              *)
ReadVarint64Inline(buf, p) == ReadLoop(buf, p, Groups, Word)

(* Mutant: a number that is too large is truncated.                        *)
ReadTruncating(buf, p) ==
  LET r == ReadVarint64Inline(buf, p)
  IN  [r EXCEPT !.value = @ % Word32]

(* UnknownFieldSkipper::ReadVarint32Inline(): more than 32 bits are an     *)
(* error.                                                                  *)
ReadVarint32Inline(buf, p) ==
  LET r == ReadVarint64Inline(buf, p)
  IN  IF r.value >= Word32 THEN [ptr |-> Null, value |-> 0] ELSE r

(* ReadTag() of the generated code: 0, without moving, for a varint that   *)
(* cannot be read.                                                         *)
ReadTag(buf, p) ==
  LET r == ReadVarint(buf, p)
  IN  IF r.ptr = Null THEN [ptr |-> p, value |-> 0]
      ELSE [r EXCEPT !.value = @ % Word32]

(***************************************************************************)
(* Writing.                                                                *)
(***************************************************************************)

(* WriteVarint() of the generated code.                                    *)
WriteVarint(n) ==
  LET write[k \in Nat] ==
        IF k < Radix THEN <<k>>
        ELSE <<(k % Radix) + Radix>> \o write[k \div Radix]
  IN  write[n]

(* LazyField::WriteVarint32().                                             *)
WriteVarint32(n) == WriteVarint(n % Word32)

(* Mutant: the first size that needs another byte is taken for the last    *)
(* one that does not.                                                      *)
VarintSizeOff(n) ==
  LET size[k \in Nat] == IF k <= Radix THEN 1 ELSE 1 + size[k \div Radix]
  IN  size[n]

(* VarintSize() of the generated code, and _varint_size() of the generator *)
(* for the tags, whose sizes it writes as literals.                        *)
VarintSize(n) ==
  LET size[k \in Nat] == IF k < Radix THEN 1 ELSE 1 + size[k \div Radix]
  IN  size[n]

(* The longest varints are those of the largest words, and their last byte *)
(* has bits that the word has no room for.                                 *)
ASSUME GroupsAssumption ==
  /\ VarintSize(Word - 1) = Groups /\ VarintSize(Word) = Groups
  /\ VarintSize(Word32 - 1) = Groups32 /\ VarintSize(Word32) = Groups32

(* LazyField::Varint32Size().                                              *)
Varint32Size(n) == VarintSize(n % Word32)

(* LazyField::WriteLengthDelimitedBytes().                                 *)
WriteLengthDelimitedBytes(bytes) == WriteVarint32(Len(bytes)) \o bytes

=============================================================================
