---------------------------- MODULE TextNumbers ----------------------------
(***************************************************************************)
(* What strtoul() and strtof() make of a piece of text, as the parsers of  *)
(* script_parser.c and config.c see it: an integer in the units of the     *)
(* reader, a value that is not finite, or no number at all.                *)
(***************************************************************************)
EXTENDS Integers

CONSTANTS
  MaxUInt,      \* UINT_MAX
  NotFinite,    \* NaN or positive infinity, which strtof() reads
  NotANumber    \* text that does not start with a number, or overflows

ASSUME NumberAssumption == /\ MaxUInt \in Nat \ {0}
                           /\ NotFinite \notin Int
                           /\ NotANumber \notin Int
                           /\ NotFinite # NotANumber

Texts == Int \cup {NotFinite, NotANumber}

ReadsAsFloat(text) == text \in Int \cup {NotFinite}

(* Zero is refused by every reader of an unsigned number in the program.   *)
ReadsAsUInt(text) == text \in 1..MaxUInt
=============================================================================
