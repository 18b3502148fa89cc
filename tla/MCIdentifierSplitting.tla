------------------------ MODULE MCIdentifierSplitting ------------------------
(***************************************************************************)
(* Every identifier of up to MaxLen characters over a lower-case letter    *)
(* and its capital, an underscore and a digit (the class of everything     *)
(* that is neither, bytes above 127 included).                             *)
(***************************************************************************)
EXTENDS IdentifierSplitting, SequencesExt

CONSTANT MaxLen

MCChar == {"a", "A", "_", "1"}
MCLower == {"a"}
MCUpper == {"A"}
MCToLower == [c \in MCChar |-> IF c = "A" THEN "a" ELSE c]
MCInputs == SeqOf(MCChar, MaxLen)
=============================================================================
