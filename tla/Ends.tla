-------------------------------- MODULE Ends --------------------------------
(* The last element of a sequence and those before it, as in SequencesExt,   *)
(* whose other definitions the proofs would carry along.                     *)
EXTENDS Integers, Sequences

Last(s) == s[Len(s)]
Front(s) == SubSeq(s, 1, Len(s) - 1)
=============================================================================
