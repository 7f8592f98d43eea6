------------------------------- MODULE MCSfs -------------------------------
(* Sfs for TLC.  The names are interchangeable: the directory is searched   *)
(* by slot, and only equality of names matters.                             *)
EXTENDS Sfs, TLC

NameSymmetry == Permutations(Name)
============================================================================
