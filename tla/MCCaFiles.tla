------------------------------- MODULE MCCaFiles -------------------------------
(***************************************************************************)
(* CaFiles on small sets, for TLC.                                         *)
(***************************************************************************)
EXTENDS CaFiles, TLC

Interchangeable == Permutations(Proc) \cup Permutations(Key)
=============================================================================
