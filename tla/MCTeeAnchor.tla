------------------------------ MODULE MCTeeAnchor ------------------------------
(***************************************************************************)
(* TeeAnchor on small sets, for TLC.                                       *)
(***************************************************************************)
EXTENDS TeeAnchor, TLC

Interchangeable == Permutations(Key) \cup Permutations(Serial)
=============================================================================
