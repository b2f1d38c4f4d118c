--------------------------- MODULE MCRevocationStore ---------------------------
(***************************************************************************)
(* RevocationStore on small sets, for TLC.                                 *)
(***************************************************************************)
EXTENDS RevocationStore, TLC

Interchangeable == Permutations(Proc) \cup Permutations(Serial)
=============================================================================
