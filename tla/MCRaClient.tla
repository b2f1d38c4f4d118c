------------------------------- MODULE MCRaClient -------------------------------
(***************************************************************************)
(* RaClient on small sets, for TLC: an enclave of the required identity,   *)
(* one that is too old, and one of another product and signer.             *)
(***************************************************************************)
EXTENDS RaClient, TLC

CONSTANTS good, older, other

Id(mrsigner, svn, prod) == [mrenclave |-> "any", mrsigner |-> mrsigner, svn |-> svn, prod |-> prod]

MCRequired == Id("ours", 2, 1)

MCIdentity ==
    (good :> Id("ours", 3, 1)) @@ (older :> Id("ours", 1, 1)) @@ (other :> Id("theirs", 2, 0))
=============================================================================
