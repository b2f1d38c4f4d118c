----------------------------- MODULE MCPckEvidence -----------------------------
(***************************************************************************)
(* PckEvidence on small sets, for TLC: sizes and field values on both sides*)
(* of each boundary of the layouts, and chains of up to four certificates  *)
(* of Intel's or of somebody else's, one of them signed with the key of a  *)
(* PCK certificate.                                                        *)
(***************************************************************************)
EXTENDS PckEvidence, TLC

A(subject, issuer, key, signer, use, life, id) ==
    [subject |-> subject, issuer |-> issuer, key |-> key, signer |-> signer, use |-> use,
     life |-> life, ppid |-> id]

MCNames == {"root", "ca", "ca2", "pck", "pck2", "pck3"}
MCKeys == {"intel", "intelCa", "platform", "other"}
MCPpids == {"ppid", "ppid2", "otherPpid"}

MCCerts ==
    {A("root", "root", "intel", "intel", "ca", "valid", NoPpid),
     A("ca", "root", "intelCa", "intel", "ca", "valid", NoPpid),
     A("ca2", "root", "intelCa", "intel", "ca", "valid", NoPpid),
     A("pck", "ca", "platform", "intelCa", "leaf", "valid", "ppid"),
     A("pck2", "ca", "platform", "intelCa", "leaf", "over", "ppid2"),
     A("root", "root", "other", "other", "ca", "valid", NoPpid),
     A("ca", "root", "other", "other", "ca", "valid", NoPpid),
     A("pck", "ca", "platform", "other", "leaf", "valid", "otherPpid"),
     A("pck3", "pck", "other", "platform", "leaf", "valid", "otherPpid")}

\* A certificate may occur twice, in chains of up to three.
MCChains ==
    UNION {[1..n -> MCCerts] : n \in 1..3}
        \cup {h \in [1..4 -> MCCerts] : \A i, j \in 1..4 : h[i] = h[j] => i = j}
=============================================================================
