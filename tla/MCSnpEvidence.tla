----------------------------- MODULE MCSnpEvidence -----------------------------
(***************************************************************************)
(* SnpEvidence on small sets, for TLC: two generations with a machine each,*)
(* the second one's hwID being short; certificates that ran out, that were *)
(* made by somebody else under AMD's names, and that belong to a key which *)
(* several machines of a provider hold (a VLEK, which has no hwID).        *)
(***************************************************************************)
EXTENDS SnpEvidence, TLC

MCKeys == {"arkMilan", "askMilan", "arkTurin", "askTurin", "key1", "key2", "vlek", "other"}
MCArks == {"arkMilan", "arkTurin"}

MCHolders == [k \in MCKeys |-> CASE k = "key1" -> {"m1"} [] k = "key2" -> {"m2"}
                                 [] k = "vlek" -> {"m1", "m2"} [] OTHER -> {}]

C(subject, issuer, key, signer, use, life, alg, hwid) ==
    [subject |-> subject, issuer |-> issuer, key |-> key, signer |-> signer, use |-> use,
     life |-> life, alg |-> alg, hwid |-> hwid]

Full(m) == [bytes |-> 64, chip |-> m]
Short(m) == [bytes |-> 8, chip |-> m]

AmdCerts ==
    {C("ARK-Milan", "ARK-Milan", "arkMilan", "arkMilan", "ca", "valid", "rsa", None),
     C("SEV-Milan", "ARK-Milan", "askMilan", "arkMilan", "ca", "valid", "rsa", None),
     C("SEV-VCEK", "SEV-Milan", "key1", "askMilan", "leaf", "valid", "ec", Full("m1")),
     C("SEV-VCEK", "SEV-Milan", "key1", "askMilan", "leaf", "over", "ec", Full("m1")),
     C("SEV-VLEK", "SEV-Milan", "vlek", "askMilan", "leaf", "valid", "ec", None),
     C("ARK-Turin", "ARK-Turin", "arkTurin", "arkTurin", "ca", "valid", "rsa", None),
     C("SEV-Turin", "ARK-Turin", "askTurin", "arkTurin", "ca", "valid", "rsa", None),
     C("SEV-VCEK", "SEV-Turin", "key2", "askTurin", "leaf", "valid", "ec", Short("m2"))}

\* For the comparison with hwID to matter, AMD's records must be wrong once.
MisissuedCerts ==
    {C("SEV-VCEK", "SEV-Milan", "key1", "askMilan", "leaf", "valid", "ec", Full("m2")),
     C("SEV-VCEK", "SEV-Turin", "key2", "askTurin", "leaf", "valid", "ec", Short("m1"))}

OtherCerts ==
    {C("ARK-Milan", "ARK-Milan", "other", "other", "ca", "valid", "rsa", None),
     C("SEV-Milan", "ARK-Milan", "other", "other", "ca", "valid", "rsa", None),
     C("SEV-VCEK", "SEV-Milan", "other", "other", "leaf", "valid", "ec", Full("m1"))}

MCCerts == AmdCerts \cup MisissuedCerts \cup OtherCerts

MCReports ==
    {r \in [size : {1183, 1184, 1185}, version : {1, 2, 5, 6}, sigAlgo : {0, 1, 2},
            chip : {"m1", "m2", "zero"}, signer : {"key1", "key2", "vlek", "other"}] :
        r.signer # "other" => r.chip \in MCHolders[r.signer] \cup {"zero"}}
=============================================================================
