------------------------------ MODULE SnpEvidence ------------------------------
(***************************************************************************)
(* How an SEV-SNP report becomes a chip id: the report's header, the pin of*)
(* AMD's root key, the chain from it to the VCEK, the report's signature   *)
(* and the comparison with the hwID extension.                             *)
(*                                                                         *)
(* The report and the three certificates are files of their own, fetched   *)
(* from the machine and from AMD's server, so that any may come from       *)
(* another machine, generation or time than the others; and since the      *)
(* directory may be refreshed meanwhile, what one look or read finds says  *)
(* nothing about the next.                                                 *)
(***************************************************************************)
EXTENDS X509

CONSTANTS
    Machine, ZeroId,   \* chip ids; what CHIP_ID shows when it is masked
    Key,
    PinnedArks,        \* the keys whose digests are in amd_ark_pubkeys.hpp
    Holders,           \* Holders[k]: the machines whose firmware signs reports with key k
    Reports,           \* what a --report file may hold
    Certs,             \* what a PEM file may hold
    None,              \* no file; nothing loaded; no hwID
    Torn               \* a file that does not load

\* The hwID extension is as long as CHIP_ID (64 bytes), or it has only the leading bytes of
\* it that are not always zero.
HwId == [bytes : {8, 64}, chip : Machine]

Cert == [subject : STRING, issuer : STRING, key : Key, signer : Key, use : {"ca", "leaf"},
         life : {"valid", "over"}, alg : {"rsa", "ec"}, hwid : HwId \cup {None}]

\* signer is the key with which the signature verifies.
Report == [size : Nat, version : Nat, sigAlgo : Nat, chip : Machine \cup {ZeroId},
           signer : Key]

ReportLen == 1184
EcdsaP384Sha384 == 1
ChipIdLen == 64

\* What AMD answers for: its keys, and the EC keys it certifies, each of which belongs to
\* machines whose firmware signs reports of itself only, with CHIP_ID masked or not.
AmdKeys == VouchedKeys(Key, Certs, PinnedArks)
FirmwareKeys == {c.key : c \in {x \in Certs : x.signer \in AmdKeys /\ x.alg = "ec"}}

ASSUME SnpAssumption ==
    /\ Reports \subseteq Report /\ Certs \subseteq Cert /\ PinnedArks \subseteq Key
    /\ ZeroId \notin Machine /\ None \notin Machine \cup {ZeroId}
    /\ None # Torn /\ {None, Torn} \cap (Reports \cup Certs \cup HwId) = {}
    /\ Holders \in [Key -> SUBSET Machine]
    /\ \A r \in Reports : r.signer \in FirmwareKeys => r.chip \in Holders[r.signer] \cup {ZeroId}

VARIABLES
    step,            \* what is done next
    report,          \* the report
    ark, ask, vcek,  \* the certificates, None until loaded
    chipId           \* the chip id, None until extracted

vars == <<step, report, ark, ask, vcek, chipId>>

Init ==
    /\ step = "report"
    /\ report \in Reports \cup {Torn}
    /\ ark = None /\ ask = None /\ vcek = None
    /\ chipId = None

\* Keep(cond, s): go on with s if cond holds, throw otherwise.
Keep(cond, s) == step' = IF cond THEN s ELSE "reject"

ReportIsFit ==
    /\ report # Torn
    /\ report.size = ReportLen
    /\ report.version \in 2..5
    /\ report.sigAlgo = EcdsaP384Sha384

ReadReport ==
    /\ step = "report"
    /\ Keep(ReportIsFit, "look")
    /\ UNCHANGED <<report, ark, ask, vcek, chipId>>

\* All three files are looked for before the first is loaded.
LookForCerts ==
    /\ step = "look"
    /\ \E there \in BOOLEAN : Keep(there, "ark")
    /\ UNCHANGED <<report, ark, ask, vcek, chipId>>

LoadArk ==
    /\ step = "ark"
    /\ \E f \in Certs \cup {Torn, None} :
          /\ Keep(f \in Certs, "ask")
          /\ ark' = IF f \in Certs THEN f ELSE None
    /\ UNCHANGED <<report, ask, vcek, chipId>>

LoadAsk ==
    /\ step = "ask"
    /\ \E f \in Certs \cup {Torn, None} :
          /\ Keep(f \in Certs, "vcek")
          /\ ask' = IF f \in Certs THEN f ELSE None
    /\ UNCHANGED <<report, ark, vcek, chipId>>

LoadVcek ==
    /\ step = "vcek"
    /\ \E f \in Certs \cup {Torn, None} :
          /\ Keep(f \in Certs, "chain")
          /\ vcek' = IF f \in Certs THEN f ELSE None
    /\ UNCHANGED <<report, ark, ask, chipId>>

\* Mutant of VerifyVcekChain: the root key is not compared with the pinned ones.
VerifyVcekChainUnpinned ==
    /\ step = "chain"
    /\ Keep(X509Verifies(vcek, {ask}, ark), "signature")
    /\ UNCHANGED <<report, ark, ask, vcek, chipId>>

VerifyVcekChain ==
    /\ step = "chain"
    /\ Keep(ark.key \in PinnedArks /\ X509Verifies(vcek, {ask}, ark), "signature")
    /\ UNCHANGED <<report, ark, ask, vcek, chipId>>

VerifyReportSignature ==
    /\ step = "signature"
    /\ Keep(vcek.alg = "ec" /\ report.signer = vcek.key, "chip")
    /\ UNCHANGED <<report, ark, ask, vcek, chipId>>

\* Mutant of HwIdAgrees: an extension of another length is a disagreement.
HwIdAgreesInFull == vcek.hwid # None => vcek.hwid = [bytes |-> ChipIdLen, chip |-> report.chip]

\* The comparison with CHIP_ID; there is none if the extension has another length.
HwIdAgrees ==
    vcek.hwid # None /\ vcek.hwid.bytes = ChipIdLen => vcek.hwid.chip = report.chip

\* Mutant of TakeChip: a masked CHIP_ID only draws a warning, as a zero PPID does.
TakeChipMasked ==
    /\ step = "chip"
    /\ Keep(report.chip = ZeroId \/ HwIdAgrees, "done")
    /\ chipId' = IF step' = "done" THEN report.chip ELSE None
    /\ UNCHANGED <<report, ark, ask, vcek>>

TakeChip ==
    /\ step = "chip"
    /\ Keep(report.chip # ZeroId /\ HwIdAgrees, "done")
    /\ chipId' = IF step' = "done" THEN report.chip ELSE None
    /\ UNCHANGED <<report, ark, ask, vcek>>

Next ==
    \/ ReadReport \/ LookForCerts
    \/ LoadArk \/ LoadAsk \/ LoadVcek
    \/ VerifyVcekChain \/ VerifyReportSignature \/ TakeChip

Spec == Init /\ [][Next]_vars

-----------------------------------------------------------------------------
\* Properties.

Step == {"report", "look", "ark", "ask", "vcek", "chain", "signature", "chip", "done", "reject"}

\* The type invariant: what is needed next has been loaded, and only fit reports get so far.
TypeOK ==
    /\ step \in Step
    /\ report \in Reports \cup {Torn}
    /\ {ark, ask, vcek} \subseteq Certs \cup {None}
    /\ chipId \in Machine \cup {None}
    /\ step \notin {"report", "reject"} => ReportIsFit
    /\ step \in {"chain", "signature", "chip", "done"} => {ark, ask, vcek} \subseteq Certs
    /\ chipId # None <=> step = "done"

\* A chip id is that of a machine which holds the key that signed the report, and AMD
\* certified this key in a certificate that is in its validity: whichever files are put
\* together, and whether or not the comparison with hwID took place (verify_and_extract).
ChipIsTheSigners ==
    step = "done" =>
        /\ chipId \in Holders[report.signer]
        /\ vcek.key = report.signer /\ vcek.life = "valid"
        /\ vcek.signer \in AmdKeys

\* What AMD's server hands out for a machine: a chain under one of its roots, and a VCEK for
\* the key that the machine signs with, whose hwID is the machine's.
GenuineChain ==
    /\ {ark, ask, vcek} \subseteq Certs
    /\ \A c \in {ark, ask, vcek} : c.life = "valid"
    /\ ark.key \in PinnedArks /\ Issued(ark, ark) /\ Issued(ark, ask) /\ Issued(ask, vcek)
    /\ vcek.alg = "ec" /\ vcek.hwid # None

\* The report of a machine that shows its chip id is never refused with the chain that AMD
\* hands out for it, of any generation: also of those whose hwID is shorter than CHIP_ID.
GenuineIsAccepted ==
    /\ report # Torn /\ ReportIsFit /\ report.chip # ZeroId
    /\ GenuineChain
    /\ vcek.key = report.signer /\ vcek.hwid.chip = report.chip
    => step # "reject"
=============================================================================
