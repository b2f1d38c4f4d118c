--------------------------- MODULE SnpEvidenceProofs ---------------------------
(***************************************************************************)
(* Which chip an SNP report is taken to come from, for any number of       *)
(* machines, root keys, reports and certificates.                          *)
(***************************************************************************)
EXTENDS SnpEvidence, FiniteSetTheorems, TLAPS

\* The elements of a sequence between two others.
LEMMA Between ==
  ASSUME NEW S, NEW a \in S, NEW z \in S, NEW s \in Seq(S)
  PROVE  LET all == <<a>> \o s \o <<z>>
         IN  /\ all[1] = a /\ all[Len(s) + 2] = z
             /\ \A k \in 1..Len(s) : all[k + 1] = s[k]
<1>1. <<a>> \in Seq(S) /\ <<z>> \in Seq(S)
  OBVIOUS
<1>2. <<a>> \o s \in Seq(S)
  BY <1>1
<1>3. Len(<<a>> \o s) = Len(s) + 1
  BY <1>1
<1> QED
  BY <1>1, <1>2, <1>3

\* A certificate that verifies with one other under a root was issued by the root, or by the
\* other, which the root or the other itself issued; and all are in their validity.
LEMMA VerifiedByTwo ==
  ASSUME NEW c, NEW i, NEW root, X509Verifies(c, {i}, root)
  PROVE  /\ c.life = "valid"
         /\ Issued(root, c) \/ (Issued(i, c) /\ Issued(root, i))
<1> DEFINE S == {c, i, root}
           all(path) == <<c>> \o path \o <<root>>
<1>1. PICK n \in 0..1 : \E path \in [1..n -> {i}] :
          /\ \A k \in 1..(n + 1) : Issued(all(path)[k + 1], all(path)[k])
          /\ \A k \in 1..(n + 2) : all(path)[k].life = "valid"
  <2>1. Cardinality({i}) = 1
    BY FS_Singleton
  <2> QED
    BY <2>1 DEF X509Verifies
<1>2. PICK path \in [1..n -> {i}] :
          /\ \A k \in 1..(n + 1) : Issued(all(path)[k + 1], all(path)[k])
          /\ \A k \in 1..(n + 2) : all(path)[k].life = "valid"
  BY <1>1
<1>3. path \in Seq(S) /\ Len(path) = n /\ \A k \in 1..n : path[k] = i
  BY <1>1
<1>4. /\ all(path)[1] = c /\ all(path)[n + 2] = root
      /\ \A k \in 1..n : all(path)[k + 1] = i
  BY <1>3, Between
<1> HIDE DEF all
<1>5. CASE n = 0
  <2>1. Issued(all(path)[2], all(path)[1]) /\ all(path)[1].life = "valid"
    BY <1>2, <1>5
  <2> QED
    BY <1>4, <1>5, <2>1
<1>6. CASE n = 1
  <2>1. /\ Issued(all(path)[2], all(path)[1]) /\ Issued(all(path)[3], all(path)[2])
        /\ all(path)[1].life = "valid" /\ all(path)[2] = i
    BY <1>2, <1>4, <1>6
  <2> QED
    BY <1>4, <1>6, <2>1
<1> QED
  BY <1>1, <1>5, <1>6

\* A certificate that verifies under a certificate with a pinned key was signed with a key
\* that AMD answers for.
LEMMA VerifiedIsAmds ==
  ASSUME NEW c \in Certs, NEW i \in Certs, NEW root \in Certs,
         root.key \in PinnedArks, X509Verifies(c, {i}, root)
  PROVE  c.signer \in AmdKeys /\ c.life = "valid"
<1>1. c.life = "valid" /\ (Issued(root, c) \/ (Issued(i, c) /\ Issued(root, i)))
  BY VerifiedByTwo
<1>2. ASSUME NEW K, ClosedUnder(K, Certs, PinnedArks)
      PROVE  c.signer \in K
  BY <1>1, <1>2 DEF ClosedUnder, Issued
<1>3. c.signer \in Key
  BY SnpAssumption DEF Cert
<1> QED
  BY <1>1, <1>2, <1>3 DEF AmdKeys, VouchedKeys

\* What the steps passed so far have established.
Established ==
    /\ step \in {"ask", "vcek"} => ark \in Certs
    /\ step = "vcek" => ask \in Certs
    /\ step \in {"signature", "chip", "done"} =>
          vcek.life = "valid" /\ vcek.signer \in AmdKeys
    /\ step \in {"chip", "done"} =>
          vcek.alg = "ec" /\ report.signer = vcek.key
    /\ step = "done" => chipId = report.chip

\* Inv is inductive.
Inv == TypeOK /\ Established

LEMMA InitInv == Init => Inv
BY DEF Init, Inv, TypeOK, Established, Step

\* The files are loaded one by one; nothing loaded is loaded again.
LEMMA LoadsKeepInv ==
  ASSUME Inv, ReadReport \/ LookForCerts \/ LoadArk \/ LoadAsk \/ LoadVcek
  PROVE  Inv'
<1> USE DEF Inv, TypeOK, Established, Step, Keep, ReportIsFit
<1>1. CASE ReadReport
  BY <1>1 DEF ReadReport
<1>2. CASE LookForCerts
  BY <1>2 DEF LookForCerts
<1>3. CASE LoadArk
  BY <1>3 DEF LoadArk
<1>4. CASE LoadAsk
  BY <1>4 DEF LoadAsk
<1>5. CASE LoadVcek
  BY <1>5 DEF LoadVcek
<1> QED
  BY <1>1, <1>2, <1>3, <1>4, <1>5

\* Each check that passes adds to what is established.
LEMMA NextInv == Inv /\ [Next]_vars => Inv'
<1> SUFFICES ASSUME Inv, [Next]_vars PROVE Inv'
  OBVIOUS
<1>1. ASSUME ReadReport \/ LookForCerts \/ LoadArk \/ LoadAsk \/ LoadVcek
      PROVE  Inv'
  BY <1>1, LoadsKeepInv
<1>2. ASSUME VerifyVcekChain
      PROVE  Inv'
  <2>1. step' = "signature" => vcek.life = "valid" /\ vcek.signer \in AmdKeys
    <3> SUFFICES ASSUME step' = "signature"
                 PROVE  vcek.life = "valid" /\ vcek.signer \in AmdKeys
      OBVIOUS
    <3>1. ark \in Certs /\ ask \in Certs /\ vcek \in Certs
      BY <1>2 DEF VerifyVcekChain, Inv, TypeOK
    <3>2. ark.key \in PinnedArks /\ X509Verifies(vcek, {ask}, ark)
      BY <1>2 DEF VerifyVcekChain, Keep
    <3> QED
      BY <3>1, <3>2, VerifiedIsAmds
  <2> QED
    BY <1>2, <2>1 DEF VerifyVcekChain, Keep, Inv, TypeOK, Established, Step, ReportIsFit
<1>3. ASSUME VerifyReportSignature
      PROVE  Inv'
  BY <1>3 DEF VerifyReportSignature, Keep, Inv, TypeOK, Established, Step, ReportIsFit
<1>4. ASSUME TakeChip
      PROVE  Inv'
  <2>1. step' = "done" => report.chip \in Machine
    <3>1. report.chip # ZeroId \/ step' # "done"
      BY <1>4 DEF TakeChip, Keep
    <3>2. report \in Reports
      BY <1>4 DEF TakeChip, Inv, TypeOK, ReportIsFit
    <3> QED
      BY <3>1, <3>2, SnpAssumption DEF Report
  <2> QED
    BY <1>4, <2>1, SnpAssumption
       DEF TakeChip, Keep, Inv, TypeOK, Established, Step, ReportIsFit
<1>5. CASE UNCHANGED vars
  BY <1>5 DEF vars, Inv, TypeOK, Established, Step, ReportIsFit
<1> QED
  BY <1>1, <1>2, <1>3, <1>4, <1>5 DEF Next

\* Inv holds of any report with any certificates, at every step.
THEOREM Invariance == Spec => []Inv
<1> QED
  BY InitInv, NextInv, PTL DEF Spec

\* The types; a chip id that is masked is never returned.
THEOREM TypeCorrect == Spec => []TypeOK
<1>1. Inv => TypeOK
  BY DEF Inv
<1> QED
  BY <1>1, Invariance, PTL

\* The chip id is that of a machine with the key that signed the report, which AMD certified.
THEOREM ChipOfTheSigner == Spec => []ChipIsTheSigners
<1>1. Inv => ChipIsTheSigners
  <2> SUFFICES ASSUME Inv, step = "done" PROVE ChipIsTheSigners
    BY DEF ChipIsTheSigners
  <2>1. report \in Reports /\ vcek \in Certs /\ chipId = report.chip /\ chipId \in Machine
    BY SnpAssumption DEF Inv, TypeOK, Established, ReportIsFit
  <2>2. /\ vcek.signer \in AmdKeys /\ vcek.life = "valid" /\ vcek.alg = "ec"
        /\ report.signer = vcek.key
    BY DEF Inv, Established
  <2>3. report.signer \in FirmwareKeys
    BY <2>1, <2>2 DEF FirmwareKeys
  <2>4. chipId \in Holders[report.signer]
    BY <2>1, <2>3, SnpAssumption
  <2> QED
    BY <2>2, <2>4 DEF ChipIsTheSigners
<1> QED
  BY <1>1, Invariance, PTL

-----------------------------------------------------------------------------
\* A chain of three certificates verifies: the path has the middle one.
LEMMA ThreeVerify ==
  ASSUME NEW c, NEW i, NEW root, Issued(i, c), Issued(root, i),
         \A x \in {c, i, root} : x.life = "valid"
  PROVE  X509Verifies(c, {i}, root)
<1> DEFINE path == [k \in 1..1 |-> i]
           all == <<c>> \o path \o <<root>>
<1>1. path \in [1..1 -> {i}]
  OBVIOUS
<1>2. Cardinality({i}) = 1
  BY FS_Singleton
<1>3. all[1] = c /\ all[2] = i /\ all[3] = root
  <2> DEFINE S == {c, i, root}
  <2>1. path \in Seq(S) /\ Len(path) = 1 /\ path[1] = i /\ c \in S /\ root \in S
    OBVIOUS
  <2> HIDE DEF path, S
  <2>2. all[1] = c /\ all[Len(path) + 2] = root /\ \A k \in 1..Len(path) : all[k + 1] = path[k]
    BY <2>1, Between
  <2> HIDE DEF all
  <2> QED
    BY <2>1, <2>2
<1> HIDE DEF all
<1>4. \A k \in 1..(1 + 1) : Issued(all[k + 1], all[k])
  <2>1. Issued(all[2], all[1]) /\ Issued(all[3], all[2])
    BY <1>3
  <2> QED
    BY <2>1
<1>5. \A k \in 1..(1 + 2) : all[k].life = "valid"
  <2>1. all[1].life = "valid" /\ all[2].life = "valid" /\ all[3].life = "valid"
    BY <1>3
  <2> QED
    BY <2>1
<1> QED
  <2>1. 1 \in 0..Cardinality({i})
    BY <1>2
  <2> QED
    BY <1>1, <1>4, <1>5, <2>1 DEF X509Verifies, all

\* Before the checks begin there is no VCEK to be genuine; from then on they all pass.
Unrefused ==
    /\ step \in {"report", "look", "ark", "ask", "vcek"} => vcek = None
    /\ GenuineIsAccepted

LEMMA UnrefusedStep == TypeOK /\ Unrefused /\ [Next]_vars => Unrefused'
<1> SUFFICES ASSUME TypeOK, Unrefused, [Next]_vars PROVE Unrefused'
  OBVIOUS
<1> USE SnpAssumption DEF TypeOK, Unrefused, GenuineIsAccepted, GenuineChain, ReportIsFit, Keep
<1>1. CASE ReadReport \/ LookForCerts
  BY <1>1 DEF ReadReport, LookForCerts
<1>2. CASE LoadArk \/ LoadAsk
  BY <1>2 DEF LoadArk, LoadAsk
<1>3. CASE LoadVcek
  BY <1>3 DEF LoadVcek
<1>4. CASE VerifyVcekChain
  <2>1. GenuineChain => X509Verifies(vcek, {ask}, ark)
    BY ThreeVerify
  <2> QED
    BY <1>4, <2>1 DEF VerifyVcekChain
<1>5. CASE VerifyReportSignature
  BY <1>5 DEF VerifyReportSignature
<1>6. CASE TakeChip
  BY <1>6 DEF TakeChip, HwIdAgrees
<1>7. CASE UNCHANGED vars
  BY <1>7 DEF vars, Issued
<1> QED
  BY <1>1, <1>2, <1>3, <1>4, <1>5, <1>6, <1>7 DEF Next

\* No genuine report is refused with its genuine chain, whatever the length of the hwID.
THEOREM GenuinePasses == Spec => []GenuineIsAccepted
<1>1. Init => Unrefused
  BY SnpAssumption DEF Init, Unrefused, GenuineIsAccepted, GenuineChain
<1>2. Unrefused => GenuineIsAccepted
  BY DEF Unrefused
<1> QED
  BY <1>1, <1>2, UnrefusedStep, TypeCorrect, PTL DEF Spec
=============================================================================
