---------------------------- MODULE TeeAnchorProofs ----------------------------
(***************************************************************************)
(* What holds of TeeAnchor for any number of keys, machines, serials and   *)
(* CRLs, any lifetimes and however long the system runs.                   *)
(*                                                                         *)
(* Inv is the inductive invariant.  Besides the types it says what each    *)
(* command leaves behind for verify to rely on: the CA certificate in use  *)
(* is one that relying parties may trust, an endorsement carries the chip  *)
(* id of the machine it was made for, and a CRL that lacks a revoked serial*)
(* is older than its revocation.                                           *)
(***************************************************************************)
EXTENDS TeeAnchor, TLAPS

CaInUseIsAnAnchor == caCrt # None => caCrt \in anchors

BoundToItsMachine ==
    \A e \in endorsements :
        /\ madeFor[e.serial] \in Machine
        /\ e.chip = ExtractChip(e.tee, [tee |-> e.tee, machine |-> madeFor[e.serial]])

CrlsKeepUp ==
    \A c \in crls, s \in Serial :
        revokedAt[s] # None => s \in c.revoked \/ c.until <= revokedAt[s] + CrlLife

CrlsListRevoked == \A c \in crls : \A s \in c.revoked : revokedAt[s] # None

AlreadyValid == \A doc \in endorsements \cup crls \cup anchors : doc.from <= now

CrlsAreShort == \A c \in crls : c.until <= c.from + CrlLife

Inv ==
    /\ TypeOK
    /\ CrlsAreShort
    /\ CaInUseIsAnAnchor
    /\ SignedUnderAnAnchor
    /\ BoundToItsMachine
    /\ CrlsKeepUp
    /\ CrlsListRevoked
    /\ AlreadyValid

-----------------------------------------------------------------------------
\* A chip id that was extracted is one, and the report it came from is evidence of the TEE
\* that was asked for.
LEMMA ExtractedChip ==
    ASSUME NEW tee \in TeeType, NEW ev \in Evidence \cup {Torn}, ExtractChip(tee, ev) # None
    PROVE  /\ ev \in Evidence /\ ev.tee = tee
           /\ ExtractChip(tee, ev) \in ChipId
           /\ ExtractChip(tee, ev) =
                 IF ev.machine \in Masked THEN ZeroId ELSE ev.machine
           /\ ev.machine \in Masked => tee # "snp"
BY AbsenceAssumption DEF ExtractChip, Evidence, ChipId

\* The inductive invariant holds at the start.
LEMMA InitInv == Init => Inv
BY DEF Init, Inv, TypeOK, CaInUseIsAnAnchor, SignedUnderAnAnchor, BoundToItsMachine,
       CrlsAreShort, CrlsKeepUp, CrlsListRevoked, AlreadyValid

\* ca-init, whole or cut short, leaves all that was signed with its anchor.
LEMMA CaInitInv ==
    ASSUME Inv, NEW k \in Key, NEW d \in Dn, NEW force \in BOOLEAN, CaInit(k, d, force)
    PROVE  Inv'
<1> DEFINE crt == [subject |-> d, key |-> k, from |-> now, until |-> now + CaLife]
<1>1. /\ crt \in CaCert /\ caCrt' = crt /\ anchors' = anchors \cup {crt} /\ crt.from = now
      /\ UNCHANGED <<now, revokedAt, endorsements, crls, madeFor>> /\ caKey' = k
  BY TeeAnchorAssumption DEF CaInit, CaCert, Inv, TypeOK
<1>2. TypeOK'
  BY <1>1 DEF Inv, TypeOK
<1>3. CaInUseIsAnAnchor' /\ SignedUnderAnAnchor'
  BY <1>1 DEF Inv, CaInUseIsAnAnchor, SignedUnderAnAnchor, IssuedBy
<1>4. BoundToItsMachine' /\ CrlsAreShort' /\ CrlsKeepUp' /\ CrlsListRevoked'
  BY <1>1 DEF Inv, BoundToItsMachine, CrlsAreShort, CrlsKeepUp, CrlsListRevoked
<1>5. AlreadyValid'
  BY <1>1 DEF Inv, TypeOK, AlreadyValid
<1> QED BY <1>2, <1>3, <1>4, <1>5 DEF Inv

LEMMA CaInitCutShortInv ==
    ASSUME Inv, NEW k \in Key, NEW force \in BOOLEAN, CaInitCutShort(k, force)
    PROVE  Inv'
BY DEF CaInitCutShort, Inv, TypeOK, CaInUseIsAnAnchor, SignedUnderAnAnchor, IssuedBy,
       BoundToItsMachine, CrlsAreShort, CrlsKeepUp, CrlsListRevoked, AlreadyValid

\* provision signs with the key of the CA certificate, and binds the chip it saw.
LEMMA ProvisionInv ==
    ASSUME Inv, NEW tee \in TeeType, NEW ev \in Evidence, NEW s \in Serial,
           Provision(tee, ev, s)
    PROVE  Inv'
<1> DEFINE chip == ExtractChip(tee, ev)
           e == [serial |-> s, issuer |-> caCrt.subject, signer |-> caKey, tee |-> tee,
                 chip |-> chip, from |-> now, until |-> now + EndorsementLife]
<1>1. /\ CaLoads /\ chip # None
      /\ \A x \in endorsements : x.serial # s
      /\ endorsements' = endorsements \cup {e}
      /\ madeFor' = [madeFor EXCEPT ![s] = ev.machine]
      /\ UNCHANGED <<now, ca, revokedAt, crls>>
  BY DEF Provision
<1>2. caCrt \in CaCert /\ caCrt \in anchors /\ caKey \in Key /\ caCrt.key = caKey
  BY <1>1 DEF Inv, TypeOK, CaLoads, CaInUseIsAnAnchor
<1>3. chip \in ChipId /\ ev.machine \in Machine /\ ev.tee = tee
  BY <1>1, ExtractedChip DEF Evidence
<1>4. e \in Endorsement
  BY <1>2, <1>3, TeeAnchorAssumption DEF Endorsement, CaCert, Inv, TypeOK
<1>5. TypeOK'
  BY <1>1, <1>3, <1>4 DEF Inv, TypeOK, ca
<1>6. CaInUseIsAnAnchor' /\ SignedUnderAnAnchor'
  BY <1>1, <1>2 DEF Inv, CaInUseIsAnAnchor, SignedUnderAnAnchor, IssuedBy, ca
<1>7. BoundToItsMachine'
  <2> SUFFICES ASSUME NEW x \in endorsements'
               PROVE  /\ madeFor'[x.serial] \in Machine
                      /\ x.chip = ExtractChip(x.tee,
                                     [tee |-> x.tee, machine |-> madeFor'[x.serial]])
    BY DEF BoundToItsMachine, ExtractChip
  <2>1. CASE x = e
    <3>1. madeFor'[s] = ev.machine
      BY <1>1 DEF Inv, TypeOK
    <3>2. ev = [tee |-> tee, machine |-> ev.machine]
      BY <1>3 DEF Evidence
    <3> QED BY <2>1, <3>1, <3>2, <1>3
  <2>2. CASE x \in endorsements
    <3>1. x.serial # s /\ x.serial \in Serial
      BY <1>1, <2>2 DEF Inv, TypeOK, Endorsement
    <3>2. madeFor'[x.serial] = madeFor[x.serial]
      BY <1>1, <3>1 DEF Inv, TypeOK
    <3> QED BY <2>2, <3>2 DEF Inv, BoundToItsMachine
  <2> QED BY <1>1, <2>1, <2>2
<1>8. CrlsAreShort' /\ CrlsKeepUp' /\ CrlsListRevoked'
  BY <1>1 DEF Inv, CrlsAreShort, CrlsKeepUp, CrlsListRevoked
<1>9. AlreadyValid'
  BY <1>1 DEF Inv, TypeOK, AlreadyValid, ca
<1> QED BY <1>5, <1>6, <1>7, <1>8, <1>9 DEF Inv

\* A serial that is revoked now is missing only from CRLs that end CrlLife from now or before.
LEMMA RevokeInv ==
    ASSUME Inv, NEW e \in endorsements, Revoke(e)
    PROVE  Inv'
<1>1. /\ e.serial \in Serial /\ revokedAt[e.serial] = None
      /\ revokedAt' = [revokedAt EXCEPT ![e.serial] = now]
      /\ UNCHANGED <<now, ca, endorsements, crls, madeFor>>
  BY DEF Revoke, Inv, TypeOK, Endorsement
<1>2. TypeOK' /\ now \in Nat /\ now # None
  BY <1>1, AbsenceAssumption DEF Inv, TypeOK, ca
<1>3. CrlsKeepUp'
  <2> SUFFICES ASSUME NEW c \in crls, NEW s \in Serial, revokedAt'[s] # None
               PROVE  s \in c.revoked \/ c.until <= revokedAt'[s] + CrlLife
    BY <1>1 DEF CrlsKeepUp
  <2>1. CASE s = e.serial
    <3>1. revokedAt'[s] = now
      BY <1>1, <2>1 DEF Inv, TypeOK
    <3>2. c.from <= now /\ c.from \in Nat /\ c.until \in Nat /\ CrlLife \in Nat
      BY TeeAnchorAssumption DEF Inv, TypeOK, AlreadyValid, SignedCrl
    <3>3. c.until <= c.from + CrlLife
      BY DEF Inv, CrlsAreShort
    <3> QED BY <1>2, <3>1, <3>2, <3>3
  <2>2. CASE s # e.serial
    BY <1>1, <2>2 DEF Inv, TypeOK, CrlsKeepUp
  <2> QED BY <2>1, <2>2
<1>4. CrlsListRevoked'
  BY <1>1, <1>2 DEF Inv, TypeOK, CrlsListRevoked, SignedCrl
<1>5. /\ CaInUseIsAnAnchor' /\ SignedUnderAnAnchor' /\ BoundToItsMachine'
      /\ CrlsAreShort' /\ AlreadyValid'
  BY <1>1 DEF Inv, CrlsAreShort, CaInUseIsAnAnchor, SignedUnderAnAnchor, IssuedBy, BoundToItsMachine,
              AlreadyValid, ca
<1> QED BY <1>2, <1>3, <1>4, <1>5 DEF Inv

\* crl-issue lists all that is revoked.
LEMMA CrlIssueInv ==
    ASSUME Inv, CrlIssue
    PROVE  Inv'
<1> DEFINE c == [revoked |-> {s \in Serial : revokedAt[s] # None}, issuer |-> caCrt.subject,
                 signer |-> caKey, from |-> now, until |-> now + CrlLife]
<1>1. /\ CaLoads /\ crls' = crls \cup {c}
      /\ UNCHANGED <<now, ca, revokedAt, endorsements, madeFor>>
  BY DEF CrlIssue
<1>2. caCrt \in CaCert /\ caCrt \in anchors /\ caKey \in Key /\ caCrt.key = caKey
  BY <1>1 DEF Inv, TypeOK, CaLoads, CaInUseIsAnAnchor
<1>3. c \in SignedCrl
  BY <1>2, TeeAnchorAssumption DEF SignedCrl, CaCert, Inv, TypeOK
<1>4. TypeOK'
  BY <1>1, <1>3 DEF Inv, TypeOK, ca
<1>5. CaInUseIsAnAnchor' /\ SignedUnderAnAnchor' /\ BoundToItsMachine'
  BY <1>1, <1>2 DEF Inv, CaInUseIsAnAnchor, SignedUnderAnAnchor, IssuedBy,
                    BoundToItsMachine, ca
<1>6. CrlsAreShort' /\ CrlsKeepUp' /\ CrlsListRevoked'
  BY <1>1, TeeAnchorAssumption DEF Inv, TypeOK, CrlsAreShort, CrlsKeepUp, CrlsListRevoked
<1>7. AlreadyValid'
  BY <1>1 DEF Inv, TypeOK, AlreadyValid, ca
<1> QED BY <1>4, <1>5, <1>6, <1>7 DEF Inv

\* Every step keeps the inductive invariant.
LEMMA NextInv == Inv /\ [Next]_vars => Inv'
<1> SUFFICES ASSUME Inv, [Next]_vars PROVE Inv'
  OBVIOUS
<1>1. CASE Tick
  BY <1>1 DEF Tick, Inv, TypeOK, CaInUseIsAnAnchor, SignedUnderAnAnchor, IssuedBy,
              BoundToItsMachine, CrlsAreShort, CrlsKeepUp, CrlsListRevoked, AlreadyValid, ca,
              CaCert, Endorsement, SignedCrl
<1>2. CASE \E k \in Key, d \in Dn, force \in BOOLEAN : CaInit(k, d, force)
  BY <1>2, CaInitInv
<1>3. CASE \E k \in Key, force \in BOOLEAN : CaInitCutShort(k, force)
  BY <1>3, CaInitCutShortInv
<1>4. CASE \E tee \in TeeType, ev \in Evidence, s \in Serial : Provision(tee, ev, s)
  BY <1>4, ProvisionInv
<1>5. CASE \E e \in endorsements : Revoke(e)
  BY <1>5, RevokeInv
<1>6. CASE CrlIssue
  BY <1>6, CrlIssueInv
<1>7. CASE UNCHANGED vars
  BY <1>7 DEF vars, ca, Inv, TypeOK, CaInUseIsAnAnchor, SignedUnderAnAnchor, IssuedBy,
              BoundToItsMachine, CrlsAreShort, CrlsKeepUp, CrlsListRevoked, AlreadyValid
<1> QED BY <1>1, <1>2, <1>3, <1>4, <1>5, <1>6, <1>7 DEF Next

\* The inductive invariant holds throughout.
THEOREM Invariance == Spec => []Inv
BY InitInv, NextInv, PTL DEF Spec

\* Endorsements carry chip ids only, never the absence of one; documents have their fields.
THEOREM TypeCorrect == Spec => []TypeOK
<1>1. Inv => TypeOK
  BY DEF Inv
<1> QED BY <1>1, Invariance, PTL

-----------------------------------------------------------------------------
\* What verify's answers imply, whatever it is given.

LEMMA Accepted ==
    ASSUME NEW tee, NEW ev, NEW e, NEW a, NEW c, VerifyExit(tee, ev, e, a, c) = 0
    PROVE  /\ ExtractChip(tee, ev) # None
           /\ ChainStatus(e, a, c) = "ok"
           /\ BindingMatches(e, tee, ExtractChip(tee, ev))
<1>1. ChainStatus(e, a, c) \in {"ok", "revoked", "other"}
  BY DEF ChainStatus
<1> QED BY <1>1 DEF VerifyExit

\* Exit code 0 means: this machine, this TEE, a key the relying party trusts.
THEOREM AcceptedMachine == Spec => []AcceptsOnlyTheMachine
<1>1. Inv => AcceptsOnlyTheMachine
  <2> SUFFICES ASSUME Inv, NEW tee \in TeeType, NEW ev \in Reports, NEW e \in OrgCerts,
                      NEW a \in anchors, NEW c \in CrlOptions,
                      VerifyExit(tee, ev, e, a, c) = 0
               PROVE  /\ e \in endorsements /\ e.signer = a.key
                      /\ e.tee = ev.tee
                      /\ \/ madeFor[e.serial] = ev.machine
                         \/ {madeFor[e.serial], ev.machine} \subseteq Masked /\ tee # "snp"
    BY DEF AcceptsOnlyTheMachine
  <2>1. /\ ExtractChip(tee, ev) # None
        /\ ChainStatus(e, a, c) = "ok"
        /\ e \in Endorsement /\ e.tee = tee /\ e.chip = ExtractChip(tee, ev)
    BY Accepted DEF BindingMatches
  <2>2. e \in endorsements
    BY <2>1 DEF OrgCerts, Inv, TypeOK, CaCert, Endorsement
  <2>3. e.signer = a.key
    BY <2>1, <2>2 DEF ChainStatus, IssuedBy, Inv, TypeOK, CaCert, Endorsement
  <2>4. /\ ev \in Evidence /\ ev.tee = tee /\ ExtractChip(tee, ev) \in ChipId
        /\ ExtractChip(tee, ev) = IF ev.machine \in Masked THEN ZeroId ELSE ev.machine
        /\ ev.machine \in Masked => tee # "snp"
    BY <2>1, ExtractedChip DEF Reports
  <2> DEFINE m == madeFor[e.serial]
             seen == [tee |-> tee, machine |-> m]
  <2>5. m \in Machine /\ e.chip = ExtractChip(tee, seen)
    BY <2>1, <2>2 DEF Inv, BoundToItsMachine
  <2>6. seen \in Evidence
    BY <2>5 DEF Evidence
  <2>7. e.chip = IF m \in Masked THEN ZeroId ELSE m
    BY <2>1, <2>5, <2>6, ExtractedChip
  <2> QED BY <2>1, <2>2, <2>3, <2>4, <2>5, <2>7, TeeAnchorAssumption DEF Evidence
<1> QED BY <1>1, Invariance, PTL

\* An endorsement that was not revoked serves its machine as long as it and its CA last.
THEOREM NoFalseRefusal == Spec => []EndorsedIsAccepted
<1>1. Inv => EndorsedIsAccepted
  <2> SUFFICES ASSUME Inv, NEW e \in endorsements, NEW a \in anchors, NEW c \in crls \cup {None},
                      IssuedBy(e, a), Valid(e), Valid(a), revokedAt[e.serial] = None,
                      c # None => IssuedBy(c, a) /\ Valid(c)
               PROVE  VerifyExit(e.tee, [tee |-> e.tee, machine |-> madeFor[e.serial]],
                                 e, a, c) = 0
    BY DEF EndorsedIsAccepted
  <2> DEFINE ev == [tee |-> e.tee, machine |-> madeFor[e.serial]]
  <2>1. e \in Endorsement /\ a \in CaCert /\ c \in SignedCrl \cup {None}
    BY DEF Inv, TypeOK
  <2>2. Torn \notin {e, a, c}
    BY <2>1, AbsenceAssumption
  <2>3. e.chip = ExtractChip(e.tee, ev) /\ e.chip \in ChipId /\ e.chip # None
    BY <2>1, AbsenceAssumption DEF Inv, BoundToItsMachine, Endorsement
  <2>4. ~Listed(e, c)
    BY DEF Listed, Inv, CrlsListRevoked
  <2>5. ChainStatus(e, a, c) = "ok"
    BY <2>1, <2>4 DEF ChainStatus
  <2>6. BindingMatches(e, e.tee, ExtractChip(e.tee, ev))
    BY <2>1, <2>3 DEF BindingMatches
  <2> QED BY <2>2, <2>3, <2>5, <2>6 DEF VerifyExit
<1> QED BY <1>1, Invariance, PTL

\* Exit code 24 means that the operator revoked the endorsement.
THEOREM RevokedCode == Spec => []RevokedMeansRevoked
<1>1. Inv => RevokedMeansRevoked
  <2> SUFFICES ASSUME Inv, NEW tee \in TeeType, NEW ev \in Reports, NEW e \in OrgCerts,
                      NEW a \in anchors, NEW c \in CrlOptions,
                      VerifyExit(tee, ev, e, a, c) = 24
               PROVE  e \in endorsements /\ revokedAt[e.serial] # None
    BY DEF RevokedMeansRevoked
  <2>1. ChainStatus(e, a, c) = "revoked" /\ c # Torn
    BY DEF VerifyExit
  <2>2. c # None /\ e \in Endorsement /\ e.serial \in c.revoked
    BY <2>1 DEF ChainStatus, Listed
  <2>3. e \in endorsements
    BY <2>2 DEF OrgCerts, Inv, TypeOK, CaCert, Endorsement
  <2> QED BY <2>1, <2>2, <2>3 DEF CrlOptions, Inv, CrlsListRevoked
<1> QED BY <1>1, Invariance, PTL

\* A relying party that insists on a CRL stops accepting a revoked endorsement in time.
THEOREM Staleness == Spec => []StalenessBounded
<1>1. Inv => StalenessBounded
  <2> SUFFICES ASSUME Inv, NEW tee \in TeeType, NEW ev \in Reports, NEW e \in endorsements,
                      NEW a \in anchors, NEW c \in crls,
                      revokedAt[e.serial] # None, now > revokedAt[e.serial] + CrlLife,
                      VerifyExit(tee, ev, e, a, c) = 0
               PROVE  FALSE
    BY DEF StalenessBounded
  <2>1. ChainStatus(e, a, c) = "ok"
    BY Accepted
  <2>2. c # None /\ e \in Endorsement
    BY AbsenceAssumption DEF Inv, TypeOK
  <2>3. now <= c.until /\ e.serial \notin c.revoked
    BY <2>1, <2>2 DEF ChainStatus, Listed, Valid
  <2>4. e.serial \in Serial /\ c.until <= revokedAt[e.serial] + CrlLife
    BY <2>2, <2>3 DEF Inv, CrlsKeepUp, Endorsement
  <2>5. now \in Nat /\ c.until \in Nat /\ revokedAt[e.serial] \in Nat /\ CrlLife \in Nat
    BY <2>4, TeeAnchorAssumption DEF Inv, TypeOK, SignedCrl
  <2> QED BY <2>3, <2>4, <2>5
<1> QED BY <1>1, Invariance, PTL

\* No signature without a CA certificate to check it with.
THEOREM Anchored == Spec => []SignedUnderAnAnchor
<1>1. Inv => SignedUnderAnAnchor
  BY DEF Inv
<1> QED BY <1>1, Invariance, PTL

\* Time only takes acceptance away: what is accepted later is accepted now.
LEMMA AcceptedBefore ==
    ASSUME Inv, now' \in Nat, now <= now',
           NEW ev \in Evidence, NEW e \in endorsements, NEW a \in anchors,
           NEW c \in crls \cup {None}, VerifyExit(ev.tee, ev, e, a, c)' = 0
    PROVE  VerifyExit(ev.tee, ev, e, a, c) = 0
<1>1. /\ Torn \notin {e, a, c}
      /\ ExtractChip(ev.tee, ev) # None
      /\ ChainStatus(e, a, c)' = "ok"
      /\ BindingMatches(e, ev.tee, ExtractChip(ev.tee, ev))
  <2>1. ChainStatus(e, a, c)' \in {"ok", "revoked", "other"}
    BY DEF ChainStatus
  <2> QED BY <2>1 DEF VerifyExit, ExtractChip, BindingMatches
<1>2. \A doc \in endorsements \cup crls \cup anchors : Valid(doc)' => Valid(doc)
  <2> SUFFICES ASSUME NEW doc \in endorsements \cup crls \cup anchors, Valid(doc)'
               PROVE  Valid(doc)
    OBVIOUS
  <2>1. doc.from <= now /\ now' <= doc.until
    BY DEF Inv, AlreadyValid, Valid
  <2>2. doc.from \in Nat /\ doc.until \in Nat /\ now \in Nat
    BY DEF Inv, TypeOK, Endorsement, SignedCrl, CaCert
  <2> QED BY <2>1, <2>2 DEF Valid
<1>3. ChainStatus(e, a, c) = "ok"
  BY <1>1, <1>2 DEF ChainStatus, IssuedBy, Listed
<1> QED BY <1>1, <1>3 DEF VerifyExit

\* The clock never runs backwards.
LEMMA ClockAdvances == Inv /\ [Next]_vars => now' \in Nat /\ now <= now'
BY DEF Inv, TypeOK, Next, vars, Tick, CaInit, CaInitCutShort, Provision, Revoke, CrlIssue

\* A refusal stands.
THEOREM RefusalsStand == Spec => RefusalIsFinal
<1>1. Inv /\ [Next]_vars =>
        \A ev \in Evidence, e \in endorsements, a \in anchors, c \in crls \cup {None} :
          VerifyExit(ev.tee, ev, e, a, c) # 0 => VerifyExit(ev.tee, ev, e, a, c)' # 0
  BY ClockAdvances, AcceptedBefore
<1> QED BY <1>1, Invariance, PTL DEF Spec, RefusalIsFinal
=============================================================================
