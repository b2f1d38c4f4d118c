------------------------------- MODULE TeeAnchor -------------------------------
(***************************************************************************)
(* The life of an organization's endorsements, over all subcommands:       *)
(* ca-init makes the CA, provision binds a chip to it, revoke and crl-issue*)
(* take the binding back, and verify decides, on a relying party's machine *)
(* and from nothing but the files it is given, whether to accept evidence. *)
(*                                                                         *)
(* A command is one step here, except that ca-init may be killed between   *)
(* the two files it writes.  How the files of revocation are written is the*)
(* subject of RevocationStore; here the DB is the register that it         *)
(* implements (RevocationRegister), and the CRL number, which verify never *)
(* looks at, is left out.                                                  *)
(***************************************************************************)
EXTENDS Integers, FiniteSets

CONSTANTS
    Key,         \* CA key pairs, each made once, by one ca-init
    Dn,          \* values of ca-init --subject
    TeeType,     \* --tee-type: a subset of {"sgx", "tdx", "snp", "cca"}
    Machine,     \* attested machines
    Masked,      \* machines whose firmware or vendor hides the chip id
    ZeroId,      \* the chip id they all show then
    Serial,      \* serial numbers of endorsements
    None, Torn,  \* no file; a file that does not load
    CaLife, EndorsementLife, CrlLife,   \* --validity-days
    MaxTime,     \* bound: the clock stops here
    MaxCrls      \* bound: so many different CRLs are made

ASSUME TeeAnchorAssumption ==
    /\ ZeroId \notin Machine /\ Masked \subseteq Machine
    /\ CaLife \in Nat \ {0} /\ EndorsementLife \in Nat \ {0} /\ CrlLife \in Nat \ {0}
    /\ MaxTime \in Nat /\ MaxCrls \in Nat

VARIABLES
    now,          \* the clock, the same on all machines
    caKey,        \* ca.key: a Key, or None
    caCrt,        \* ca.crt: a CA certificate, or None
    revokedAt,    \* the revocation DB: revokedAt[s] is the date of serial s, or None
    \* What relying parties may have been given.
    anchors,      \* CA certificates that were in ca.crt
    endorsements, \* endorsements that provision wrote
    crls,         \* CRLs that crl-issue wrote
    \* Observed only.
    madeFor       \* madeFor[s]: the machine whose evidence provision saw for serial s

ca == <<caKey, caCrt, anchors>>
vars == <<now, ca, revokedAt, endorsements, crls, madeFor>>

CaCert == [subject : Dn, key : Key, from : Nat, until : Nat]

ChipId == (Machine \ Masked) \cup {ZeroId}

Endorsement == [serial : Serial, issuer : Dn, signer : Key, tee : TeeType,
                chip : ChipId, from : Nat, until : Nat]

SignedCrl == [revoked : SUBSET Serial, issuer : Dn, signer : Key, from : Nat, until : Nat]

-----------------------------------------------------------------------------
\* Evidence: what a report says once its vendor chain was followed.

Evidence == [tee : TeeType, machine : Machine]

ASSUME AbsenceAssumption ==
    /\ None \notin Key /\ None \notin ChipId /\ None \notin Nat
    /\ None \notin CaCert /\ None \notin SignedCrl
    /\ Torn \notin Evidence \cup Endorsement \cup CaCert \cup SignedCrl \cup {None}

\* The chip id taken from a report file ev under --tee-type tee; None when that fails: the
\* file cannot be read, it is the report of another TEE, or an SNP report with a masked
\* CHIP_ID.  A zero PPID only draws a warning.
ExtractChip(tee, ev) ==
    IF ev = Torn THEN None
    ELSE IF ev.tee # tee THEN None
    ELSE IF ev.machine \notin Masked THEN ev.machine
    ELSE IF tee = "snp" THEN None
    ELSE ZeroId

-----------------------------------------------------------------------------
\* verify.

Valid(doc) == doc.from <= now /\ now <= doc.until

IssuedBy(doc, a) == doc.issuer = a.subject /\ doc.signer = a.key

Listed(e, c) == c # None /\ e \in Endorsement /\ e.serial \in c.revoked

\* Mutants of ChainStatus: the CRL's validity is not looked at; every failure that comes
\* with a CRL counts as a revocation.
ChainStatusAnyAge(e, a, c) ==
    LET chains == e = a \/ (e \in Endorsement /\ IssuedBy(e, a))
        usable == c # None => IssuedBy(c, a)
    IN  IF ~chains \/ ~usable THEN "other"
        ELSE IF Listed(e, c) THEN "revoked"
        ELSE IF Valid(e) /\ Valid(a) THEN "ok"
        ELSE "other"

ChainStatusCrlFailure(e, a, c) ==
    LET chains == e = a \/ (e \in Endorsement /\ IssuedBy(e, a))
        usable == c # None => IssuedBy(c, a) /\ Valid(c)
    IN  IF ~chains THEN "other"
        ELSE IF ~usable \/ Listed(e, c) THEN "revoked"
        ELSE IF Valid(e) /\ Valid(a) THEN "ok"
        ELSE "other"

\* X509_verify_cert on the endorsement e (or on a CA certificate given in its place) with
\* the one trust anchor a and, if there is one, the CRL c.  The order of OpenSSL's checks
\* decides which failure is reported: the issuer, the CRL, revocation, validity.
ChainStatus(e, a, c) ==
    LET chains == e = a \/ (e \in Endorsement /\ IssuedBy(e, a))
        usable == c # None => IssuedBy(c, a) /\ Valid(c)
    IN  IF ~chains \/ ~usable THEN "other"
        ELSE IF Listed(e, c) THEN "revoked"
        ELSE IF Valid(e) /\ Valid(a) THEN "ok"
        ELSE "other"

\* Mutants of BindingMatches: the TEE type is not compared; a masked chip id matches nothing.
BindingMatchesAnyTee(e, tee, chip) == e \in Endorsement /\ e.chip = chip
BindingMatchesUnmasked(e, tee, chip) ==
    e \in Endorsement /\ e.tee = tee /\ e.chip = chip /\ chip # ZeroId

\* The binding of e is of this TEE and this chip; a certificate without one matches nothing.
BindingMatches(e, tee, chip) == e \in Endorsement /\ e.tee = tee /\ e.chip = chip

\* run_verify: the exit code for --tee-type tee, --report ev, --org-cert e, --org-ca a and
\* --crl c (None when the option is absent).
VerifyExit(tee, ev, e, a, c) ==
    LET chip == ExtractChip(tee, ev)
        status == ChainStatus(e, a, c)
    IN  IF Torn \in {e, a, c} THEN 30
        ELSE IF chip = None THEN 20
        ELSE IF status = "revoked" THEN 24
        ELSE IF status = "other" THEN 21
        ELSE IF BindingMatches(e, tee, chip) THEN 0
        ELSE 22

-----------------------------------------------------------------------------
Init ==
    /\ now = 0
    /\ caKey = None /\ caCrt = None /\ anchors = {}
    /\ revokedAt = [s \in Serial |-> None]
    /\ endorsements = {} /\ crls = {}
    /\ madeFor = [s \in Serial |-> None]

Tick ==
    /\ now < MaxTime
    /\ now' = now + 1
    /\ UNCHANGED <<ca, revokedAt, endorsements, crls, madeFor>>

\* ca-init looks for both files, unless --force is given.
MayInit(force) == force \/ (caKey = None /\ caCrt = None)

\* gen_ec_key never returns a key it returned before.
NewKey(k) == k # caKey /\ \A a \in anchors : a.key # k

CaInit(k, d, force) ==
    /\ MayInit(force) /\ NewKey(k)
    /\ caKey' = k
    /\ caCrt' = [subject |-> d, key |-> k, from |-> now, until |-> now + CaLife]
    /\ anchors' = anchors \cup {caCrt'}
    /\ UNCHANGED <<now, revokedAt, endorsements, crls, madeFor>>

\* ca-init is killed, or fails, after ca.key was written and before ca.crt is.
CaInitCutShort(k, force) ==
    /\ MayInit(force) /\ NewKey(k)
    /\ caKey' = k
    /\ UNCHANGED <<now, caCrt, anchors, revokedAt, endorsements, crls, madeFor>>

\* Mutant of CaLoads: the key is not compared with the certificate's.
CaLoadsUnchecked == caKey # None /\ caCrt # None

\* provision and crl-issue load both files and compare the keys.
CaLoads == caKey # None /\ caCrt # None /\ caCrt.key = caKey

\* Mutants of Provision: evidence that fails its checks is bound all the same; the validity
\* starts later than the signature.
ProvisionUnverified(tee, ev, s) ==
    LET e == [serial |-> s, issuer |-> caCrt.subject, signer |-> caKey, tee |-> tee,
              chip |-> ExtractChip(tee, ev), from |-> now, until |-> now + EndorsementLife]
    IN  /\ CaLoads
        /\ \A x \in endorsements : x.serial # s
        /\ endorsements' = endorsements \cup {e}
        /\ madeFor' = [madeFor EXCEPT ![s] = ev.machine]
        /\ UNCHANGED <<now, ca, revokedAt, crls>>

ProvisionPostdated(tee, ev, s) ==
    LET chip == ExtractChip(tee, ev)
        e == [serial |-> s, issuer |-> caCrt.subject, signer |-> caKey, tee |-> tee,
              chip |-> chip, from |-> now + 1, until |-> now + EndorsementLife]
    IN  /\ CaLoads
        /\ chip # None
        /\ \A x \in endorsements : x.serial # s
        /\ endorsements' = endorsements \cup {e}
        /\ madeFor' = [madeFor EXCEPT ![s] = ev.machine]
        /\ UNCHANGED <<now, ca, revokedAt, crls>>

\* Serials are random: no two certificates have the same.
Provision(tee, ev, s) ==
    LET chip == ExtractChip(tee, ev)
        e == [serial |-> s, issuer |-> caCrt.subject, signer |-> caKey, tee |-> tee,
              chip |-> chip, from |-> now, until |-> now + EndorsementLife]
    IN  /\ CaLoads
        /\ chip # None
        /\ \A x \in endorsements : x.serial # s
        /\ endorsements' = endorsements \cup {e}
        /\ madeFor' = [madeFor EXCEPT ![s] = ev.machine]
        /\ UNCHANGED <<now, ca, revokedAt, crls>>

\* revoke compares names only: the certificate must name this CA as its issuer, whichever
\* key signed it.  A serial that is listed keeps its date.
Revoke(e) ==
    /\ caCrt # None
    /\ e.issuer = caCrt.subject
    /\ revokedAt[e.serial] = None
    /\ revokedAt' = [revokedAt EXCEPT ![e.serial] = now]
    /\ UNCHANGED <<now, ca, endorsements, crls, madeFor>>

\* crl-issue signs a CRL of the whole DB; a run killed after writing it has written it too.
CrlIssue ==
    /\ CaLoads
    /\ Cardinality(crls) < MaxCrls
    /\ crls' = crls \cup
          {[revoked |-> {s \in Serial : revokedAt[s] # None}, issuer |-> caCrt.subject,
            signer |-> caKey, from |-> now, until |-> now + CrlLife]}
    /\ UNCHANGED <<now, ca, revokedAt, endorsements, madeFor>>

Next ==
    \/ Tick
    \/ \E k \in Key, d \in Dn, force \in BOOLEAN : CaInit(k, d, force)
    \/ \E k \in Key, force \in BOOLEAN : CaInitCutShort(k, force)
    \/ \E tee \in TeeType, ev \in Evidence, s \in Serial : Provision(tee, ev, s)
    \/ \E e \in endorsements : Revoke(e)
    \/ CrlIssue

Spec == Init /\ [][Next]_vars

-----------------------------------------------------------------------------
\* Properties.

\* What a relying party may be handed: reports of any machine or an unreadable file, any
\* endorsement ever made or a CA certificate in its place, any CA certificate as the
\* anchor, and any CRL ever written, none, or a file that holds none.
Reports == Evidence \cup {Torn}
OrgCerts == endorsements \cup anchors
CrlOptions == crls \cup {None, Torn}

\* The type invariant.
TypeOK ==
    /\ now \in Nat
    /\ caKey \in Key \cup {None}
    /\ caCrt \in CaCert \cup {None}
    /\ anchors \subseteq CaCert
    /\ endorsements \subseteq Endorsement
    /\ crls \subseteq SignedCrl
    /\ madeFor \in [Serial -> Machine \cup {None}]
    /\ revokedAt \in [Serial -> Nat \cup {None}]

\* verify exits 0 for a report only with an endorsement that provision made, of the same
\* TEE, from evidence of that very machine, under the very CA certificate or key that the
\* relying party trusts; machines that hide their chip id are told apart from no other
\* such machine (run_provision warns of them), and none of them is accepted for SNP.
AcceptsOnlyTheMachine ==
    \A tee \in TeeType, ev \in Reports, e \in OrgCerts, a \in anchors, c \in CrlOptions :
        VerifyExit(tee, ev, e, a, c) = 0 =>
            /\ e \in endorsements /\ e.signer = a.key
            /\ e.tee = ev.tee
            /\ \/ madeFor[e.serial] = ev.machine
               \/ {madeFor[e.serial], ev.machine} \subseteq Masked /\ tee # "snp"

\* What the organization endorsed is accepted: with the CA certificate that issued it, and
\* with no CRL or any current one of that CA, an endorsement in its validity that was not
\* revoked is never refused to its machine, whatever CA files came since.
EndorsedIsAccepted ==
    \A e \in endorsements, a \in anchors, c \in crls \cup {None} :
        /\ IssuedBy(e, a) /\ Valid(e) /\ Valid(a)
        /\ revokedAt[e.serial] = None
        /\ c # None => IssuedBy(c, a) /\ Valid(c)
        => VerifyExit(e.tee, [tee |-> e.tee, machine |-> madeFor[e.serial]], e, a, c) = 0

\* A relying party that insists on a CRL, whichever it was given, stops accepting an
\* endorsement at the latest CrlLife after the DB listed it: the CRLs made since list it
\* and those made before have expired (run_crl_issue's nextUpdate and the DB it copies).
StalenessBounded ==
    \A tee \in TeeType, ev \in Reports, e \in endorsements, a \in anchors, c \in crls :
        /\ revokedAt[e.serial] # None
        /\ now > revokedAt[e.serial] + CrlLife
        => VerifyExit(tee, ev, e, a, c) # 0

\* Exit code 24 is given only for endorsements that this CA's operator revoked.
RevokedMeansRevoked ==
    \A tee \in TeeType, ev \in Reports, e \in OrgCerts, a \in anchors, c \in CrlOptions :
        VerifyExit(tee, ev, e, a, c) = 24 =>
            e \in endorsements /\ revokedAt[e.serial] # None

\* Whatever provision or crl-issue signs can be checked with a CA certificate that was
\* once written: a ca.key that ca-init left without its ca.crt signs nothing.
SignedUnderAnAnchor ==
    \A doc \in endorsements \cup crls : \E a \in anchors : IssuedBy(doc, a)

\* The answer to the same files never turns from a refusal into acceptance as time goes by:
\* every document is valid from the moment it is written (run_provision, run_crl_issue).
RefusalIsFinal ==
    [][\A ev \in Evidence, e \in endorsements, a \in anchors, c \in crls \cup {None} :
          VerifyExit(ev.tee, ev, e, a, c) # 0 => VerifyExit(ev.tee, ev, e, a, c)' # 0]_vars
=============================================================================
