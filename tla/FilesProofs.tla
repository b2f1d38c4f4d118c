------------------------------ MODULE FilesProofs ------------------------------
(***************************************************************************)
(* What holds of the CA's files for any number of processes, keys and      *)
(* faults, in any interleaving (CaFiles); and of all files and exit codes  *)
(* for any command lines, in any order (CommandLine).                      *)
(***************************************************************************)
EXTENDS CaFiles, CommandLine, SequenceTheorems, TLAPS

-----------------------------------------------------------------------------
\* CaFiles.

Writing == {"writekey", "chmodkey", "opencrt", "writecrt", "chmodcrt"}

\* A process that writes, or compares, has a key.
HasKey == \A p \in Proc : pc[p] \in Writing \cup {"loadcrt"} => mine[p] \in Key

\* The mode is set before ca.crt is opened, and nothing sets it back.
ModeFirst ==
    /\ CertifiedKeyIsProtected
    /\ \A p \in Proc : pc[p] \in {"opencrt", "writecrt", "chmodcrt"} => keyMode = "0600"

\* Inv is inductive whatever the processes and faults.
Inv ==
    /\ TypeOK
    /\ HasKey
    /\ ModeFirst
    /\ crtFile \in Key => crtFile \in certified
    /\ SignedIsCertified

LEMMA InitInv == Init => Inv
BY CaFilesAssumption
   DEF Init, Inv, TypeOK, HasKey, Writing, ModeFirst, CertifiedKeyIsProtected, SignedIsCertified

\* Every system call keeps it.
LEMMA NextInv == Inv /\ [Next]_vars => Inv'
<1> SUFFICES ASSUME Inv, [Next]_vars PROVE Inv'
  OBVIOUS
<1> USE CaFilesAssumption
        DEF Inv, TypeOK, HasKey, Writing, ModeFirst, CertifiedKeyIsProtected, SignedIsCertified,
            caFiles, local, observed, GoTo, Exit, Fault, Fails
<1>1. CASE UNCHANGED vars
  BY <1>1 DEF vars
<1>2. ASSUME NEW p \in Proc,
             CaInitStart(p) \/ CaInitForceStart(p) \/ LoadStart(p) \/ Crash(p)
      PROVE  Inv'
  BY <1>2 DEF CaInitStart, CaInitForceStart, LoadStart, Crash, Starts
<1>3. ASSUME NEW p \in Proc, StatKey(p) \/ StatCrt(p)
      PROVE  Inv'
  BY <1>3 DEF StatKey, StatCrt
<1>4. ASSUME NEW p \in Proc, OpenKey(p)
      PROVE  Inv'
  BY <1>4 DEF OpenKey
<1>5. ASSUME NEW p \in Proc, WriteKey(p)
      PROVE  Inv'
  BY <1>5 DEF WriteKey
<1>6. ASSUME NEW p \in Proc, ChmodKey(p)
      PROVE  Inv'
  BY <1>6 DEF ChmodKey
<1>7. ASSUME NEW p \in Proc, OpenCrt(p)
      PROVE  Inv'
  BY <1>7 DEF OpenCrt
<1>8. ASSUME NEW p \in Proc, WriteCrt(p)
      PROVE  Inv'
  BY <1>8 DEF WriteCrt
<1>9. ASSUME NEW p \in Proc, ChmodCrt(p)
      PROVE  Inv'
  BY <1>9 DEF ChmodCrt
<1>10. ASSUME NEW p \in Proc, LoadKey(p) \/ LoadCrt(p)
       PROVE  Inv'
  BY <1>10 DEF LoadKey, LoadCrt
<1> QED
  BY <1>1, <1>2, <1>3, <1>4, <1>5, <1>6, <1>7, <1>8, <1>9, <1>10 DEF Next, Advance

\* Types, the permissions of the key, and who may be signed for.
THEOREM Invariance == Spec => []Inv
BY InitInv, NextInv, PTL DEF Spec

\* Files hold keys, cut texts or nothing, and each process is where its memory allows.
THEOREM TypeCorrect == Spec => []TypeOK
<1>1. Inv => TypeOK
  BY DEF Inv
<1> QED BY <1>1, Invariance, PTL

\* The key is protected before its certificate exists.
THEOREM Protected == Spec => []CertifiedKeyIsProtected
<1>1. Inv => CertifiedKeyIsProtected
  BY DEF Inv, ModeFirst
<1> QED BY <1>1, Invariance, PTL

\* No signature with the key of a CA that was never completed.
THEOREM SignerIsCertified == Spec => []SignedIsCertified
<1>1. Inv => SignedIsCertified
  BY DEF Inv
<1> QED BY <1>1, Invariance, PTL

-----------------------------------------------------------------------------
\* What is so until something disturbs the commands.

Alone == \A p, q \in Proc : pc[p] # "idle" /\ pc[q] # "idle" => p = q

\* A ca-init that got past its checks, or has --force, runs only while no CA is settled.
NothingAtStake ==
    \A p \in Proc : pc[p] \in Writing \cup {"statcrt", "openkey"} => settled = None

\* What was written so far is there.
WrittenSoFar ==
    \A p \in Proc :
        /\ pc[p] \in {"chmodkey", "opencrt", "writecrt", "chmodcrt"} => keyFile = mine[p]
        /\ pc[p] = "chmodcrt" => crtFile = mine[p]

CalmInv == course = "calm" => Alone /\ NothingAtStake /\ WrittenSoFar /\ ReportedCaStands

LEMMA InitCalm == Init => CalmInv
BY DEF Init, CalmInv, Alone, NothingAtStake, WrittenSoFar, Writing, ReportedCaStands

LEMMA NextCalm == Inv /\ CalmInv /\ [Next]_vars => CalmInv'
<1> SUFFICES ASSUME Inv, CalmInv, [Next]_vars PROVE CalmInv'
  OBVIOUS
<1> USE CaFilesAssumption
        DEF CalmInv, Inv, TypeOK, HasKey, Writing, Alone, NothingAtStake,
            WrittenSoFar, ReportedCaStands, caFiles, local, observed, GoTo, Exit, Fault, Fails
<1>1. CASE UNCHANGED vars
  BY <1>1 DEF vars, ModeFirst, CertifiedKeyIsProtected, SignedIsCertified
<1>2. ASSUME NEW p \in Proc,
             CaInitStart(p) \/ CaInitForceStart(p) \/ LoadStart(p) \/ Crash(p)
      PROVE  CalmInv'
  BY <1>2 DEF CaInitStart, CaInitForceStart, LoadStart, Crash, Starts
<1>3. ASSUME NEW p \in Proc, StatKey(p) \/ StatCrt(p)
      PROVE  CalmInv'
  BY <1>3 DEF StatKey, StatCrt
<1>4. ASSUME NEW p \in Proc, OpenKey(p)
      PROVE  CalmInv'
  BY <1>4 DEF OpenKey
<1>5. ASSUME NEW p \in Proc, WriteKey(p)
      PROVE  CalmInv'
  BY <1>5 DEF WriteKey
<1>6. ASSUME NEW p \in Proc, ChmodKey(p)
      PROVE  CalmInv'
  BY <1>6 DEF ChmodKey
<1>7. ASSUME NEW p \in Proc, OpenCrt(p)
      PROVE  CalmInv'
  BY <1>7 DEF OpenCrt
<1>8. ASSUME NEW p \in Proc, WriteCrt(p)
      PROVE  CalmInv'
  BY <1>8 DEF WriteCrt
<1>9. ASSUME NEW p \in Proc, ChmodCrt(p)
      PROVE  CalmInv'
  BY <1>9 DEF ChmodCrt
<1>10. ASSUME NEW p \in Proc, LoadKey(p) \/ LoadCrt(p)
       PROVE  CalmInv'
  BY <1>10 DEF LoadKey, LoadCrt
<1> QED
  BY <1>1, <1>2, <1>3, <1>4, <1>5, <1>6, <1>7, <1>8, <1>9, <1>10 DEF Next, Advance

\* What ca-init reported is there until --force is given.
THEOREM Stands == Spec => []ReportedCaStands
<1>1. CalmInv => ReportedCaStands
  BY DEF CalmInv, ReportedCaStands
<1>2. Inv /\ Inv' /\ CalmInv /\ [Next]_vars => CalmInv'
  BY NextCalm
<1> QED BY <1>1, <1>2, InitCalm, Invariance, PTL DEF Spec

-----------------------------------------------------------------------------
\* CommandLine: the files.

\* A document that is what it should be and has not expired.
SoundDoc(d) == d \in Document /\ (d \in Certificate \cup Anchor!SignedCrl => d.from = 0)

Sound(f) == \A p \in DOMAIN f : SoundDoc(f[p])

\* From f to g, nothing has changed but at these paths.
Elsewhere(f, g, paths) == \A q : q \notin paths => At(g, q) = At(f, q)

\* The DB at r[1] lists the serial r[2].
ListedIn(f, r) == At(f, r[1]) \in Db /\ r[2] \in At(f, r[1]).listed

LEMMA WrittenAt ==
  ASSUME NEW f, NEW p, NEW doc, NEW q
  PROVE  At(Written(f, p, doc), q) = IF q = p THEN doc ELSE At(f, q)
BY DEF At, Written

LEMMA WrittenSound ==
  ASSUME NEW f, Sound(f), NEW p, NEW doc, SoundDoc(doc)
  PROVE  Sound(Written(f, p, doc))
BY DEF Sound, Written

\* No record has the value of a file that is missing, empty or cut.
LEMMA Distinct ==
  /\ None \notin Content /\ Empty \notin Content /\ Torn \notin Content
  /\ None # Torn
BY CommandLineAssumption

LEMMA Kinds ==
  /\ PrivateKey \subseteq Content /\ Certificate \subseteq Content
  /\ Anchor!SignedCrl \subseteq Content /\ Db \subseteq Content /\ Anchor!Evidence \subseteq Content
  /\ Anchor!CaCert \subseteq Certificate /\ Anchor!Endorsement \subseteq Certificate
  /\ Content \subseteq Document /\ Empty \in Document /\ Torn \in Document
BY DEF Content, Document, Certificate

LEMMA CutSound == SoundDoc(Empty) /\ SoundDoc(Torn)
BY Distinct, Kinds DEF SoundDoc

LEMMA Dated == \A d \in Certificate \cup Anchor!SignedCrl : "from" \in DOMAIN d
BY DEF Certificate, Anchor!CaCert, Anchor!Endorsement, Anchor!SignedCrl

\* What is left of a DB whose end is lost.
LEMMA CutDbSound ==
  ASSUME NEW new \in Db, NEW d \in CutDb(new)
  PROVE  SoundDoc(d)
<1>1. new.listed \in SUBSET Nat
  BY DEF Db
<1>2. CASE d \in {Empty, Torn}
  BY <1>2, CutSound
<1>3. CASE d \in [listed : SUBSET new.listed]
  <2>1. d \in Db
    BY <1>1, <1>3 DEF Db
  <2>2. "from" \notin DOMAIN d
    BY <1>3
  <2> QED
    BY <2>1, <2>2, Kinds, Dated DEF SoundDoc
<1> QED
  BY <1>2, <1>3 DEF CutDb

\* A command that may go on.
Standing(o) == o.code \in {0, 1} /\ o.faults \in Nat

\* After a call the command stands as r: no fault is forgotten, and p or nothing was written.
Called(o, r, p) ==
    /\ Standing(r)
    /\ r.faults \in {o.faults, o.faults + 1}
    /\ o.unseen \subseteq r.unseen
    /\ r.files = o.files \/ \E d : r.files = Written(o.files, p, d)

\* What write_file may come to.
LEMMA WriteFileIs ==
  ASSUME NEW o, Standing(o), NEW p, NEW doc, NEW r \in WriteFile(o, p, doc)
  PROVE  /\ Called(o, r, p)
         /\ r.files = o.files \/ \E d \in {Empty, Torn, doc} : r.files = Written(o.files, p, d)
         /\ r.faults = o.faults /\ o.code = 0 => r.code = 0 /\ r.files = Written(o.files, p, doc)
<1>1. CASE o.code # 0
  BY <1>1 DEF WriteFile, Called, Standing
<1>2. CASE o.code = 0
  <2>1. \/ r = Outcome(Written(o.files, p, doc), o.faults, 0, o.unseen)
        \/ \E f \in {o.files} \cup {Written(o.files, p, d) : d \in {Empty, Torn, doc}} :
              r = Outcome(f, o.faults + 1, 1, o.unseen)
        \/ \E d \in {Empty, Torn} :
              r = Outcome(Written(o.files, p, d), o.faults + 1, 0, o.unseen \cup {p})
    BY <1>2 DEF WriteFile, Either
  <2> QED
    BY <1>2, <2>1 DEF Outcome, Called, Standing
<1> QED
  BY <1>1, <1>2

\* A save that throws has left the DB; one that does not, and has seen what happened, has
\* replaced it.
LEMMA SaveDbIs ==
  ASSUME NEW o, Standing(o), NEW p, NEW new, NEW r \in SaveDb(o, p, new)
  PROVE  /\ Called(o, r, p)
         /\ r.files = o.files \/ \E d \in {new} \cup CutDb(new) : r.files = Written(o.files, p, d)
         /\ r.code # 0 => r.files = o.files
         /\ r.code = 0 /\ p \notin r.unseen => r.files = Written(o.files, p, new)
         /\ r.faults = o.faults /\ r.code = 0 => r.files = Written(o.files, p, new)
         /\ r.faults = o.faults /\ r.code # 0 => o.code # 0 \/ ~Writable(p)
<1>1. CASE o.code # 0
  BY <1>1 DEF SaveDb, Called, Standing
<1>2. CASE o.code = 0 /\ ~Writable(p)
  BY <1>2 DEF SaveDb, Outcome, Called, Standing
<1>3. CASE o.code = 0 /\ Writable(p)
  <2>1. \/ r = Outcome(Written(o.files, p, new), o.faults, 0, o.unseen)
        \/ r = Outcome(o.files, o.faults + 1, 1, o.unseen)
        \/ \E d \in CutDb(new) :
              r = Outcome(Written(o.files, p, d), o.faults + 1, 0, o.unseen \cup {p})
    BY <1>3 DEF SaveDb, Either
  <2> QED
    BY <1>3, <2>1 DEF Outcome, Called, Standing
<1> QED
  BY <1>1, <1>2, <1>3

LEMMA CalledElsewhere ==
  ASSUME NEW o, NEW r, NEW p, Called(o, r, p)
  PROVE  Elsewhere(o.files, r.files, {p}) /\ Standing(r)
<1>1. ASSUME NEW d, r.files = Written(o.files, p, d) PROVE Elsewhere(o.files, r.files, {p})
  BY <1>1, WrittenAt DEF Elsewhere
<1>2. Elsewhere(o.files, o.files, {p})
  BY DEF Elsewhere
<1> QED
  BY <1>1, <1>2 DEF Called

LEMMA WriteFileSound ==
  ASSUME NEW o, Standing(o), Sound(o.files), NEW p, NEW doc, SoundDoc(doc),
         NEW r \in WriteFile(o, p, doc)
  PROVE  Sound(r.files)
<1>1. r.files = o.files \/ \E d \in {Empty, Torn, doc} : r.files = Written(o.files, p, d)
  BY WriteFileIs
<1>2. ASSUME NEW d \in {Empty, Torn, doc} PROVE Sound(Written(o.files, p, d))
  BY CutSound, WrittenSound
<1> QED
  BY <1>1, <1>2

LEMMA SaveDbSound ==
  ASSUME NEW o, Standing(o), Sound(o.files), NEW p, NEW new \in Db, SoundDoc(new),
         NEW r \in SaveDb(o, p, new)
  PROVE  Sound(r.files)
<1>1. r.files = o.files \/ \E d \in {new} \cup CutDb(new) : r.files = Written(o.files, p, d)
  BY SaveDbIs
<1>2. ASSUME NEW d \in {new} \cup CutDb(new) PROVE Sound(Written(o.files, p, d))
  BY CutDbSound, WrittenSound
<1> QED
  BY <1>1, <1>2

\* What is loaded is of the kind asked for.
LEMMA Loaded ==
  ASSUME NEW f, NEW p, NEW kind, kind \subseteq Content, Load(f, p, kind) # Torn
  PROVE  p \in DOMAIN f /\ At(f, p) = f[p] /\ Load(f, p, kind) = f[p] /\ f[p] \in kind
BY Distinct DEF Load, At

LEMMA ListedType ==
  ASSUME NEW f, NEW p, Listed(f, p) # Torn
  PROVE  /\ Listed(f, p) \in SUBSET Nat
         /\ \A n : At(f, p) \in Db => (n \in Listed(f, p) <=> n \in At(f, p).listed)
         /\ \A n : n \in Listed(f, p) => At(f, p) \in Db
<1>1. CASE At(f, p) \in {None, Empty}
  BY <1>1, Distinct, Kinds DEF Listed
<1>2. CASE At(f, p) \notin {None, Empty}
  <2>1. p \in DOMAIN f /\ At(f, p) = f[p]
    BY <1>2 DEF At
  <2>2. f[p] \in Db /\ Listed(f, p) = f[p].listed
    BY <1>2, <2>1 DEF Listed
  <2> QED
    BY <2>1, <2>2 DEF Db
<1> QED
  BY <1>1, <1>2

\* A load that meets no fault reads the whole DB; any other has not seen its fault.
LEMMA LoadDbIs ==
  ASSUME NEW p, NEW x \in LoadDb(p), failed \in Nat
  PROVE  /\ Standing(x.command) /\ x.command.files = files /\ x.command.code = 0
         /\ x.command.faults \in {failed, failed + 1}
         /\ x.command.unseen \subseteq {p}
         /\ x.command.faults = failed => x.listed = Listed(files, p)
         /\ x.command.unseen = {} => x.listed = Listed(files, p)
         /\ x.listed # Torn => x.listed \in SUBSET Nat
<1> DEFINE readable == IF At(files, p) \in Db THEN files[p].listed ELSE {}
<1>1. \/ x = [listed |-> Listed(files, p), command |-> Ongoing]
      \/ \E l \in SUBSET readable : x = [listed |-> l, command |-> Outcome(files, failed + 1, 0, {p})]
  BY DEF LoadDb, Either
<1>2. readable \in SUBSET Nat
  <2>1. ASSUME At(files, p) \in Db PROVE files[p] = At(files, p)
    BY <2>1, Distinct, Kinds DEF At
  <2> QED
    BY <2>1 DEF Db
<1> HIDE DEF readable
<1>3. CASE x = [listed |-> Listed(files, p), command |-> Ongoing]
  BY <1>3, ListedType DEF Ongoing, Outcome, Standing
<1>4. ASSUME NEW l \in SUBSET readable,
             x = [listed |-> l, command |-> Outcome(files, failed + 1, 0, {p})]
      PROVE  /\ x.command.files = files /\ x.command.code = 0
             /\ x.command.faults = failed + 1 /\ x.command.unseen = {p}
             /\ x.listed \in SUBSET Nat
  <2>1. x.listed = l /\ x.command = Outcome(files, failed + 1, 0, {p})
    BY <1>4
  <2> QED
    BY <1>2, <2>1 DEF Outcome
<1>5. CASE \E l \in SUBSET readable :
              x = [listed |-> l, command |-> Outcome(files, failed + 1, 0, {p})]
  <2>1. /\ x.command.files = files /\ x.command.code = 0
        /\ x.command.faults = failed + 1 /\ x.command.unseen = {p}
        /\ x.listed \in SUBSET Nat
    BY <1>4, <1>5
  <2> QED
    BY <2>1 DEF Standing
<1> QED
  BY <1>1, <1>3, <1>5

\* The documents that the commands make.
LEMMA KeySound == ASSUME NEW k \in Nat PROVE SoundDoc([private |-> k])
<1>1. [private |-> k] \in Document
  BY Kinds DEF PrivateKey
<1>2. [private |-> k] \notin Certificate \cup Anchor!SignedCrl
  BY DEF Certificate, Anchor!CaCert, Anchor!Endorsement, Anchor!SignedCrl
<1> QED
  BY <1>1, <1>2 DEF SoundDoc

LEMMA DbSound == ASSUME NEW L \in SUBSET Nat PROVE SoundDoc([listed |-> L]) /\ [listed |-> L] \in Db
<1>1. [listed |-> L] \in Document /\ [listed |-> L] \in Db
  BY Kinds DEF Db
<1>2. [listed |-> L] \notin Certificate \cup Anchor!SignedCrl
  BY DEF Certificate, Anchor!CaCert, Anchor!Endorsement, Anchor!SignedCrl
<1> QED
  BY <1>1, <1>2 DEF SoundDoc

LEMMA EvidenceSound ==
  ASSUME NEW tee \in TeeTypes, NEW m \in Machine
  PROVE  /\ [tee |-> tee, machine |-> m] \in Anchor!Evidence
         /\ SoundDoc([tee |-> tee, machine |-> m])
<1>1. /\ [tee |-> tee, machine |-> m] \in Anchor!Evidence
      /\ [tee |-> tee, machine |-> m] \in Document
  BY Kinds DEF Anchor!Evidence
<1>2. "from" \notin DOMAIN [tee |-> tee, machine |-> m]
  OBVIOUS
<1> QED
  BY <1>1, <1>2, Dated DEF SoundDoc

LEMMA CertificateSound ==
  ASSUME NEW dn \in Seq(Rdn), NEW k \in Nat
  PROVE  SoundDoc([subject |-> dn, key |-> k, from |-> 0, until |-> 0])
<1>1. [subject |-> dn, key |-> k, from |-> 0, until |-> 0] \in Anchor!CaCert
  BY DEF Anchor!CaCert
<1> QED
  BY <1>1, Kinds DEF SoundDoc

\* The type of what a serial or a name is taken from.
LEMMA SerialType == ASSUME NEW cert \in Certificate PROVE Serial(cert) \in Nat
BY DEF Serial, Certificate, Anchor!CaCert, Anchor!Endorsement

LEMMA EndorsementSound ==
  ASSUME NEW s \in Nat, NEW c \in Anchor!CaCert, NEW tee \in TeeTypes, NEW m \in Machine
  PROVE  LET e == [serial |-> s, issuer |-> c.subject, signer |-> c.key, tee |-> tee,
                   chip |-> m, from |-> 0, until |-> 0]
         IN  e \in Anchor!Endorsement /\ SoundDoc(e)
<1> DEFINE e == [serial |-> s, issuer |-> c.subject, signer |-> c.key, tee |-> tee,
                 chip |-> m, from |-> 0, until |-> 0]
<1>1. c.subject \in Seq(Rdn) /\ c.key \in Nat
  BY DEF Anchor!CaCert
<1>2. m \in Anchor!ChipId
  BY DEF Anchor!ChipId
<1>3. e \in Anchor!Endorsement
  BY <1>1, <1>2 DEF Anchor!Endorsement
<1>4. e \in Document /\ e.from = 0
  BY <1>3, Kinds
<1> QED
  BY <1>3, <1>4 DEF SoundDoc

LEMMA CrlSound ==
  ASSUME NEW L \in SUBSET Nat, NEW c \in Anchor!CaCert
  PROVE  SoundDoc([revoked |-> L, issuer |-> c.subject, signer |-> c.key, from |-> 0, until |-> 0])
<1> DEFINE d == [revoked |-> L, issuer |-> c.subject, signer |-> c.key, from |-> 0, until |-> 0]
<1>1. c.subject \in Seq(Rdn) /\ c.key \in Nat
  BY DEF Anchor!CaCert
<1>2. d \in Anchor!SignedCrl
  BY <1>1 DEF Anchor!SignedCrl
<1>3. d \in Document /\ d.from = 0
  BY <1>2, Kinds
<1> QED
  BY <1>3 DEF SoundDoc

\* The CA's certificate, when it is loaded.
LEMMA CaLoaded ==
  ASSUME NEW a, CaOf(a) # Torn
  PROVE  CaOf(a) \in Anchor!CaCert
<1> DEFINE c == Load(files, a["--ca-cert"], Anchor!CaCert)
<1>1. CaOf(a) = c /\ c # Torn
  BY DEF CaOf
<1>2. Anchor!CaCert \subseteq Content
  BY Kinds
<1> QED
  BY <1>1, <1>2, Loaded

\* The chip id of a report that is not refused is the machine that made it.
LEMMA ChipType ==
  ASSUME NEW f, NEW a, Chip(f, a) # None
  PROVE  /\ Chip(f, a) \in Machine
         /\ f[a["--report"]] = [tee |-> a["--tee-type"], machine |-> Chip(f, a)]
         /\ f[a["--report"]] # Torn
         /\ Anchor!ExtractChip(a["--tee-type"], f[a["--report"]]) = Chip(f, a)
<1> DEFINE ev == Load(f, a["--report"], Anchor!Evidence)
<1>1. Chip(f, a) = Anchor!ExtractChip(a["--tee-type"], ev)
  BY DEF Chip
<1>2. ev # Torn /\ ev.tee = a["--tee-type"] /\ Chip(f, a) = ev.machine
  BY <1>1 DEF Anchor!ExtractChip
<1>3. Anchor!Evidence \subseteq Content
  BY Kinds
<1>4. ev = f[a["--report"]] /\ ev \in Anchor!Evidence
  BY <1>2, <1>3, Loaded
<1> QED
  BY <1>1, <1>2, <1>4 DEF Anchor!Evidence

LEMMA DnType ==
  ASSUME NEW w, Segments[w] \in Seq(STRING), ParseDn(w) # Torn
  PROVE  ParseDn(w) \in Seq(Rdn)
<1> DEFINE s == Segments[w]
           t == IF s # <<>> /\ Last(s) = "" THEN Front(s) ELSE s
<1>1. t \in Seq(STRING)
  <2>1. CASE s = <<>>
    BY <2>1
  <2>2. CASE s # <<>>
    <3>1. SubSeq(s, 1, Len(s) - 1) \in Seq(STRING)
      BY <2>2, SubSeqProperties
    <3> QED
      BY <3>1 DEF Front
  <2> QED
    BY <2>1, <2>2
<1> HIDE DEF t
<1>2. (\A i \in DOMAIN t : t[i] \in Rdn) /\ ParseDn(w) = t
  BY DEF ParseDn, t
<1>3. Len(t) \in Nat /\ DOMAIN t = 1..Len(t) /\ t = [i \in 1..Len(t) |-> t[i]]
  BY <1>1
<1>4. \A i \in 1..Len(t) : t[i] \in Rdn
  BY <1>2, <1>3
<1> QED
  BY <1>2, <1>3, <1>4, IsASeq

-----------------------------------------------------------------------------
\* The invariant.

ExitCode == {0, 1, 2, 20, 21, 22, 24, 30}

CLInv ==
    /\ Sound(files)
    /\ fresh \in Nat /\ failed \in Nat /\ exit \in ExitCode
    /\ \A r \in revoked : r[2] \in Nat /\ ListedIn(files, r)

\* A command that writes to the paths that it is told to write to, and to no other.
LEMMA EndsKeeps ==
  ASSUME CLInv, NEW o, NEW paths, Ends(o, paths, {}), fresh' \in Nat,
         Sound(o.files), Standing(o), Elsewhere(files, o.files, paths)
  PROVE  CLInv'
BY DEF CLInv, Standing, Ends, Unaimed, Elsewhere, ListedIn, ExitCode

LEMMA RefuseKeeps ==
  ASSUME CLInv, NEW code \in ExitCode, Refuse(code)
  PROVE  CLInv'
BY DEF CLInv, Refuse

LEMMA CaInitKeeps ==
  ASSUME CLInv, NEW a, RunCaInit(a), Segments[a["--subject"]] \in Seq(STRING)
  PROVE  CLInv'
<1> DEFINE dn == ParseDn(a["--subject"])
           key == [private |-> fresh]
           cert == [subject |-> dn, key |-> fresh, from |-> 0, until |-> 0]
           paths == {KeyPath(a), CrtPath(a)}
<1>1. CASE Refuse(1)
  BY <1>1, RefuseKeeps DEF ExitCode
<1>2. CASE /\ dn # Torn /\ fresh' = fresh + 1
           /\ \E k \in WriteFile(Ongoing, KeyPath(a), key) :
              \E o \in WriteFile(k, CrtPath(a), cert) : Ends(o, paths, {})
  <2>1. SoundDoc(key) /\ SoundDoc(cert) /\ Sound(files) /\ fresh' \in Nat
    BY <1>2, DnType, KeySound, CertificateSound DEF CLInv
  <2>2. Ongoing.files = files /\ Standing(Ongoing)
    BY DEF Ongoing, Outcome, Standing, CLInv
  <2> HIDE DEF key, cert, dn
  <2>3. PICK k \in WriteFile(Ongoing, KeyPath(a), key) :
             \E o \in WriteFile(k, CrtPath(a), cert) : Ends(o, paths, {})
    BY <1>2
  <2>4. Called(Ongoing, k, KeyPath(a)) /\ Sound(k.files)
    BY <2>1, <2>2, WriteFileIs, WriteFileSound
  <2>5. Elsewhere(files, k.files, {KeyPath(a)}) /\ Standing(k)
    BY <2>2, <2>4, CalledElsewhere
  <2>6. PICK o \in WriteFile(k, CrtPath(a), cert) : Ends(o, paths, {})
    BY <2>3
  <2>7. Called(k, o, CrtPath(a)) /\ Sound(o.files)
    BY <2>1, <2>4, <2>5, WriteFileIs, WriteFileSound
  <2>8. Elsewhere(k.files, o.files, {CrtPath(a)}) /\ Standing(o)
    BY <2>7, CalledElsewhere
  <2>9. Elsewhere(files, o.files, paths)
    BY <2>5, <2>8 DEF Elsewhere
  <2> QED
    BY <2>1, <2>6, <2>7, <2>8, <2>9, EndsKeeps
<1> QED
  BY <1>1, <1>2 DEF RunCaInit, Complete

LEMMA ProvisionKeeps ==
  ASSUME CLInv, NEW a, RunProvision(a)
  PROVE  CLInv'
<1> DEFINE c == CaOf(a)
           chip == Chip(files, a)
           e == [serial |-> fresh, issuer |-> c.subject, signer |-> c.key,
                 tee |-> a["--tee-type"], chip |-> chip, from |-> 0, until |-> 0]
<1>1. CASE Refuse(1)
  BY <1>1, RefuseKeeps DEF ExitCode
<1>2. CASE /\ TeeGiven(a) /\ c # Torn /\ chip # None /\ fresh' = fresh + 1
           /\ \E o \in WriteFile(Ongoing, a["--out"], e) : Ends(o, {a["--out"]}, {})
  <2>1. SoundDoc(e) /\ Sound(files) /\ fresh' \in Nat
    <3>1. a["--tee-type"] \in TeeTypes /\ c \in Anchor!CaCert /\ chip \in Machine
      BY <1>2, CaLoaded, ChipType DEF TeeGiven
    <3> HIDE DEF c, chip
    <3> QED
      BY <1>2, <3>1, EndorsementSound DEF CLInv
  <2>2. Ongoing.files = files /\ Standing(Ongoing)
    BY DEF Ongoing, Outcome, Standing, CLInv
  <2> HIDE DEF e
  <2>3. PICK o \in WriteFile(Ongoing, a["--out"], e) : Ends(o, {a["--out"]}, {})
    BY <1>2
  <2>4. Called(Ongoing, o, a["--out"]) /\ Sound(o.files)
    BY <2>1, <2>2, WriteFileIs, WriteFileSound
  <2>5. Elsewhere(files, o.files, {a["--out"]}) /\ Standing(o)
    BY <2>2, <2>4, CalledElsewhere
  <2> QED
    BY <2>1, <2>3, <2>4, <2>5, EndsKeeps
<1> QED
  BY <1>1, <1>2 DEF RunProvision, Complete

LEMMA SampleKeeps ==
  ASSUME CLInv, NEW tee \in TeeTypes, NEW m \in Machine, NEW left, left \subseteq {Torn},
         NEW codes, codes \subseteq {0, 1}, Sample(tee, m, left, codes)
  PROVE  CLInv'
<1> DEFINE quote == [tee |-> tee, machine |-> m]
<1>1. SoundDoc(quote) /\ SoundDoc(Empty) /\ SoundDoc(Torn) /\ Sound(files)
  BY EvidenceSound, CutSound DEF CLInv
<1>2. files' = files \/ \E d \in {quote, Empty, Torn} : files' = Written(files, QuotePath, d)
  BY DEF Sample
<1> HIDE DEF quote
<1>3. Sound(files') /\ Elsewhere(files, files', {QuotePath})
  <2>1. CASE files' = files
    BY <1>1, <2>1 DEF Elsewhere
  <2>2. ASSUME NEW d \in {quote, Empty, Torn}, files' = Written(files, QuotePath, d)
        PROVE  Sound(files') /\ Elsewhere(files, files', {QuotePath})
    <3>1. SoundDoc(d)
      BY <1>1
    <3> QED
      BY <1>1, <2>2, <3>1, WrittenSound, WrittenAt DEF Elsewhere
  <2> QED
    BY <1>2, <2>1, <2>2
<1>4. fresh' \in Nat /\ failed' \in Nat /\ exit' \in ExitCode
  <2>1. fresh' = fresh /\ failed' \in {failed, failed + 1} /\ exit' \in {0, 1}
    BY DEF Sample
  <2> QED
    BY <2>1 DEF CLInv, ExitCode
<1>5. \A r \in revoked' : r[2] \in Nat /\ ListedIn(files', r)
  BY <1>3 DEF CLInv, Sample, Unaimed, Elsewhere, ListedIn
<1> QED
  BY <1>3, <1>4, <1>5 DEF CLInv

\* A serial that is recorded joins those that were, which stay unless a fault was not seen.
LEMMA RevokeKeeps ==
  ASSUME CLInv, NEW a, RunRevoke(a)
  PROVE  CLInv'
<1> DEFINE cert == Load(files, a["--cert"], Certificate)
           db == DbPath(a)
           n == Serial(cert)
<1>1. CASE Refuse(1)
  BY <1>1, RefuseKeeps DEF ExitCode
<1>2. ASSUME cert # Torn, NEW read \in LoadDb(db), read.listed # Torn,
             UNCHANGED fresh, Record(db, n, read)
      PROVE  CLInv'
  <2> DEFINE c == read.command
             old == read.listed
             new == [listed |-> old \cup {n}]
  <2>1. n \in Nat
    <3>1. cert \in Certificate
      BY <1>2, Kinds, Loaded
    <3> QED
      BY <3>1, SerialType
  <2>2. /\ c.files = files /\ c.code = 0 /\ Standing(c) /\ c.unseen \subseteq {db}
        /\ c.unseen = {} => old = Listed(files, db)
        /\ old \in SUBSET Nat
    BY <1>2, LoadDbIs DEF CLInv
  <2>3. new \in Db /\ SoundDoc(new) /\ new.listed = old \cup {n}
    BY <2>1, <2>2, DbSound
  <2>4. /\ \A i : At(files, db) \in Db /\ c.unseen = {} => (i \in old <=> i \in At(files, db).listed)
        /\ \A i : c.unseen = {} /\ i \in old => At(files, db) \in Db
    BY <1>2, <2>2, ListedType
  <2> HIDE DEF cert, db, n, c, old, new
  <2>5. PICK o \in IF n \in old THEN {c} ELSE SaveDb(c, db, new) :
             Ends(o, {}, IF o.code = 0 /\ o.unseen = {} THEN {<<db, n>>} ELSE {})
    BY <1>2 DEF Record, c, old, new
  <2>6. CASE n \in old
    <3>1. o = c /\ files' = files /\ failed' \in Nat /\ exit' = 0
      BY <2>2, <2>5, <2>6 DEF Ends, Standing
    <3>2. revoked' \subseteq revoked \cup (IF c.unseen = {} THEN {<<db, n>>} ELSE {})
      BY <2>5, <3>1 DEF Ends, Unaimed
    <3>3. c.unseen = {} => ListedIn(files, <<db, n>>) /\ <<db, n>>[2] \in Nat
      BY <2>1, <2>4, <2>6 DEF ListedIn
    <3> QED
      BY <1>2, <3>1, <3>2, <3>3 DEF CLInv, ExitCode
  <2>7. CASE n \notin old
    <3>1. o \in SaveDb(c, db, new)
      BY <2>5, <2>7
    <3>2. /\ Called(c, o, db)
          /\ o.code # 0 => o.files = c.files
          /\ o.code = 0 /\ db \notin o.unseen => o.files = Written(c.files, db, new)
      BY <2>2, <3>1, SaveDbIs
    <3>3. Sound(o.files) /\ Elsewhere(files, o.files, {db}) /\ Standing(o)
      BY <2>2, <2>3, <3>1, <3>2, SaveDbSound, CalledElsewhere DEF CLInv
    <3>4. files' = o.files /\ failed' \in Nat /\ exit' \in {0, 1}
      BY <2>5, <3>3 DEF Ends, Standing
    <3>5. ASSUME o.code = 0, o.unseen = {}
          PROVE  ListedIn(files', <<db, n>>) /\ <<db, n>>[2] \in Nat
      BY <2>1, <2>3, <3>2, <3>4, <3>5, WrittenAt DEF ListedIn
    <3>6. ASSUME NEW r \in Unaimed({} \cup Harmed(o)) PROVE r[2] \in Nat /\ ListedIn(files', r)
      <4>1. /\ r \in revoked /\ r[1] \notin Harmed(o)
            /\ r[2] \in Nat /\ At(files, r[1]) \in Db /\ r[2] \in At(files, r[1]).listed
        BY DEF Unaimed, CLInv, ListedIn
      <4>2. CASE r[1] # db
        BY <3>3, <3>4, <4>1, <4>2 DEF Elsewhere, ListedIn
      <4>3. CASE r[1] = db /\ db \in o.unseen
        BY <3>4, <4>1, <4>3 DEF Harmed, ListedIn
      <4>4. CASE r[1] = db /\ db \notin o.unseen
        <5>1. c.unseen = {}
          BY <2>2, <3>2, <4>4 DEF Called
        <5>2. r[2] \in new.listed
          BY <2>3, <2>4, <4>1, <4>4, <5>1
        <5>3. files' = files \/ files' = Written(files, db, new)
          BY <2>2, <3>2, <3>3, <3>4, <4>4 DEF Standing
        <5> QED
          BY <2>3, <4>1, <4>4, <5>2, <5>3, WrittenAt DEF ListedIn
      <4> QED
        BY <4>2, <4>3, <4>4
    <3>7. revoked' = Unaimed({} \cup Harmed(o))
                     \cup (IF o.code = 0 /\ o.unseen = {} THEN {<<db, n>>} ELSE {})
      BY <2>5 DEF Ends
    <3> QED
      BY <1>2, <3>3, <3>4, <3>5, <3>6, <3>7 DEF CLInv, ExitCode
  <2> QED
    BY <2>6, <2>7
<1> QED
  BY <1>1, <1>2 DEF RunRevoke

\* Where no fault was missed, the DB is saved as it was; elsewhere only the CRL is written.
LEMMA CrlIssueKeeps ==
  ASSUME CLInv, NEW a, RunCrlIssue(a)
  PROVE  CLInv'
<1> DEFINE ca == CaOf(a)
           db == DbPath(a)
           out == a["--out"]
<1>1. CASE Refuse(1)
  BY <1>1, RefuseKeeps DEF ExitCode
<1>2. ASSUME ca # Torn, NEW read \in LoadDb(db), read.listed # Torn,
             UNCHANGED fresh, Publish(a, ca, read)
      PROVE  CLInv'
  <2> DEFINE c == read.command
             listed == read.listed
             crl == [revoked |-> listed, issuer |-> ca.subject, signer |-> ca.key,
                     from |-> 0, until |-> 0]
             new == [listed |-> listed]
  <2>1. /\ c.files = files /\ c.code = 0 /\ Standing(c) /\ c.unseen \subseteq {db}
        /\ c.unseen = {} => listed = Listed(files, db)
        /\ listed \in SUBSET Nat
    BY <1>2, LoadDbIs DEF CLInv
  <2>2. SoundDoc(crl) /\ SoundDoc(new) /\ new \in Db /\ new.listed = listed
    BY <1>2, <2>1, CaLoaded, CrlSound, DbSound
  <2>3. \A i : At(files, db) \in Db /\ c.unseen = {} => (i \in listed <=> i \in At(files, db).listed)
    BY <1>2, <2>1, ListedType
  <2> HIDE DEF ca, db, out, c, listed, crl, new
  <2>4. PICK w \in WriteFile(c, out, crl) : \E o \in SaveDb(w, db, new) : Ends(o, {out}, {})
    BY <1>2 DEF Publish, db, out, c, listed, crl, new
  <2>5. Called(c, w, out) /\ Sound(w.files)
    BY <2>1, <2>2, WriteFileIs, WriteFileSound DEF CLInv
  <2>6. Elsewhere(files, w.files, {out}) /\ Standing(w) /\ c.unseen \subseteq w.unseen
    BY <2>1, <2>5, CalledElsewhere DEF Called
  <2>7. PICK o \in SaveDb(w, db, new) : Ends(o, {out}, {})
    BY <2>4
  <2>8. /\ Called(w, o, db)
        /\ o.code # 0 => o.files = w.files
        /\ o.code = 0 /\ db \notin o.unseen => o.files = Written(w.files, db, new)
    BY <2>6, SaveDbIs
  <2>9. Sound(o.files) /\ Elsewhere(w.files, o.files, {db}) /\ Standing(o)
    BY <2>2, <2>5, <2>6, <2>8, SaveDbSound, CalledElsewhere
  <2>10. files' = o.files /\ failed' \in Nat /\ exit' \in {0, 1}
    BY <2>7, <2>9 DEF Ends, Standing
  <2>11. ASSUME NEW r \in revoked' PROVE r[2] \in Nat /\ ListedIn(files', r)
    <3>1. /\ r \in revoked /\ r[1] # out /\ r[1] \notin Harmed(o)
          /\ r[2] \in Nat /\ At(files, r[1]) \in Db /\ r[2] \in At(files, r[1]).listed
      BY <2>7 DEF Ends, Unaimed, CLInv, ListedIn
    <3>2. At(w.files, r[1]) = At(files, r[1])
      BY <2>6, <3>1 DEF Elsewhere
    <3>3. CASE r[1] # db
      BY <2>9, <2>10, <3>1, <3>2, <3>3 DEF Elsewhere, ListedIn
    <3>4. CASE r[1] = db /\ db \in o.unseen
      BY <2>10, <3>1, <3>4 DEF Harmed, ListedIn
    <3>5. CASE r[1] = db /\ db \notin o.unseen
      <4>1. c.unseen = {}
        BY <2>1, <2>6, <2>8, <3>5 DEF Called
      <4>2. r[2] \in new.listed
        BY <2>2, <2>3, <3>1, <3>5, <4>1
      <4>3. files' = w.files \/ files' = Written(w.files, db, new)
        BY <2>8, <2>9, <2>10, <3>5 DEF Standing
      <4> QED
        BY <2>2, <3>1, <3>2, <3>5, <4>2, <4>3, WrittenAt DEF ListedIn
    <3> QED
      BY <3>3, <3>4, <3>5
  <2> QED
    BY <1>2, <2>9, <2>10, <2>11 DEF CLInv, ExitCode
<1> QED
  BY <1>1, <1>2 DEF RunCrlIssue

LEMMA VerifyCodes == \A f, a : VerifyCode(f, a) \in ExitCode
BY DEF VerifyCode, Anchor!VerifyExit, ExitCode

LEMMA CLInitInv == CLInit => CLInv
<1>1. Sound(Given)
  BY CommandLineAssumption DEF Sound, SoundDoc
<1> QED
  BY <1>1 DEF CLInit, CLInv, ExitCode

\* Every line keeps it.
LEMMA CLNextInv == CLInv /\ [CLNext]_clvars => CLInv'
<1> SUFFICES ASSUME CLInv, [CLNext]_clvars PROVE CLInv'
  OBVIOUS
<1>1. CASE UNCHANGED clvars
  BY <1>1 DEF clvars, seen, CLInv
<1>2. ASSUME NEW line \in Line, Usage(line) PROVE CLInv'
  BY <1>2, RefuseKeeps DEF Usage, ExitCode
<1>3. ASSUME NEW line \in Line, Unread(line) PROVE CLInv'
  <2>1. ParseExit(line.sub, Parsed[line].stop) \in ExitCode
    BY DEF ParseExit, ExitCode
  <2> QED
    BY <1>3, <2>1, RefuseKeeps DEF Unread
<1>4. ASSUME NEW line \in Line, CaInit(line) PROVE CLInv'
  <2>1. line \in DOMAIN Parsed /\ line.sub = "ca-init" /\ Parsed[line].stop = ""
    BY <1>4 DEF CaInit, Calls, Parsed, Subcommand
  <2>2. Segments[Parsed[line].args["--subject"]] \in Seq(STRING)
    BY <2>1, CommandLineAssumption
  <2> QED
    BY <1>4, <2>2, CaInitKeeps DEF CaInit
<1>5. ASSUME NEW line \in Line, Provision(line) PROVE CLInv'
  BY <1>5, ProvisionKeeps DEF Provision
<1>6. ASSUME NEW line \in Line, Revoke(line) PROVE CLInv'
  BY <1>6, RevokeKeeps DEF Revoke
<1>7. ASSUME NEW line \in Line, CrlIssue(line) PROVE CLInv'
  BY <1>7, CrlIssueKeeps DEF CrlIssue
<1>8. ASSUME NEW line \in Line, Verify(line) PROVE CLInv'
  BY <1>8, VerifyCodes, RefuseKeeps DEF Verify
<1>9. ASSUME NEW m \in SgxMachine, SgxSample(m) PROVE CLInv'
  <2>1. m \in Machine /\ "sgx" \in TeeTypes
    BY CommandLineAssumption DEF TeeTypes
  <2> QED
    BY <1>9, <2>1, SampleKeeps DEF SgxSample
<1>10. ASSUME NEW m \in TdxMachine, TdxSample(m) PROVE CLInv'
  <2>1. m \in Machine /\ "tdx" \in TeeTypes
    BY CommandLineAssumption DEF TeeTypes
  <2> QED
    BY <1>10, <2>1, SampleKeeps DEF TdxSample
<1> QED
  BY <1>1, <1>2, <1>3, <1>4, <1>5, <1>6, <1>7, <1>8, <1>9, <1>10 DEF CLNext

LEMMA CLInvariance == CLSpec => []CLInv
BY CLInitInv, CLNextInv, PTL DEF CLSpec

\* Whatever is typed, files hold documents, or what a write that failed has left of them, and
\* the exit code is one of those that docs and README name.
THEOREM CommandsTypeCorrect == CLSpec => []CLTypeOK
<1>1. CLInv => CLTypeOK
  BY DEF CLInv, Sound, SoundDoc, CLTypeOK, ExitCode
<1> QED
  BY <1>1, CLInvariance, PTL

\* Whatever is typed after a revoke that ended well and that no fault hit, and whichever writes
\* throw, its serial stays listed in the DB until a command is told to write to that path, or
\* changes the DB after a fault that it has not seen: a short read, or a flush lost before the
\* rename (run_revoke, run_crl_issue, load_revocation_db, save_revocation_db).
THEOREM StaysListed == CLSpec => []RevokedStaysListed
<1>1. CLInv => RevokedStaysListed
  BY Distinct, Kinds DEF CLInv, ListedIn, RevokedStaysListed, At
<1> QED
  BY <1>1, CLInvariance, PTL

-----------------------------------------------------------------------------
\* What the exit codes of verify tell.

\* The documents that options a of verify name in files f.
OrgCert(f, a) == Load(f, a["--org-cert"], Certificate)
CrlOption(f, a) == IF a["--crl"] = "" THEN None ELSE Load(f, a["--crl"], Anchor!SignedCrl)
Report(f, a) == IF Chip(f, a) = None THEN Torn ELSE f[a["--report"]]
Code(f, a) ==
    Anchor!VerifyExit(a["--tee-type"], Report(f, a), OrgCert(f, a), OrgCa(f, a), CrlOption(f, a))
Understood(a) == TeeGiven(a) /\ All(a, {"--org-cert", "--org-ca"})

LEMMA VerifyCodeIs ==
  ASSUME NEW f, NEW a
  PROVE  VerifyCode(f, a) =
            IF ~Understood(a) THEN 30
            ELSE IF Code(f, a) = 22 /\ CrlOption(f, a) # None
                    /\ Serial(OrgCert(f, a)) \in CrlOption(f, a).revoked THEN 24
            ELSE Code(f, a)
BY DEF VerifyCode, Complete, Understood, Code, OrgCert, CrlOption, Report

\* Code 30 without a word that is wrong: a file other than the report does not load.
Unloadable(f, a) == Torn \in {OrgCert(f, a), OrgCa(f, a), CrlOption(f, a)}

LEMMA ReportChip ==
  ASSUME NEW f, NEW a
  PROVE  Anchor!ExtractChip(a["--tee-type"], Report(f, a)) = Chip(f, a)
<1>1. CASE Chip(f, a) = None
  BY <1>1 DEF Report, Anchor!ExtractChip
<1>2. CASE Chip(f, a) # None
  BY <1>2, ChipType DEF Report
<1> QED
  BY <1>1, <1>2

LEMMA CodeIs ==
  ASSUME NEW f, NEW a
  PROVE  /\ Code(f, a) \in {0, 20, 21, 22, 24, 30}
         /\ Code(f, a) = 30 <=> Unloadable(f, a)
         /\ Code(f, a) = 20 <=> ~Unloadable(f, a) /\ Chip(f, a) = None
BY ReportChip DEF Code, Anchor!VerifyExit, Unloadable

\* With the CRL option left out, nothing else changes.
LEMMA WithoutCrl ==
  ASSUME NEW f, NEW a
  PROVE  LET b == Instead(a, "--crl", "") IN
         /\ Understood(b) <=> Understood(a)
         /\ Chip(f, b) = Chip(f, a) /\ Report(f, b) = Report(f, a)
         /\ OrgCert(f, b) = OrgCert(f, a) /\ OrgCa(f, b) = OrgCa(f, a)
         /\ b["--tee-type"] = a["--tee-type"]
         /\ CrlOption(f, b) = None
<1> DEFINE b == Instead(a, "--crl", "")
<1>1. /\ b["--crl"] = "" /\ b["--tee-type"] = a["--tee-type"] /\ b["--report"] = a["--report"]
      /\ b["--certs"] = a["--certs"] /\ b["--org-cert"] = a["--org-cert"]
      /\ b["--org-ca"] = a["--org-ca"]
  BY DEF Instead, VerifyOptions
<1> HIDE DEF b
<1>2. Understood(b) <=> Understood(a)
  BY <1>1 DEF Understood, TeeGiven, All
<1>3. Chip(f, b) = Chip(f, a)
  BY <1>1 DEF Chip
<1>4. Report(f, b) = Report(f, a)
  BY <1>1, <1>3 DEF Report
<1>5. /\ OrgCert(f, b) = OrgCert(f, a) /\ OrgCa(f, b) = OrgCa(f, a)
      /\ CrlOption(f, b) = None
  BY <1>1 DEF OrgCert, OrgCa, CrlOption
<1> QED
  BY <1>1, <1>2, <1>3, <1>4, <1>5 DEF b

\* With good vendor certificates, if any are given, no other option changes.
LEMMA CertifiedIs ==
  ASSUME NEW a
  PROVE  LET b == Certified(a) IN
         /\ b["--crl"] = a["--crl"] /\ b["--tee-type"] = a["--tee-type"]
         /\ b["--report"] = a["--report"] /\ b["--org-cert"] = a["--org-cert"]
         /\ b["--org-ca"] = a["--org-ca"]
         /\ a["--certs"] = "" => b["--certs"] = ""
         /\ a["--certs"] # "" => b["--certs"] \in VendorCerts /\ b["--certs"] # ""
<1> DEFINE d == CHOOSE x \in VendorCerts : TRUE
           v == IF a["--certs"] = "" THEN "" ELSE d
<1>1. d \in VendorCerts /\ d # ""
  BY CommandLineAssumption
<1>2. Certified(a) = Instead(a, "--certs", v)
  BY DEF Certified
<1> HIDE DEF d
<1> QED
  BY <1>1, <1>2 DEF Instead, VerifyOptions

\* With a report of machine m in its place, nothing else changes.
LEMMA WithMachine ==
  ASSUME NEW f, NEW a, Understood(a), Apart(a), NEW m \in Machine
  PROVE  LET g == Written(f, a["--report"], [tee |-> a["--tee-type"], machine |-> m])
             b == Certified(a)
         IN  /\ Understood(b) /\ Chip(g, b) # None
             /\ Unloadable(g, b) <=> Unloadable(f, a)
<1> DEFINE ev == [tee |-> a["--tee-type"], machine |-> m]
           g == Written(f, a["--report"], ev)
           b == Certified(a)
<1>2. /\ b["--crl"] = a["--crl"] /\ b["--tee-type"] = a["--tee-type"]
      /\ b["--report"] = a["--report"] /\ b["--org-cert"] = a["--org-cert"]
      /\ b["--org-ca"] = a["--org-ca"]
      /\ a["--certs"] # "" => b["--certs"] \in VendorCerts /\ b["--certs"] # ""
  BY CertifiedIs
<1> HIDE DEF b
<1>3. Understood(b)
  BY <1>2 DEF Understood, TeeGiven, All
<1>4. /\ At(g, a["--report"]) = ev /\ g[a["--report"]] = ev
      /\ \A p : p # a["--report"] => At(g, p) = At(f, p)
  <2> HIDE DEF ev
  <2>1. \A p : At(g, p) = IF p = a["--report"] THEN ev ELSE At(f, p)
    BY WrittenAt
  <2>2. g[a["--report"]] = ev
    BY DEF Written
  <2> QED
    BY <2>1, <2>2
<1>5. ev \in Anchor!Evidence
  BY EvidenceSound DEF Understood, TeeGiven
<1>6. ev.tee = a["--tee-type"] /\ ev.machine = m
  OBVIOUS
<1>7. ev # Torn /\ m # None
  BY <1>5, Distinct, Kinds, CommandLineAssumption
<1> HIDE DEF ev, g
<1>8. Chip(g, b) # None
  <2>1. b["--tee-type"] = "snp" => b["--certs"] \in VendorCerts
    BY <1>2 DEF Understood, TeeGiven, All
  <2>2. Load(g, b["--report"], Anchor!Evidence) = ev
    BY <1>2, <1>4, <1>5 DEF Load
  <2>3. Anchor!ExtractChip(b["--tee-type"], ev) = m
    BY <1>2, <1>6, <1>7 DEF Anchor!ExtractChip
  <2> QED
    BY <1>7, <2>1, <2>2, <2>3 DEF Chip
<1>9. \A o \in {"--org-cert", "--org-ca", "--crl"} : \A kind :
         kind \subseteq Content => Load(g, b[o], kind) = Load(f, a[o], kind)
  <2> TAKE o \in {"--org-cert", "--org-ca", "--crl"}
  <2>1. b[o] = a[o] /\ a[o] # a["--report"]
    BY <1>2 DEF Apart
  <2>2. At(g, b[o]) = At(f, a[o])
    BY <1>4, <2>1
  <2>3. At(f, a[o]) \in Content => f[a[o]] = At(f, a[o])
    BY Distinct DEF At
  <2>4. At(g, b[o]) \in Content => g[b[o]] = At(g, b[o])
    BY Distinct DEF At
  <2> QED
    BY <2>2, <2>3, <2>4 DEF Load
<1>10. /\ OrgCert(g, b) = OrgCert(f, a) /\ OrgCa(g, b) = OrgCa(f, a)
       /\ CrlOption(g, b) = CrlOption(f, a)
  BY <1>2, <1>9, Kinds DEF OrgCert, OrgCa, CrlOption
<1> QED
  BY <1>3, <1>8, <1>10 DEF Unloadable, b, g, ev

\* A revoked endorsement chains: without the CRL it would be accepted, or be another chip's.
LEMMA OnlyTheCrl ==
  ASSUME NEW f, Sound(f), NEW a, VerifyCode(f, a) = 24
  PROVE  VerifyCode(f, Instead(a, "--crl", "")) \in {0, 22}
<1> DEFINE b == Instead(a, "--crl", "")
           e == OrgCert(f, a)
           ca == OrgCa(f, a)
           c == CrlOption(f, a)
<1>1. /\ Understood(b) <=> Understood(a)
      /\ Report(f, b) = Report(f, a) /\ Chip(f, b) = Chip(f, a)
      /\ OrgCert(f, b) = e /\ OrgCa(f, b) = ca /\ b["--tee-type"] = a["--tee-type"]
      /\ CrlOption(f, b) = None
  BY WithoutCrl
<1> HIDE DEF b, e, ca, c
<1>2. Understood(a) /\ Code(f, a) \in {22, 24}
  <2>1. Understood(a) /\ (Code(f, a) = 22 \/ Code(f, a) = 24)
    BY VerifyCodeIs
  <2> QED
    BY <2>1
<1>3. /\ Torn \notin {e, ca, c} /\ Chip(f, a) # None
      /\ Anchor!ChainStatus(e, ca, c) \in {"revoked", "ok"}
  BY <1>2, ReportChip DEF Code, Anchor!VerifyExit, e, ca, c, Anchor!ChainStatus
<1>4. /\ e = ca \/ (e \in Anchor!Endorsement /\ Anchor!IssuedBy(e, ca))
  BY <1>3 DEF Anchor!ChainStatus
<1>5. e \in Certificate /\ e.from = 0 /\ 0 <= e.until
  <2>1. e \in Certificate /\ SoundDoc(e)
    BY <1>3, Kinds, Loaded DEF OrgCert, e, Sound
  <2>2. e.from = 0
    BY <2>1 DEF SoundDoc
  <2>3. e.until \in Nat
    BY <2>1 DEF Certificate, Anchor!CaCert, Anchor!Endorsement
  <2> QED
    BY <2>1, <2>2, <2>3
<1>6. ca.from = 0 /\ 0 <= ca.until
  <2> DEFINE l == Load(f, a["--org-ca"], Certificate)
  <2>1. CASE l \in Anchor!Endorsement
    <3>1. ca = [subject |-> None, key |-> None, from |-> 0, until |-> 0]
      BY <2>1 DEF OrgCa, ca
    <3> QED
      BY <3>1
  <2>2. CASE l \notin Anchor!Endorsement
    <3>1. ca = l
      BY <2>2 DEF OrgCa, ca
    <3>2. ca \in Certificate /\ SoundDoc(ca)
      BY <1>3, <3>1, Kinds, Loaded DEF Sound
    <3>3. ca.from = 0
      BY <3>2 DEF SoundDoc
    <3>4. ca.until \in Nat
      BY <3>2 DEF Certificate, Anchor!CaCert, Anchor!Endorsement
    <3> QED
      BY <3>3, <3>4
  <2> QED
    BY <2>1, <2>2
<1>7. Anchor!ChainStatus(e, ca, None) = "ok"
  BY <1>4, <1>5, <1>6 DEF Anchor!ChainStatus, Anchor!Listed, Anchor!Valid
<1>8. Code(f, b) \in {0, 22}
  <2>1. Anchor!ExtractChip(b["--tee-type"], Report(f, b)) # None
    BY <1>1, <1>3, ReportChip
  <2>2. Torn \notin {e, ca, None}
    BY <1>3, Distinct
  <2> QED
    BY <1>1, <1>7, <2>1, <2>2 DEF Code, Anchor!VerifyExit
<1>9. VerifyCode(f, b) = Code(f, b)
  BY <1>1, <1>2, VerifyCodeIs
<1> QED
  BY <1>8, <1>9 DEF b

\* After 20 any other report is better, after 30 none is.
LEMMA OnlyTheReport ==
  ASSUME NEW a, Apart(a), NEW m \in Machine
  PROVE  /\ VerifyCode(files, a) = 20 => CodeForMachine(a, m) \notin {20, 30}
         /\ VerifyCode(files, a) = 30 => CodeForMachine(a, m) = 30
<1> DEFINE g == Written(files, a["--report"], [tee |-> a["--tee-type"], machine |-> m])
           b == Certified(a)
<1>1. CodeForMachine(a, m) = VerifyCode(g, b)
  BY DEF CodeForMachine
<1>2. CASE Understood(a)
  <2>1. Understood(b) /\ Chip(g, b) # None /\ (Unloadable(g, b) <=> Unloadable(files, a))
    BY <1>2, WithMachine
  <2> HIDE DEF g, b
  <2>2. /\ VerifyCode(files, a) = 20 => Code(files, a) = 20
        /\ VerifyCode(files, a) = 30 => Code(files, a) = 30
    BY <1>2, VerifyCodeIs
  <2>3. VerifyCode(g, b) = Code(g, b) \/ VerifyCode(g, b) = 24
    BY <2>1, VerifyCodeIs
  <2>4. Code(g, b) = 30 => VerifyCode(g, b) = 30
    BY <2>1, VerifyCodeIs
  <2> QED
    BY <1>1, <2>1, <2>2, <2>3, <2>4, CodeIs
<1>3. CASE ~Understood(a)
  <2>1. ~Understood(b)
    <3>1. /\ b["--tee-type"] = a["--tee-type"]
          /\ b["--report"] = a["--report"] /\ b["--org-cert"] = a["--org-cert"]
          /\ b["--org-ca"] = a["--org-ca"]
          /\ a["--certs"] = "" => b["--certs"] = ""
      BY CertifiedIs
    <3> HIDE DEF b
    <3> QED
      BY <1>3, <3>1 DEF Understood, TeeGiven, All
  <2>2. VerifyCode(g, b) = 30 /\ VerifyCode(files, a) = 30
    BY <1>3, <2>1, VerifyCodeIs
  <2> QED
    BY <1>1, <2>2
<1> QED
  BY <1>2, <1>3

LEMMA EvidenceIsGood ==
  ASSUME NEW f, NEW a
  PROVE  VerifyCode(f, a) = 21 \/ VerifyCode(f, a) = 22 => Chip(f, a) # None
<1> SUFFICES ASSUME VerifyCode(f, a) = 21 \/ VerifyCode(f, a) = 22
             PROVE  Chip(f, a) # None
  OBVIOUS
<1>1. Code(f, a) = 21 \/ Code(f, a) = 22
  BY VerifyCodeIs
<1> QED
  BY <1>1, ReportChip DEF Code, Anchor!VerifyExit

\* Whatever files verify is given, its exit code names the one at fault, if the report can be
\* read.
THEOREM CauseIsNamed == CLSpec => RefusalNamesTheCause
<1> DEFINE A == last'.sub = "verify" /\ Parsed[last'].stop = "" =>
                  LET a == Parsed[last'].args
                  IN  /\ exit' = 20 /\ Apart(a) /\ Readable(a) => \E m \in Machine : CodeForMachine(a, m) \notin {20, 30}
                      /\ exit' = 30 /\ Apart(a) /\ Readable(a) => \A m \in Machine : CodeForMachine(a, m) = 30
                      /\ exit' = 24 => VerifyCode(files, Instead(a, "--crl", "")) \in {0, 22}
                      /\ exit' \in {21, 22} => Chip(files, a) # None
<1>1. ASSUME CLInv, CLNext, last'.sub = "verify", Parsed[last'].stop = ""
      PROVE  exit' = VerifyCode(files, Parsed[last'].args)
  <2>1. CASE \E line \in Line : Usage(line) \/ Unread(line) \/ CaInit(line) \/ Provision(line)
                                \/ Revoke(line) \/ CrlIssue(line)
    BY <1>1, <2>1 DEF Usage, Unread, CaInit, Provision, Revoke, CrlIssue, Calls, Subcommand
  <2>2. CASE \E line \in Line : Verify(line)
    BY <2>2 DEF Verify, Calls, Refuse
  <2>3. CASE (\E m \in SgxMachine : SgxSample(m)) \/ (\E m \in TdxMachine : TdxSample(m))
    <3>1. last' = NoLine
      BY <2>3 DEF SgxSample, TdxSample, Sample
    <3> QED
      BY <1>1, <3>1 DEF NoLine
  <2> QED
    BY <1>1, <2>1, <2>2, <2>3 DEF CLNext
<1>2. ASSUME CLInv, [CLNext]_clvars PROVE [A]_clvars
  <2> SUFFICES ASSUME CLNext, last'.sub = "verify", Parsed[last'].stop = "",
                      NEW a, a = Parsed[last'].args
               PROVE  /\ exit' = 20 /\ Apart(a) /\ Readable(a) => \E m \in Machine : CodeForMachine(a, m) \notin {20, 30}
                      /\ exit' = 30 /\ Apart(a) /\ Readable(a) => \A m \in Machine : CodeForMachine(a, m) = 30
                      /\ exit' = 24 => VerifyCode(files, Instead(a, "--crl", "")) \in {0, 22}
                      /\ exit' \in {21, 22} => Chip(files, a) # None
    BY <1>2
  <2>1. exit' = VerifyCode(files, a)
    BY <1>1, <1>2
  <2>2. Machine # {} /\ Sound(files)
    BY <1>2, CommandLineAssumption DEF CLInv
  <2>3. ASSUME exit' = 20, Apart(a)
        PROVE  \E m \in Machine : CodeForMachine(a, m) \notin {20, 30}
    <3>1. PICK m \in Machine : TRUE
      BY <2>2
    <3>2. CodeForMachine(a, m) \notin {20, 30}
      BY <2>1, <2>3, OnlyTheReport
    <3> QED
      BY <3>2
  <2>4. ASSUME exit' = 30, Apart(a), NEW m \in Machine
        PROVE  CodeForMachine(a, m) = 30
    BY <2>1, <2>4, OnlyTheReport
  <2>5. exit' = 24 => VerifyCode(files, Instead(a, "--crl", "")) \in {0, 22}
    BY <2>1, <2>2, OnlyTheCrl
  <2>6. ASSUME exit' \in {21, 22} PROVE Chip(files, a) # None
    <3>1. VerifyCode(files, a) = 21 \/ VerifyCode(files, a) = 22
      BY <2>1, <2>6
    <3> QED
      BY <3>1, EvidenceIsGood
  <2> QED
    BY <2>3, <2>4, <2>5, <2>6
<1>3. CLInv /\ [CLNext]_clvars => [A]_clvars
  BY <1>2
<1> QED
  BY <1>3, CLInvariance, PTL DEF CLSpec, RefusalNamesTheCause
-----------------------------------------------------------------------------
\* What exit codes tell of files.

\* A key that is yet to be made is in no file.
KeysAreNew(f, n) == \A p \in DOMAIN f : \A k \in Nat : n <= k /\ k < MaxFresh => f[p] # [private |-> k]

\* What is written is no key that is yet to be made.
NotNew(d, n) == \A k \in Nat : n <= k /\ k < MaxFresh => d # [private |-> k]

LEMMA WrittenKeys ==
  ASSUME NEW f, NEW n, KeysAreNew(f, n), NEW p, NEW d, NotNew(d, n)
  PROVE  KeysAreNew(Written(f, p, d), n)
BY DEF KeysAreNew, NotNew, Written

\* A document with other fields is no key.
LEMMA NoKey ==
  ASSUME NEW d, "private" \notin DOMAIN d, NEW n
  PROVE  NotNew(d, n)
<1>1. \A k : "private" \in DOMAIN [private |-> k]
  OBVIOUS
<1> QED
  BY <1>1 DEF NotNew

LEMMA CutIsNotNew == \A n : NotNew(Empty, n) /\ NotNew(Torn, n)
<1>1. \A k \in Nat : [private |-> k] \in Content
  BY Kinds DEF PrivateKey
<1> QED
  BY <1>1, Distinct DEF NotNew

LEMMA CutDbIsNotNew ==
  ASSUME NEW d, NEW new, d \in CutDb(new), NEW n
  PROVE  NotNew(d, n)
<1>1. CASE d \in [listed : SUBSET new.listed]
  <2>1. "private" \notin DOMAIN d
    BY <1>1
  <2> QED
    BY <2>1, NoKey
<1> QED
  BY <1>1, CutIsNotNew DEF CutDb

\* The calls write no key that is yet to be made.
LEMMA WriteFileKeys ==
  ASSUME NEW o, Standing(o), NEW n, KeysAreNew(o.files, n), NEW p, NEW doc, NotNew(doc, n),
         NEW r \in WriteFile(o, p, doc)
  PROVE  KeysAreNew(r.files, n)
<1>1. r.files = o.files \/ \E d \in {Empty, Torn, doc} : r.files = Written(o.files, p, d)
  BY WriteFileIs
<1>2. ASSUME NEW d \in {Empty, Torn, doc} PROVE KeysAreNew(Written(o.files, p, d), n)
  BY CutIsNotNew, WrittenKeys
<1> QED
  BY <1>1, <1>2

LEMMA SaveDbKeys ==
  ASSUME NEW o, Standing(o), NEW n, KeysAreNew(o.files, n), NEW p, NEW new, NotNew(new, n),
         NEW r \in SaveDb(o, p, new)
  PROVE  KeysAreNew(r.files, n)
<1>1. r.files = o.files \/ \E d \in {new} \cup CutDb(new) : r.files = Written(o.files, p, d)
  BY SaveDbIs
<1>2. ASSUME NEW d \in {new} \cup CutDb(new) PROVE KeysAreNew(Written(o.files, p, d), n)
  BY CutDbIsNotNew, WrittenKeys
<1> QED
  BY <1>1, <1>2

LEMMA LaterKeys ==
  ASSUME NEW f, NEW n \in Nat, KeysAreNew(f, n)
  PROVE  KeysAreNew(f, n + 1)
BY DEF KeysAreNew

FreshInv == CLInv /\ KeysAreNew(files, fresh)

\* What a command that no fault has hit has done with options a, and that a revoke that fails
\* has done nothing.
Told(sub, a) ==
    /\ failed' = failed /\ exit' = 0 => Complete(sub, a) /\ Done(sub, a)
    /\ failed' = failed /\ exit' # 0 /\ files' # files =>
          sub = "crl-issue" /\ ~Writable(DbPath(a))
    /\ sub = "revoke" /\ exit' # 0 => files' = files

LEMMA RefusedTold ==
  ASSUME NEW code, code # 0, Refuse(code), NEW sub, NEW a
  PROVE  Told(sub, a)
BY DEF Refuse, Told

LEMMA CaInitTold ==
  ASSUME FreshInv, NEW a, RunCaInit(a), Segments[a["--subject"]] \in Seq(STRING)
  PROVE  Told("ca-init", a) /\ KeysAreNew(files', fresh')
<1> DEFINE dn == ParseDn(a["--subject"])
           key == [private |-> fresh]
           withKey == Written(files, KeyPath(a), key)
           cert == [subject |-> dn, key |-> fresh, from |-> 0, until |-> 0]
<1>1. CASE Refuse(1)
  BY <1>1, RefusedTold DEF Refuse, FreshInv
<1>2. CASE /\ Complete("ca-init", a)
           /\ a["--force"] # "" \/ {KeyPath(a), CrtPath(a)} \cap DOMAIN files = {}
           /\ fresh < MaxFresh /\ fresh' = fresh + 1
           /\ \E k \in WriteFile(Ongoing, KeyPath(a), key) :
              \E o \in WriteFile(k, CrtPath(a), cert) : Ends(o, {KeyPath(a), CrtPath(a)}, {})
  <2>1. /\ fresh \in Nat /\ failed \in Nat /\ MaxFresh \in Nat
        /\ KeysAreNew(files, fresh + 1)
    BY LaterKeys, CommandLineAssumption DEF FreshInv, CLInv
  <2>2. cert \in Anchor!CaCert /\ cert.key = fresh
    <3>1. dn \in Seq(Rdn)
      BY <1>2, DnType DEF Complete
    <3> HIDE DEF dn
    <3> QED
      BY <2>1, <3>1 DEF Anchor!CaCert
  <2>3. NotNew(key, fresh + 1) /\ NotNew(cert, fresh + 1)
    <3>1. "private" \notin DOMAIN cert
      OBVIOUS
    <3>2. ASSUME NEW k \in Nat, fresh + 1 <= k PROVE key # [private |-> k]
      <4>1. fresh # k
        BY <2>1, <3>2
      <4>2. key.private = fresh /\ [private |-> k].private = k
        OBVIOUS
      <4> QED
        BY <4>1, <4>2
    <3> QED
      BY <3>1, <3>2, NoKey DEF NotNew
  <2>4. \A q \in DOMAIN files : files[q] # key
    <3>1. fresh < MaxFresh
      BY <1>2
    <3>2. ASSUME NEW q \in DOMAIN files PROVE files[q] # [private |-> fresh]
      BY <2>1, <3>1 DEF FreshInv, KeysAreNew
    <3> QED
      BY <3>2
  <2>5. KeyPath(a) # CrtPath(a)
    BY <1>2, CommandLineAssumption DEF Complete, KeyPath, CrtPath
  <2>6. /\ Ongoing.files = files /\ Ongoing.faults = failed /\ Ongoing.code = 0
        /\ Standing(Ongoing)
    BY <2>1 DEF Ongoing, Outcome, Standing
  <2> HIDE DEF dn, key, cert
  <2>7. PICK k \in WriteFile(Ongoing, KeyPath(a), key) :
             \E o \in WriteFile(k, CrtPath(a), cert) : Ends(o, {KeyPath(a), CrtPath(a)}, {})
    BY <1>2
  <2>8. /\ Called(Ongoing, k, KeyPath(a)) /\ KeysAreNew(k.files, fresh + 1)
        /\ k.faults = failed => k.code = 0 /\ k.files = withKey
    BY <2>1, <2>3, <2>6, WriteFileIs, WriteFileKeys
  <2>9. PICK o \in WriteFile(k, CrtPath(a), cert) : Ends(o, {KeyPath(a), CrtPath(a)}, {})
    BY <2>7
  <2>10. Standing(k) /\ k.faults \in {failed, failed + 1}
    BY <2>6, <2>8 DEF Called
  <2>11. /\ Called(k, o, CrtPath(a)) /\ KeysAreNew(o.files, fresh + 1)
         /\ o.faults = k.faults /\ k.code = 0 => o.code = 0 /\ o.files = Written(k.files, CrtPath(a), cert)
    BY <2>3, <2>8, <2>10, WriteFileIs, WriteFileKeys
  <2>12. files' = o.files /\ failed' = o.faults /\ exit' = o.code
    BY <2>9 DEF Ends
  <2>13. KeysAreNew(files', fresh')
    BY <1>2, <2>11, <2>12
  <2>14. ASSUME failed' = failed
         PROVE  exit' = 0 /\ files' = Written(withKey, CrtPath(a), cert)
    <3>1. o.faults \in {k.faults, k.faults + 1}
      BY <2>11 DEF Called
    <3>2. o.faults = k.faults /\ k.faults = failed
      BY <2>1, <2>10, <2>12, <2>14, <3>1
    <3>3. k.code = 0 /\ k.files = withKey
      BY <2>8, <3>2
    <3> QED
      BY <2>11, <2>12, <3>2, <3>3
  <2>15. ASSUME failed' = failed PROVE Done("ca-init", a)
    <3>1. files' = Written(withKey, CrtPath(a), cert)
      BY <2>14, <2>15
    <3>2. At(files', CrtPath(a)) = cert /\ At(files', KeyPath(a)) = key
      BY <2>5, <3>1, WrittenAt
    <3>3. files'[CrtPath(a)] = cert /\ files'[KeyPath(a)] = key
      BY <2>5, <3>1 DEF Written
    <3> QED
      BY <1>2, <2>2, <2>4, <3>2, <3>3 DEF Done, key
  <2> QED
    BY <1>2, <2>13, <2>14, <2>15 DEF Told
<1> QED
  BY <1>1, <1>2 DEF RunCaInit

LEMMA ProvisionTold ==
  ASSUME FreshInv, NEW a, RunProvision(a)
  PROVE  Told("provision", a) /\ KeysAreNew(files', fresh')
<1> DEFINE c == CaOf(a)
           chip == Chip(files, a)
           e == [serial |-> fresh, issuer |-> c.subject, signer |-> c.key,
                 tee |-> a["--tee-type"], chip |-> chip, from |-> 0, until |-> 0]
<1>1. CASE Refuse(1)
  BY <1>1, RefusedTold DEF Refuse, FreshInv
<1>2. CASE /\ Complete("provision", a) /\ c # Torn /\ chip # None
           /\ fresh' = fresh + 1
           /\ \E o \in WriteFile(Ongoing, a["--out"], e) : Ends(o, {a["--out"]}, {})
  <2>1. fresh \in Nat /\ failed \in Nat /\ KeysAreNew(files, fresh + 1)
    BY LaterKeys DEF FreshInv, CLInv
  <2>2. NotNew(e, fresh + 1)
    <3>1. "private" \notin DOMAIN e
      OBVIOUS
    <3> HIDE DEF e
    <3> QED
      BY <3>1, NoKey
  <2>3. c = files[a["--ca-cert"]] /\ c \in Anchor!CaCert
    <3>1. c = Load(files, a["--ca-cert"], Anchor!CaCert)
      BY <1>2 DEF CaOf
    <3> QED
      BY <1>2, <3>1, Kinds, Loaded
  <2>4. /\ chip \in Machine
        /\ files[a["--report"]] = [tee |-> a["--tee-type"], machine |-> chip]
    BY <1>2, ChipType
  <2>5. e \in Anchor!Endorsement
    <3>1. a["--tee-type"] \in TeeTypes
      BY <1>2 DEF Complete, TeeGiven
    <3> HIDE DEF c, chip
    <3> QED
      BY <2>1, <2>3, <2>4, <3>1, EndorsementSound
  <2>6. e.issuer = c.subject /\ e.signer = c.key /\ e.chip = chip
    OBVIOUS
  <2>7. /\ Ongoing.files = files /\ Ongoing.faults = failed /\ Ongoing.code = 0
        /\ Standing(Ongoing)
    BY <2>1 DEF Ongoing, Outcome, Standing
  <2> HIDE DEF e, c, chip
  <2>8. PICK o \in WriteFile(Ongoing, a["--out"], e) : Ends(o, {a["--out"]}, {})
    BY <1>2
  <2>9. /\ KeysAreNew(o.files, fresh + 1)
        /\ o.faults = failed => o.code = 0 /\ o.files = Written(files, a["--out"], e)
    BY <2>1, <2>2, <2>7, WriteFileIs, WriteFileKeys
  <2>10. files' = o.files /\ failed' = o.faults /\ exit' = o.code
    BY <2>8 DEF Ends
  <2>11. KeysAreNew(files', fresh')
    BY <1>2, <2>9, <2>10
  <2>12. ASSUME failed' = failed PROVE exit' = 0 /\ Done("provision", a)
    <3>1. exit' = 0 /\ files' = Written(files, a["--out"], e)
      BY <2>9, <2>10, <2>12
    <3>2. At(files', a["--out"]) = e
      BY <3>1, WrittenAt
    <3>3. files'[a["--out"]] = e
      BY <3>1 DEF Written
    <3> QED
      BY <2>3, <2>4, <2>5, <2>6, <3>1, <3>2, <3>3 DEF Done, Anchor!IssuedBy
  <2> QED
    BY <1>2, <2>11, <2>12 DEF Told
<1> QED
  BY <1>1, <1>2 DEF RunProvision

\* A DB that is there lists what it lists.
LEMMA ListedDb ==
  ASSUME NEW f, NEW p, At(f, p) \in Db
  PROVE  Listed(f, p) = At(f, p).listed
<1>1. At(f, p) \notin {None, Empty} /\ f[p] = At(f, p)
  BY Distinct, Kinds DEF At
<1> QED
  BY <1>1 DEF Listed

LEMMA RevokeTold ==
  ASSUME FreshInv, NEW a, RunRevoke(a)
  PROVE  Told("revoke", a) /\ KeysAreNew(files', fresh')
<1> DEFINE cert == Load(files, a["--cert"], Certificate)
           db == DbPath(a)
           n == Serial(cert)
<1>1. CASE Refuse(1)
  BY <1>1, RefusedTold DEF Refuse, FreshInv
<1>2. ASSUME Complete("revoke", a), cert # Torn, NEW read \in LoadDb(db), read.listed # Torn,
             UNCHANGED fresh, Record(db, n, read)
      PROVE  Told("revoke", a) /\ KeysAreNew(files', fresh')
  <2> DEFINE c == read.command
             old == read.listed
             new == [listed |-> old \cup {n}]
  <2>1. failed \in Nat /\ KeysAreNew(files, fresh)
    BY DEF FreshInv, CLInv
  <2>2. cert = files[a["--cert"]] /\ n \in Nat
    BY <1>2, Kinds, Loaded, SerialType
  <2>3. /\ c.files = files /\ c.code = 0 /\ Standing(c) /\ c.faults \in {failed, failed + 1}
        /\ c.faults = failed => old = Listed(files, db)
        /\ old \in SUBSET Nat
    BY <1>2, <2>1, LoadDbIs
  <2>4. new \in Db /\ new.listed = old \cup {n}
    BY <2>2, <2>3, DbSound
  <2>5. NotNew(new, fresh)
    <3>1. "private" \notin DOMAIN new
      OBVIOUS
    <3> HIDE DEF new
    <3> QED
      BY <3>1, NoKey
  <2> HIDE DEF cert, c, old, new, n, db
  <2>6. PICK o \in IF n \in old THEN {c} ELSE SaveDb(c, db, new) :
             Ends(o, {}, IF o.code = 0 /\ o.unseen = {} THEN {<<db, n>>} ELSE {})
    BY <1>2 DEF Record, c, old, new
  <2>7. files' = o.files /\ failed' = o.faults /\ exit' = o.code
    BY <2>6 DEF Ends
  <2>8. CASE n \in old
    <3>1. o = c /\ files' = files /\ exit' = 0
      BY <2>3, <2>6, <2>7, <2>8
    <3>2. ASSUME failed' = failed PROVE Done("revoke", a)
      <4>1. old = Listed(files, db)
        BY <2>3, <2>7, <3>1, <3>2
      <4>2. Listed(files', db) = Listed(files, db) \cup {n}
        BY <2>8, <3>1, <4>1
      <4> QED
        BY <2>2, <4>2 DEF Done, db, n
    <3> QED
      BY <1>2, <2>1, <3>1, <3>2 DEF Told
  <2>9. CASE n \notin old
    <3>1. o \in SaveDb(c, db, new)
      BY <2>6, <2>9
    <3>2. /\ Called(c, o, db)
          /\ o.code # 0 => o.files = c.files
          /\ o.faults = c.faults /\ o.code = 0 => o.files = Written(c.files, db, new)
      BY <2>3, <3>1, SaveDbIs
    <3>3. KeysAreNew(files', fresh')
      BY <1>2, <2>1, <2>3, <2>5, <2>7, <3>1, SaveDbKeys
    <3>4. ASSUME failed' = failed, exit' = 0 PROVE Done("revoke", a)
      <4>1. o.faults \in {c.faults, c.faults + 1}
        BY <3>2 DEF Called
      <4>2. o.faults = c.faults /\ c.faults = failed
        BY <2>1, <2>3, <2>7, <3>4, <4>1
      <4>3. At(files', db) = new
        BY <2>7, <3>2, <3>4, <4>2, WrittenAt
      <4>4. Listed(files', db) = Listed(files, db) \cup {n}
        BY <2>3, <2>4, <4>2, <4>3, ListedDb
      <4> QED
        BY <2>2, <4>4 DEF Done, db, n
    <3>5. exit' # 0 => files' = files
      BY <2>3, <2>7, <3>2
    <3> QED
      BY <1>2, <3>3, <3>4, <3>5 DEF Told
  <2> QED
    BY <2>8, <2>9
<1> QED
  BY <1>1, <1>2 DEF RunRevoke

LEMMA CrlIssueTold ==
  ASSUME FreshInv, NEW a, RunCrlIssue(a)
  PROVE  Told("crl-issue", a) /\ KeysAreNew(files', fresh')
<1> DEFINE ca == CaOf(a)
           db == DbPath(a)
           out == a["--out"]
<1>1. CASE Refuse(1)
  BY <1>1, RefusedTold DEF Refuse, FreshInv
<1>2. ASSUME Complete("crl-issue", a), ca # Torn, NEW read \in LoadDb(db), read.listed # Torn,
             UNCHANGED fresh, Publish(a, ca, read)
      PROVE  Told("crl-issue", a) /\ KeysAreNew(files', fresh')
  <2> DEFINE c == read.command
             listed == read.listed
             crl == [revoked |-> listed, issuer |-> ca.subject, signer |-> ca.key,
                     from |-> 0, until |-> 0]
             new == [listed |-> listed]
             withCrl == Written(files, out, crl)
  <2>1. failed \in Nat /\ KeysAreNew(files, fresh)
    BY DEF FreshInv, CLInv
  <2>2. ca = files[a["--ca-cert"]]
    <3>1. ca = Load(files, a["--ca-cert"], Anchor!CaCert)
      BY <1>2 DEF CaOf
    <3> QED
      BY <1>2, <3>1, Kinds, Loaded
  <2>3. /\ c.files = files /\ c.code = 0 /\ Standing(c) /\ c.faults \in {failed, failed + 1}
        /\ c.faults = failed => listed = Listed(files, db)
        /\ listed \in SUBSET Nat
    BY <1>2, <2>1, LoadDbIs
  <2>4. new \in Db
    BY <2>3, DbSound
  <2>5. NotNew(new, fresh) /\ NotNew(crl, fresh)
    <3>1. "private" \notin DOMAIN new /\ "private" \notin DOMAIN crl
      OBVIOUS
    <3> HIDE DEF new, crl
    <3> QED
      BY <3>1, NoKey
  <2>6. /\ new.listed = listed /\ crl.revoked = listed
        /\ crl.issuer = ca.subject /\ crl.signer = ca.key
    OBVIOUS
  <2> HIDE DEF ca, db, out, c, listed, new, crl
  <2>7. PICK w \in WriteFile(c, out, crl) : \E o \in SaveDb(w, db, new) : Ends(o, {out}, {})
    BY <1>2 DEF Publish, db, out, c, listed, crl, new
  <2>8. /\ Called(c, w, out) /\ KeysAreNew(w.files, fresh)
        /\ w.faults = c.faults => w.code = 0 /\ w.files = withCrl
    BY <2>1, <2>3, <2>5, WriteFileIs, WriteFileKeys
  <2>9. Standing(w) /\ w.faults \in {c.faults, c.faults + 1}
    BY <2>8 DEF Called
  <2>10. PICK o \in SaveDb(w, db, new) : Ends(o, {out}, {})
    BY <2>7
  <2>11. /\ Called(w, o, db) /\ KeysAreNew(o.files, fresh)
         /\ o.faults = w.faults /\ o.code = 0 => o.files = Written(w.files, db, new)
         /\ o.faults = w.faults /\ o.code # 0 => w.code # 0 \/ ~Writable(db)
    BY <2>5, <2>8, <2>9, SaveDbIs, SaveDbKeys
  <2>12. files' = o.files /\ failed' = o.faults /\ exit' = o.code
    BY <2>10 DEF Ends
  <2>13. KeysAreNew(files', fresh')
    BY <1>2, <2>11, <2>12
  <2>14. ASSUME failed' = failed
         PROVE  /\ o.faults = w.faults /\ w.code = 0 /\ w.files = withCrl
                /\ listed = Listed(files, db)
    <3>1. o.faults \in {w.faults, w.faults + 1}
      BY <2>11 DEF Called
    <3>2. o.faults = w.faults /\ w.faults = c.faults /\ c.faults = failed
      BY <2>1, <2>3, <2>9, <2>12, <2>14, <3>1
    <3> QED
      BY <2>3, <2>8, <3>2
  <2>15. ASSUME failed' = failed, exit' = 0 PROVE Done("crl-issue", a)
    <3>1. files' = Written(withCrl, db, new)
      BY <2>11, <2>12, <2>14, <2>15
    <3>2. Listed(files', db) = Listed(files, db)
      <4>1. At(files', db) = new
        BY <3>1, WrittenAt
      <4> QED
        BY <2>4, <2>6, <2>14, <2>15, <4>1, ListedDb
    <3>3. ASSUME out # db PROVE files'[out] = crl
      BY <3>1, <3>3 DEF Written
    <3>4. crl.revoked = Listed(files, db)
      BY <2>6, <2>14, <2>15
    <3> QED
      BY <2>2, <2>6, <3>2, <3>3, <3>4 DEF Done, Anchor!IssuedBy, db, out
  <2>16. ASSUME failed' = failed, exit' # 0 PROVE ~Writable(db)
    BY <2>11, <2>12, <2>14, <2>16
  <2> QED
    BY <1>2, <2>13, <2>15, <2>16 DEF Told, db
<1> QED
  BY <1>1, <1>2 DEF RunCrlIssue

\* Who is accepted has an endorsement of this machine that chains and is not listed.
LEMMA Accepted ==
  ASSUME NEW a, VerifyCode(files, a) = 0
  PROVE  Complete("verify", a) /\ Done("verify", a)
<1> DEFINE e == OrgCert(files, a)
           ca == OrgCa(files, a)
           crl == CrlOption(files, a)
<1>1. Understood(a) /\ Complete("verify", a)
  <2>1. Understood(a)
    BY VerifyCodeIs
  <2> QED
    BY <2>1 DEF Complete, Understood
<1>2. Code(files, a) = 0
  BY <1>1, VerifyCodeIs
<1>3. /\ Torn \notin {e, ca, crl} /\ Chip(files, a) # None
      /\ Anchor!ChainStatus(e, ca, crl) = "ok"
      /\ Anchor!BindingMatches(e, a["--tee-type"], Chip(files, a))
  <2>1. Anchor!VerifyExit(a["--tee-type"], Report(files, a), e, ca, crl) = 0
    BY <1>2 DEF Code
  <2>2. Anchor!ExtractChip(a["--tee-type"], Report(files, a)) = Chip(files, a)
    BY ReportChip
  <2> HIDE DEF e, ca, crl
  <2> QED
    BY <2>1, <2>2 DEF Anchor!VerifyExit, Anchor!ChainStatus
<1>4. e = files[a["--org-cert"]] /\ e \in Anchor!Endorsement /\ e.chip = Chip(files, a)
  BY <1>3, Kinds, Loaded DEF OrgCert, Anchor!BindingMatches
<1>5. files[a["--report"]] = [tee |-> a["--tee-type"], machine |-> e.chip]
  BY <1>3, <1>4, ChipType
<1>6. ca = files[a["--org-ca"]] /\ ca \in Anchor!CaCert /\ Anchor!IssuedBy(e, ca)
  <2> DEFINE l == Load(files, a["--org-ca"], Certificate)
  <2>1. e = ca \/ Anchor!IssuedBy(e, ca)
    <3> HIDE DEF e, ca, crl
    <3> QED
      BY <1>3 DEF Anchor!ChainStatus
  <2>2. CASE l \in Anchor!Endorsement
    <3>1. ca = [subject |-> None, key |-> None, from |-> 0, until |-> 0]
      BY <2>2 DEF OrgCa
    <3>2. ca \notin Anchor!Endorsement /\ ca.key = None
      BY <3>1 DEF Anchor!Endorsement
    <3>3. e.signer \in Nat
      BY <1>4 DEF Anchor!Endorsement
    <3> QED
      BY <1>4, <2>1, <3>2, <3>3, CommandLineAssumption DEF Anchor!IssuedBy
  <2>3. CASE l \notin Anchor!Endorsement
    <3>1. ca = l
      BY <2>3 DEF OrgCa
    <3>2. l = files[a["--org-ca"]] /\ l \in Anchor!CaCert
      BY <1>3, <2>3, <3>1, Kinds, Loaded DEF Certificate
    <3>3. e # ca
      BY <1>4, <2>3, <3>1
    <3> QED
      BY <2>1, <3>1, <3>2, <3>3
  <2> QED
    BY <2>2, <2>3
<1>7. ASSUME a["--crl"] # ""
      PROVE  /\ At(files, a["--crl"]) \in Anchor!SignedCrl
             /\ Anchor!IssuedBy(files[a["--crl"]], files[a["--org-ca"]])
             /\ Serial(e) \notin files[a["--crl"]].revoked
  <2>1. crl = Load(files, a["--crl"], Anchor!SignedCrl)
    BY <1>7 DEF CrlOption
  <2>2. /\ crl = files[a["--crl"]] /\ At(files, a["--crl"]) = crl
        /\ crl \in Anchor!SignedCrl /\ crl # None
    BY <1>3, <2>1, Kinds, Loaded, Distinct
  <2>3. Anchor!IssuedBy(crl, ca) /\ ~Anchor!Listed(e, crl)
    <3> HIDE DEF e, ca, crl
    <3> QED
      BY <1>3, <2>2 DEF Anchor!ChainStatus
  <2> QED
    BY <1>4, <1>6, <2>2, <2>3 DEF Anchor!Listed, Serial
<1> QED
  BY <1>1, <1>4, <1>5, <1>6, <1>7 DEF Done

LEMMA SampleKeys ==
  ASSUME FreshInv, NEW tee \in TeeTypes, NEW m \in Machine, NEW left, left \subseteq {Torn},
         NEW codes, Sample(tee, m, left, codes)
  PROVE  KeysAreNew(files', fresh')
<1> DEFINE quote == [tee |-> tee, machine |-> m]
<1>1. fresh' = fresh /\ KeysAreNew(files, fresh)
  BY DEF FreshInv, Sample
<1>2. NotNew(quote, fresh) /\ NotNew(Empty, fresh) /\ NotNew(Torn, fresh)
  <2>1. "private" \notin DOMAIN quote
    OBVIOUS
  <2>2. \A k \in Nat : [private |-> k] \in Content
    BY Kinds DEF PrivateKey
  <2> QED
    BY <2>1, <2>2, NoKey, Distinct DEF NotNew
<1>3. files' = files \/ \E d \in {quote, Empty, Torn} : files' = Written(files, QuotePath, d)
  BY DEF Sample
<1> HIDE DEF quote
<1>4. ASSUME NEW d \in {quote, Empty, Torn} PROVE NotNew(d, fresh)
  BY <1>2
<1> QED
  BY <1>1, <1>3, <1>4, WrittenKeys

LEMMA FreshInitInv == CLInit => FreshInv
<1>1. CLInit => KeysAreNew(files, fresh)
  <2>1. \A k \in Nat : 0 <= k /\ k < MaxFresh => k \in 0..(MaxFresh - 1)
    <3>1. MaxFresh \in Nat
      BY CommandLineAssumption
    <3> QED
      BY <3>1
  <2>2. \A p \in DOMAIN Given : \A k \in 0..(MaxFresh - 1) : Given[p] # [private |-> k]
    BY CommandLineAssumption
  <2> QED
    BY <2>1, <2>2 DEF CLInit, KeysAreNew
<1> QED
  BY <1>1, CLInitInv DEF FreshInv

\* The line read by a step, and what it tells.
LEMMA NextTold ==
  ASSUME FreshInv, CLNext
  PROVE  /\ KeysAreNew(files', fresh')
         /\ last'.sub \in Subcommand =>
               /\ last' \in DOMAIN Parsed
               /\ IF Parsed[last'].stop = "" THEN Told(last'.sub, Parsed[last'].args)
                  ELSE exit' = ParseExit(last'.sub, Parsed[last'].stop) /\ files' = files
<1>1. ASSUME NEW line \in Line, line.sub \in Subcommand PROVE line \in DOMAIN Parsed
  BY <1>1 DEF Parsed
<1>2. KeysAreNew(files, fresh)
  BY DEF FreshInv
<1>3. ASSUME NEW line \in Line, Usage(line) PROVE KeysAreNew(files', fresh') /\ last'.sub \notin Subcommand
  BY <1>2, <1>3 DEF Usage, Refuse
<1>4. ASSUME NEW line \in Line, Unread(line)
      PROVE  /\ KeysAreNew(files', fresh')
             /\ last' = line /\ line.sub \in Subcommand /\ Parsed[line].stop # ""
             /\ exit' = ParseExit(line.sub, Parsed[line].stop) /\ files' = files
  BY <1>2, <1>4 DEF Unread, Refuse
<1> DEFINE Run(line) ==
              /\ KeysAreNew(files', fresh')
              /\ last' = line /\ line.sub \in Subcommand /\ Parsed[line].stop = ""
              /\ Told(line.sub, Parsed[line].args)
<1>5. ASSUME NEW line \in Line, CaInit(line) PROVE Run(line)
  <2>1. line.sub = "ca-init" /\ Parsed[line].stop = "" /\ last' = line /\ line.sub \in Subcommand
    BY <1>5 DEF CaInit, Calls, Subcommand
  <2>2. Segments[Parsed[line].args["--subject"]] \in Seq(STRING)
    BY <1>1, <2>1, CommandLineAssumption
  <2> QED
    BY <1>5, <2>1, <2>2, CaInitTold DEF CaInit
<1>6. ASSUME NEW line \in Line, Provision(line) PROVE Run(line)
  <2>1. line.sub = "provision" /\ Parsed[line].stop = "" /\ last' = line /\ line.sub \in Subcommand
    BY <1>6 DEF Provision, Calls, Subcommand
  <2> QED
    BY <1>6, <2>1, ProvisionTold DEF Provision
<1>7. ASSUME NEW line \in Line, Revoke(line) PROVE Run(line)
  <2>1. line.sub = "revoke" /\ Parsed[line].stop = "" /\ last' = line /\ line.sub \in Subcommand
    BY <1>7 DEF Revoke, Calls, Subcommand
  <2> QED
    BY <1>7, <2>1, RevokeTold DEF Revoke
<1>8. ASSUME NEW line \in Line, CrlIssue(line) PROVE Run(line)
  <2>1. line.sub = "crl-issue" /\ Parsed[line].stop = "" /\ last' = line /\ line.sub \in Subcommand
    BY <1>8 DEF CrlIssue, Calls, Subcommand
  <2> QED
    BY <1>8, <2>1, CrlIssueTold DEF CrlIssue
<1>9. ASSUME NEW line \in Line, Verify(line) PROVE Run(line)
  <2> DEFINE a == Parsed[line].args
  <2>1. line.sub = "verify" /\ Parsed[line].stop = "" /\ last' = line /\ line.sub \in Subcommand
    BY <1>9 DEF Verify, Calls, Subcommand
  <2>2. exit' = VerifyCode(files, a) /\ files' = files /\ fresh' = fresh
    BY <1>9 DEF Verify, Refuse
  <2> HIDE DEF a
  <2>3. Told("verify", a)
    BY <2>2, Accepted DEF Told, Done
  <2> QED
    BY <1>2, <2>1, <2>2, <2>3 DEF a
<1>10. ASSUME (\E m \in SgxMachine : SgxSample(m)) \/ (\E m \in TdxMachine : TdxSample(m))
       PROVE  KeysAreNew(files', fresh') /\ last'.sub \notin Subcommand
  <2>1. last' = NoLine
    BY <1>10 DEF SgxSample, TdxSample, Sample
  <2>2. KeysAreNew(files', fresh')
    BY <1>10, SampleKeys, CommandLineAssumption DEF SgxSample, TdxSample, TeeTypes
  <2> QED
    BY <2>1, <2>2 DEF NoLine, Subcommand
<1>11. ASSUME NEW line \in Line, Run(line)
       PROVE  /\ KeysAreNew(files', fresh') /\ last' \in DOMAIN Parsed
              /\ Parsed[last'].stop = "" /\ Told(last'.sub, Parsed[last'].args)
  BY <1>1, <1>11
<1> HIDE DEF Run
<1>12. CASE \E line \in Line : CaInit(line) \/ Provision(line) \/ Revoke(line)
                               \/ CrlIssue(line) \/ Verify(line)
  BY <1>5, <1>6, <1>7, <1>8, <1>9, <1>11, <1>12
<1> QED
  BY <1>1, <1>3, <1>4, <1>10, <1>12 DEF CLNext

LEMMA FreshNextInv == FreshInv /\ [CLNext]_clvars => FreshInv'
<1>1. ASSUME FreshInv, UNCHANGED clvars PROVE KeysAreNew(files', fresh')
  BY <1>1 DEF FreshInv, clvars
<1>2. ASSUME FreshInv, CLNext PROVE KeysAreNew(files', fresh')
  BY <1>2, NextTold
<1> QED
  BY <1>1, <1>2, CLNextInv DEF FreshInv

LEMMA FreshInvariance == CLSpec => []FreshInv
BY FreshInitInv, FreshNextInv, PTL DEF CLSpec

\* Whatever is typed, the exit code of a command that no fault has hit tells what was done with
\* its options as the cli_* functions have read them, even on files that earlier faults have
\* cut; and a revoke that fails has changed nothing, fault or not.
THEOREM OptionsAreDone ==
  CLSpec => [][last'.sub \in Subcommand /\ Parsed[last'].stop = "" =>
                  Told(last'.sub, Parsed[last'].args)]_clvars
<1>1. FreshInv /\ [CLNext]_clvars =>
         [last'.sub \in Subcommand /\ Parsed[last'].stop = "" =>
             Told(last'.sub, Parsed[last'].args)]_clvars
  BY NextTold
<1> QED
  BY <1>1, FreshInvariance, PTL DEF CLSpec

LEMMA OnlyHelpEndsWell ==
  ASSUME NEW sub, NEW stop, ParseExit(sub, stop) = 0
  PROVE  stop = "help"
BY DEF ParseExit

\* If lines are read as they were meant, the exit code of each that no fault has hit tells what
\* it has done: 0 that all was done that was said, any other that no file has changed, unless
\* crl-issue could not save its DB; and a revoke that fails has changed none, fault or not.
THEOREM ExitCodesTell ==
  ASSUME \A line \in DOMAIN Parsed : ReadAsMeant(line)
  PROVE  CLSpec => ExitTellsWhatHappened
<1> DEFINE B == LET sub == last'.sub
                    a == Wishes[last']
                IN  sub \in Subcommand =>
                       /\ failed' = failed /\ exit' # 0 /\ files' # files =>
                             sub = "crl-issue" /\ ~Writable(DbPath(Parsed[last'].args))
                       /\ failed' = failed /\ exit' = 0 =>
                             \/ AsksForHelp(last') \/ IsEmptyOnPurpose(last')
                             \/ last'.lost = 0 /\ last'.empty = 0 /\ Done(sub, a)
                       /\ sub = "revoke" /\ exit' # 0 => files' = files
<1>1. ASSUME FreshInv, CLNext PROVE B
  <2> SUFFICES ASSUME last'.sub \in Subcommand PROVE B
    OBVIOUS
  <2>1. /\ last' \in DOMAIN Parsed
        /\ IF Parsed[last'].stop = "" THEN Told(last'.sub, Parsed[last'].args)
           ELSE exit' = ParseExit(last'.sub, Parsed[last'].stop) /\ files' = files
    BY <1>1, NextTold
  <2>2. ReadAsMeant(last')
    BY <2>1
  <2>3. /\ failed' = failed /\ exit' # 0 /\ files' # files =>
              last'.sub = "crl-issue" /\ ~Writable(DbPath(Parsed[last'].args))
        /\ last'.sub = "revoke" /\ exit' # 0 => files' = files
    BY <2>1 DEF Told
  <2>4. CASE exit' = 0 /\ Parsed[last'].stop # ""
    <3>1. ParseExit(last'.sub, Parsed[last'].stop) = 0
      BY <2>1, <2>4
    <3>2. Parsed[last'].stop = "help"
      BY <3>1, OnlyHelpEndsWell
    <3> QED
      BY <2>2, <2>4, <3>2 DEF ReadAsMeant
  <2>5. CASE failed' = failed /\ exit' = 0 /\ Parsed[last'].stop = ""
    <3>1. Complete(last'.sub, Parsed[last'].args) /\ Done(last'.sub, Parsed[last'].args)
      BY <2>1, <2>5 DEF Told
    <3> QED
      BY <2>2, <2>5, <3>1 DEF ReadAsMeant
  <2> QED
    BY <2>3, <2>4, <2>5
<1> HIDE DEF B
<1>2. FreshInv /\ [CLNext]_clvars => [B]_clvars
  BY <1>1 DEF B, clvars, seen
<1> QED
  BY <1>2, FreshInvariance, PTL DEF CLSpec, ExitTellsWhatHappened, B
=============================================================================
