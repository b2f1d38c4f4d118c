------------------------------ MODULE CommandLine ------------------------------
(***************************************************************************)
(* Command lines, from the words that the shell passes to the exit code    *)
(* and the files left behind: main, the five cli_* functions, the checks   *)
(* of the run_* functions and the files that they load and write.          *)
(*                                                                         *)
(* A person says what a command is to do; the values come from variables   *)
(* of the shell, and one that is not set vanishes from the line, or leaves *)
(* an empty word if it was quoted.  A command is one step, which ends      *)
(* well, is refused, or is hit by a fault: a write that fails, before or   *)
(* after the command has last looked at the file, or a DB that cannot be   *)
(* read to its end.  The documents are those of TeeAnchor, whose           *)
(* VerifyExit decides for verify, and nothing expires.                     *)
(***************************************************************************)
EXTENDS Integers, SequencesExt, Files

CONSTANTS
    Line,         \* what may be said (see Lines)
    Directory,    \* directories there are
    Parent,       \* Parent[p]: the directory that path p names first, "." if none
    VendorCerts,  \* directories that hold the certificates for SNP reports
    Number,       \* Number[w]: what std::stoi reads in the word w; it throws for others
    MaxDays,      \* X509_gmtime_adj fails for more
    Segments,     \* Segments[w]: the word w between its commas; none in an empty word
    Rdn,          \* segments "key=value" with a key that OpenSSL knows and a value
    Machine,      \* attested machines
    SgxMachine, TdxMachine,  \* those that the sample programs run on
    Given,        \* the files there are at first, by path
    QuotePath,    \* where the sample programs write a quote
    Empty,        \* a file of length 0
    MaxFresh      \* bound: keys and serials made

VARIABLES
    files,   \* contents by path
    fresh,   \* the next key or serial number; both are random and never repeat
    failed,  \* faults so far, whether or not the command that was hit has seen its own
    \* Observed only.
    last,    \* the last command line
    exit,    \* its exit code
    revoked  \* pairs of DB path and serial for which revoke exited 0, until a command is told
             \* to write something else to that path, or one changes it after a fault that it
             \* has not seen

seen == <<last, exit, revoked>>
clvars == <<files, fresh, failed, seen>>

TeeTypes == {"sgx", "tdx", "snp", "cca"}

Anchor == INSTANCE TeeAnchor WITH
    Key <- Nat, Dn <- Seq(Rdn), TeeType <- TeeTypes, Masked <- {}, ZeroId <- None,
    Serial <- Nat, CaLife <- 1, EndorsementLife <- 1, CrlLife <- 1, MaxTime <- 0, MaxCrls <- 0,
    now <- 0, caKey <- None, caCrt <- None, revokedAt <- <<>>, anchors <- {},
    endorsements <- {}, crls <- {}, madeFor <- <<>>

-----------------------------------------------------------------------------
\* Words and options.

\* A line: the subcommand; option and value, or a flag, one after the other; which of these
\* lost its value and which has an empty one, 0 if none.
Lines == [sub : STRING, said : Seq(Seq(STRING)), lost : Nat, empty : Nat]

\* What the shell makes of it.
Words(line) ==
    FlattenSeq([i \in DOMAIN line.said |->
        IF i = line.lost THEN Front(line.said[i])
        ELSE IF i = line.empty THEN <<line.said[i][1], "">>
        ELSE line.said[i]])

Blank(options) == [o \in options |-> ""]

Subcommand == {"ca-init", "provision", "revoke", "crl-issue", "verify"}

\* The defaults; "--force" is a flag, empty until it is given.
Defaults == [sub \in Subcommand |->
    CASE sub = "ca-init" ->
            "--subject" :> "CN=TEE Anchor Org CA" @@ "--validity-days" :> "3650"
            @@ "--curve" :> "P-384" @@ Blank({"--out-dir", "--force"})
      [] sub = "provision" ->
            "--validity-days" :> "365" @@ "--tee-type" :> "sgx"
            @@ Blank({"--report", "--certs", "--ca-key", "--ca-cert", "--out", "--subject"})
      [] sub = "revoke" -> Blank({"--ca-cert", "--cert", "--reason", "--db"})
      [] sub = "crl-issue" ->
            "--validity-days" :> "7" @@ Blank({"--ca-key", "--ca-cert", "--out", "--db"})
      [] sub = "verify" ->
            "--tee-type" :> "sgx"
            @@ Blank({"--report", "--certs", "--org-cert", "--org-ca", "--crl"})]

\* The names that sig_md_for_curve and EVP_EC_gen both know.
Curve == {"P-256", "prime256v1", "P-384", "secp384r1", "P-521", "secp521r1"}
Reason == {"unspecified", "keyCompromise", "cACompromise", "affiliationChanged", "superseded",
           "cessationOfOperation", "certificateHold", "privilegeWithdrawn", "aACompromise"}
Help == {"-h", "--help"}

\* One word of argv.  After an option it is the value, whatever it looks like (need_value).
Read(state, w) ==
    LET o == state.opt IN
    IF state.stop # "" THEN state
    ELSE IF o = "--validity-days" /\ w \notin DOMAIN Number THEN [state EXCEPT !.stop = "number"]
    ELSE IF o # "" THEN [state EXCEPT !.args[o] = w, !.opt = ""]
    ELSE IF w \in Help THEN [state EXCEPT !.stop = "help"]
    ELSE IF w \notin DOMAIN state.args THEN [state EXCEPT !.stop = "bad"]
    ELSE IF w = "--force" THEN [state EXCEPT !.args[w] = "given"]
    ELSE [state EXCEPT !.opt = w]

\* The loop of the cli_* functions: the options' values, and what stopped it, "" if nothing.
Parse(line) ==
    LET end == FoldLeft(Read, [args |-> Defaults[line.sub], opt |-> "", stop |-> ""], Words(line))
    IN  IF end.stop = "" /\ end.opt # "" THEN [end EXCEPT !.stop = "bad"] ELSE end

Parsed == [line \in {l \in Line : l.sub \in Subcommand} |-> Parse(line)]

\* A TeeAnchorError gives 1, any other exception 2; verify has 30 for all.
ParseExit(sub, stop) ==
    IF stop = "help" THEN 0
    ELSE IF sub = "verify" THEN 30
    ELSE IF stop = "number" THEN 2
    ELSE 1

\* parse_dn splits at commas; one comma at the end is ignored.
ParseDn(w) ==
    LET s == Segments[w]
        t == IF s # <<>> /\ Last(s) = "" THEN Front(s) ELSE s
    IN  IF \A i \in DOMAIN t : t[i] \in Rdn THEN t ELSE Torn

-----------------------------------------------------------------------------
\* Files.

PrivateKey == [private : Nat]
Certificate == Anchor!CaCert \cup Anchor!Endorsement
Db == [listed : SUBSET Nat]
Content == PrivateKey \cup Certificate \cup Anchor!SignedCrl \cup Db \cup Anchor!Evidence
Document == Content \cup {Empty, Torn}

\* Nothing in the files given has expired, no key in them will be made again, and Segments
\* knows the subjects that lines give.
ASSUME CommandLineAssumption ==
    /\ Content \cap {None, Empty, Torn} = {} /\ None # Torn /\ None \notin Machine \cup Nat
    /\ MaxFresh \in Nat
    /\ Machine # {} /\ SgxMachine \cup TdxMachine \subseteq Machine
    /\ VendorCerts # {} /\ "" \notin VendorCerts
    /\ \A p \in DOMAIN Given :
          /\ Given[p] \in Document
          /\ Given[p] \in Certificate \cup Anchor!SignedCrl => Given[p].from = 0
          /\ \A n \in 0..(MaxFresh - 1) : Given[p] # [private |-> n]
    /\ \A d \in Directory : d \o "/ca.key" # d \o "/ca.crt"
    /\ \A line \in DOMAIN Parsed :
          line.sub \in {"ca-init", "provision"} /\ Parsed[line].stop = "" =>
              Segments[Parsed[line].args["--subject"]] \in Seq(STRING)

At(f, p) == IF p \in DOMAIN f THEN f[p] ELSE None

\* The loaders take a file f[p] only for what it is; Torn stands for their exceptions.
Load(f, p, kind) == IF At(f, p) \in kind THEN f[p] ELSE Torn

\* Mutant of Listed: a line that is not understood is taken as it is.
ListedLeniently(f, p) ==
    IF At(f, p) \in {None, Empty} THEN {}
    ELSE IF f[p] \in Db THEN f[p].listed
    ELSE {f[p]}

\* load_revocation_db: no file and an empty one are a DB without entries.
Listed(f, p) ==
    IF At(f, p) \in {None, Empty} THEN {}
    ELSE IF f[p] \in Db THEN f[p].listed
    ELSE Torn

DbPath(a) == IF a["--db"] # "" THEN a["--db"] ELSE Parent[a["--ca-cert"]] \o "/revocations.txt"

Serial(cert) == IF cert \in Anchor!Endorsement THEN cert.serial ELSE cert.key

Subject(cert) == IF cert \in Anchor!CaCert THEN cert.subject ELSE None

IssuerName(cert) == IF cert \in Anchor!CaCert THEN cert.subject ELSE cert.issuer

\* A path that open can create or truncate.
Writable(p) == Parent[p] \in Directory /\ p \notin Directory

Written(f, p, doc) == [q \in {p} \cup DOMAIN f |-> IF q = p THEN doc ELSE f[q]]

-----------------------------------------------------------------------------
\* Calls that may fail.

\* How a command stands after some of its calls: the files, the faults so far, its exit code
\* if a call has thrown and 0 if none has, and the paths at which it has not seen a fault.
Outcome(f, n, code, unseen) == [files |-> f, faults |-> n, code |-> code, unseen |-> unseen]

\* It has called nothing yet.
Ongoing == Outcome(files, failed, 0, {})

\* What a call may come to without a fault, or with one more.
Either(o, sound, faulty) == sound \cup (IF o.faults < MaxFaults THEN faulty ELSE {})

\* write_file throws when open, write or chmod fails, whatever is in the file by then.  close
\* writes the rest of the buffer, and nothing looks whether it could.
WriteFile(o, p, doc) ==
    IF o.code # 0 THEN {o}
    ELSE Either(o,
            {Outcome(Written(o.files, p, doc), o.faults, 0, o.unseen)},
            {Outcome(f, o.faults + 1, 1, o.unseen) :
                f \in {o.files} \cup {Written(o.files, p, d) : d \in {Empty, Torn, doc}}}
            \cup {Outcome(Written(o.files, p, d), o.faults + 1, 0, o.unseen \cup {p}) :
                     d \in {Empty, Torn}})

\* What is left of DB d when the end of its text is lost; RevocationStore has the lines.
CutDb(d) == {Empty, Torn} \cup [listed : SUBSET d.listed]

\* Mutant of SaveDb: the DB is written in place.
SaveDbInPlace(o, p, new) == WriteFile(o, p, new)

\* save_revocation_db.  When it throws, the DB is as it was.  The stream is looked at before
\* its destructor writes the rest of the buffer; then the file is renamed to p.
SaveDb(o, p, new) ==
    IF o.code # 0 THEN {o}
    ELSE IF ~Writable(p) THEN {Outcome(o.files, o.faults, 1, o.unseen)}
    ELSE Either(o,
            {Outcome(Written(o.files, p, new), o.faults, 0, o.unseen)},
            {Outcome(o.files, o.faults + 1, 1, o.unseen)}
            \cup {Outcome(Written(o.files, p, d), o.faults + 1, 0, o.unseen \cup {p}) :
                     d \in CutDb(new)})

\* What load_revocation_db may make of the DB at p, and how the command then stands.  A fault
\* makes it take the lines that it could read for the whole file: none if a file that is there
\* cannot be opened.
LoadDb(p) ==
    LET readable == IF At(files, p) \in Db THEN files[p].listed ELSE {}
    IN  Either(Ongoing,
            {[listed |-> Listed(files, p), command |-> Ongoing]},
            {[listed |-> l, command |-> Outcome(files, failed + 1, 0, {p})] : l \in SUBSET readable})

-----------------------------------------------------------------------------
\* What the commands do with their options a.

Refuse(code) ==
    /\ exit' = code
    /\ UNCHANGED <<files, fresh, failed, revoked>>

Unaimed(paths) == {r \in revoked : r[1] \notin paths}

\* The paths whose files were changed after a fault that was not seen.
Harmed(o) == {p \in o.unseen : At(o.files, p) # At(files, p)}

\* The command, told to write to these paths, ends as o says and has reported these pairs.
Ends(o, paths, reported) ==
    /\ files' = o.files /\ failed' = o.faults /\ exit' = o.code
    /\ revoked' = Unaimed(paths \cup Harmed(o)) \cup reported

Days(a) == Number[a["--validity-days"]] \in 1..MaxDays

All(a, options) == \A o \in options : a[o] # ""

\* The certificate at --ca-cert if the key at --ca-key is its own.
CaOf(a) ==
    LET c == Load(files, a["--ca-cert"], Anchor!CaCert)
    IN  IF c # Torn /\ At(files, a["--ca-key"]) = [private |-> c.key] THEN c ELSE Torn

\* The chip id in f's report under --tee-type; SNP needs the vendor's certificates.
Chip(f, a) ==
    IF a["--tee-type"] = "snp" /\ a["--certs"] \notin VendorCerts THEN None
    ELSE Anchor!ExtractChip(a["--tee-type"], Load(f, a["--report"], Anchor!Evidence))

TeeGiven(a) ==
    /\ a["--tee-type"] \in TeeTypes
    /\ All(a, {"--report"} \cup (IF a["--tee-type"] = "snp" THEN {"--certs"} ELSE {}))

\* What they ask of the options and of directories, whatever the files hold.
Complete(sub, a) ==
    CASE sub = "ca-init" ->
            /\ All(a, {"--out-dir"}) /\ Days(a)
            /\ a["--curve"] \in Curve /\ ParseDn(a["--subject"]) # Torn
            /\ a["--out-dir"] \in Directory
      [] sub = "provision" -> TeeGiven(a) /\ All(a, {"--ca-key", "--ca-cert", "--out"}) /\ Days(a)
      [] sub = "revoke" -> All(a, {"--ca-cert", "--cert"}) /\ a["--reason"] \in Reason \cup {""}
      [] sub = "crl-issue" -> All(a, {"--ca-key", "--ca-cert", "--out"}) /\ Days(a)
      [] sub = "verify" -> TeeGiven(a) /\ All(a, {"--org-cert", "--org-ca"})

KeyPath(a) == a["--out-dir"] \o "/ca.key"
CrtPath(a) == a["--out-dir"] \o "/ca.crt"

RunCaInit(a) ==
    LET cert == [subject |-> ParseDn(a["--subject"]), key |-> fresh, from |-> 0, until |-> 0]
    IN  IF /\ Complete("ca-init", a)
           /\ a["--force"] # "" \/ {KeyPath(a), CrtPath(a)} \cap DOMAIN files = {}
        THEN /\ fresh < MaxFresh /\ fresh' = fresh + 1
             /\ \E k \in WriteFile(Ongoing, KeyPath(a), [private |-> fresh]) :
                \E o \in WriteFile(k, CrtPath(a), cert) : Ends(o, {KeyPath(a), CrtPath(a)}, {})
        ELSE Refuse(1)

RunProvision(a) ==
    LET c == CaOf(a)
        chip == Chip(files, a)
        e == [serial |-> fresh, issuer |-> c.subject, signer |-> c.key, tee |-> a["--tee-type"],
              chip |-> chip, from |-> 0, until |-> 0]
    IN  IF /\ Complete("provision", a)
           /\ c # Torn /\ chip # None
           /\ a["--subject"] # "" => ParseDn(a["--subject"]) # Torn
           /\ Writable(a["--out"])
        THEN /\ fresh < MaxFresh /\ fresh' = fresh + 1
             /\ \E o \in WriteFile(Ongoing, a["--out"], e) : Ends(o, {a["--out"]}, {})
        ELSE Refuse(1)

\* The DB at db, of which read was read, is to list n.
Record(db, n, read) ==
    \E o \in IF n \in read.listed THEN {read.command}
             ELSE SaveDb(read.command, db, [listed |-> read.listed \cup {n}]) :
        Ends(o, {}, IF o.code = 0 /\ o.unseen = {} THEN {<<db, n>>} ELSE {})

\* Only names are compared, so that a CA certificate may be listed too.
RunRevoke(a) ==
    LET ca == Load(files, a["--ca-cert"], Certificate)
        cert == Load(files, a["--cert"], Certificate)
    IN  IF /\ Complete("revoke", a)
           /\ ca # Torn /\ cert # Torn /\ Subject(ca) = IssuerName(cert)
        THEN \E read \in LoadDb(DbPath(a)) :
                IF read.listed = Torn THEN Refuse(1)
                ELSE UNCHANGED fresh /\ Record(DbPath(a), Serial(cert), read)
        ELSE Refuse(1)

\* The CRL is written first.  A DB that cannot be saved, because its directory is missing,
\* was read as an empty one, and the CRL is out.
Publish(a, c, read) ==
    LET crl == [revoked |-> read.listed, issuer |-> c.subject, signer |-> c.key,
                from |-> 0, until |-> 0]
    IN  \E w \in WriteFile(read.command, a["--out"], crl) :
        \E o \in SaveDb(w, DbPath(a), [listed |-> read.listed]) : Ends(o, {a["--out"]}, {})

RunCrlIssue(a) ==
    LET c == CaOf(a)
    IN  IF Complete("crl-issue", a) /\ c # Torn /\ Writable(a["--out"])
        THEN \E read \in LoadDb(DbPath(a)) :
                IF read.listed = Torn THEN Refuse(1)
                ELSE UNCHANGED fresh /\ Publish(a, c, read)
        ELSE Refuse(1)

\* The trust anchor at --org-ca.  An endorsement there is not self-signed and ends no chain.
OrgCa(f, a) ==
    LET c == Load(f, a["--org-ca"], Certificate)
    IN  IF c \in Anchor!Endorsement THEN [subject |-> None, key |-> None, from |-> 0, until |-> 0]
        ELSE c

\* Mutants of VerifyCode: a CRL that does not load is left out; a report that is refused ends
\* verify like a certificate that does not load.
VerifyCodeWithoutCrl(f, a) ==
    LET ev == IF Chip(f, a) = None THEN Torn ELSE f[a["--report"]]
        e == Load(f, a["--org-cert"], Certificate)
        crl == IF At(f, a["--crl"]) \in Anchor!SignedCrl THEN f[a["--crl"]] ELSE None
        code == Anchor!VerifyExit(a["--tee-type"], ev, e, OrgCa(f, a), crl)
    IN  IF ~Complete("verify", a) THEN 30
        ELSE IF code = 22 /\ crl # None /\ Serial(e) \in crl.revoked THEN 24
        ELSE code

VerifyCodeReadsFirst(f, a) ==
    LET ev == IF Chip(f, a) = None THEN Torn ELSE f[a["--report"]]
        e == Load(f, a["--org-cert"], Certificate)
        crl == IF a["--crl"] = "" THEN None ELSE Load(f, a["--crl"], Anchor!SignedCrl)
        code == Anchor!VerifyExit(a["--tee-type"], ev, e, OrgCa(f, a), crl)
    IN  IF ~Complete("verify", a) \/ ev = Torn THEN 30
        ELSE IF code = 22 /\ crl # None /\ Serial(e) \in crl.revoked THEN 24
        ELSE code

\* run_verify on files f: TeeAnchor's VerifyExit, but that a CA certificate may be listed, too.
VerifyCode(f, a) ==
    LET ev == IF Chip(f, a) = None THEN Torn ELSE f[a["--report"]]
        e == Load(f, a["--org-cert"], Certificate)
        crl == IF a["--crl"] = "" THEN None ELSE Load(f, a["--crl"], Anchor!SignedCrl)
        code == Anchor!VerifyExit(a["--tee-type"], ev, e, OrgCa(f, a), crl)
    IN  IF ~Complete("verify", a) THEN 30
        ELSE IF code = 22 /\ crl # None /\ Serial(e) \in crl.revoked THEN 24
        ELSE code

-----------------------------------------------------------------------------
NoLine == [sub |-> "", said |-> <<>>, lost |-> 0, empty |-> 0]

CLInit ==
    /\ files = Given
    /\ fresh = 0 /\ failed = 0
    /\ last = NoLine /\ exit = 0
    /\ revoked = {}

\* main: no subcommand, help, or an unknown one.
Usage(line) ==
    /\ line.sub \notin Subcommand
    /\ last' = line
    /\ Refuse(IF line.sub \in Help \cup {"help"} THEN 0 ELSE 1)

\* Reading the line ends early: help, or words that are not understood.
Unread(line) ==
    /\ line.sub \in Subcommand
    /\ Parsed[line].stop # ""
    /\ last' = line
    /\ Refuse(ParseExit(line.sub, Parsed[line].stop))

Calls(line, sub) == line.sub = sub /\ Parsed[line].stop = "" /\ last' = line

CaInit(line) == Calls(line, "ca-init") /\ RunCaInit(Parsed[line].args)
Provision(line) == Calls(line, "provision") /\ RunProvision(Parsed[line].args)
Revoke(line) == Calls(line, "revoke") /\ RunRevoke(Parsed[line].args)
CrlIssue(line) == Calls(line, "crl-issue") /\ RunCrlIssue(Parsed[line].args)
Verify(line) == Calls(line, "verify") /\ Refuse(VerifyCode(files, Parsed[line].args))

\* The sample programs.  Whatever fails before the file is open ends them with 1.  sample_app
\* looks at no write, and a quote without a PCK chain draws a warning only; get_quote sees
\* what fwrite cannot write, but not what fclose cannot.
Sample(tee, m, left, codes) ==
    /\ last' = NoLine
    /\ revoked' = Unaimed({QuotePath})
    /\ \/ exit' = 1 /\ UNCHANGED <<files, failed>>
       \/ /\ exit' = 0 /\ UNCHANGED failed
          /\ files' \in {Written(files, QuotePath, d) :
                          d \in {[tee |-> tee, machine |-> m]} \cup left}
       \/ /\ failed < MaxFaults /\ failed' = failed + 1
          /\ exit' \in codes
          /\ files' \in {Written(files, QuotePath, d) : d \in {Empty, Torn}}
    /\ UNCHANGED fresh

SgxSample(m) == Sample("sgx", m, {Torn}, {0})
TdxSample(m) == Sample("tdx", m, {}, {0, 1})

CLNext ==
    \/ \E line \in Line :
          Usage(line) \/ Unread(line) \/ CaInit(line) \/ Provision(line) \/ Revoke(line)
          \/ CrlIssue(line) \/ Verify(line)
    \/ \E m \in SgxMachine : SgxSample(m)
    \/ \E m \in TdxMachine : TdxSample(m)

CLSpec == CLInit /\ [][CLNext]_clvars

-----------------------------------------------------------------------------
\* Properties.

\* What the person meant: of an option said twice, the last value.
Meant(line) ==
    [o \in DOMAIN Defaults[line.sub] |->
        LET I == {i \in DOMAIN line.said : line.said[i][1] = o}
        IN  IF I = {} THEN Defaults[line.sub][o]
            ELSE IF o = "--force" THEN "given"
            ELSE line.said[CHOOSE i \in I : \A j \in I : j <= i][2]]

Wishes == [line \in DOMAIN Parsed |-> Meant(line)]

\* Options whose empty value has a meaning of its own: none, the default, made up from the
\* chip id, an empty name, not needed.
MayBeEmpty == {"--crl", "--reason", "--db", "--subject", "--certs"}

AsksForHelp(line) == \E i \in DOMAIN line.said : line.said[i][1] \in Help
IsEmptyOnPurpose(line) == line.empty # 0 /\ line.said[line.empty][1] \in MayBeEmpty

\* The line is read as it was said; or it is not understood, or not complete.
ReadAsMeant(line) ==
    LET read == Parsed[line] IN
    \/ read.stop \notin {"", "help"}
    \/ read.stop = "" /\ ~Complete(line.sub, read.args)
    \/ read.stop = "" /\ line.lost = 0 /\ line.empty = 0 /\ read.args = Wishes[line]
    \/ AsksForHelp(line) \/ IsEmptyOnPurpose(line)

\* The step has done what options a ask of subcommand sub.
Done(sub, a) ==
    CASE sub = "ca-init" ->
            /\ a["--force"] = "" => {KeyPath(a), CrtPath(a)} \cap DOMAIN files = {}
            /\ At(files', CrtPath(a)) \in Anchor!CaCert
            /\ At(files', KeyPath(a)) = [private |-> files'[CrtPath(a)].key]
            /\ \A p \in DOMAIN files : files[p] # files'[KeyPath(a)]
      [] sub = "provision" ->
            /\ At(files', a["--out"]) \in Anchor!Endorsement
            /\ Anchor!IssuedBy(files'[a["--out"]], files[a["--ca-cert"]])
            /\ files[a["--report"]] = [tee |-> a["--tee-type"], machine |-> files'[a["--out"]].chip]
      [] sub = "revoke" ->
            Listed(files', DbPath(a)) = Listed(files, DbPath(a)) \cup {Serial(files[a["--cert"]])}
      [] sub = "crl-issue" ->
            /\ Listed(files', DbPath(a)) = Listed(files, DbPath(a))
            /\ a["--out"] # DbPath(a) =>
                  /\ files'[a["--out"]].revoked = Listed(files, DbPath(a))
                  /\ Anchor!IssuedBy(files'[a["--out"]], files[a["--ca-cert"]])
      [] sub = "verify" ->
            LET e == files[a["--org-cert"]] IN
            /\ files[a["--report"]] = [tee |-> a["--tee-type"], machine |-> e.chip]
            /\ Anchor!IssuedBy(e, files[a["--org-ca"]])
            /\ a["--crl"] # "" =>
                  /\ At(files, a["--crl"]) \in Anchor!SignedCrl
                  /\ Anchor!IssuedBy(files[a["--crl"]], files[a["--org-ca"]])
                  /\ Serial(e) \notin files[a["--crl"]].revoked

\* The type invariant.
CLTypeOK ==
    /\ \A p \in DOMAIN files : files[p] \in Document
    /\ fresh \in Nat /\ failed \in Nat
    /\ exit \in {0, 1, 2, 20, 21, 22, 24, 30}
    /\ \A r \in revoked : r[2] \in Nat

\* If no fault hits a command, exit code 0 means that what was said was done, unless help was
\* asked for: an option that lost its value is never read as another command, an empty value
\* passes only where empty has a meaning, and a file that an earlier fault has cut is not
\* taken for a whole one.  Any other code means that no file has changed; the one exception is
\* a crl-issue whose DB cannot be saved (run_crl_issue).  A revoke that exits with another
\* code has changed no file even if a fault hit it (save_revocation_db).  After a fault exit
\* code 0 tells nothing: see store_diskfull, store_unreadable and write_file's close.
ExitTellsWhatHappened ==
    [][LET sub == last'.sub
           a == Wishes[last']
       IN  sub \in Subcommand =>
              /\ failed' = failed /\ exit' # 0 /\ files' # files =>
                    sub = "crl-issue" /\ ~Writable(DbPath(Parsed[last'].args))
              /\ failed' = failed /\ exit' = 0 =>
                    \/ AsksForHelp(last') \/ IsEmptyOnPurpose(last')
                    \/ last'.lost = 0 /\ last'.empty = 0 /\ Done(sub, a)
              /\ sub = "revoke" /\ exit' # 0 => files' = files]_clvars

\* A revocation that revoke reported, and that no fault hit, stays in the DB that the options
\* named, or that lies beside --ca-cert, whatever commands follow, refused or ended by a write
\* that fails, until one is told to write to that path, or changes the DB after a fault that
\* it has not seen: it read too few lines, or lost the end of the new text before the rename
\* (load_revocation_db, save_revocation_db; store_unreadable, store_diskfull).
RevokedStaysListed ==
    \A r \in revoked : At(files, r[1]) \in Db /\ r[2] \in files[r[1]].listed

VerifyOptions == {"--tee-type", "--report", "--certs", "--org-cert", "--org-ca", "--crl"}

\* Options a of verify, but for the value v of option o.
Instead(a, o, v) == [x \in VerifyOptions |-> IF x = o THEN v ELSE a[x]]

\* Options a with good vendor certificates, if any are given.
Certified(a) == Instead(a, "--certs", IF a["--certs"] = "" THEN "" ELSE CHOOSE d \in VendorCerts : TRUE)

\* The code if machine m had made the report.
CodeForMachine(a, m) ==
    VerifyCode(Written(files, a["--report"], [tee |-> a["--tee-type"], machine |-> m]), Certified(a))

\* The report's path is not given for another file, too.
Apart(a) == \A o \in {"--org-cert", "--org-ca", "--crl"} : a[o] # a["--report"]

\* A report that can be read.
Readable(a) == a["--report"] \in DOMAIN files

\* The exit code of verify names the file that is at fault.  If the report can be read, then
\* after 20 another one would have changed the answer, and after 30 none would; after 24 the
\* CRL alone stood against an endorsement that chains; after 21 and 22 the evidence was good
\* (run_verify).
RefusalNamesTheCause ==
    [][last'.sub = "verify" /\ Parsed[last'].stop = "" =>
        LET a == Parsed[last'].args
        IN  /\ exit' = 20 /\ Apart(a) /\ Readable(a) => \E m \in Machine : CodeForMachine(a, m) \notin {20, 30}
            /\ exit' = 30 /\ Apart(a) /\ Readable(a) => \A m \in Machine : CodeForMachine(a, m) = 30
            /\ exit' = 24 => VerifyCode(files, Instead(a, "--crl", "")) \in {0, 22}
            /\ exit' \in {21, 22} => Chip(files, a) # None]_clvars
=============================================================================
