---------------------------- MODULE RevocationStore ----------------------------
(***************************************************************************)
(* The files behind revocation: the revocation DB (revocations.txt), the   *)
(* temporary file it is saved through, and the CRL file.  They are shared  *)
(* by the processes that run `tee-anchor revoke` and `tee-anchor crl-issue`*)
(* and nothing else is: there is no lock, no daemon and no recovery code.  *)
(*                                                                         *)
(* A step of the model is one system call whose effect another process, or *)
(* the next process after a crash, can see.  Everything a process does     *)
(* between two of those is folded into the first.                          *)
(***************************************************************************)
EXTENDS Integers, Sequences

CONSTANTS
    Proc,        \* processes that run the two subcommands, one run after another
    Serial,      \* serial numbers of endorsements issued by this CA
    Reason,      \* values of --reason; EmptyReason is the default ""
    EmptyReason,
    CutField,    \* a date or reason that lost its end: no crl-issue accepts it
    None,        \* no such file, no entry
    Torn,        \* a CRL file that holds no whole CRL
    Exclusive,   \* TRUE: the operator runs one command at a time
    Faults,      \* the kinds of fault that may happen
    MaxFaults,   \* bound: how many faults happen in a behaviour
    MaxNumber,   \* bound: crl-issue is not started beyond this crl-number
    MaxReissue   \* bound: nor beyond this one when nothing new was revoked

\* crash      the process dies between two system calls
\* ioerror    open, write, chmod or rename fails and the code sees it
\* diskfull   bytes buffered by an ofstream are lost when it is closed
\* unreadable the DB exists and the process cannot open it
FaultKind == {"crash", "ioerror", "diskfull", "unreadable"}

ASSUME StoreAssumption ==
    /\ EmptyReason \in Reason
    /\ CutField \notin Reason
    /\ Exclusive \in BOOLEAN
    /\ Faults \subseteq FaultKind
    /\ MaxFaults \in Nat
    /\ MaxNumber \in Nat
    /\ MaxReissue \in Nat

Entry == [serial : Serial, reason : Reason \cup {CutField}]

\* What a DB file reads as: a RevocationDb, or one followed by a line that does not parse.
Ending == {"whole", "garbled"}
Text == [num : Nat, entries : Seq(Entry), tail : Ending]

Crl == [number : Nat, revoked : SUBSET Entry]

ASSUME NoneAssumption ==
    /\ None \notin Text /\ None \notin Crl /\ None \notin Entry
    /\ Torn \notin Crl /\ Torn # None

VARIABLES
    db,         \* revocations.txt: a Text, or None
    tmp,        \* revocations.txt.tmp: a Text, or None
    crl,        \* the --out file of crl-issue: a Crl, Torn, or None
    pc,         \* pc[p]: the next system call of process p
    want,       \* want[p]: the entry that revoke adds; None in crl-issue
    mem,        \* mem[p]: the RevocationDb of process p
    fd,         \* fd[p]: the file that p's ofstream on the temporary file writes
    faults,     \* faults so far
    \* Observed, never read by an action: what the commands promised and published.
    revokedOk,  \* serials for which a revoke exited 0
    published,  \* CRLs that were in the CRL file, whole, at some time
    issuedOk    \* CRLs for which crl-issue exited 0

files == <<db, tmp, crl>>
local == <<pc, want, mem, fd>>
observed == <<revokedOk, published, issuedOk>>
vars == <<files, local, faults, observed>>

-----------------------------------------------------------------------------
\* Reading and writing the text of the DB.

TextOf(n, es, tl) == [num |-> n, entries |-> es, tail |-> tl]

Blank == TextOf(0, <<>>, "whole")

EntrySet(t) == {t.entries[i] : i \in 1..Len(t.entries)}
SerialsOf(es) == {e.serial : e \in es}

\* load_revocation_db: a missing file reads as an empty DB.
DbText == IF db = None THEN Blank ELSE db

\* The first k entries of t, and the entry after them with reason r.
UpTo(t, k) == SubSeq(t.entries, 1, k)
CutEntry(t, k, r) == [serial |-> t.entries[k + 1].serial, reason |-> r]

\* What a file reads as of which only the first bytes of t were written.  The header goes
\* first, then one line per entry; a line cut in its serial does not parse, a line cut in
\* its date or reason parses and keeps its serial.
FirstBytes(t) ==
    {TextOf(0, <<>>, tl) : tl \in Ending}
    \cup {TextOf(t.num, UpTo(t, k), tl) : k \in 0..(Len(t.entries) - 1), tl \in Ending}
    \cup {TextOf(t.num, Append(UpTo(t, k), CutEntry(t, k, r)), "whole") :
             k \in 0..(Len(t.entries) - 1), r \in {CutField, EmptyReason}}

\* A write at offset 0 over what another process put into the same file after this one
\* truncated it: lines of the old text beyond the new one's end stay, cut or whole.
Overwrite(new, old) ==
    LET n == Len(new.entries)
        o == Len(old.entries)
        garbled == TextOf(new.num, new.entries, "garbled")
    IN  IF o < n \/ o = 0
        THEN {new}
        ELSE {garbled,
              TextOf(new.num, new.entries \o SubSeq(old.entries, n + 1, o), new.tail)}

\* Mutants of CrlOf: serials without dates and reasons; only entries with a reason.
CrlOfSerials(t) == [number |-> t.num, revoked |-> SerialsOf(EntrySet(t))]
CrlOfReasoned(t) ==
    [number |-> t.num, revoked |-> {e \in EntrySet(t) : e.reason # EmptyReason}]

CrlOf(t) == [number |-> t.num, revoked |-> EntrySet(t)]

-----------------------------------------------------------------------------
Init ==
    /\ db = None /\ tmp = None /\ crl = None
    /\ pc = [p \in Proc |-> "idle"]
    /\ want = [p \in Proc |-> None]
    /\ mem = [p \in Proc |-> Blank]
    /\ fd = [p \in Proc |-> "none"]
    /\ faults = 0
    /\ revokedOk = {} /\ published = {} /\ issuedOk = {}

Fault(f) ==
    /\ f \in Faults
    /\ faults < MaxFaults
    /\ faults' = faults + 1

GoTo(p, l) == pc' = [pc EXCEPT ![p] = l]

\* The process ends, whatever its exit code: its descriptors are closed.
Exit(p) ==
    /\ GoTo(p, "idle")
    /\ want' = [want EXCEPT ![p] = None]
    /\ mem' = [mem EXCEPT ![p] = Blank]
    /\ fd' = [fd EXCEPT ![p] = "none"]

MayStart(p) ==
    /\ pc[p] = "idle"
    /\ Exclusive => \A q \in Proc : pc[q] = "idle"

-----------------------------------------------------------------------------
\* tee-anchor revoke: the arguments and both certificates were read and the endorsement
\* names this CA as its issuer; a run that fails there touches nothing.
RevokeStart(p, s, r) ==
    /\ MayStart(p)
    /\ GoTo(p, "load")
    /\ want' = [want EXCEPT ![p] = [serial |-> s, reason |-> r]]
    /\ UNCHANGED <<files, mem, fd, faults, observed>>

\* Mutant of RevokeLoaded: a listed serial is listed again.
RevokeLoadedAgain(p, t) ==
    \/ /\ t.tail = "garbled"
       /\ Exit(p)
       /\ UNCHANGED <<files, observed>>
    \/ /\ t.tail = "whole"
       /\ mem' = [mem EXCEPT ![p] = TextOf(t.num, Append(t.entries, want[p]), "whole")]
       /\ GoTo(p, "open")
       /\ UNCHANGED <<files, want, fd, observed>>

\* revoke has read the DB as t: stop on a malformed line, report a serial already listed
\* as done, or go on with the entry appended.
RevokeLoaded(p, t) ==
    \/ /\ t.tail = "garbled"
       /\ Exit(p)
       /\ UNCHANGED <<files, observed>>
    \/ /\ t.tail = "whole"
       /\ want[p].serial \in SerialsOf(EntrySet(t))
       /\ Exit(p)
       /\ revokedOk' = revokedOk \cup {want[p].serial}
       /\ UNCHANGED <<files, published, issuedOk>>
    \/ /\ t.tail = "whole"
       /\ want[p].serial \notin SerialsOf(EntrySet(t))
       /\ mem' = [mem EXCEPT ![p] = TextOf(t.num, Append(t.entries, want[p]), "whole")]
       /\ GoTo(p, "open")
       /\ UNCHANGED <<files, want, fd, observed>>

\* tee-anchor crl-issue: arguments, CA key and CA certificate are good.
CrlIssueStart(p) ==
    /\ MayStart(p)
    /\ DbText.num < MaxNumber
    /\ (crl \notin {None, Torn} /\ DbText.num >= MaxReissue) => crl.revoked # EntrySet(DbText)
    /\ GoTo(p, "load")
    /\ UNCHANGED <<files, want, mem, fd, faults, observed>>

\* Mutant of CrlIssueLoaded: the number is not counted up.
CrlIssueLoadedSameNumber(p, t) ==
    LET good == t.tail = "whole" /\ \A e \in EntrySet(t) : e.reason # CutField
    IN  \/ /\ ~good
           /\ Exit(p)
           /\ UNCHANGED <<files, observed>>
        \/ /\ good
           /\ mem' = [mem EXCEPT ![p] = t]
           /\ GoTo(p, "crlopen")
           /\ UNCHANGED <<files, want, fd, observed>>

\* crl-issue has read the DB as t: it counts the CRL number up and builds and signs the
\* CRL in memory, which fails on an entry whose date or reason is cut.
CrlIssueLoaded(p, t) ==
    LET good == t.tail = "whole" /\ \A e \in EntrySet(t) : e.reason # CutField
    IN  \/ /\ ~good
           /\ Exit(p)
           /\ UNCHANGED <<files, observed>>
        \/ /\ good
           /\ mem' = [mem EXCEPT ![p] = TextOf(t.num + 1, t.entries, "whole")]
           /\ GoTo(p, "crlopen")
           /\ UNCHANGED <<files, want, fd, observed>>

\* Both commands read the DB through load_revocation_db, which takes a file it cannot open,
\* for whatever reason, for a DB that was never created.
Load(p) ==
    /\ pc[p] = "load"
    /\ \E t \in {DbText, Blank} :
          /\ \/ t = DbText /\ UNCHANGED faults
             \/ t = Blank /\ db # None /\ Fault("unreadable")
          /\ IF want[p] = None THEN CrlIssueLoaded(p, t) ELSE RevokeLoaded(p, t)

-----------------------------------------------------------------------------
\* write_file on the CRL: truncate in place, write, close, chmod.
CrlOpen(p) ==
    /\ pc[p] = "crlopen"
    /\ \/ /\ crl' = Torn
          /\ GoTo(p, "crlwrite")
          /\ UNCHANGED <<want, mem, fd, faults>>
       \/ Fault("ioerror") /\ Exit(p) /\ UNCHANGED crl
    /\ UNCHANGED <<db, tmp, observed>>

\* Mutant of CrlWrite: the DB with the new number is not saved.
CrlWriteUnsaved(p) ==
    /\ pc[p] = "crlwrite"
    /\ crl' = CrlOf(mem[p])
    /\ published' = published \cup {crl'}
    /\ GoTo(p, "report")
    /\ UNCHANGED <<want, mem, fd, faults, db, tmp, revokedOk, issuedOk>>

\* The result of close() is not looked at; a failed write or chmod ends the run before the
\* DB is saved.
CrlWrite(p) ==
    /\ pc[p] = "crlwrite"
    /\ \/ /\ crl' = CrlOf(mem[p])
          /\ published' = published \cup {crl'}
          /\ \/ GoTo(p, "open") /\ UNCHANGED <<want, mem, fd, faults>>
             \/ Fault("ioerror") /\ Exit(p)                 \* chmod failed
       \/ /\ UNCHANGED <<crl, published>>
          /\ \/ Fault("ioerror") /\ Exit(p)                 \* the write failed
             \/ Fault("diskfull") /\ GoTo(p, "open") /\ UNCHANGED <<want, mem, fd>>
    /\ UNCHANGED <<db, tmp, revokedOk, issuedOk>>

-----------------------------------------------------------------------------
\* Mutant of SaveOpen: the DB itself is truncated and written.
SaveOpenInPlace(p) ==
    /\ pc[p] = "open"
    /\ db' = Blank
    /\ fd' = [fd EXCEPT ![p] = "db"]
    /\ GoTo(p, "flush")
    /\ UNCHANGED <<want, mem, faults, tmp, crl, observed>>

\* save_revocation_db: create or truncate the temporary file.
SaveOpen(p) ==
    /\ pc[p] = "open"
    /\ \/ /\ tmp' = Blank
          /\ fd' = [fd EXCEPT ![p] = "tmp"]
          /\ GoTo(p, "flush")
          /\ UNCHANGED <<want, mem, faults>>
       \/ Fault("ioerror") /\ Exit(p) /\ UNCHANGED tmp
    /\ UNCHANGED <<db, crl, observed>>

\* The bytes of text t reach the file behind p's descriptor: the temporary file, or the DB
\* itself when another process has renamed that file meanwhile.
WriteThrough(p, t) ==
    \/ fd[p] = "tmp" /\ tmp' \in Overwrite(t, tmp) /\ UNCHANGED db
    \/ fd[p] = "db" /\ db' \in Overwrite(t, db) /\ UNCHANGED tmp
    \/ fd[p] = "orphan" /\ UNCHANGED <<db, tmp>>

\* The buffered text is written when the ofstream is destroyed, after the code's last look
\* at its state: a write that fails before is seen, one that fails then is not.
SaveFlush(p) ==
    /\ pc[p] = "flush"
    /\ \/ /\ WriteThrough(p, mem[p])
          /\ GoTo(p, "rename")
          /\ fd' = [fd EXCEPT ![p] = "none"]
          /\ UNCHANGED <<want, mem, faults>>
       \/ \E t \in FirstBytes(mem[p]) :
             /\ WriteThrough(p, t)
             /\ \/ Fault("ioerror") /\ Exit(p)
                \/ /\ Fault("diskfull")
                   /\ GoTo(p, "rename")
                   /\ fd' = [fd EXCEPT ![p] = "none"]
                   /\ UNCHANGED <<want, mem>>
    /\ UNCHANGED <<crl, observed>>

\* The temporary file becomes the DB.  Descriptors follow the files they were opened on.
SaveRename(p) ==
    /\ pc[p] = "rename"
    /\ \/ /\ tmp # None
          /\ db' = tmp
          /\ tmp' = None
          /\ fd' = [q \in Proc |-> CASE fd[q] = "tmp" -> "db"
                                     [] fd[q] = "db"  -> "orphan"
                                     [] OTHER         -> fd[q]]
          /\ GoTo(p, "report")
          /\ UNCHANGED <<want, mem, faults>>
       \/ tmp = None /\ Exit(p) /\ UNCHANGED <<db, tmp, faults>>
       \/ Fault("ioerror") /\ Exit(p) /\ UNCHANGED <<db, tmp>>
    /\ UNCHANGED <<crl, observed>>

\* The command prints what it did and exits 0.
Report(p) ==
    /\ pc[p] = "report"
    /\ IF want[p] = None
       THEN /\ issuedOk' = issuedOk \cup {CrlOf(mem[p])}
            /\ UNCHANGED revokedOk
       ELSE /\ revokedOk' = revokedOk \cup {want[p].serial}
            /\ UNCHANGED issuedOk
    /\ Exit(p)
    /\ UNCHANGED <<files, faults, published>>

Crash(p) ==
    /\ pc[p] # "idle"
    /\ Fault("crash")
    /\ Exit(p)
    /\ UNCHANGED <<files, observed>>

-----------------------------------------------------------------------------
Advance(p) ==
    Load(p) \/ CrlOpen(p) \/ CrlWrite(p) \/ SaveOpen(p) \/ SaveFlush(p) \/ SaveRename(p)
    \/ Report(p)

Next ==
    \E p \in Proc :
        \/ \E s \in Serial, r \in Reason : RevokeStart(p, s, r)
        \/ CrlIssueStart(p)
        \/ Advance(p)
        \/ Crash(p)

Spec == Init /\ [][Next]_vars

\* A started process is scheduled until it ends, and the operator keeps running crl-issue.
Fairness ==
    /\ \A p \in Proc : WF_vars(Advance(p))
    /\ SF_vars(\E p \in Proc : CrlIssueStart(p))

FairSpec == Spec /\ Fairness

-----------------------------------------------------------------------------
\* Properties.

File == Text \cup {None}

\* The type invariant: files, process states and what was observed have their types.
TypeOK ==
    /\ db \in File /\ tmp \in File
    /\ crl \in Crl \cup {Torn, None}
    /\ pc \in [Proc -> {"idle", "load", "crlopen", "crlwrite", "open", "flush", "rename",
                        "report"}]
    /\ want \in [Proc -> [serial : Serial, reason : Reason] \cup {None}]
    /\ mem \in [Proc -> Text]
    /\ fd \in [Proc -> {"none", "tmp", "db", "orphan"}]
    /\ faults \in Nat
    /\ revokedOk \subseteq Serial
    /\ published \subseteq Crl /\ issuedOk \subseteq Crl

\* A serial whose revoke exited 0 is in the DB from then on, through every later save,
\* failed or killed command (run_revoke, save_revocation_db).
RevocationsDurable == revokedOk \subseteq SerialsOf(EntrySet(DbText))

\* Once in the DB, an entry keeps its place, its date and its reason: no command rewrites
\* what an earlier one recorded (run_revoke returns early on a listed serial).
FirstRevocationStands ==
    [][/\ Len(DbText'.entries) >= Len(DbText.entries)
       /\ \A i \in 1..Len(DbText.entries) : DbText'.entries[i] = DbText.entries[i]]_vars

\* Every CRL that reaches the CRL file lists every serial that a revoke reported before
\* (run_crl_issue copies the whole DB, and the DB has them all).
CrlCoversRevocations ==
    [][published' # published =>
          \A c \in published' \ published : revokedOk \subseteq SerialsOf(c.revoked)]_vars

\* No CRL was ever handed out that lists what the DB does not: the next CRL cannot
\* take a revocation back.
CrlsWithinDb == \A c \in published : c.revoked \subseteq EntrySet(DbText)

\* A CRL with a higher number lists at least what one with a lower number lists, and of
\* two with the same number (left by a run that failed after writing the CRL) the one
\* whose run exited 0 lists at least what the other does.
NewerCrlsGrow ==
    /\ \A a, b \in published : a.number < b.number => a.revoked \subseteq b.revoked
    /\ \A a \in issuedOk, b \in published :
          a.number = b.number => b.revoked \subseteq a.revoked

\* A number that some crl-issue reported is used up: no CRL published later has it.
ReportedNumbersAreUsedUp ==
    [][\A c \in published' \ published : \A a \in issuedOk : a.number < c.number]_vars

\* Whatever the processes do to the temporary file, and wherever they fail or die, the DB
\* and the CRL file behave as an atomic register.
Register == INSTANCE RevocationRegister
                WITH entries <- DbText.entries, number <- DbText.num

RefinesRegister == Register!Spec

\* A reported revocation reaches the CRL file, although runs of crl-issue may fail or die
\* on the way and leave no CRL or an old one.
RevocationReachesCrl ==
    \A s \in Serial :
        s \in revokedOk ~> (crl \notin {None, Torn} /\ s \in SerialsOf(crl.revoked))

\* revocation_db.hpp on save_revocation_db: the write is atomic and a failure raises, so the
\* DB always holds the whole text that some command saved.
SaveIsAtomic ==
    [][db' # db => \E p \in Proc : db' = mem[p]]_vars
=============================================================================
