------------------------- MODULE RevocationStoreProofs -------------------------
(***************************************************************************)
(* Proofs about RevocationStore, for every set of processes, serials and   *)
(* reasons.  The types hold whatever happens.  With one command at a time, *)
(* none of whose failures goes unseen, the DB and the CRL file behave as an*)
(* atomic register, for any number of commands, failures and crashes.      *)
(***************************************************************************)
EXTENDS RevocationStore, SequenceTheorems, TLAPS

-----------------------------------------------------------------------------
\* Texts: what reading and writing one preserves.

LEMMA TextOfType ==
  ASSUME NEW n \in Nat, NEW es \in Seq(Entry), NEW tl \in Ending
  PROVE  TextOf(n, es, tl) \in Text
  BY DEF TextOf, Text

LEMMA TextFields ==
  ASSUME NEW t \in Text
  PROVE  t.num \in Nat /\ t.entries \in Seq(Entry) /\ t.tail \in Ending
         /\ Len(t.entries) \in Nat
  BY DEF Text

LEMMA BlankText == Blank \in Text
  BY TextOfType, EmptySeq DEF Blank, Ending

LEMMA DbTextType == ASSUME db \in File PROVE DbText \in Text
  BY BlankText DEF DbText, File

LEMMA CrlOfType == ASSUME NEW t \in Text PROVE CrlOf(t) \in Crl
  BY TextFields, ElementOfSeq DEF CrlOf, Crl, EntrySet

\* What is left of a DB text of which only the first bytes were written is a DB text.
LEMMA FirstBytesType == ASSUME NEW t \in Text PROVE FirstBytes(t) \subseteq Text
<1>1. ASSUME NEW k \in 0..(Len(t.entries) - 1)
      PROVE  UpTo(t, k) \in Seq(Entry) /\ t.entries[k + 1] \in Entry
  <2>1. /\ k \in Int
        /\ k + 1 \in 1..Len(t.entries)
        /\ \A i \in 1..k : t.entries[i] \in Entry
    BY TextFields, ElementOfSeq
  <2> QED
    BY <2>1, TextFields, ElementOfSeq, SubSeqProperties DEF UpTo
<1>2. ASSUME NEW k \in 0..(Len(t.entries) - 1), NEW r \in {CutField, EmptyReason}
      PROVE  CutEntry(t, k, r) \in Entry
  BY <1>1, StoreAssumption DEF CutEntry, Entry
<1>3. ASSUME NEW k \in 0..(Len(t.entries) - 1), NEW r \in {CutField, EmptyReason}
      PROVE  Append(UpTo(t, k), CutEntry(t, k, r)) \in Seq(Entry)
  BY <1>1, <1>2, AppendProperties
<1>4. \A tl \in Ending : TextOf(0, <<>>, tl) \in Text
  BY TextOfType, EmptySeq
<1>5. \A k \in 0..(Len(t.entries) - 1), tl \in Ending : TextOf(t.num, UpTo(t, k), tl) \in Text
  BY <1>1, TextFields, TextOfType
<1>6. \A k \in 0..(Len(t.entries) - 1), r \in {CutField, EmptyReason} :
         TextOf(t.num, Append(UpTo(t, k), CutEntry(t, k, r)), "whole") \in Text
  BY <1>3, TextFields, TextOfType DEF Ending
<1> QED
  BY <1>4, <1>5, <1>6 DEF FirstBytes

\* A text written over another is a DB text.
LEMMA OverwriteType ==
  ASSUME NEW new \in Text, NEW old \in Text
  PROVE  Overwrite(new, old) \subseteq Text
<1> DEFINE n == Len(new.entries)
           o == Len(old.entries)
<1>1. n \in Nat /\ o \in Nat
  BY TextFields
<1>2. TextOf(new.num, new.entries, "garbled") \in Text
  BY TextFields, TextOfType DEF Ending
<1>3. ASSUME o >= n
      PROVE  TextOf(new.num, new.entries \o SubSeq(old.entries, n + 1, o), new.tail)
                \in Text
  <2>1. \A i \in (n + 1)..o : old.entries[i] \in Entry
    BY <1>1, TextFields, ElementOfSeq
  <2>2. SubSeq(old.entries, n + 1, o) \in Seq(Entry)
    BY <1>1, <2>1, SubSeqProperties
  <2>3. new.entries \o SubSeq(old.entries, n + 1, o) \in Seq(Entry)
    BY <2>2, TextFields, ConcatProperties
  <2> QED
    BY <2>3, TextFields, TextOfType
<1> QED
  BY <1>1, <1>2, <1>3 DEF Overwrite

-----------------------------------------------------------------------------
\* Type correctness, with any number of commands at a time and any faults.

\* A descriptor leads to a file that is there.
FdOK == \A p \in Proc : (fd[p] = "tmp" => tmp # None) /\ (fd[p] = "db" => db # None)

Typed == TypeOK /\ FdOK

LEMMA ExitType ==
  ASSUME TypeOK, NEW p \in Proc, Exit(p)
  PROVE  /\ pc' \in [Proc -> {"idle", "load", "crlopen", "crlwrite", "open", "flush",
                              "rename", "report"}]
         /\ want' \in [Proc -> [serial : Serial, reason : Reason] \cup {None}]
         /\ mem' \in [Proc -> Text]
         /\ fd' \in [Proc -> {"none", "tmp", "db", "orphan"}]
         /\ fd'[p] = "none"
         /\ \A q \in Proc : q # p => fd'[q] = fd[q]
  BY BlankText DEF Exit, GoTo, TypeOK

LEMMA FaultType == ASSUME TypeOK, NEW f, Fault(f) PROVE faults' \in Nat
  BY DEF Fault, TypeOK

LEMMA WantedEntry ==
  ASSUME TypeOK, NEW p \in Proc, want[p] # None
  PROVE  want[p] \in Entry
  BY DEF TypeOK, Entry

LEMMA WriteType ==
  ASSUME Typed, NEW p \in Proc, NEW t \in Text, WriteThrough(p, t)
  PROVE  db' \in File /\ tmp' \in File /\ (db # None => db' # None) /\ (tmp # None => tmp' # None)
<1>1. CASE fd[p] = "tmp" /\ tmp' \in Overwrite(t, tmp) /\ UNCHANGED db
  <2>1. tmp \in Text
    BY <1>1 DEF Typed, FdOK, TypeOK, File
  <2> QED
    BY <1>1, <2>1, OverwriteType, NoneAssumption DEF Typed, TypeOK, File
<1>2. CASE fd[p] = "db" /\ db' \in Overwrite(t, db) /\ UNCHANGED tmp
  <2>1. db \in Text
    BY <1>2 DEF Typed, FdOK, TypeOK, File
  <2> QED
    BY <1>2, <2>1, OverwriteType, NoneAssumption DEF Typed, TypeOK, File
<1>3. CASE UNCHANGED <<db, tmp>>
  BY <1>3 DEF Typed, TypeOK
<1> QED
  BY <1>1, <1>2, <1>3 DEF WriteThrough

LEMMA TypedInit == Init => Typed
<1> SUFFICES ASSUME Init PROVE Typed
  OBVIOUS
<1> QED
  BY BlankText DEF Init, Typed, TypeOK, FdOK, File

LEMMA TypedStep == Typed /\ [Next]_vars => Typed'
<1> SUFFICES ASSUME Typed, [Next]_vars PROVE Typed'
  OBVIOUS
<1> USE DEF Typed
<1>1. ASSUME NEW p \in Proc, NEW s \in Serial, NEW r \in Reason, RevokeStart(p, s, r)
      PROVE  Typed'
  BY <1>1 DEF RevokeStart, GoTo, TypeOK, FdOK, files, observed
<1>2. ASSUME NEW p \in Proc, CrlIssueStart(p) PROVE Typed'
  BY <1>2 DEF CrlIssueStart, GoTo, TypeOK, FdOK, files, observed
<1>3. ASSUME NEW p \in Proc, Load(p) PROVE Typed'
  <2>1. PICK t \in {DbText, Blank} :
           /\ UNCHANGED faults \/ Fault("unreadable")
           /\ IF want[p] = None THEN CrlIssueLoaded(p, t) ELSE RevokeLoaded(p, t)
    BY <1>3 DEF Load
  <2>2. t \in Text /\ faults' \in Nat
    BY <2>1, BlankText, DbTextType, FaultType DEF TypeOK
  <2>3. CASE want[p] = None /\ CrlIssueLoaded(p, t)
    <3>1. CASE Exit(p) /\ UNCHANGED <<files, observed>>
      BY <2>2, <3>1, ExitType DEF TypeOK, FdOK, files, observed
    <3>2. CASE /\ mem' = [mem EXCEPT ![p] = TextOf(t.num + 1, t.entries, "whole")]
               /\ GoTo(p, "crlopen")
               /\ UNCHANGED <<files, want, fd, observed>>
      <4>1. TextOf(t.num + 1, t.entries, "whole") \in Text
        BY <2>2, TextFields, TextOfType DEF Ending
      <4> QED
        BY <2>2, <3>2, <4>1 DEF TypeOK, FdOK, files, observed, GoTo
    <3> QED
      BY <2>3, <3>1, <3>2 DEF CrlIssueLoaded
  <2>4. CASE want[p] # None /\ RevokeLoaded(p, t)
    <3>1. CASE Exit(p) /\ UNCHANGED <<files, observed>>
      BY <2>2, <3>1, ExitType DEF TypeOK, FdOK, files, observed
    <3>2. CASE /\ Exit(p)
               /\ revokedOk' = revokedOk \cup {want[p].serial}
               /\ UNCHANGED <<files, published, issuedOk>>
      <4>1. want[p].serial \in Serial
        BY <2>4, WantedEntry DEF Entry
      <4> QED
        BY <2>2, <3>2, <4>1, ExitType DEF TypeOK, FdOK, files
    <3>3. CASE /\ mem' = [mem EXCEPT ![p] = TextOf(t.num, Append(t.entries, want[p]), "whole")]
               /\ GoTo(p, "open")
               /\ UNCHANGED <<files, want, fd, observed>>
      <4>1. TextOf(t.num, Append(t.entries, want[p]), "whole") \in Text
        BY <2>2, <2>4, WantedEntry, TextFields, TextOfType, AppendProperties DEF Ending
      <4> QED
        BY <2>2, <3>3, <4>1 DEF TypeOK, FdOK, files, observed, GoTo
    <3> QED
      BY <2>4, <3>1, <3>2, <3>3 DEF RevokeLoaded
  <2> QED
    BY <2>1, <2>3, <2>4
<1>4. ASSUME NEW p \in Proc, CrlOpen(p) PROVE Typed'
  <2>1. CASE Exit(p) /\ Fault("ioerror") /\ UNCHANGED <<crl, db, tmp, observed>>
    BY <2>1, ExitType, FaultType DEF TypeOK, FdOK, observed
  <2>2. CASE crl' = Torn /\ GoTo(p, "crlwrite") /\ UNCHANGED <<want, mem, fd, faults, db, tmp, observed>>
    BY <2>2 DEF TypeOK, FdOK, observed, GoTo
  <2> QED
    BY <1>4, <2>1, <2>2 DEF CrlOpen
<1>5. ASSUME NEW p \in Proc, CrlWrite(p) PROVE Typed'
  <2>1. CrlOf(mem[p]) \in Crl
    BY CrlOfType DEF TypeOK
  <2>2. crl' \in Crl \cup {Torn, None} /\ published' \subseteq Crl
        /\ UNCHANGED <<db, tmp, revokedOk, issuedOk>>
    BY <1>5, <2>1 DEF CrlWrite, TypeOK
  <2>3. CASE Exit(p) /\ Fault("ioerror")
    BY <2>2, <2>3, ExitType, FaultType DEF TypeOK, FdOK
  <2>4. CASE GoTo(p, "open") /\ UNCHANGED <<want, mem, fd>>
             /\ (UNCHANGED faults \/ Fault("diskfull"))
    BY <2>2, <2>4, FaultType DEF TypeOK, FdOK, GoTo
  <2> QED
    BY <1>5, <2>3, <2>4 DEF CrlWrite
<1>6. ASSUME NEW p \in Proc, SaveOpen(p) PROVE Typed'
  <2>1. CASE Exit(p) /\ Fault("ioerror") /\ UNCHANGED <<tmp, db, crl, observed>>
    BY <2>1, ExitType, FaultType DEF TypeOK, FdOK, observed
  <2>2. CASE /\ tmp' = Blank
             /\ fd' = [fd EXCEPT ![p] = "tmp"]
             /\ GoTo(p, "flush")
             /\ UNCHANGED <<want, mem, faults, db, crl, observed>>
    BY <2>2, BlankText, NoneAssumption DEF TypeOK, FdOK, File, observed, GoTo
  <2> QED
    BY <1>6, <2>1, <2>2 DEF SaveOpen
<1>7. ASSUME NEW p \in Proc, SaveFlush(p) PROVE Typed'
  <2>1. PICK t \in FirstBytes(mem[p]) \cup {mem[p]} : WriteThrough(p, t)
    BY <1>7 DEF SaveFlush
  <2>2. mem[p] \in Text /\ t \in Text
    BY <2>1, FirstBytesType DEF TypeOK
  <2>3. db' \in File /\ tmp' \in File /\ (db # None => db' # None) /\ (tmp # None => tmp' # None)
    BY <2>1, <2>2, WriteType
  <2>4. UNCHANGED <<crl, observed>>
    BY <1>7 DEF SaveFlush
  <2>5. CASE Exit(p) /\ Fault("ioerror")
    BY <2>3, <2>4, <2>5, ExitType, FaultType DEF TypeOK, FdOK, observed
  <2>6. CASE GoTo(p, "rename") /\ fd' = [fd EXCEPT ![p] = "none"] /\ UNCHANGED <<want, mem>>
             /\ (UNCHANGED faults \/ Fault("diskfull"))
    BY <2>3, <2>4, <2>6, FaultType DEF TypeOK, FdOK, observed, GoTo
  <2> QED
    BY <1>7, <2>5, <2>6 DEF SaveFlush
<1>8. ASSUME NEW p \in Proc, SaveRename(p) PROVE Typed'
  <2>1. CASE /\ tmp # None /\ db' = tmp /\ tmp' = None
             /\ fd' = [q \in Proc |-> CASE fd[q] = "tmp" -> "db"
                                        [] fd[q] = "db"  -> "orphan"
                                        [] OTHER         -> fd[q]]
             /\ GoTo(p, "report")
             /\ UNCHANGED <<want, mem, faults, crl, observed>>
    <3>1. \A q \in Proc : fd'[q] \in {"none", "db", "orphan"}
      BY <2>1 DEF TypeOK
    <3> QED
      BY <2>1, <3>1 DEF TypeOK, FdOK, File, observed, GoTo
  <2>2. CASE Exit(p) /\ UNCHANGED <<db, tmp, crl, observed>> /\ (UNCHANGED faults \/ Fault("ioerror"))
    BY <2>2, ExitType, FaultType DEF TypeOK, FdOK, observed
  <2> QED
    BY <1>8, <2>1, <2>2 DEF SaveRename
<1>9. ASSUME NEW p \in Proc, Report(p) PROVE Typed'
  <2>1. CrlOf(mem[p]) \in Crl
    BY CrlOfType DEF TypeOK
  <2>2. want[p] # None => want[p].serial \in Serial
    BY WantedEntry DEF Entry
  <2> QED
    BY <1>9, <2>1, <2>2, ExitType DEF Report, TypeOK, FdOK, files
<1>10. ASSUME NEW p \in Proc, Crash(p) PROVE Typed'
  BY <1>10, ExitType, FaultType DEF Crash, TypeOK, FdOK, files, observed
<1>11. CASE UNCHANGED vars
  BY <1>11 DEF vars, files, local, observed, TypeOK, FdOK
<1> QED
  BY <1>1, <1>2, <1>3, <1>4, <1>5, <1>6, <1>7, <1>8, <1>9, <1>10, <1>11 DEF Next, Advance

\* Whatever the commands do and whatever fails, the files read as DB texts and CRLs and the
\* processes stay in the states the code has.
THEOREM TypeCorrect == Spec => []TypeOK
<1>1. Typed => TypeOK
  BY DEF Typed
<1> QED
  BY <1>1, TypedInit, TypedStep, PTL DEF Spec

-----------------------------------------------------------------------------
\* The operator runs one command at a time; a command may be killed, and every I/O error
\* is one the code sees.
SeenFaultsOnly == Exclusive /\ Faults \subseteq {"crash", "ioerror"}

-----------------------------------------------------------------------------
\* The inductive invariant.

OneAtATime == \A p, q \in Proc : pc[p] # "idle" /\ pc[q] # "idle" => p = q

\* The DB that p is about to save: what it read, counted up or extended by one entry.
NextDb(p) ==
    IF want[p] = None
    THEN TextOf(DbText.num + 1, DbText.entries, "whole")
    ELSE TextOf(DbText.num, Append(DbText.entries, want[p]), "whole")

\* What p has in memory and has written so far, at each of its steps.
ProcessOK(p) ==
    /\ fd[p] = IF pc[p] = "flush" THEN "tmp" ELSE "none"
    /\ pc[p] \in {"crlopen", "crlwrite"} => want[p] = None
    /\ pc[p] \in {"crlopen", "crlwrite", "open", "flush", "rename"} =>
          /\ mem[p] = NextDb(p)
          /\ want[p] # None => want[p].serial \notin SerialsOf(EntrySet(DbText))
    /\ pc[p] = "flush" => tmp = Blank
    /\ pc[p] = "rename" => tmp = mem[p]
    /\ pc[p] = "report" =>
          /\ db = mem[p]
          /\ want[p] # None => want[p].serial \in SerialsOf(EntrySet(DbText))
    /\ pc[p] \in {"open", "flush", "rename", "report"} /\ want[p] = None =>
          /\ CrlOf(mem[p]) \in published
          /\ crl = CrlOf(mem[p])

\* The numbers of the CRLs handed out so far against the counter in the DB.
NumbersOK ==
    /\ \A c \in published : c.number <= DbText.num + 1
    /\ issuedOk \subseteq published
    /\ \A c \in issuedOk : c.number <= DbText.num

ObservedOK == RevocationsDurable /\ CrlsWithinDb /\ NewerCrlsGrow /\ NumbersOK

Inv ==
    /\ Typed
    /\ OneAtATime
    /\ DbText.tail = "whole"
    /\ \A p \in Proc : ProcessOK(p)
    /\ ObservedOK

-----------------------------------------------------------------------------
\* Sets of entries.

LEMMA EntrySetAppend ==
  ASSUME NEW es \in Seq(Entry), NEW e \in Entry, NEW n, NEW m, NEW a, NEW b
  PROVE  EntrySet(TextOf(n, Append(es, e), a)) = EntrySet(TextOf(m, es, b)) \cup {e}
<1>1. /\ Append(es, e) \in Seq(Entry)
      /\ Len(Append(es, e)) = Len(es) + 1
      /\ \A i \in 1..Len(es) : Append(es, e)[i] = es[i]
      /\ Append(es, e)[Len(es) + 1] = e
      /\ Len(es) \in Nat
  BY AppendProperties
<1>2. \A i \in 1..(Len(es) + 1) : i \in 1..Len(es) \/ i = Len(es) + 1
  BY <1>1
<1>3. {Append(es, e)[i] : i \in 1..(Len(es) + 1)} = {es[i] : i \in 1..Len(es)} \cup {e}
  BY <1>1, <1>2
<1> QED
  BY <1>1, <1>3 DEF EntrySet, TextOf

LEMMA TextOfFields ==
  ASSUME NEW n, NEW es, NEW tl
  PROVE  /\ TextOf(n, es, tl).num = n
         /\ TextOf(n, es, tl).entries = es
         /\ TextOf(n, es, tl).tail = tl
  BY DEF TextOf

LEMMA EntrySetText ==
  ASSUME NEW t \in Text
  PROVE  /\ EntrySet(t) \subseteq Entry
         /\ \A n, tl : EntrySet(TextOf(n, t.entries, tl)) = EntrySet(t)
<1>1. EntrySet(t) \subseteq Entry
  BY TextFields, ElementOfSeq DEF EntrySet
<1>2. \A n, tl : EntrySet(TextOf(n, t.entries, tl)) = EntrySet(t)
  BY DEF EntrySet, TextOf
<1> QED
  BY <1>1, <1>2

\* What a save adds to the DB.
LEMMA NextDbEntries ==
  ASSUME Inv, NEW p \in Proc
  PROVE  /\ NextDb(p) \in Text
         /\ NextDb(p).tail = "whole"
         /\ want[p] = None => /\ NextDb(p).num = DbText.num + 1
                              /\ NextDb(p).entries = DbText.entries
                              /\ EntrySet(NextDb(p)) = EntrySet(DbText)
         /\ want[p] # None => /\ NextDb(p).num = DbText.num
                              /\ NextDb(p).entries = Append(DbText.entries, want[p])
                              /\ EntrySet(NextDb(p)) = EntrySet(DbText) \cup {want[p]}
<1>1. DbText \in Text /\ DbText.num \in Nat /\ DbText.entries \in Seq(Entry)
  BY DbTextType, TextFields DEF Inv, Typed, TypeOK
<1>2. CASE want[p] = None
  <2>1. NextDb(p) = TextOf(DbText.num + 1, DbText.entries, "whole")
    BY <1>2 DEF NextDb
  <2>2. NextDb(p) \in Text
    BY <1>1, <2>1, TextOfType DEF Ending
  <2>3. EntrySet(NextDb(p)) = EntrySet(DbText)
    BY <1>1, <2>1, EntrySetText
  <2> QED
    BY <1>2, <2>1, <2>2, <2>3 DEF TextOf
<1>3. CASE want[p] # None
  <2>1. NextDb(p) = TextOf(DbText.num, Append(DbText.entries, want[p]), "whole")
    BY <1>3 DEF NextDb
  <2>2. want[p] \in Entry
    BY <1>3, WantedEntry DEF Inv, Typed
  <2>3. NextDb(p) \in Text
    <3>1. Append(DbText.entries, want[p]) \in Seq(Entry)
      BY <1>1, <2>2, AppendProperties
    <3> QED
      BY <1>1, <2>1, <3>1, TextOfType DEF Ending
  <2>4. EntrySet(NextDb(p)) = EntrySet(TextOf(DbText.num, DbText.entries, "whole")) \cup {want[p]}
    BY <1>1, <2>1, <2>2, EntrySetAppend
  <2>5. EntrySet(TextOf(DbText.num, DbText.entries, "whole")) = EntrySet(DbText)
    BY <1>1, EntrySetText
  <2>6. /\ NextDb(p).num = DbText.num
        /\ NextDb(p).entries = Append(DbText.entries, want[p])
        /\ NextDb(p).tail = "whole"
    BY <2>1 DEF TextOf
  <2> QED
    BY <1>3, <2>3, <2>4, <2>5, <2>6
<1> QED
  BY <1>2, <1>3

-----------------------------------------------------------------------------
\* Init and the steps that leave the DB and the observations alone.

LEMMA InvInit == Init => Inv
<1> SUFFICES ASSUME Init PROVE Inv
  OBVIOUS
<1>1. DbText = Blank /\ Blank.tail = "whole" /\ Blank.num = 0
  BY TextOfFields DEF Init, DbText, Blank
<1> QED
  BY <1>1, TypedInit
     DEF Init, Inv, OneAtATime, ProcessOK, ObservedOK, NumbersOK, RevocationsDurable,
         CrlsWithinDb, NewerCrlsGrow

\* While p is not idle nobody else is active.
LEMMA Alone ==
  ASSUME Inv, NEW p \in Proc, pc[p] # "idle", NEW q \in Proc, q # p
  PROVE  pc[q] = "idle" /\ fd[q] = "none"
  BY DEF Inv, OneAtATime, ProcessOK

LEMMA ObservedKept ==
  ASSUME ObservedOK, UNCHANGED <<db, observed>>
  PROVE  ObservedOK' /\ DbText' = DbText
<1>1. DbText' = DbText
  BY DEF DbText
<1> QED
  BY <1>1 DEF ObservedOK, observed, RevocationsDurable, CrlsWithinDb, NewerCrlsGrow, NumbersOK

\* A process that ends leaves every process idle: whatever it left in the temporary file
\* and the CRL file, the invariant holds if it still holds of the DB.
LEMMA ExitKeepsInv ==
  ASSUME Inv, Typed', NEW p \in Proc, pc[p] # "idle", Exit(p),
         DbText'.tail = "whole", ObservedOK'
  PROVE  Inv'
<1>1. \A q \in Proc : pc'[q] = "idle" /\ fd'[q] = "none"
  <2> SUFFICES ASSUME NEW q \in Proc PROVE pc'[q] = "idle" /\ fd'[q] = "none"
    OBVIOUS
  <2>1. CASE q = p
    BY <2>1 DEF Exit, GoTo, Inv, Typed, TypeOK
  <2>2. CASE q # p
    BY <2>2, Alone DEF Exit, GoTo, Inv, Typed, TypeOK
  <2> QED
    BY <2>1, <2>2
<1>2. \A q \in Proc : ProcessOK(q)'
  BY <1>1 DEF ProcessOK
<1>3. OneAtATime'
  BY <1>1 DEF OneAtATime
<1> QED
  BY <1>2, <1>3 DEF Inv

\* A command that p goes on with: only what p has in memory and has written must be shown.
LEMMA GoOnKeepsInv ==
  ASSUME Inv, Typed', NEW p \in Proc, NEW l,
         GoTo(p, l), pc[p] # "idle", \A q \in Proc \ {p} : fd'[q] = fd[q],
         DbText'.tail = "whole", ObservedOK', ProcessOK(p)'
  PROVE  Inv'
<1>1. \A q \in Proc \ {p} : pc'[q] = "idle" /\ fd'[q] = "none"
  BY Alone DEF GoTo, Inv, Typed, TypeOK
<1>2. \A q \in Proc : ProcessOK(q)'
  BY <1>1 DEF ProcessOK
<1>3. OneAtATime'
  BY <1>1 DEF OneAtATime
<1> QED
  BY <1>2, <1>3 DEF Inv

-----------------------------------------------------------------------------
\* The steps of Next preserve the invariant.

LEMMA StartKeepsInv ==
  ASSUME SeenFaultsOnly, Inv, NEW p \in Proc, MayStart(p), GoTo(p, "load"),
         Typed', UNCHANGED <<files, fd, observed>>
  PROVE  Inv'
<1>1. \A q \in Proc : pc[q] = "idle" /\ fd[q] = "none"
  BY DEF MayStart, SeenFaultsOnly, Inv, ProcessOK
<1>2. \A q \in Proc : pc'[q] = (IF q = p THEN "load" ELSE "idle") /\ fd'[q] = "none"
  BY <1>1 DEF GoTo, Inv, Typed, TypeOK
<1>3. OneAtATime' /\ \A q \in Proc : ProcessOK(q)'
  BY <1>2 DEF OneAtATime, ProcessOK
<1>4. ObservedOK' /\ DbText' = DbText
  BY ObservedKept DEF files, Inv
<1> QED
  BY <1>3, <1>4 DEF Inv

LEMMA LoadKeepsInv ==
  ASSUME SeenFaultsOnly, Inv, Typed', NEW p \in Proc, Load(p)
  PROVE  Inv'
<1>1. pc[p] = "load" /\ UNCHANGED faults
      /\ IF want[p] = None THEN CrlIssueLoaded(p, DbText) ELSE RevokeLoaded(p, DbText)
  BY DEF Load, SeenFaultsOnly, Fault
<1>2. fd[p] = "none"
  BY <1>1 DEF Inv, ProcessOK
<1>3. CASE Exit(p) /\ UNCHANGED <<files, observed>>
  BY <1>1, <1>3, ExitKeepsInv, ObservedKept DEF Inv, files
<1>4. CASE /\ Exit(p)
           /\ want[p].serial \in SerialsOf(EntrySet(DbText))
           /\ revokedOk' = revokedOk \cup {want[p].serial}
           /\ UNCHANGED <<files, published, issuedOk>>
  <2>1. DbText' = DbText
    BY <1>4 DEF files, DbText
  <2>2. ObservedOK'
    BY <1>4, <2>1 DEF Inv, ObservedOK, RevocationsDurable, CrlsWithinDb, NewerCrlsGrow, NumbersOK
  <2> QED
    BY <1>1, <1>4, <2>1, <2>2, ExitKeepsInv DEF Inv
<1>5. CASE /\ want[p] # None
           /\ want[p].serial \notin SerialsOf(EntrySet(DbText))
           /\ mem' = [mem EXCEPT ![p] = TextOf(DbText.num, Append(DbText.entries, want[p]), "whole")]
           /\ GoTo(p, "open")
           /\ UNCHANGED <<files, want, fd, observed>>
  <2>1. ObservedOK' /\ DbText' = DbText
    BY <1>5, ObservedKept DEF files, Inv
  <2>2. mem'[p] = NextDb(p)' /\ pc'[p] = "open"
    BY <1>5, <2>1 DEF NextDb, GoTo, Inv, Typed, TypeOK
  <2>3. ProcessOK(p)'
    BY <1>2, <1>5, <2>1, <2>2 DEF ProcessOK
  <2> QED
    BY <1>1, <1>5, <2>1, <2>3, GoOnKeepsInv DEF Inv
<1>6. CASE /\ want[p] = None
           /\ mem' = [mem EXCEPT ![p] = TextOf(DbText.num + 1, DbText.entries, "whole")]
           /\ GoTo(p, "crlopen")
           /\ UNCHANGED <<files, want, fd, observed>>
  <2>1. ObservedOK' /\ DbText' = DbText
    BY <1>6, ObservedKept DEF files, Inv
  <2>2. mem'[p] = NextDb(p)' /\ pc'[p] = "crlopen"
    BY <1>6, <2>1 DEF NextDb, GoTo, Inv, Typed, TypeOK
  <2>3. ProcessOK(p)'
    BY <1>2, <1>6, <2>1, <2>2 DEF ProcessOK
  <2> QED
    BY <1>1, <1>6, <2>1, <2>3, GoOnKeepsInv DEF Inv
<1> QED
  BY <1>1, <1>3, <1>4, <1>5, <1>6 DEF CrlIssueLoaded, RevokeLoaded

LEMMA CrlOpenKeepsInv ==
  ASSUME Inv, Typed', NEW p \in Proc, CrlOpen(p)
  PROVE  Inv'
<1>1. pc[p] = "crlopen" /\ UNCHANGED <<db, observed>>
  BY DEF CrlOpen
<1>2. ObservedOK' /\ DbText' = DbText
  BY <1>1, ObservedKept DEF Inv
<1>3. CASE Exit(p)
  BY <1>1, <1>2, <1>3, ExitKeepsInv DEF Inv
<1>4. CASE GoTo(p, "crlwrite") /\ UNCHANGED <<want, mem, fd>>
  <2>1. pc'[p] = "crlwrite" /\ NextDb(p)' = NextDb(p)
    BY <1>2, <1>4 DEF GoTo, NextDb, Inv, Typed, TypeOK
  <2>2. ProcessOK(p)'
    BY <1>1, <1>2, <1>4, <2>1 DEF ProcessOK, Inv
  <2> QED
    BY <1>1, <1>2, <1>4, <2>2, GoOnKeepsInv DEF Inv
<1> QED
  BY <1>3, <1>4 DEF CrlOpen

\* The CRL that a process writes is newer than all CRLs before.
LEMMA CrlOfNext ==
  ASSUME Inv, NEW p \in Proc, want[p] = None, mem[p] = NextDb(p)
  PROVE  /\ CrlOf(mem[p]) = [number |-> DbText.num + 1, revoked |-> EntrySet(DbText)]
         /\ DbText.num \in Nat
  BY NextDbEntries, DbTextType, TextFields DEF CrlOf, Inv, Typed, TypeOK

LEMMA CrlWriteKeepsInv ==
  ASSUME SeenFaultsOnly, Inv, Typed', NEW p \in Proc, CrlWrite(p)
  PROVE  Inv'
<1> DEFINE c == CrlOf(mem[p])
<1>1. pc[p] = "crlwrite" /\ want[p] = None /\ mem[p] = NextDb(p) /\ fd[p] = "none"
  BY DEF CrlWrite, Inv, ProcessOK
<1>2. DbText' = DbText /\ DbText'.tail = "whole"
  BY DEF CrlWrite, DbText, Inv
<1>3. CASE crl' = c /\ published' = published \cup {c}
  <2>1. c.number = DbText.num + 1 /\ c.revoked = EntrySet(DbText) /\ DbText.num \in Nat
    BY <1>1, CrlOfNext
  <2>2. \A b \in published : b.number \in Nat
    BY DEF Inv, Typed, TypeOK, Crl
  <2>3. UNCHANGED <<revokedOk, issuedOk>>
    BY DEF CrlWrite
  <2>4. RevocationsDurable' /\ CrlsWithinDb'
    BY <1>2, <1>3, <2>1, <2>3 DEF Inv, ObservedOK, RevocationsDurable, CrlsWithinDb
  <2>5. NumbersOK'
    BY <1>2, <1>3, <2>1, <2>3 DEF Inv, ObservedOK, NumbersOK
  <2>6. NewerCrlsGrow'
    <3>1. \A a \in published : a.revoked \subseteq c.revoked /\ a.number <= c.number
      BY <2>1 DEF Inv, ObservedOK, CrlsWithinDb, NumbersOK
    <3>2. \A a \in issuedOk : a.number < c.number /\ a \in published
      BY <2>1, <2>2 DEF Inv, ObservedOK, NumbersOK
    <3>3. c.number \in Nat
      BY <2>1
    <3> HIDE DEF c
    <3>4. ASSUME NEW a \in published', NEW b \in published', a.number < b.number
          PROVE  a.revoked \subseteq b.revoked
      BY <1>3, <2>2, <3>1, <3>3, <3>4 DEF Inv, ObservedOK, NewerCrlsGrow
    <3>5. ASSUME NEW a \in issuedOk', NEW b \in published', a.number = b.number
          PROVE  b.revoked \subseteq a.revoked
      BY <1>3, <2>2, <2>3, <3>2, <3>3, <3>5 DEF Inv, ObservedOK, NewerCrlsGrow
    <3> QED
      BY <3>4, <3>5 DEF NewerCrlsGrow
  <2>7. ObservedOK'
    BY <2>4, <2>5, <2>6 DEF ObservedOK
  <2>8. CASE Exit(p)
    BY <1>1, <1>2, <2>7, <2>8, ExitKeepsInv
  <2>9. CASE GoTo(p, "open") /\ UNCHANGED <<want, mem, fd>>
    <3>1. pc'[p] = "open" /\ NextDb(p)' = NextDb(p)
      BY <1>2, <2>9 DEF GoTo, NextDb, Inv, Typed, TypeOK
    <3>2. ProcessOK(p)'
      BY <1>1, <1>2, <1>3, <2>9, <3>1 DEF ProcessOK
    <3> QED
      BY <1>1, <1>2, <2>7, <2>9, <3>2, GoOnKeepsInv
  <2> QED
    BY <1>3, <2>8, <2>9 DEF CrlWrite, SeenFaultsOnly, Fault
<1>4. CASE UNCHANGED <<crl, published>> /\ Exit(p)
  <2>1. UNCHANGED <<db, observed>>
    BY <1>4 DEF CrlWrite, observed
  <2> QED
    BY <1>1, <1>2, <1>4, <2>1, ExitKeepsInv, ObservedKept DEF Inv
<1> QED
  BY <1>3, <1>4 DEF CrlWrite, SeenFaultsOnly, Fault

LEMMA SaveOpenKeepsInv ==
  ASSUME Inv, Typed', NEW p \in Proc, SaveOpen(p)
  PROVE  Inv'
<1>1. pc[p] = "open" /\ UNCHANGED <<db, crl, observed>>
  BY DEF SaveOpen
<1>2. ObservedOK' /\ DbText' = DbText
  BY <1>1, ObservedKept DEF Inv
<1>3. CASE Exit(p)
  BY <1>1, <1>2, <1>3, ExitKeepsInv DEF Inv
<1>4. CASE tmp' = Blank /\ fd' = [fd EXCEPT ![p] = "tmp"] /\ GoTo(p, "flush")
           /\ UNCHANGED <<want, mem>>
  <2>1. pc'[p] = "flush" /\ fd'[p] = "tmp" /\ NextDb(p)' = NextDb(p)
    BY <1>2, <1>4 DEF GoTo, NextDb, Inv, Typed, TypeOK
  <2>2. ProcessOK(p)'
    BY <1>1, <1>2, <1>4, <2>1 DEF ProcessOK, Inv, observed
  <2>3. \A q \in Proc \ {p} : fd'[q] = fd[q]
    BY <1>4 DEF Inv, Typed, TypeOK
  <2> QED
    BY <1>1, <1>2, <1>4, <2>2, <2>3, GoOnKeepsInv DEF Inv
<1> QED
  BY <1>3, <1>4 DEF SaveOpen

\* Nobody else writes into the temporary file, so it receives exactly the new text.
LEMMA FlushWritesNext ==
  ASSUME Inv, NEW p \in Proc, pc[p] = "flush", NEW t, WriteThrough(p, t)
  PROVE  UNCHANGED db /\ (t \in Text => tmp' = t)
<1>1. fd[p] = "tmp" /\ tmp = Blank
  BY DEF Inv, ProcessOK
<1>2. UNCHANGED db /\ tmp' \in Overwrite(t, Blank)
  BY <1>1 DEF WriteThrough
<1>3. Len(Blank.entries) = 0
  BY TextOfFields DEF Blank
<1>4. Overwrite(t, Blank) = {t}
  BY <1>3 DEF Overwrite
<1> QED
  BY <1>2, <1>4

LEMMA SaveFlushKeepsInv ==
  ASSUME SeenFaultsOnly, Inv, Typed', NEW p \in Proc, SaveFlush(p)
  PROVE  Inv'
<1>1. pc[p] = "flush" /\ UNCHANGED <<crl, observed>>
  BY DEF SaveFlush
<1>2. PICK t \in FirstBytes(mem[p]) \cup {mem[p]} : WriteThrough(p, t)
  BY DEF SaveFlush
<1>3. UNCHANGED db
  BY <1>1, <1>2, FlushWritesNext
<1>4. ObservedOK' /\ DbText' = DbText
  BY <1>1, <1>3, ObservedKept DEF Inv
<1>5. CASE Exit(p)
  BY <1>1, <1>4, <1>5, ExitKeepsInv DEF Inv
<1>6. CASE WriteThrough(p, mem[p]) /\ GoTo(p, "rename") /\ fd' = [fd EXCEPT ![p] = "none"]
           /\ UNCHANGED <<want, mem>>
  <2>1. tmp' = mem[p]
    BY <1>1, <1>6, FlushWritesNext DEF Inv, Typed, TypeOK
  <2>2. pc'[p] = "rename" /\ fd'[p] = "none" /\ NextDb(p)' = NextDb(p)
    BY <1>4, <1>6 DEF GoTo, NextDb, Inv, Typed, TypeOK
  <2>3. ProcessOK(p)'
    BY <1>1, <1>4, <1>6, <2>1, <2>2 DEF ProcessOK, Inv, observed
  <2>4. \A q \in Proc \ {p} : fd'[q] = fd[q]
    BY <1>6 DEF Inv, Typed, TypeOK
  <2> QED
    BY <1>1, <1>4, <1>6, <2>3, <2>4, GoOnKeepsInv DEF Inv
<1> QED
  BY <1>5, <1>6 DEF SaveFlush, SeenFaultsOnly, Fault

\* What the rename makes of the DB.
LEMMA RenameSavesNext ==
  ASSUME Inv, NEW p \in Proc, pc[p] = "rename", tmp # None, db' = tmp
  PROVE  DbText' = NextDb(p) /\ db' = NextDb(p) /\ mem[p] = NextDb(p)
<1>1. tmp = NextDb(p) /\ mem[p] = NextDb(p)
  BY DEF Inv, ProcessOK
<1> QED
  BY <1>1 DEF DbText

LEMMA SaveRenameKeepsInv ==
  ASSUME SeenFaultsOnly, Inv, Typed', NEW p \in Proc, SaveRename(p)
  PROVE  Inv'
<1>1. pc[p] = "rename" /\ UNCHANGED <<crl, observed>> /\ fd[p] = "none" /\ mem[p] = NextDb(p)
  BY DEF SaveRename, Inv, ProcessOK
<1>2. CASE Exit(p) /\ UNCHANGED db
  BY <1>1, <1>2, ExitKeepsInv, ObservedKept DEF Inv
<1>3. CASE /\ tmp # None /\ db' = tmp
           /\ fd' = [q \in Proc |-> CASE fd[q] = "tmp" -> "db"
                                      [] fd[q] = "db"  -> "orphan"
                                      [] OTHER         -> fd[q]]
           /\ GoTo(p, "report")
           /\ UNCHANGED <<want, mem>>
  <2>1. DbText' = NextDb(p) /\ db' = NextDb(p)
    BY <1>1, <1>3, RenameSavesNext
  <2>2. DbText'.tail = "whole" /\ EntrySet(DbText) \subseteq EntrySet(DbText')
        /\ DbText'.num \in {DbText.num, DbText.num + 1} /\ DbText.num \in Nat
    BY <2>1, NextDbEntries, DbTextType, TextFields DEF Inv, Typed, TypeOK
  <2>3. RevocationsDurable' /\ CrlsWithinDb' /\ NewerCrlsGrow'
    BY <1>1, <2>2 DEF Inv, ObservedOK, RevocationsDurable, CrlsWithinDb, NewerCrlsGrow, observed,
                      SerialsOf
  <2>4. NumbersOK'
    <3>1. \A c \in published : c.number \in Nat /\ c.number <= DbText.num + 1
      BY DEF Inv, Typed, TypeOK, Crl, ObservedOK, NumbersOK
    <3>2. \A c \in issuedOk : c \in published /\ c.number <= DbText.num
      BY DEF Inv, ObservedOK, NumbersOK
    <3> QED
      BY <1>1, <2>2, <3>1, <3>2 DEF NumbersOK, observed
  <2>5. \A q \in Proc : fd'[q] = fd[q]
    BY <1>1, <1>3, Alone DEF Inv, Typed, TypeOK
  <2>6. want[p] # None => want[p].serial \in SerialsOf(EntrySet(DbText'))
    BY <2>1, NextDbEntries DEF SerialsOf
  <2>7. pc'[p] = "report"
    BY <1>3 DEF GoTo, Inv, Typed, TypeOK
  <2>8. ProcessOK(p)'
    BY <1>1, <1>3, <2>1, <2>5, <2>6, <2>7 DEF ProcessOK, Inv, observed
  <2> QED
    BY <1>1, <1>3, <2>2, <2>3, <2>4, <2>5, <2>8, GoOnKeepsInv DEF ObservedOK
<1> QED
  BY <1>2, <1>3 DEF SaveRename

LEMMA ReportKeepsInv ==
  ASSUME Inv, Typed', NEW p \in Proc, Report(p)
  PROVE  Inv'
<1>1. pc[p] = "report" /\ Exit(p) /\ UNCHANGED <<files, published>> /\ db = mem[p]
  BY DEF Report, Inv, ProcessOK
<1>2. DbText' = DbText /\ mem[p] = DbText
  BY <1>1, NoneAssumption DEF files, DbText, Inv, Typed, TypeOK
<1>3. CASE want[p] = None /\ issuedOk' = issuedOk \cup {CrlOf(mem[p])} /\ UNCHANGED revokedOk
  <2>1. CrlOf(mem[p]) \in published
        /\ CrlOf(mem[p]).number = DbText.num /\ CrlOf(mem[p]).revoked = EntrySet(DbText)
    BY <1>1, <1>2, <1>3 DEF Inv, ProcessOK, CrlOf
  <2>2. DbText.num \in Nat
    BY DbTextType, TextFields DEF Inv, Typed, TypeOK
  <2>3. ObservedOK'
    BY <1>1, <1>2, <1>3, <2>1, <2>2
       DEF Inv, ObservedOK, RevocationsDurable, CrlsWithinDb, NewerCrlsGrow, NumbersOK
  <2> QED
    BY <1>1, <1>2, <2>3, ExitKeepsInv DEF Inv
<1>4. CASE want[p] # None /\ revokedOk' = revokedOk \cup {want[p].serial} /\ UNCHANGED issuedOk
  <2>1. want[p].serial \in SerialsOf(EntrySet(DbText))
    BY <1>1, <1>4 DEF Inv, ProcessOK
  <2>2. ObservedOK'
    BY <1>1, <1>2, <1>4, <2>1
       DEF Inv, ObservedOK, RevocationsDurable, CrlsWithinDb, NewerCrlsGrow, NumbersOK
  <2> QED
    BY <1>1, <1>2, <2>2, ExitKeepsInv DEF Inv
<1> QED
  BY <1>3, <1>4 DEF Report

LEMMA InvStep == SeenFaultsOnly /\ Inv /\ [Next]_vars => Inv'
<1> SUFFICES ASSUME SeenFaultsOnly, Inv, [Next]_vars PROVE Inv'
  OBVIOUS
<1>1. Typed'
  BY TypedStep DEF Inv
<1>2. ASSUME NEW p \in Proc, NEW s \in Serial, NEW r \in Reason, RevokeStart(p, s, r)
      PROVE  Inv'
  BY <1>1, <1>2, StartKeepsInv DEF RevokeStart
<1>3. ASSUME NEW p \in Proc, CrlIssueStart(p) PROVE Inv'
  BY <1>1, <1>3, StartKeepsInv DEF CrlIssueStart
<1>4. ASSUME NEW p \in Proc, Advance(p) PROVE Inv'
  BY <1>1, <1>4, LoadKeepsInv, CrlOpenKeepsInv, CrlWriteKeepsInv, SaveOpenKeepsInv,
     SaveFlushKeepsInv, SaveRenameKeepsInv, ReportKeepsInv DEF Advance
<1>5. ASSUME NEW p \in Proc, Crash(p) PROVE Inv'
  BY <1>1, <1>5, ExitKeepsInv, ObservedKept DEF Crash, Inv, files
<1>6. CASE UNCHANGED vars
  <2>1. ObservedOK' /\ DbText' = DbText
    BY <1>6, ObservedKept DEF Inv, vars, files
  <2> QED
    BY <1>1, <1>6, <2>1
       DEF Inv, OneAtATime, ProcessOK, NextDb, vars, files, local, observed
<1> QED
  BY <1>2, <1>3, <1>4, <1>5, <1>6 DEF Next

-----------------------------------------------------------------------------
\* The theorems.

LEMMA InvAlways == ASSUME SeenFaultsOnly PROVE Spec => []Inv
<1>1. Init => Inv
  BY InvInit
<1>2. Inv /\ [Next]_vars => Inv'
  BY InvStep
<1> QED
  BY <1>1, <1>2, PTL DEF Spec

\* A revocation that was reported is in the DB for good.
THEOREM Durable == ASSUME SeenFaultsOnly PROVE Spec => []RevocationsDurable
<1>1. Inv => RevocationsDurable
  BY DEF Inv, ObservedOK
<1> QED
  BY <1>1, InvAlways, PTL

\* No CRL handed out lists what the DB does not.
THEOREM WithinDb == ASSUME SeenFaultsOnly PROVE Spec => []CrlsWithinDb
<1>1. Inv => CrlsWithinDb
  BY DEF Inv, ObservedOK
<1> QED
  BY <1>1, InvAlways, PTL

\* CRLs with higher numbers take no revocation back.
THEOREM CrlsGrow == ASSUME SeenFaultsOnly PROVE Spec => []NewerCrlsGrow
<1>1. Inv => NewerCrlsGrow
  BY DEF Inv, ObservedOK
<1> QED
  BY <1>1, InvAlways, PTL

-----------------------------------------------------------------------------
\* How the DB moves: only a rename changes it, and what it changes it to.

LEMMA DbMoves ==
  ASSUME SeenFaultsOnly, Inv, [Next]_vars
  PROVE  \/ UNCHANGED db
         \/ \E p \in Proc : /\ pc[p] = "rename" /\ tmp # None /\ db' = tmp
                            /\ UNCHANGED <<crl, published, issuedOk, revokedOk>>
<1>1. ASSUME NEW p \in Proc, SaveFlush(p) PROVE UNCHANGED db
  <2>1. PICK t \in FirstBytes(mem[p]) \cup {mem[p]} : WriteThrough(p, t)
    BY <1>1 DEF SaveFlush
  <2> QED
    BY <1>1, <2>1, FlushWritesNext DEF SaveFlush
<1>2. ASSUME NEW p \in Proc, Load(p) PROVE UNCHANGED db
  BY <1>2 DEF Load, RevokeLoaded, CrlIssueLoaded, files
<1>3. CASE UNCHANGED vars
  BY <1>3 DEF vars, files
<1> QED
  BY <1>1, <1>2, <1>3
     DEF Next, Advance, RevokeStart, CrlIssueStart, CrlOpen, CrlWrite, SaveOpen, SaveRename, Report,
         Crash, files, observed

\* How published moves: only the write of a CRL adds one, the CRL of the whole DB.
LEMMA PublishedMoves ==
  ASSUME SeenFaultsOnly, Inv, [Next]_vars
  PROVE  \/ UNCHANGED published
         \/ /\ published' = published \cup {[number |-> DbText.num + 1, revoked |-> EntrySet(DbText)]}
            /\ UNCHANGED <<db, issuedOk, revokedOk>>
            /\ crl' = [number |-> DbText.num + 1, revoked |-> EntrySet(DbText)]
<1>1. ASSUME NEW p \in Proc, CrlWrite(p), ~UNCHANGED published
      PROVE  /\ published' = published \cup {[number |-> DbText.num + 1, revoked |-> EntrySet(DbText)]}
             /\ UNCHANGED <<db, issuedOk, revokedOk>>
             /\ crl' = [number |-> DbText.num + 1, revoked |-> EntrySet(DbText)]
  <2>1. want[p] = None /\ mem[p] = NextDb(p)
    BY <1>1 DEF CrlWrite, Inv, ProcessOK
  <2>2. CrlOf(mem[p]) = [number |-> DbText.num + 1, revoked |-> EntrySet(DbText)]
    BY <2>1, CrlOfNext
  <2> QED
    BY <1>1, <2>2 DEF CrlWrite
<1>2. ASSUME NEW p \in Proc, Load(p) PROVE UNCHANGED published
  BY <1>2 DEF Load, RevokeLoaded, CrlIssueLoaded, observed
<1>3. CASE UNCHANGED vars
  BY <1>3 DEF vars, observed
<1> QED
  BY <1>1, <1>2, <1>3
     DEF Next, Advance, RevokeStart, CrlIssueStart, CrlOpen, SaveOpen, SaveFlush, SaveRename,
         Report, Crash, observed

\* Entries keep their place, their date and their reason.
THEOREM FirstStands == ASSUME SeenFaultsOnly PROVE Spec => FirstRevocationStands
<1> DEFINE A == /\ Len(DbText'.entries) >= Len(DbText.entries)
                /\ \A i \in 1..Len(DbText.entries) : DbText'.entries[i] = DbText.entries[i]
<1>1. ASSUME Inv, [Next]_vars PROVE [A]_vars
  <2>1. DbText \in Text /\ DbText.entries \in Seq(Entry) /\ Len(DbText.entries) \in Nat
    BY <1>1, DbTextType, TextFields DEF Inv, Typed, TypeOK
  <2>2. CASE UNCHANGED db
    BY <2>1, <2>2 DEF DbText
  <2>3. ASSUME NEW p \in Proc, pc[p] = "rename", tmp # None, db' = tmp
        PROVE  A
    <3>1. DbText' = NextDb(p)
      BY <1>1, <2>3, RenameSavesNext
    <3>2. CASE want[p] = None
      BY <1>1, <2>1, <3>1, <3>2, NextDbEntries
    <3>3. CASE want[p] # None
      <4>1. want[p] \in Entry /\ DbText'.entries = Append(DbText.entries, want[p])
        BY <1>1, <3>1, <3>3, NextDbEntries, WantedEntry DEF Inv, Typed
      <4> QED
        BY <2>1, <4>1, AppendProperties
    <3> QED
      BY <3>2, <3>3
  <2> QED
    BY <1>1, <2>2, <2>3, DbMoves
<1> QED
  BY <1>1, InvAlways, PTL DEF Spec, FirstRevocationStands

\* Every CRL handed out lists everything that was reported as revoked.
THEOREM CoversRevocations == ASSUME SeenFaultsOnly PROVE Spec => CrlCoversRevocations
<1> DEFINE A == published' # published =>
                   \A c \in published' \ published : revokedOk \subseteq SerialsOf(c.revoked)
<1>1. ASSUME Inv, [Next]_vars PROVE [A]_vars
  BY <1>1, PublishedMoves DEF Inv, ObservedOK, RevocationsDurable
<1> QED
  BY <1>1, InvAlways, PTL DEF Spec, CrlCoversRevocations

\* The number of a CRL whose crl-issue exited 0 is never given out again.
THEOREM NumbersUsedUp == ASSUME SeenFaultsOnly PROVE Spec => ReportedNumbersAreUsedUp
<1> DEFINE A == \A c \in published' \ published : \A a \in issuedOk : a.number < c.number
<1>1. ASSUME Inv, [Next]_vars PROVE [A]_vars
  <2>1. DbText.num \in Nat
    BY <1>1, DbTextType, TextFields DEF Inv, Typed, TypeOK
  <2>2. \A a \in issuedOk : a.number \in Nat /\ a.number <= DbText.num
    BY <1>1 DEF Inv, Typed, TypeOK, Crl, ObservedOK, NumbersOK
  <2> QED
    BY <1>1, <2>1, <2>2, PublishedMoves
<1> QED
  BY <1>1, InvAlways, PTL DEF Spec, ReportedNumbersAreUsedUp

\* The store implements the register: every step is a step of the register or leaves it
\* alone, so a killed or failed command is all or nothing to whoever reads the DB.
THEOREM Implements == ASSUME SeenFaultsOnly PROVE Spec => RefinesRegister
<1>1. Init => Register!Init
  BY TextOfFields DEF Init, Register!Init, DbText, Blank
<1>2. ASSUME Inv, [Next]_vars PROVE [Register!Next]_Register!vars
  <2>1. Register!Listed = EntrySet(DbText)
    BY DEF Register!Listed, EntrySet
  <2>2. ASSUME NEW p \in Proc, pc[p] = "rename", tmp # None, db' = tmp, UNCHANGED crl
        PROVE  Register!Next
    <3>1. DbText' = NextDb(p) /\ mem[p] = NextDb(p)
      BY <1>2, <2>2, RenameSavesNext
    <3>2. CASE want[p] = None
      <4>1. crl = CrlOf(mem[p])
        BY <1>2, <2>2, <3>2 DEF Inv, ProcessOK
      <4>2. CrlOf(mem[p]) = [number |-> DbText.num + 1, revoked |-> EntrySet(DbText)]
        BY <1>2, <3>1, <3>2, CrlOfNext
      <4>3. Register!Commit
        BY <1>2, <2>1, <2>2, <3>1, <3>2, <4>1, <4>2, NextDbEntries DEF Register!Commit
      <4> QED
        BY <4>3 DEF Register!Next
    <3>3. CASE want[p] # None
      <4>1. PICK s \in Serial, r \in Reason : want[p] = [serial |-> s, reason |-> r]
        BY <1>2, <3>3 DEF Inv, Typed, TypeOK
      <4>2. \A e \in EntrySet(DbText) : e.serial # s
        BY <1>2, <2>2, <3>3, <4>1 DEF Inv, ProcessOK, SerialsOf
      <4>3. Register!Revoke(s, r)
        BY <1>2, <2>1, <2>2, <3>1, <3>3, <4>1, <4>2, NextDbEntries DEF Register!Revoke
      <4> QED
        BY <4>3 DEF Register!Next
    <3> QED
      BY <3>2, <3>3
  <2>3. ASSUME NEW p \in Proc, CrlOpen(p), crl' # crl PROVE Register!Next
    BY <2>3 DEF CrlOpen, DbText, Register!Next, Register!Withdraw
  <2>4. ASSUME NEW p \in Proc, CrlWrite(p), crl' # crl PROVE Register!Next
    <3>1. want[p] = None /\ mem[p] = NextDb(p)
      BY <1>2, <2>4 DEF CrlWrite, Inv, ProcessOK
    <3>2. crl' = [number |-> DbText.num + 1, revoked |-> EntrySet(DbText)] /\ UNCHANGED db
      BY <1>2, <2>4, <3>1, CrlOfNext DEF CrlWrite
    <3> QED
      BY <2>1, <3>2 DEF DbText, Register!Next, Register!Publish
  <2>5. \/ UNCHANGED crl
        \/ \E p \in Proc : CrlOpen(p) \/ CrlWrite(p)
    <3>1. ASSUME NEW p \in Proc, Load(p) PROVE UNCHANGED crl
      BY <3>1 DEF Load, RevokeLoaded, CrlIssueLoaded, files
    <3>2. CASE UNCHANGED vars
      BY <3>2 DEF vars, files
    <3> QED
      BY <1>2, <3>1, <3>2 DEF Next, Advance, RevokeStart, CrlIssueStart, SaveOpen, SaveFlush,
                              SaveRename, Report, Crash, files
  <2>6. CASE UNCHANGED <<db, crl>>
    BY <2>6 DEF DbText, Register!vars
  <2> QED
    BY <1>2, <2>2, <2>3, <2>4, <2>5, <2>6, DbMoves
<1> QED
  BY <1>1, <1>2, InvAlways, PTL DEF Spec, RefinesRegister, Register!Spec
=============================================================================
