-------------------------------- MODULE CaFiles --------------------------------
(***************************************************************************)
(* The two files of the CA, ca.key and ca.crt: written by ca-init, one     *)
(* system call after the other, and read by provision and crl-issue, one   *)
(* after the other.  ca-init looks whether the files exist before it       *)
(* writes; nothing locks them and neither file is replaced atomically.     *)
(*                                                                         *)
(* A key stands for its PEM text and for the certificate made for it.  The *)
(* texts are short enough to stay in the ofstream's buffer until close(),  *)
(* whose result write_file does not look at.                               *)
(***************************************************************************)
EXTENDS Integers, Files

CONSTANTS
    Proc,        \* processes that run ca-init, provision or crl-issue
    Key,         \* key pairs that gen_ec_key may return
    Faults       \* the kinds of fault that may happen

\* crash      the process dies between two system calls
\* ioerror    open or chmod fails and the code sees it
\* diskfull   bytes buffered by an ofstream are lost when it is closed
ASSUME CaFilesAssumption ==
    /\ None \notin Key /\ Torn \notin Key /\ None # Torn
    /\ Faults \subseteq {"crash", "ioerror", "diskfull"}
    /\ MaxFaults \in Nat

VARIABLES
    keyFile,    \* ca.key: the Key it holds, Torn or None
    keyMode,    \* its permissions: what the umask leaves, or 0600
    crtFile,    \* ca.crt: the Key its certificate is for, Torn or None
    pc,         \* pc[p]: the next system call of process p
    mine,       \* mine[p]: the key that p made or loaded, or None
    forced,     \* processes in a ca-init with --force
    faults,     \* faults so far
    \* Observed, never read by an action (but for the freshness of keys).
    made,       \* keys that gen_ec_key returned
    settled,    \* key of the last ca-init that exited 0, unless one with --force runs or ran since
    certified,  \* keys whose certificate was in ca.crt, whole, at some time
    signed,     \* keys that provision or crl-issue signed with
    course      \* "calm" until a command starts while another runs or a write is lost unseen

caFiles == <<keyFile, keyMode, crtFile>>
local == <<pc, mine, forced>>
observed == <<made, settled, certified, signed, course>>
vars == <<caFiles, local, faults, observed>>

-----------------------------------------------------------------------------
Init ==
    /\ keyFile = None /\ keyMode = "default" /\ crtFile = None
    /\ pc = [p \in Proc |-> "idle"]
    /\ mine = [p \in Proc |-> None]
    /\ forced = {}
    /\ faults = 0
    /\ made = {} /\ settled = None /\ certified = {} /\ signed = {}
    /\ course = "calm"

Fault(f) ==
    /\ f \in Faults
    /\ faults < MaxFaults
    /\ faults' = faults + 1

GoTo(p, l) == pc' = [pc EXCEPT ![p] = l]

Exit(p) ==
    /\ GoTo(p, "idle")
    /\ mine' = [mine EXCEPT ![p] = None]
    /\ forced' = forced \ {p}

\* A call that fails and is seen to: an exception ends the command.
Fails(p) == Fault("ioerror") /\ Exit(p) /\ UNCHANGED <<caFiles, observed>>

\* Nothing keeps a command from starting while others run.
Starts(p) ==
    /\ pc[p] = "idle"
    /\ course' = IF \A q \in Proc : pc[q] = "idle" THEN course ELSE "disturbed"

-----------------------------------------------------------------------------
\* ca-init.  With --force it does not look at the files.
CaInitStart(p) ==
    /\ Starts(p)
    /\ Key \ made # {}
    /\ GoTo(p, "statkey")
    /\ UNCHANGED <<caFiles, mine, forced, faults, made, settled, certified, signed>>

CaInitForceStart(p) ==
    /\ Starts(p)
    /\ Key \ made # {}
    /\ GoTo(p, "openkey")
    /\ forced' = forced \cup {p}
    /\ settled' = None
    /\ UNCHANGED <<caFiles, mine, faults, made, certified, signed>>

\* Mutant of StatKey: a file that is there does not stop ca-init.
StatKeySkipped(p) ==
    /\ pc[p] = "statkey"
    /\ GoTo(p, "openkey")
    /\ UNCHANGED <<mine, forced, caFiles, faults, observed>>

StatKey(p) ==
    /\ pc[p] = "statkey"
    /\ IF keyFile # None THEN Exit(p) ELSE GoTo(p, "statcrt") /\ UNCHANGED <<mine, forced>>
    /\ UNCHANGED <<caFiles, faults, observed>>

StatCrt(p) ==
    /\ pc[p] = "statcrt"
    /\ IF crtFile # None THEN Exit(p) ELSE GoTo(p, "openkey") /\ UNCHANGED <<mine, forced>>
    /\ UNCHANGED <<caFiles, faults, observed>>

\* A key is made, and the certificate is built and signed in memory; then write_file
\* truncates ca.key, or creates it with the permissions that the umask leaves.
OpenKey(p) ==
    /\ pc[p] = "openkey"
    /\ \/ \E k \in Key \ made :
             /\ made' = made \cup {k}
             /\ mine' = [mine EXCEPT ![p] = k]
             /\ keyFile' = Torn
             /\ GoTo(p, "writekey")
             /\ UNCHANGED <<keyMode, crtFile, forced, faults, settled, certified, signed, course>>
       \/ Fails(p)

WriteKey(p) ==
    /\ pc[p] = "writekey"
    /\ \/ keyFile' = mine[p] /\ UNCHANGED <<faults, course>>
       \/ Fault("diskfull") /\ course' = "disturbed" /\ UNCHANGED keyFile
    /\ GoTo(p, "chmodkey")
    /\ UNCHANGED <<keyMode, crtFile, mine, forced, made, settled, certified, signed>>

\* Mutant of ChmodKey: a failing chmod is not looked at.
ChmodKeyUnchecked(p) ==
    /\ pc[p] = "chmodkey"
    /\ \/ keyMode' = "0600" /\ UNCHANGED faults
       \/ Fault("ioerror") /\ UNCHANGED keyMode
    /\ GoTo(p, "opencrt")
    /\ UNCHANGED <<keyFile, crtFile, mine, forced, observed>>

ChmodKey(p) ==
    /\ pc[p] = "chmodkey"
    /\ \/ /\ keyMode' = "0600"
          /\ GoTo(p, "opencrt")
          /\ UNCHANGED <<keyFile, crtFile, mine, forced, faults, observed>>
       \/ Fails(p)

OpenCrt(p) ==
    /\ pc[p] = "opencrt"
    /\ \/ /\ crtFile' = Torn
          /\ GoTo(p, "writecrt")
          /\ UNCHANGED <<keyFile, keyMode, mine, forced, faults, observed>>
       \/ Fails(p)

WriteCrt(p) ==
    /\ pc[p] = "writecrt"
    /\ \/ /\ crtFile' = mine[p]
          /\ certified' = certified \cup {mine[p]}
          /\ UNCHANGED <<faults, course>>
       \/ Fault("diskfull") /\ course' = "disturbed" /\ UNCHANGED <<crtFile, certified>>
    /\ GoTo(p, "chmodcrt")
    /\ UNCHANGED <<keyFile, keyMode, mine, forced, made, settled, signed>>

\* After the last chmod the command prints what it made and exits 0.
ChmodCrt(p) ==
    /\ pc[p] = "chmodcrt"
    /\ \/ /\ settled' = IF forced \subseteq {p} THEN mine[p] ELSE None
          /\ Exit(p)
          /\ UNCHANGED <<caFiles, faults, made, certified, signed, course>>
       \/ Fails(p)

-----------------------------------------------------------------------------
\* provision and crl-issue: the key is loaded, then the certificate; they must match.
LoadStart(p) ==
    /\ Starts(p)
    /\ GoTo(p, "loadkey")
    /\ UNCHANGED <<caFiles, mine, forced, faults, made, settled, certified, signed>>

\* Mutant of LoadKey: a file without a whole key is taken for one.
LoadKeyUnparsed(p) ==
    /\ pc[p] = "loadkey"
    /\ IF keyFile # None
       THEN /\ GoTo(p, "loadcrt")
            /\ mine' = [mine EXCEPT ![p] = keyFile]
            /\ UNCHANGED forced
       ELSE Exit(p)
    /\ UNCHANGED <<caFiles, faults, observed>>

LoadKey(p) ==
    /\ pc[p] = "loadkey"
    /\ IF keyFile \in Key
       THEN /\ GoTo(p, "loadcrt")
            /\ mine' = [mine EXCEPT ![p] = keyFile]
            /\ UNCHANGED forced
       ELSE Exit(p)
    /\ UNCHANGED <<caFiles, faults, observed>>

\* Mutant of LoadCrt: the key is not compared with the certificate's.
LoadCrtUnchecked(p) ==
    /\ pc[p] = "loadcrt"
    /\ signed' = IF crtFile \in Key THEN signed \cup {mine[p]} ELSE signed
    /\ Exit(p)
    /\ UNCHANGED <<caFiles, faults, made, settled, certified, course>>

LoadCrt(p) ==
    /\ pc[p] = "loadcrt"
    /\ signed' = IF crtFile = mine[p] THEN signed \cup {mine[p]} ELSE signed
    /\ Exit(p)
    /\ UNCHANGED <<caFiles, faults, made, settled, certified, course>>

Crash(p) ==
    /\ pc[p] # "idle"
    /\ Fault("crash")
    /\ Exit(p)
    /\ UNCHANGED <<caFiles, observed>>

Advance(p) ==
    StatKey(p) \/ StatCrt(p) \/ OpenKey(p) \/ WriteKey(p) \/ ChmodKey(p) \/ OpenCrt(p)
    \/ WriteCrt(p) \/ ChmodCrt(p) \/ LoadKey(p) \/ LoadCrt(p)

Next ==
    \E p \in Proc :
        CaInitStart(p) \/ CaInitForceStart(p) \/ LoadStart(p) \/ Advance(p) \/ Crash(p)

Spec == Init /\ [][Next]_vars

-----------------------------------------------------------------------------
\* Properties.

\* The type invariant.
TypeOK ==
    /\ keyFile \in Key \cup {Torn, None} /\ crtFile \in Key \cup {Torn, None}
    /\ keyMode \in {"default", "0600"}
    /\ pc \in [Proc -> {"idle", "statkey", "statcrt", "openkey", "writekey", "chmodkey",
                        "opencrt", "writecrt", "chmodcrt", "loadkey", "loadcrt"}]
    /\ mine \in [Proc -> Key \cup {None}]
    /\ forced \subseteq Proc
    /\ faults \in Nat
    /\ made \subseteq Key /\ certified \subseteq Key /\ signed \subseteq Key
    /\ settled \in Key \cup {None}
    /\ course \in {"calm", "disturbed"}

\* A CA that ca-init reported stands until --force is given: as long as commands run one at
\* a time and no write is lost unseen, later runs without --force may fail or die where they
\* like, and both files still hold it (run_ca_init's path_exists checks).
ReportedCaStands ==
    course = "calm" /\ settled # None => keyFile = settled /\ crtFile = settled

\* Permissions come first: as soon as ca.crt holds a certificate, so that the key can be
\* used, ca.key is readable by its owner only, and so it stays when it is written again.
CertifiedKeyIsProtected == crtFile \in Key => keyMode = "0600"

\* Nothing is ever signed with a key whose certificate was in no ca.crt: the leftover of a
\* ca-init that died, or of one that another ca-init raced, is refused by the loaders.
SignedIsCertified == signed \subseteq certified
=============================================================================
