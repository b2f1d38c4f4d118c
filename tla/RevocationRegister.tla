--------------------------- MODULE RevocationRegister ---------------------------
(***************************************************************************)
(* What revocation promises its users, without processes, temporary files  *)
(* or faults: an append-only register of revoked serials, a CRL counter,   *)
(* and one CRL at a time that is either unavailable or lists the register  *)
(* as it was when that CRL was made.                                       *)
(***************************************************************************)
EXTENDS Integers, Sequences

CONSTANTS Serial, Reason, None, Torn

VARIABLES entries, number, crl

vars == <<entries, number, crl>>

Listed == {entries[i] : i \in 1..Len(entries)}

Init == entries = <<>> /\ number = 0 /\ crl = None

\* revoke: a serial is added once, at the end; nothing listed ever changes.
Revoke(s, r) ==
    /\ \A e \in Listed : e.serial # s
    /\ entries' = Append(entries, [serial |-> s, reason |-> r])
    /\ UNCHANGED <<number, crl>>

\* crl-issue: the CRL is taken away, replaced by one that lists the whole register under
\* the next number, and only then the number is used up.
Withdraw == crl' = Torn /\ UNCHANGED <<entries, number>>

Publish ==
    /\ crl' = [number |-> number + 1, revoked |-> Listed]
    /\ UNCHANGED <<entries, number>>

Commit ==
    /\ crl = [number |-> number + 1, revoked |-> Listed]
    /\ number' = number + 1
    /\ UNCHANGED <<entries, crl>>

Next ==
    \/ \E s \in Serial, r \in Reason : Revoke(s, r)
    \/ Withdraw
    \/ Publish
    \/ Commit

Spec == Init /\ [][Next]_vars
=============================================================================
