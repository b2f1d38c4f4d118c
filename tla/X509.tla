---------------------------------- MODULE X509 ----------------------------------
(***************************************************************************)
(* What the vendor chains of SGX, TDX and SEV-SNP ask of OpenSSL: whether a*)
(* certificate leads to a trust anchor.  A certificate is a record with, at*)
(* least, subject, issuer, key, signer (the key that signed it), use ("ca" *)
(* or "leaf") and life ("valid" or "over").                                *)
(***************************************************************************)
EXTENDS Integers, Sequences, FiniteSets

Issued(i, c) == i.subject = c.issuer /\ i.key = c.signer /\ i.use = "ca"

\* X509_verify_cert: c leads to the anchor root through some of the untrusted certificates.
\* The anchor's own signature is not looked at.  OpenSSL follows one path, chosen by names
\* and key identifiers, where this takes any: it accepts all that OpenSSL accepts.
X509Verifies(c, untrusted, root) ==
    \E n \in 0..Cardinality(untrusted) : \E path \in [1..n -> untrusted] :
        LET all == <<c>> \o path \o <<root>>
        IN  /\ \A i \in 1..(n + 1) : Issued(all[i + 1], all[i])
            /\ \A i \in 1..(n + 2) : all[i].life = "valid"

-----------------------------------------------------------------------------
\* What properties compare with: the keys that the owners of the root keys answer for, which
\* are the roots and the key of every CA, among certs, that such a key signed.
ClosedUnder(K, certs, roots) ==
    /\ roots \subseteq K
    /\ \A c \in certs : c.use = "ca" /\ c.signer \in K => c.key \in K

VouchedKeys(keys, certs, roots) ==
    {k \in keys : \A K \in SUBSET keys : ClosedUnder(K, certs, roots) => k \in K}
=============================================================================
