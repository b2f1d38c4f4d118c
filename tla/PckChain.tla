------------------------------- MODULE PckChain -------------------------------
(***************************************************************************)
(* verify_pck_chain: from the certificates found in an SGX or TD quote, in *)
(* whatever order, to the PCK certificate of the platform.                 *)
(***************************************************************************)
EXTENDS X509

CONSTANTS
    Name, CertKey, Ppid, NoPpid,
    PinnedRoot    \* the Intel SGX Root CA public key in intel_sgx_root_pubkey.hpp

\* A certificate; signer is the key that signed it, ppid the value in its SGX extension.
Cert == [subject : Name, issuer : Name, key : CertKey, signer : CertKey,
         use : {"ca", "leaf"}, life : {"valid", "over"}, ppid : Ppid \cup {NoPpid}]

NoLeaf == 0

\* find_leaf and verify_pck_chain work on positions of the chain, so that a certificate
\* that occurs twice stays two certificates.

\* By its names only.
SelfSigned(c) == c.subject = c.issuer

\* The least of a set of positions, NoLeaf if there is none.
First(S) == IF S = {} THEN NoLeaf ELSE CHOOSE i \in S : \A j \in S : i <= j

\* Mutant of FindLeaf: the order that DCAP writes is relied on.
FindLeafFirst(chain) == IF chain = <<>> THEN NoLeaf ELSE 1

\* find_leaf: the first that is not self-signed and that no other names as its issuer.
FindLeaf(chain) ==
    First({i \in DOMAIN chain :
              /\ ~SelfSigned(chain[i])
              /\ \A j \in DOMAIN chain \ {i} : chain[j].issuer # chain[i].subject})

FindRoot(chain) == First({i \in DOMAIN chain : SelfSigned(chain[i])})

\* Mutant of VerifyPckChain: the key of the root is not compared with the pinned one.
VerifyPckChainUnpinned(chain) ==
    LET root == FindRoot(chain)
        leaf == FindLeaf(chain)
        rest == {chain[i] : i \in DOMAIN chain \ {root, leaf}}
    IN  IF /\ root # NoLeaf /\ leaf # NoLeaf
           /\ X509Verifies(chain[leaf], rest, chain[root])
        THEN leaf
        ELSE NoLeaf

\* The position of the verified leaf, or NoLeaf where verify_pck_chain throws.
VerifyPckChain(chain) ==
    LET root == FindRoot(chain)
        leaf == FindLeaf(chain)
        rest == {chain[i] : i \in DOMAIN chain \ {root, leaf}}
    IN  IF /\ root # NoLeaf
           /\ chain[root].key = PinnedRoot
           /\ leaf # NoLeaf
           /\ X509Verifies(chain[leaf], rest, chain[root])
        THEN leaf
        ELSE NoLeaf

\* ppid_from_pck_chain: the PPID of the verified leaf, or NoPpid where it throws.
PpidFromPckChain(chain) ==
    LET leaf == VerifyPckChain(chain)
    IN  IF leaf = NoLeaf THEN NoPpid ELSE chain[leaf].ppid
=============================================================================
