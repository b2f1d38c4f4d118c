--------------------------- MODULE PckEvidenceProofs ---------------------------
(***************************************************************************)
(* What holds of the walk over a quote, and of the chain it carries, for   *)
(* quotes of any size that hold anything: no read outside of the quote,    *)
(* and no PPID but from a certificate that leads to the pinned root key.   *)
(***************************************************************************)
EXTENDS PckEvidence, FiniteSetTheorems, WellFoundedInduction, TLAPS

-----------------------------------------------------------------------------
\* A certificate that OpenSSL verifies leads back, over paths of any length, to the keys that
\* the root's owner answers for.

(***************************************************************************)
(* Every nonempty set of naturals has a least element.  It stands in for   *)
(* induction: a statement about all naturals is proved by refuting its     *)
(* least counterexample.  The intervals 0..x are finite sets, on which     *)
(* strict inclusion is well-founded.                                       *)
(***************************************************************************)
LEMMA LeastNatural ==
  ASSUME NEW T, T \subseteq Nat, T # {}
  PROVE  \E x \in T : \A y \in T : x <= y
<1> DEFINE UpTo(x) == 0..x
           D == {UpTo(x) : x \in T}
<1>1. D \subseteq FiniteSubsetsOf(Nat)
  <2> SUFFICES ASSUME NEW x \in T PROVE 0..x \in FiniteSubsetsOf(Nat)
    OBVIOUS
  <2>1. IsFiniteSet(0..x)
    BY FS_Interval
  <2>2. 0..x \in SUBSET Nat
    OBVIOUS
  <2> QED
    BY <2>1, <2>2 DEF FiniteSubsetsOf
<1>2. PICK d \in D : \A e \in D : ~ (<<e, d>> \in StrictSubsetOrdering(Nat))
  <2>1. D # {}
    OBVIOUS
  <2> QED
    BY <1>1, <2>1, FS_StrictSubsetOrderingWellFounded, WFMin
<1>3. PICK x \in T : d = UpTo(x)
  OBVIOUS
<1>4. ASSUME NEW y \in T, y < x
      PROVE  FALSE
  <2>1. UpTo(y) \subseteq UpTo(x) /\ UpTo(y) # UpTo(x) /\ UpTo(y) \in D
    <3>1. x \in UpTo(x) /\ x \notin UpTo(y)
      BY <1>4
    <3> QED
      BY <1>4, <3>1
  <2>2. UpTo(y) \in SUBSET Nat /\ UpTo(x) \in SUBSET Nat
    OBVIOUS
  <2> QED
    BY <1>2, <1>3, <2>1, <2>2 DEF StrictSubsetOrdering
<1> QED
  BY <1>4

\* A certificate that OpenSSL verifies was signed with a key that is in every closed set of
\* keys: otherwise the certificate of the path that is the nearest to the root among those
\* whose key is not in the set would have been signed by one whose key is.
LEMMA VerifiedIsClosed ==
  ASSUME NEW K, NEW certs, NEW roots, ClosedUnder(K, certs, roots),
         NEW c \in certs, NEW root \in certs,
         NEW untrusted \in SUBSET certs, IsFiniteSet(untrusted),
         root.key \in K,
         X509Verifies(c, untrusted, root)
  PROVE  c.signer \in K /\ c.life = "valid"
<1>1. Cardinality(untrusted) \in Nat
  BY FS_CardinalityType
<1>2. PICK n \in 0..Cardinality(untrusted) : \E path \in [1..n -> untrusted] :
          LET all == <<c>> \o path \o <<root>>
          IN  /\ \A i \in 1..(n + 1) : Issued(all[i + 1], all[i])
              /\ \A i \in 1..(n + 2) : all[i].life = "valid"
  BY DEF X509Verifies
<1>3. n \in Nat
  BY <1>1
<1>8. PICK path \in [1..n -> untrusted] :
          LET all == <<c>> \o path \o <<root>>
          IN  /\ \A i \in 1..(n + 1) : Issued(all[i + 1], all[i])
              /\ \A i \in 1..(n + 2) : all[i].life = "valid"
  BY <1>2
<1> DEFINE all == <<c>> \o path \o <<root>>
<1>4. /\ all[1] = c
      /\ all[n + 2] = root
      /\ \A i \in 1..(n + 2) : all[i] \in certs
  <2>1. path \in Seq(certs) /\ Len(path) = n
    BY <1>3
  <2> QED
    BY <1>3, <2>1
<1> HIDE DEF all
<1>5. /\ \A i \in 1..(n + 1) : Issued(all[i + 1], all[i])
      /\ \A i \in 1..(n + 2) : all[i].life = "valid"
  BY <1>8 DEF all
<1>6. \A i \in 2..(n + 2) : all[i].key \in K
  <2> DEFINE T == {m \in 0..n : all[n + 2 - m].key \notin K}
  <2>1. T = {}
    <3> SUFFICES ASSUME T # {} PROVE FALSE
      OBVIOUS
    <3>1. PICK m \in T : \A k \in T : m <= k
      <4>1. T \subseteq Nat
        BY <1>3
      <4> HIDE DEF T
      <4> QED
        BY <4>1, LeastNatural
    <3>2. m # 0
      BY <1>3, <1>4, <3>1 DEF ClosedUnder
    <3>3. all[n + 2 - (m - 1)].key \in K
      <4>1. m - 1 \in 0..n /\ ~(m <= m - 1)
        BY <1>3, <3>1, <3>2
      <4>2. m - 1 \notin T
        BY <3>1, <4>1
      <4> QED
        BY <4>1, <4>2
    <3> DEFINE i == n + 2 - m
    <3>4. i \in 2..(n + 1) /\ i - 1 \in 1..(n + 1)
      BY <1>3, <3>1, <3>2
    <3>5. Issued(all[i + 1], all[i]) /\ Issued(all[(i - 1) + 1], all[i - 1])
      BY <1>5, <3>4
    <3>6. n + 2 - (m - 1) = i + 1 /\ (i - 1) + 1 = i
      BY <1>3, <3>1
    <3>7. all[i].signer \in K /\ all[i].use = "ca"
      BY <3>3, <3>5, <3>6 DEF Issued
    <3>8. all[i].key \in K
      <4> HIDE DEF i
      <4>1. i \in 1..(n + 2)
        BY <1>3, <3>4
      <4>2. all[i] \in certs
        BY <1>4, <4>1
      <4> QED
        BY <3>7, <4>2 DEF ClosedUnder
    <3> QED
      BY <3>1, <3>8
  <2>2. ASSUME NEW i \in 2..(n + 2)
        PROVE  all[i].key \in K
    <3>1. n + 2 - i \in 0..n /\ n + 2 - (n + 2 - i) = i
      BY <1>3
    <3> QED
      BY <2>1, <3>1
  <2> QED
    BY <2>2
<1>7. Issued(all[2], all[1])
  BY <1>3, <1>5
<1> QED
  BY <1>3, <1>4, <1>5, <1>6, <1>7 DEF Issued

-----------------------------------------------------------------------------

\* First picks an element of a set of positions.
LEMMA FirstIsMember ==
  ASSUME NEW S, S \subseteq Nat, S # {}
  PROVE  First(S) \in S
BY LeastNatural DEF First

-----------------------------------------------------------------------------
\* The chain.

\* What verify_pck_chain returns is a position of the chain, whose certificate leads to a
\* root that has the pinned key.
LEMMA VerifiedLeaf ==
  ASSUME NEW h \in Seq(Cert), VerifyPckChain(h) # NoLeaf
  PROVE  LET leaf == VerifyPckChain(h)
         IN  /\ leaf \in DOMAIN h
             /\ \E root \in DOMAIN h, untrusted \in SUBSET {h[i] : i \in DOMAIN h} :
                    /\ h[root].key = PinnedRoot
                    /\ X509Verifies(h[leaf], untrusted, h[root])
<1> DEFINE leaf == FindLeaf(h)
           root == FindRoot(h)
           rest == {h[i] : i \in DOMAIN h \ {root, leaf}}
<1>1. /\ root # NoLeaf /\ leaf # NoLeaf
      /\ h[root].key = PinnedRoot
      /\ X509Verifies(h[leaf], rest, h[root])
      /\ VerifyPckChain(h) = leaf
  BY DEF VerifyPckChain
<1>2. DOMAIN h \subseteq Nat
  OBVIOUS
<1>3. leaf \in DOMAIN h
  <2> DEFINE S == {i \in DOMAIN h :
                      /\ ~SelfSigned(h[i])
                      /\ \A j \in DOMAIN h \ {i} : h[j].issuer # h[i].subject}
  <2>1. leaf = First(S) /\ S # {}
    BY <1>1 DEF FindLeaf, First
  <2> QED
    BY <1>2, <2>1, FirstIsMember
<1>4. root \in DOMAIN h
  <2> DEFINE S == {i \in DOMAIN h : SelfSigned(h[i])}
  <2>1. root = First(S) /\ S # {}
    BY <1>1 DEF FindRoot, First
  <2> QED
    BY <1>2, <2>1, FirstIsMember
<1> QED
  BY <1>1, <1>3, <1>4

\* PpidFromPckChain yields the PPID of a certificate whose signer Intel answers for.
LEMMA PpidOfIntels ==
  ASSUME NEW h \in Chains, PpidFromPckChain(h) # NoPpid
  PROVE  \E i \in DOMAIN h :
             /\ h[i].ppid = PpidFromPckChain(h)
             /\ h[i].signer \in IntelKeys
             /\ h[i].life = "valid"
<1> DEFINE leaf == VerifyPckChain(h)
<1>1. h \in Seq(Cert)
  BY EvidenceAssumption
<1>2. leaf # NoLeaf /\ PpidFromPckChain(h) = h[leaf].ppid
  BY DEF PpidFromPckChain
<1>3. leaf \in DOMAIN h
  BY <1>1, <1>2, VerifiedLeaf
<1>4. PICK root \in DOMAIN h, untrusted \in SUBSET {h[i] : i \in DOMAIN h} :
          /\ h[root].key = PinnedRoot
          /\ X509Verifies(h[leaf], untrusted, h[root])
  BY <1>1, <1>2, VerifiedLeaf
<1>5. {h[i] : i \in DOMAIN h} \subseteq Certificates
  BY DEF Certificates
<1>6. IsFiniteSet(untrusted)
  <2>1. h \in Surjection(DOMAIN h, {h[i] : i \in DOMAIN h})
    BY <1>1 DEF Surjection
  <2>2. IsFiniteSet(DOMAIN h)
    <3>1. DOMAIN h = 1..Len(h) /\ Len(h) \in Int
      BY <1>1
    <3>2. IsFiniteSet(1..Len(h))
      BY <3>1, FS_Interval
    <3> QED
      BY <3>1, <3>2
  <2>3. IsFiniteSet({h[i] : i \in DOMAIN h})
    BY <2>1, <2>2, FS_Surjection
  <2> QED
    BY <2>3, FS_Subset
<1>7. /\ \A K \in SUBSET CertKey : ClosedUnder(K, Certificates, {PinnedRoot}) => h[leaf].signer \in K
      /\ h[leaf].life = "valid"
  <2>1. h[leaf] \in Certificates /\ h[root] \in Certificates
        /\ untrusted \in SUBSET Certificates
    BY <1>3, <1>4, <1>5
  <2>2. ASSUME NEW K, ClosedUnder(K, Certificates, {PinnedRoot})
        PROVE  h[leaf].signer \in K /\ h[leaf].life = "valid"
    <3> HIDE DEF leaf
    <3> QED
      BY <1>4, <1>6, <2>1, <2>2, VerifiedIsClosed DEF ClosedUnder
  <2>3. \E K : ClosedUnder(K, Certificates, {PinnedRoot})
    <3>1. ClosedUnder({PinnedRoot} \cup {c.key : c \in Certificates}, Certificates, {PinnedRoot})
      BY DEF ClosedUnder
    <3> QED
      BY <3>1
  <2> QED
    BY <2>2, <2>3
<1>8. h[leaf].signer \in CertKey
  <2>1. h[leaf] \in Cert
    <3> HIDE DEF leaf
    <3> QED
      BY <1>1, <1>3
  <2> QED
    BY <2>1 DEF Cert
<1> QED
  BY <1>2, <1>3, <1>7, <1>8 DEF IntelKeys, VouchedKeys
-----------------------------------------------------------------------------
\* The order of the certificates.

\* Where there is one position, it is the first.
LEMMA FirstOfOne ==
  ASSUME NEW k \in Nat
  PROVE  First({k}) = k
BY DEF First

\* The positions of a chain are finitely many, and none of them is NoLeaf.
LEMMA Positions ==
  ASSUME NEW h \in Seq(Cert)
  PROVE  IsFiniteSet(DOMAIN h) /\ DOMAIN h \subseteq Nat \ {NoLeaf}
<1>1. DOMAIN h = 1..Len(h) /\ Len(h) \in Nat
  OBVIOUS
<1>2. IsFiniteSet(1..Len(h))
  BY <1>1, FS_Interval
<1> QED
  BY <1>1, <1>2 DEF NoLeaf

\* To shuffle is to permute: each position is hit.
LEMMA ShuffledByPermutation ==
  ASSUME NEW h \in Seq(Cert), NEW g \in Shuffled(h)
  PROVE  \E q \in [DOMAIN h -> DOMAIN h] :
             /\ g = [i \in DOMAIN h |-> h[q[i]]]
             /\ \A i, j \in DOMAIN h : q[i] = q[j] => i = j
             /\ \A k \in DOMAIN h : \E i \in DOMAIN h : q[i] = k
<1>1. PICK q \in [DOMAIN h -> DOMAIN h] :
        /\ g = [i \in DOMAIN h |-> h[q[i]]]
        /\ \A i, j \in DOMAIN h : q[i] = q[j] => i = j
  BY DEF Shuffled
<1>2. q \in Injection(DOMAIN h, DOMAIN h)
  BY <1>1 DEF Injection, IsInjective
<1>3. q \in Surjection(DOMAIN h, DOMAIN h)
  BY <1>2, Positions, FS_Injection
<1> QED
  BY <1>1, <1>3 DEF Surjection

\* find_leaf has no choice: the PCK certificate is the only one it may return, for the root
\* is self-signed and the CAs are named by others.
LEMMA LeafOfSingleChain ==
  ASSUME NEW h \in Seq(Cert), SingleChain(h)
  PROVE  \E r, k \in DOMAIN h :
             /\ {i \in DOMAIN h : SelfSigned(h[i])} = {r}
             /\ {i \in DOMAIN h :
                   /\ ~SelfSigned(h[i])
                   /\ \A j \in DOMAIN h \ {i} : h[j].issuer # h[i].subject} \in {{}, {k}}
<1> DEFINE R == {i \in DOMAIN h : SelfSigned(h[i])}
           P == {i \in DOMAIN h : h[i].ppid # NoPpid}
           L == {i \in DOMAIN h :
                   /\ ~SelfSigned(h[i])
                   /\ \A j \in DOMAIN h \ {i} : h[j].issuer # h[i].subject}
<1>1. Cardinality(R) = 1 /\ Cardinality(P) = 1
  BY DEF SingleChain
<1>2. IsFiniteSet(R) /\ IsFiniteSet(P)
  BY Positions, FS_Subset
<1>3. PICK r : R = {r}
  BY <1>1, <1>2, FS_Singleton
<1>4. PICK k : P = {k}
  BY <1>1, <1>2, FS_Singleton
<1>5. L \subseteq P
  BY DEF SingleChain
<1>6. r \in DOMAIN h /\ k \in DOMAIN h /\ L \in {{}, {k}}
  BY <1>3, <1>4, <1>5
<1> QED
  BY <1>3, <1>6

\* The PPID of a shuffled chain is that of the chain.
LEMMA ShuffledPpid ==
  ASSUME NEW h \in Seq(Cert), SingleChain(h), NEW g \in Shuffled(h)
  PROVE  PpidFromPckChain(g) = PpidFromPckChain(h)
<1> DEFINE D == DOMAIN h
           RootAt(c) == {i \in D : SelfSigned(c[i])}
           LeafAt(c) == {i \in D :
                           /\ ~SelfSigned(c[i])
                           /\ \A j \in D \ {i} : c[j].issuer # c[i].subject}
<1>1. PICK q \in [D -> D] :
        /\ g = [i \in D |-> h[q[i]]]
        /\ \A i, j \in D : q[i] = q[j] => i = j
        /\ \A k \in D : \E i \in D : q[i] = k
  BY ShuffledByPermutation
<1>2. PICK r \in D, k \in D : RootAt(h) = {r} /\ LeafAt(h) \in {{}, {k}}
  BY LeafOfSingleChain
<1>3. DOMAIN g = D /\ D \subseteq Nat \ {NoLeaf}
  BY <1>1, Positions
<1>4. \A i \in D : g[i] = h[q[i]] /\ q[i] \in D
  BY <1>1
<1> HIDE DEF D
<1>5. PICK r1 \in D : q[r1] = r
  BY <1>1, <1>2
<1>6. RootAt(g) = {r1}
  <2>1. \A i \in D : i \in RootAt(g) <=> q[i] \in RootAt(h)
    BY <1>4
  <2> QED
    BY <1>1, <1>2, <1>5, <2>1
<1>7. \A i \in D : i \in LeafAt(g) <=> q[i] \in LeafAt(h)
  <2> SUFFICES ASSUME NEW i \in D
               PROVE  (\A j \in D \ {i} : g[j].issuer # g[i].subject)
                        <=> \A j \in D \ {q[i]} : h[j].issuer # h[q[i]].subject
    BY <1>4
  <2>1. ASSUME NEW j \in D \ {q[i]}, \A m \in D \ {i} : g[m].issuer # g[i].subject
        PROVE  h[j].issuer # h[q[i]].subject
    <3>1. PICK m \in D : q[m] = j
      BY <1>1
    <3> QED
      BY <1>4, <2>1, <3>1
  <2>2. ASSUME NEW j \in D \ {i}, \A m \in D \ {q[i]} : h[m].issuer # h[q[i]].subject
        PROVE  g[j].issuer # g[i].subject
    <3>1. q[j] \in D \ {q[i]}
      BY <1>1, <1>4
    <3> QED
      BY <1>4, <2>2, <3>1
  <2> QED
    BY <2>1, <2>2
<1>8. FindRoot(h) = r /\ FindRoot(g) = r1
  BY <1>2, <1>3, <1>6, FirstOfOne DEF FindRoot, D
<1>9. FindLeaf(h) = First(LeafAt(h)) /\ FindLeaf(g) = First(LeafAt(g))
  BY <1>3 DEF FindLeaf, D
<1>10. CASE LeafAt(h) = {}
  <2>1. LeafAt(g) = {}
    BY <1>4, <1>7, <1>10
  <2>2. FindLeaf(h) = NoLeaf /\ FindLeaf(g) = NoLeaf
    BY <1>9, <1>10, <2>1 DEF First
  <2>3. VerifyPckChain(h) = NoLeaf /\ VerifyPckChain(g) = NoLeaf
    BY <2>2 DEF VerifyPckChain
  <2> QED
    BY <2>3 DEF PpidFromPckChain
<1>11. CASE LeafAt(h) = {k}
  <2>1. PICK k1 \in D : q[k1] = k
    BY <1>1, <1>2
  <2>2. LeafAt(g) = {k1}
    <3>1. \A i \in D : i \in LeafAt(g) <=> q[i] = k
      BY <1>7, <1>11
    <3>2. \A i \in D : q[i] = k <=> i = k1
      BY <1>1, <2>1
    <3>3. LeafAt(g) \subseteq D
      OBVIOUS
    <3> HIDE DEF LeafAt
    <3> QED
      BY <3>1, <3>2, <3>3
  <2>3. FindLeaf(h) = k /\ FindLeaf(g) = k1
    BY <1>3, <1>9, <1>11, <2>2, FirstOfOne
  <2> DEFINE rest(c, i, j) == {c[m] : m \in DOMAIN c \ {i, j}}
  <2>4. rest(g, r1, k1) = rest(h, r, k)
    <3>1. ASSUME NEW m \in D \ {r1, k1}
          PROVE  q[m] \in D \ {r, k} /\ g[m] = h[q[m]]
      BY <1>1, <1>4, <1>5, <2>1
    <3>2. ASSUME NEW m \in D \ {r, k}
          PROVE  \E x \in D \ {r1, k1} : h[m] = g[x]
      <4>1. PICK x \in D : q[x] = m
        BY <1>1
      <4> QED
        BY <1>4, <1>5, <2>1, <4>1
    <3> QED
      BY <1>3, <3>1, <3>2 DEF D
  <2>5. g[r1] = h[r] /\ g[k1] = h[k]
    BY <1>4, <1>5, <2>1
  <2> DEFINE ok == h[r].key = PinnedRoot /\ X509Verifies(h[k], rest(h, r, k), h[r])
  <2>6. r # NoLeaf /\ k # NoLeaf /\ r1 # NoLeaf /\ k1 # NoLeaf
    BY <1>3
  <2>7. VerifyPckChain(h) = IF ok THEN k ELSE NoLeaf
    BY <1>8, <2>3, <2>6 DEF VerifyPckChain
  <2>8. VerifyPckChain(g) = IF ok THEN k1 ELSE NoLeaf
    <3>1. VerifyPckChain(g)
            = IF g[r1].key = PinnedRoot /\ X509Verifies(g[k1], rest(g, r1, k1), g[r1])
              THEN k1 ELSE NoLeaf
      BY <1>8, <2>3, <2>6 DEF VerifyPckChain
    <3> QED
      BY <2>4, <2>5, <3>1
  <2> QED
    BY <2>5, <2>6, <2>7, <2>8 DEF PpidFromPckChain
<1> QED
  BY <1>2, <1>10, <1>11

-----------------------------------------------------------------------------
\* The walk.

LEMMA PpidType ==
  ASSUME NEW h \in Chains
  PROVE  PpidFromPckChain(h) \in Ppid \cup {NoPpid}
<1> DEFINE leaf == VerifyPckChain(h)
<1>1. h \in Seq(Cert)
  BY EvidenceAssumption
<1>2. ASSUME leaf # NoLeaf
      PROVE  h[leaf].ppid \in Ppid \cup {NoPpid}
  <2>1. leaf \in DOMAIN h
    BY <1>1, <1>2, VerifiedLeaf
  <2>2. h[leaf] \in Cert
    <3> HIDE DEF leaf
    <3> QED
      BY <1>1, <2>1
  <2> QED
    BY <2>2 DEF Cert
<1> QED
  BY <1>2 DEF PpidFromPckChain

\* Where each structure of a TD quote that is being read ends, and what is left of the quote.
Fits ==
    /\ step \in {"outer", "qeauth", "inner"} => end <= size
    /\ step = "pem" => at <= end /\ end <= size

\* Inv is inductive; Fits is what the checks of a walk leave behind for its next read.
Inv ==
    /\ TypeOK
    /\ Fits
    /\ ReadsInQuote
    /\ step = "verify" => chain \in Chains
    /\ PpidIsIntels

LEMMA InitInv == Init => Inv
BY EvidenceAssumption DEF Init, Inv, TypeOK, Fits, ReadsInQuote, PpidIsIntels, Step, Bytes

\* Every field keeps it.
LEMMA NextInv == Inv /\ [Next]_vars => Inv'
<1> SUFFICES ASSUME Inv, [Next]_vars PROVE Inv'
  OBVIOUS
<1>0. size \in Nat /\ U16 \subseteq Nat /\ U32 \subseteq Nat /\ MaxInt \in Nat /\ StringSize \subseteq Nat
  BY EvidenceAssumption DEF Inv, TypeOK
<1>1. ASSUME SgxStart \/ SgxAuth \/ SgxCert
      PROVE  Inv'
  BY <1>0, <1>1, SMTT(30)
     DEF SgxStart, SgxAuth, SgxCert, Inv, TypeOK, Fits, ReadsInQuote, PpidIsIntels, Step,
         Same, Keep, GoOn, Reject, Reads, Bytes, Need, CertHeader, SgxFixedAt, SgxFixedSize
<1>2. ASSUME TdxStart \/ TdxBody \/ TdxSigLen
      PROVE  Inv'
  <2> USE <1>0 DEF Inv, TypeOK, Fits, ReadsInQuote, PpidIsIntels, Step, Same, Keep, GoOn,
                   Reject, Reads, Bytes, Need
  <2>1. CASE TdxStart
    BY <2>1 DEF TdxStart, TdxHeaderSize, TdxBodyV4
  <2>2. CASE TdxBody
    BY <2>2 DEF TdxBody, CertHeader
  <2>3. CASE TdxSigLen
    BY <2>3 DEF TdxSigLen, TdxSigPubkey
  <2> QED
    BY <1>2, <2>1, <2>2, <2>3
<1>3. ASSUME TdxOuter \/ TdxQeAuth \/ TdxInner
      PROVE  Inv'
  BY <1>0, <1>3, SMTT(30)
     DEF TdxOuter, TdxQeAuth, TdxInner, Inv, TypeOK, Fits, ReadsInQuote, PpidIsIntels, Step,
         Same, Keep, GoOn, Reject, Reads, Bytes, CertHeader, TdxQeReport
<1>4. ASSUME TooShort
      PROVE  Inv'
  <2>1. step' = "reject" /\ at' = 0 /\ UNCHANGED <<tee, size, end, touched, chain, ppid>>
    BY <1>4 DEF TooShort, Short, Reject, Same
  <2> QED
    BY <2>1 DEF Inv, TypeOK, Fits, ReadsInQuote, PpidIsIntels, Step
<1>5. ASSUME ReadPem
      PROVE  Inv'
  BY <1>0, <1>5
     DEF ReadPem, Inv, TypeOK, Fits, ReadsInQuote, PpidIsIntels, Step, Keep, GoOn, Reject,
         Reads, Bytes
<1>6. ASSUME Verify
      PROVE  Inv'
  <2>1. step = "verify" /\ chain \in Chains /\ chain' = chain
    BY <1>6 DEF Verify, Inv
  <2>2. /\ ppid' = PpidFromPckChain(chain)
        /\ step' = "done" => ppid' # NoPpid
        /\ step' \in {"done", "reject"} /\ at' = 0
        /\ UNCHANGED <<tee, size, end, touched>>
    BY <1>6 DEF Verify, Keep, GoOn, Reject
  <2>3. TypeOK'
    BY <2>1, <2>2, PpidType DEF Inv, TypeOK, Step
  <2>4. PpidIsIntels'
    BY <2>1, <2>2, PpidOfIntels DEF PpidIsIntels
  <2> QED
    BY <2>2, <2>3, <2>4 DEF Inv, Fits, ReadsInQuote
<1>7. CASE UNCHANGED vars
  BY <1>7 DEF vars, Inv, TypeOK, Fits, ReadsInQuote, PpidIsIntels, Step
<1> QED
  BY <1>1, <1>2, <1>3, <1>4, <1>5, <1>6, <1>7 DEF Next

\* Inv holds of every quote at every step.
THEOREM Invariance == Spec => []Inv
<1> QED
  BY InitInv, NextInv, PTL DEF Spec

\* The types, with offsets that never get negative.
THEOREM TypeCorrect == Spec => []TypeOK
<1>1. Inv => TypeOK
  BY DEF Inv
<1> QED
  BY <1>1, Invariance, PTL

\* Of a quote of less than 2 GiB no byte outside is read, whatever sizes it claims for its parts.
THEOREM Bounded == Spec => []ReadsInQuote
<1>1. Inv => ReadsInQuote
  BY DEF Inv
<1> QED
  BY <1>1, Invariance, PTL

\* A PPID comes from a certificate in its validity that leads to the pinned key through CA
\* certificates only, for chains of any length.
THEOREM Pinned == Spec => []PpidIsIntels
<1>1. Inv => PpidIsIntels
  BY DEF Inv
<1> QED
  BY <1>1, Invariance, PTL

\* The order in which a quote lists the certificates of a chain does not matter, for chains
\* of any length.
THEOREM OrderDoesNotMatter == Spec => []OrderIsFree
<1>1. Inv => OrderIsFree
  <2> SUFFICES ASSUME Inv, step = "verify", SingleChain(chain), NEW h \in Shuffled(chain)
               PROVE  PpidFromPckChain(h) = PpidFromPckChain(chain)
    BY DEF OrderIsFree
  <2>1. chain \in Seq(Cert)
    BY EvidenceAssumption DEF Inv, TypeOK
  <2> QED
    BY <2>1, ShuffledPpid
<1> QED
  BY <1>1, Invariance, PTL
=============================================================================
