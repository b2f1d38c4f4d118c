------------------------------ MODULE PckEvidence ------------------------------
(***************************************************************************)
(* How an SGX quote or a TD quote becomes a PPID: the walk over its binary *)
(* layout to the PEM text of the PCK certificates, their verification, and *)
(* the PPID of the leaf.                                                   *)
(*                                                                         *)
(* A step reads one field.  The quote may hold anything, so that the value *)
(* read is any of those that fit the field.  TDX walks the layout twice    *)
(* (locate_sig_data, then again for the region); both walks read the same  *)
(* bytes and one stands for both.                                          *)
(***************************************************************************)
EXTENDS PckChain

CONSTANTS
    Size,       \* sizes of --report files
    U16, U32,   \* values of 2-byte and 4-byte fields
    Chains,     \* what PEM text in a quote may hold: sequences of certificates
    MaxInt,     \* the greatest int
    StringSize  \* what strlen may return for bytes of a quote and what follows it in memory

ASSUME EvidenceAssumption ==
    /\ MaxInt \in Nat /\ Size \subseteq Nat /\ StringSize \subseteq Nat
    /\ U16 \subseteq Nat /\ U32 \subseteq 0..(2 * MaxInt + 1)
    /\ Chains \subseteq Seq(Cert)

\* Sizes and offsets in bytes: the constants of sgx_provision.cpp and tdx_provision.cpp.
SgxFixedAt == 48 + 384 + 4
SgxFixedSize == 64 + 64 + 384 + 64
TdxHeaderSize == 48
TdxBodyV4 == 584
TdxSigPubkey == 64 + 64
TdxQeReport == 384 + 64
CertHeader == 2 + 4

CertTypePck == 5
CertTypeQeReport == 6
CertType == {CertTypePck, CertTypeQeReport, 0}

VARIABLES
    tee,      \* --tee-type: "sgx" or "tdx"
    size,     \* size of the quote
    step,     \* the field to read next
    at,       \* its offset
    end,      \* TDX: where sig_data ends
    touched,  \* the bytes of the quote that were read last
    chain,    \* the certificates
    ppid      \* the PPID, once step is "done"

vars == <<tee, size, step, at, end, touched, chain, ppid>>

Bytes(off, n) == [off |-> off, len |-> n]

\* need(): the quote has n bytes from off on.
Need(off, n) == off <= size /\ n <= size - off

GoOn(s, off) == step' = s /\ at' = off
Reject == step' = "reject" /\ at' = 0

\* Keep(cond, s, off): go on to field s at off if cond holds, throw otherwise.
Keep(cond, s, off) == IF cond THEN GoOn(s, off) ELSE Reject

Reads(off, n) == touched' = Bytes(off, n)

Init ==
    /\ tee \in {"sgx", "tdx"}
    /\ size \in Size
    /\ step = "start" /\ at = 0 /\ end = 0
    /\ touched = Bytes(0, 0)
    /\ chain = <<>> /\ ppid = NoPpid

Same == UNCHANGED <<tee, size, chain, ppid>>

\* A field of n bytes does not fit in what is left up to limit: the walk ends.
Short(s, n, limit) ==
    /\ step = s /\ at + n > limit
    /\ Reject
    /\ UNCHANGED <<end, touched>> /\ Same

-----------------------------------------------------------------------------
\* SGX: fixed part, auth_data, certification_data.

SgxStart ==
    /\ step = "start" /\ tee = "sgx"
    /\ Keep(Need(SgxFixedAt, SgxFixedSize), "sgxauth", SgxFixedAt + SgxFixedSize)
    /\ UNCHANGED <<end, touched>> /\ Same

SgxAuth ==
    /\ step = "sgxauth" /\ Need(at, 2)
    /\ Reads(at, 2)
    /\ \E n \in U16 : Keep(Need(at + 2, n), "sgxcert", at + 2 + n)
    /\ UNCHANGED end /\ Same

\* The region of the PEM text starts where at points and ends where end does.
SgxCert ==
    /\ step = "sgxcert" /\ Need(at, CertHeader)
    /\ Reads(at, CertHeader)
    /\ \E t \in CertType, n \in U32 :
          LET body == at + CertHeader
          IN  /\ Keep(Need(body, n) /\ t = CertTypePck, "pem", body)
              /\ end' = body + n
    /\ Same

-----------------------------------------------------------------------------
\* TDX: header, for version 5 the size of the body, size of sig_data, then the nested
\* certification data.

TdxStart ==
    /\ step = "start" /\ tee = "tdx"
    /\ IF Need(0, TdxHeaderSize)
       THEN /\ Reads(0, 8)
            /\ \/ GoOn("siglen", TdxHeaderSize + TdxBodyV4)   \* version 4
               \/ GoOn("body", TdxHeaderSize)                 \* version 5
               \/ Reject                      \* another version, or not a TD quote
       ELSE Reject /\ UNCHANGED touched
    /\ UNCHANGED end /\ Same

TdxBody ==
    /\ step = "body" /\ Need(at, CertHeader)
    /\ Reads(at + 2, 4)
    /\ \E n \in U32 : GoOn("siglen", at + CertHeader + n)
    /\ UNCHANGED end /\ Same

TdxSigLen ==
    /\ step = "siglen" /\ Need(at, 4)
    /\ Reads(at, 4)
    /\ \E n \in U32 :
          /\ Keep(Need(at + 4, n), "outer", at + 4 + TdxSigPubkey)
          /\ end' = at + 4 + n
    /\ Same

\* Mutant of TdxOuter: the size is not compared with where sig_data ends.
TdxOuterOpen ==
    /\ step = "outer" /\ at + CertHeader <= end
    /\ Reads(at, CertHeader)
    /\ \E t \in CertType, n \in U32 :
          LET body == at + CertHeader
          IN  /\ Keep(t = CertTypeQeReport, "qeauth", body + TdxQeReport)
              /\ end' = body + n
    /\ Same

\* The outer certification data must end where sig_data does.
TdxOuter ==
    /\ step = "outer" /\ at + CertHeader <= end
    /\ Reads(at, CertHeader)
    /\ \E t \in CertType, n \in U32 :
          LET body == at + CertHeader
          IN  Keep(t = CertTypeQeReport /\ body + n = end, "qeauth", body + TdxQeReport)
    /\ UNCHANGED end /\ Same

TdxQeAuth ==
    /\ step = "qeauth" /\ at + 2 <= end
    /\ Reads(at, 2)
    /\ \E n \in U16 : Keep(n <= end - (at + 2), "inner", at + 2 + n)
    /\ UNCHANGED end /\ Same

\* Mutant of TdxInner: no check that the header fits, the PEM text goes to the end of sig_data.
TdxInnerUnfit ==
    /\ step = "inner"
    /\ Reads(at, CertHeader)
    /\ \E t \in CertType : Keep(t = CertTypePck, "pem", at + CertHeader)
    /\ UNCHANGED end /\ Same

\* And so must the inner.
TdxInner ==
    /\ step = "inner" /\ at + CertHeader <= end
    /\ Reads(at, CertHeader)
    /\ \E t \in CertType, n \in U32 :
          LET body == at + CertHeader
          IN  Keep(t = CertTypePck /\ body + n = end, "pem", body)
    /\ UNCHANGED end /\ Same

\* need() throws, or locate_pck_region returns nothing.
TooShort ==
    \/ Short("sgxauth", 2, size) \/ Short("sgxcert", CertHeader, size)
    \/ Short("body", CertHeader, size) \/ Short("siglen", 4, size)
    \/ Short("outer", CertHeader, end) \/ Short("qeauth", 2, end)
    \/ Short("inner", CertHeader, end)

-----------------------------------------------------------------------------
\* The PEM text is parsed up to its end or the first block that is no certificate.  Its size
\* is cast to an int, and is negative there if it is greater than MaxInt: then
\* BIO_new_mem_buf takes the text for a string and looks for its end.
ReadPem ==
    /\ step = "pem"
    /\ \E n \in IF end - at <= MaxInt THEN {end - at} ELSE StringSize : Reads(at, n)
    /\ \E c \in Chains \cup {<<>>} :
          /\ at = end => c = <<>>
          /\ chain' = c
          /\ Keep(c # <<>>, "verify", 0)
    /\ end' = 0
    /\ UNCHANGED <<tee, size, ppid>>

Verify ==
    /\ step = "verify"
    /\ ppid' = PpidFromPckChain(chain)
    /\ Keep(ppid' # NoPpid, "done", 0)
    /\ UNCHANGED <<tee, size, end, touched, chain>>

Next ==
    \/ SgxStart \/ SgxAuth \/ SgxCert
    \/ TdxStart \/ TdxBody \/ TdxSigLen \/ TdxOuter \/ TdxQeAuth \/ TdxInner
    \/ TooShort
    \/ ReadPem \/ Verify

Spec == Init /\ [][Next]_vars

-----------------------------------------------------------------------------
\* Properties.

Step == {"start", "sgxauth", "sgxcert", "body", "siglen", "outer", "qeauth", "inner", "pem",
         "verify", "done", "reject"}

\* The type invariant: offsets never get negative and the chain is one a quote may hold.
TypeOK ==
    /\ tee \in {"sgx", "tdx"} /\ size \in Size
    /\ step \in Step
    /\ at \in Nat /\ end \in Nat
    /\ touched \in [off : Nat, len : Nat]
    /\ chain \in Chains \cup {<<>>}
    /\ ppid \in Ppid \cup {NoPpid}

\* Of a quote of at most MaxInt bytes, less than 2 GiB, no byte outside is read, whatever sizes
\* it claims for its parts: each read is covered by need() or by a check against the end of
\* the structure it lies in.  Nothing in the code keeps quotes below that size, and in longer
\* ones the PEM text may be read to where strlen finds its end (see ReadPem).
ReadsInQuote == size <= MaxInt => touched.off + touched.len <= size

\* The keys Intel answers for.
Certificates == UNION {{h[i] : i \in DOMAIN h} : h \in Chains}
IntelKeys == VouchedKeys(CertKey, Certificates, {PinnedRoot})

\* A PPID is taken from no certificate but one that Intel issued and that is in its validity,
\* whatever other certificates the quote carries along with it.
PpidIsIntels ==
    step = "done" =>
        \E i \in DOMAIN chain :
            /\ chain[i].ppid = ppid
            /\ chain[i].signer \in IntelKeys
            /\ chain[i].life = "valid"

\* The chains that a quoting enclave writes: one root, one PCK certificate, and CAs between
\* them, each of which another certificate names as its issuer.
SingleChain(h) ==
    /\ Cardinality({i \in DOMAIN h : SelfSigned(h[i])}) = 1
    /\ Cardinality({i \in DOMAIN h : h[i].ppid # NoPpid}) = 1
    /\ \A i, j \in DOMAIN h : h[i].subject = h[j].subject => i = j
    /\ \A i \in DOMAIN h : h[i].ppid = NoPpid =>
           \E j \in DOMAIN h \ {i} : h[j].issuer = h[i].subject

Shuffled(h) ==
    {[i \in DOMAIN h |-> h[p[i]]] : p \in {q \in [DOMAIN h -> DOMAIN h] :
        \A i, j \in DOMAIN h : q[i] = q[j] => i = j}}

\* sgx_provision.hpp and find_leaf: the order in which the quote lists its certificates does
\* not matter.
OrderIsFree ==
    step = "verify" /\ SingleChain(chain) =>
        \A h \in Shuffled(chain) : PpidFromPckChain(h) = PpidFromPckChain(chain)
=============================================================================
