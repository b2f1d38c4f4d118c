------------------------------ MODULE CcaEvidence ------------------------------
(***************************************************************************)
(* How a CCA token becomes a chip id: verify_and_extract, one decoded text *)
(* after the other.  Tokens and all that is in them are bytes; a signature *)
(* is one of those that the platform has made with the pinned key.         *)
(***************************************************************************)
EXTENDS Cbor

CONSTANTS
    Tokens,     \* what a --token file may hold
    Signed,     \* what was signed with the pinned CPAK: message, signature, whose instance id
    Genuine,    \* the tokens among Tokens that a realm hands out
    None

ASSUME CcaAssumption ==
    /\ Tokens \subseteq Seq(Byte) /\ Genuine \subseteq Tokens
    /\ \A t \in Tokens : Len(t) < Huge
    /\ \A s \in Signed : s.msg \in Seq(Byte) /\ s.sig \in Seq(Byte) /\ s.id \in Seq(Byte)
    /\ None \notin Seq(Byte)
    /\ None \notin [protected : Seq(Byte), payload : Seq(Byte), signature : Seq(Byte)]

CcaTokenTag == 399
CoseSign1Tag == 18
PlatformTokenKey == 44234
InstanceIdKey == 256
CoseAlgKey == 1
CoseAlgES384 == -35
SigLen == 96

VARIABLES
    step,         \* what is done next
    token,        \* the file
    platform,     \* the platform token, None until found
    sign1,        \* its protected header, payload and signature, None until taken apart
    instanceId    \* the chip id, None until found

vars == <<step, token, platform, sign1, instanceId>>

Init ==
    /\ step = "token"
    /\ token \in Tokens
    /\ platform = None /\ sign1 = None /\ instanceId = None

\* Keep(cond, s): go on with s if cond holds, throw otherwise.
Keep(cond, s) == step' = IF cond THEN s ELSE "reject"

\* Find the platform token; what else there is in the token is not looked at.
FindPlatform ==
    /\ step = "token"
    /\ LET plat == At(Untag(Decode(token), CcaTokenTag), PlatformTokenKey)
       IN  /\ Keep(plat.type = Bytes, "platform")
           /\ platform' = IF plat.type = Bytes THEN plat.bytes ELSE None
    /\ UNCHANGED <<token, sign1, instanceId>>

\* Take the COSE_Sign1 apart.
TakeApart ==
    /\ step = "platform"
    /\ LET arr == Untag(Decode(platform), CoseSign1Tag)
           fits == /\ arr.type = Array /\ Len(arr.items) = 4
                   /\ \A i \in {1, 3, 4} : arr.items[i].type = Bytes
       IN  /\ Keep(fits, "alg")
           /\ sign1' = IF fits THEN [protected |-> arr.items[1].bytes,
                                     payload |-> arr.items[3].bytes,
                                     signature |-> arr.items[4].bytes]
                       ELSE None
    /\ UNCHANGED <<token, platform, instanceId>>

\* Mutant of CheckAlg: the sign of the number is not looked at.
CheckAlgUnsigned ==
    /\ step = "alg"
    /\ LET alg == At(Decode(sign1.protected), CoseAlgKey)
       IN  Keep(alg.type \in {Uint, Nint} /\ alg.int = CoseAlgES384, "signature")
    /\ UNCHANGED <<token, platform, sign1, instanceId>>

CheckAlg ==
    /\ step = "alg"
    /\ LET alg == At(Decode(sign1.protected), CoseAlgKey)
       IN  Keep(alg.type \in {Uint, Nint} /\ AsInt(alg) = CoseAlgES384, "signature")
    /\ UNCHANGED <<token, platform, sign1, instanceId>>

\* "Signature1"
Context == <<83, 105, 103, 110, 97, 116, 117, 114, 101, 49>>

SigStructure(protected, payload) ==
    EncHead(Array, 4) \o EncText(Context) \o EncBytes(protected)
        \o EncBytes(<<>>) \o EncBytes(payload)

VerifyEs384(msg, sig) ==
    Len(sig) = SigLen /\ \E s \in Signed : s.msg = msg /\ s.sig = sig

\* Mutant of VerifySignature: only the length of the signature is looked at.
VerifySignatureOfLength ==
    /\ step = "signature"
    /\ Keep(Len(sign1.signature) = SigLen, "claims")
    /\ UNCHANGED <<token, platform, sign1, instanceId>>

VerifySignature ==
    /\ step = "signature"
    /\ Keep(VerifyEs384(SigStructure(sign1.protected, sign1.payload), sign1.signature), "claims")
    /\ UNCHANGED <<token, platform, sign1, instanceId>>

\* Mutant of TakeInstanceId: the instance id may be empty.
TakeInstanceIdEmpty ==
    /\ step = "claims"
    /\ LET iid == At(Decode(sign1.payload), InstanceIdKey)
       IN  /\ Keep(iid.type = Bytes, "done")
           /\ instanceId' = IF iid.type = Bytes THEN iid.bytes ELSE None
    /\ UNCHANGED <<token, platform, sign1>>

TakeInstanceId ==
    /\ step = "claims"
    /\ LET iid == At(Decode(sign1.payload), InstanceIdKey)
           fits == iid.type = Bytes /\ iid.bytes # <<>>
       IN  /\ Keep(fits, "done")
           /\ instanceId' = IF fits THEN iid.bytes ELSE None
    /\ UNCHANGED <<token, platform, sign1>>

Next == FindPlatform \/ TakeApart \/ CheckAlg \/ VerifySignature \/ TakeInstanceId

Spec == Init /\ [][Next]_vars

-----------------------------------------------------------------------------
(***************************************************************************)
(* What platforms sign and what realms hand out, as theorems assume it of  *)
(* Signed and Genuine: texts that RFC 8949 and RFC 9052 describe, without a*)
(* look at how the code encodes and decodes them.                          *)
(***************************************************************************)
RealmTokenKey == 44241

\* A number in so many bytes, most significant first.
InBytes(n, size) ==
    LET a == ((n \div 65536) \div 256) % 256
        b == (n \div 65536) % 256
        c == (n \div 256) % 256
        d == n % 256
    IN  CASE size = 0 -> <<>>
          [] size = 1 -> <<d>>
          [] size = 2 -> <<c, d>>
          [] size = 4 -> <<a, b, c, d>>
          [] size = 8 -> <<0, 0, 0, 0, a, b, c, d>>

\* An item's first bytes, with the number n in them, in each form that has room for it.
Heads(major, n) ==
    LET form(ai, size, limit) == IF n < limit THEN {<<major * 32 + ai>> \o InBytes(n, size)} ELSE {}
    IN  form(n, 0, 24) \cup form(24, 1, 256) \cup form(25, 2, 65536)
            \cup form(26, 4, Huge) \cup form(27, 8, Huge)

Strings(bs) == {h \o bs : h \in Heads(Bytes, Len(bs))}

\* The shortest form, which RFC 9052 wants in what is signed.
Shortest(major, n) ==
    CHOOSE h \in Heads(major, n) : \A g \in Heads(major, n) : Len(h) <= Len(g)

ShortestString(major, bs) == Shortest(major, Len(bs)) \o bs

\* The Sig_structure of RFC 9052 for a COSE_Sign1 without external data.
ToBeSigned(protected, payload) ==
    Shortest(Array, 4) \o ShortestString(Text, Context) \o ShortestString(Bytes, protected)
        \o ShortestString(Bytes, <<>>) \o ShortestString(Bytes, payload)

\* Platforms sign headers and claims, out of S, that have their instance id.
SignsClaims(S) ==
    \A s \in Signed : \E protected, payload \in S :
        /\ s.msg = ToBeSigned(protected, payload)
        /\ s.id = At(Decode(payload), InstanceIdKey).bytes

\* i.platform is a COSE_Sign1, in a tag of its own.
IsSign1(i) ==
    \E tag \in Heads(Tag, CoseSign1Tag), arr \in Heads(Array, 4), unprotected \in Heads(Map, 0),
       h \in Strings(i.protected), c \in Strings(i.payload), s \in Strings(i.signature) :
        i.platform = tag \o arr \o h \o unprotected \o c \o s

\* i.token is a collection of the platform token and a realm token, in either order.
IsCollection(i) ==
    \E tag \in Heads(Tag, CcaTokenTag), map \in Heads(Map, 2),
       pk \in Heads(Uint, PlatformTokenKey), p \in Strings(i.platform),
       rk \in Heads(Uint, RealmTokenKey), r \in Strings(i.realm) :
        i.token \in {tag \o map \o pk \o p \o rk \o r, tag \o map \o rk \o r \o pk \o p}

\* The parts of a token that a realm hands out: with ES384, an instance id, and a signature.
IsIssued(i) ==
    /\ IsCollection(i) /\ IsSign1(i)
    /\ LET alg == At(Decode(i.protected), CoseAlgKey)
       IN  alg.type = Nint /\ alg.int = -1 - CoseAlgES384
    /\ LET iid == At(Decode(i.payload), InstanceIdKey)
       IN  iid.type = Bytes /\ iid.bytes # <<>>
    /\ Len(i.signature) = SigLen
    /\ \E s \in Signed : s.msg = ToBeSigned(i.protected, i.payload) /\ s.sig = i.signature

\* All tokens of realms are put together of such parts, out of I.
HandsOut(I) == \A t \in Genuine : \E i \in I : i.token = t /\ IsIssued(i)

-----------------------------------------------------------------------------
\* Properties.

\* The type invariant: what is needed next has been found, and a chip id is not empty.
TypeOK ==
    /\ step \in {"token", "platform", "alg", "signature", "claims", "done", "reject"}
    /\ token \in Seq(Byte)
    /\ platform \in Seq(Byte) \cup {None}
    /\ sign1 = None \/ \A f \in {"protected", "payload", "signature"} : sign1[f] \in Seq(Byte)
    /\ instanceId \in (Seq(Byte) \ {<<>>}) \cup {None}
    /\ step = "platform" => platform # None
    /\ step \in {"alg", "signature", "claims", "done"} => sign1 # None
    /\ instanceId # None <=> step = "done"

\* However a token is put together, out of what was signed or anything else, the chip id is
\* the instance id of the platform that signed (verify_and_extract).
IdIsTheSigners ==
    step = "done" =>
        \E s \in Signed :
            /\ instanceId = s.id
            /\ s.sig = sign1.signature /\ s.msg = SigStructure(sign1.protected, sign1.payload)

\* A token that a realm hands out is never refused: claims and parts of a token come in any
\* order, with others among them, and with lengths of any form.
GenuineIsAccepted == token \in Genuine => step # "reject"

\* What is compared with the signature says the same to whoever decodes it: the header and
\* the payload cannot be cut apart in two ways, at whatever lengths enc_head changes its form.
SigStructureIsExact ==
    sign1 # None =>
        LET v == Decode(SigStructure(sign1.protected, sign1.payload))
        IN  /\ v.type = Array
            /\ [i \in DOMAIN v.items |-> v.items[i].bytes]
                 = <<Context, sign1.protected, <<>>, sign1.payload>>
=============================================================================
