----------------------------- MODULE ChipIdBinding -----------------------------
(***************************************************************************)
(* The ChipIdBinding extension of an endorsement: what provision writes    *)
(* into it, byte by byte, and what verify reads back, whether the text is  *)
(* what was written or another one.                                        *)
(***************************************************************************)
EXTENDS Integers, Sequences

CONSTANTS
    Binding,    \* what provision binds: the TEE type, the chip id and the time
    Others,     \* other texts that an extension may hold
    MaxText,    \* bound: texts are no longer than this
    None

Byte == 0..255

\* The chip id has any length: 16 (PPID) or 64 bytes (CHIP_ID), or as the CCA token says.
\* The time has 15 characters.
BindingType ==
    [teeType : Byte, chipId : Seq(Byte), issuedAt : {s \in Seq(Byte) : Len(s) = 15}]

ASSUME BindingAssumption ==
    /\ Binding \subseteq BindingType
    /\ Others \subseteq Seq(Byte) \ {<<>>} /\ None \notin Binding /\ None \notin Byte
    /\ MaxText \in Nat
    /\ \A t \in Others : Len(t) <= MaxText

TagEnumerated == 10
TagOctetString == 4
TagGeneralizedTime == 24
TagSequence == 16
Constructed == 32

-----------------------------------------------------------------------------
\* Encoding.

\* der_length throws from here on.
DerLengthLimit == 65536

\* Mutant of DerLength: the limit of the short form is off by one.
DerLengthOffByOne(n) ==
    IF n <= 128 THEN <<n>>
    ELSE IF n < 256 THEN <<129, n>>
    ELSE <<130, n \div 256, n % 256>>

DerLength(n) ==
    IF n < 128 THEN <<n>>
    ELSE IF n < 256 THEN <<129, n>>
    ELSE <<130, n \div 256, n % 256>>

DerTlv(tag, value) == <<tag>> \o DerLength(Len(value)) \o value

Content(b) ==
    DerTlv(TagEnumerated, <<b.teeType>>)
        \o DerTlv(TagOctetString, b.chipId)
        \o DerTlv(TagGeneralizedTime, b.issuedAt)

\* encode_chip_id_binding throws if a length does not fit in two bytes.
Encodable(b) == Len(b.chipId) < DerLengthLimit /\ Len(Content(b)) < DerLengthLimit

Encode(b) == DerTlv(TagSequence + Constructed, Content(b))

-----------------------------------------------------------------------------
\* ASN1_get_object.  Offsets count from 0.

At(der, off) == der[off + 1]

Failure == [fails |-> TRUE, tag |-> 0, body |-> 0, len |-> 0]

\* The long form: n bytes from off on, of which all but the last three must be zero for the
\* value to lie within a text.  MaxText stands for any value that does not.
LongLength(der, off, n) ==
    LET Digit(i) == IF i <= n THEN At(der, off + n - i) ELSE 0
    IN  IF \E i \in 4..n : Digit(i) # 0 THEN MaxText + 1
        ELSE Digit(1) + 256 * Digit(2) + 65536 * Digit(3)

\* A tag above 30 has a form of its own, of which only the shortest is modelled, as longer
\* ones hold none of the four tags unless they are padded.
TagBytes(der, off) == IF At(der, off) % 32 = 31 THEN 2 ELSE 1

Tag(der, off) == IF At(der, off) % 32 = 31 THEN At(der, off + 1) ELSE At(der, off) % 32

\* An indefinite length, allowed in a constructed object, counts as 0.
LengthBytes(der, off) == IF At(der, off) <= 128 THEN 1 ELSE At(der, off) - 127

LengthValue(der, off) ==
    IF At(der, off) < 128 THEN At(der, off)
    ELSE IF At(der, off) = 128 THEN 0
    ELSE LongLength(der, off + 1, At(der, off) - 128)

IsConstructed(der, off) == (At(der, off) \div Constructed) % 2 = 1

\* The object at off, of which max bytes are left with what follows.  A length of the long
\* form must have at least a byte after it.  The class is not returned, since
\* decode_chip_id_binding does not look at it.
GetObject(der, off, max) ==
    LET lengthAt == off + TagBytes(der, off)
        body == lengthAt + LengthBytes(der, lengthAt)
    IN  IF max < 2 \/ lengthAt + 1 > off + max THEN Failure
        ELSE IF \/ Tag(der, off) > 127
                \/ At(der, lengthAt) = 128 /\ ~IsConstructed(der, off)
                \/ body > off + max
                \/ At(der, lengthAt) > 128 /\ body = off + max
                \/ body + LengthValue(der, lengthAt) > off + max
             THEN Failure
             ELSE [fails |-> FALSE, tag |-> Tag(der, off), body |-> body,
                   len |-> LengthValue(der, lengthAt)]

-----------------------------------------------------------------------------
\* Decoding.

VARIABLES
    written,   \* the binding that was encoded, None if the text is another
    der,       \* the text of the extension
    step,      \* what is read next
    p, end,    \* the next object starts here; the SEQUENCE ends there
    teeType, chipId, issuedAt   \* what was read, None before

fields == <<teeType, chipId, issuedAt>>
vars == <<written, der, step, p, end, fields>>

\* The extension of an endorsement is what provision put there; a CA may also have signed
\* another text.
Init ==
    /\ \/ /\ written \in {b \in Binding : Encodable(b)}
          /\ der = Encode(written)
       \/ /\ written = None
          /\ der \in Others
    /\ step = "sequence"
    /\ p = 0 /\ end = Len(der)
    /\ teeType = None /\ chipId = None /\ issuedAt = None

Goto(s) == step' = s
Throw == step' = "reject" /\ UNCHANGED <<p, end, fields>>

Value(o) == SubSeq(der, o.body + 1, o.body + o.len)

ReadSequence ==
    /\ step = "sequence"
    /\ LET o == GetObject(der, 0, Len(der))
       IN  IF o.fails \/ o.tag # TagSequence THEN Throw
           ELSE /\ Goto("teeType")
                /\ p' = o.body /\ end' = o.body + o.len
                /\ UNCHANGED fields
    /\ UNCHANGED <<written, der>>

\* Mutant of MustRead: the object may reach up to the end of the text.
MustReadOpen(tag) ==
    LET o == GetObject(der, p, Len(der) - p)
    IN  IF o.tag # tag THEN Failure ELSE o

\* must_read: the object at p, within the SEQUENCE.
MustRead(tag) ==
    LET o == GetObject(der, p, end - p)
    IN  IF o.tag # tag THEN Failure ELSE o

\* Mutant of ReadTeeType: the length of the object is not looked at.
ReadTeeTypeAnyLength ==
    /\ step = "teeType"
    /\ LET o == MustRead(TagEnumerated)
       IN  IF o.fails THEN Throw
           ELSE /\ Goto("chipId")
                /\ teeType' = IF o.len = 0 THEN None ELSE At(der, o.body)
                /\ p' = o.body + o.len
                /\ UNCHANGED <<end, chipId, issuedAt>>
    /\ UNCHANGED <<written, der>>

ReadTeeType ==
    /\ step = "teeType"
    /\ LET o == MustRead(TagEnumerated)
       IN  IF o.fails \/ o.len # 1 THEN Throw
           ELSE /\ Goto("chipId")
                /\ teeType' = At(der, o.body) /\ p' = o.body + o.len
                /\ UNCHANGED <<end, chipId, issuedAt>>
    /\ UNCHANGED <<written, der>>

ReadChipId ==
    /\ step = "chipId"
    /\ LET o == MustRead(TagOctetString)
       IN  IF o.fails THEN Throw
           ELSE /\ Goto("issuedAt")
                /\ chipId' = Value(o) /\ p' = o.body + o.len
                /\ UNCHANGED <<end, teeType, issuedAt>>
    /\ UNCHANGED <<written, der>>

\* What follows the time, notes or anything else, is not looked at.
ReadIssuedAt ==
    /\ step = "issuedAt"
    /\ LET o == MustRead(TagGeneralizedTime)
       IN  IF o.fails THEN Throw
           ELSE /\ Goto("done")
                /\ issuedAt' = Value(o) /\ p' = o.body + o.len
                /\ UNCHANGED <<end, teeType, chipId>>
    /\ UNCHANGED <<written, der>>

Next == ReadSequence \/ ReadTeeType \/ ReadChipId \/ ReadIssuedAt

Spec == Init /\ [][Next]_vars

-----------------------------------------------------------------------------
\* Properties.

\* The type invariant: a TEE type has been read when the chip id is.
TypeOK ==
    /\ written \in Binding \cup {None}
    /\ der \in Seq(Byte)
    /\ step \in {"sequence", "teeType", "chipId", "issuedAt", "done", "reject"}
    /\ p \in Nat /\ end \in Nat
    /\ teeType \in Byte \cup {None}
    /\ step \in {"chipId", "issuedAt", "done"} => teeType \in Byte
    /\ chipId \in Seq(Byte) \cup {None}
    /\ issuedAt \in Seq(Byte) \cup {None}

\* Whatever lengths a text claims, nothing beyond the end of its SEQUENCE, nor of the text,
\* is taken for a field (must_read).
ReadsInSequence == p <= end /\ end <= Len(der)

\* verify reads what provision wrote, for chip ids of every length that provision writes:
\* the parts that der_length puts together are those that OpenSSL takes apart.
RoundTrip ==
    written # None =>
        /\ step # "reject"
        /\ step = "done" =>
              /\ teeType = written.teeType
              /\ chipId = written.chipId
              /\ issuedAt = written.issuedAt
=============================================================================
