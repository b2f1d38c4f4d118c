-------------------------- MODULE ChipIdBindingProofs --------------------------
(***************************************************************************)
(* The ChipIdBinding extension, for chip ids of every length that can be   *)
(* encoded and for texts of any length: reads stay within the SEQUENCE, and*)
(* verify reads what provision wrote.                                      *)
(***************************************************************************)
EXTENDS ChipIdBinding, SequenceTheorems, TLAPS

\* The text s stands in der from offset off on.
Holds(der0, off, s) ==
    /\ off + Len(s) <= Len(der0)
    /\ \A i \in 1..Len(s) : der0[off + i] = s[i]

\* So do its parts.
LEMMA HoldsParts ==
  ASSUME NEW d \in Seq(Byte), NEW off \in Nat, NEW a \in Seq(Byte), NEW b \in Seq(Byte),
         Holds(d, off, a \o b)
  PROVE  Holds(d, off, a) /\ Holds(d, off + Len(a), b)
<1>1. Len(a \o b) = Len(a) + Len(b) /\ Len(a) \in Nat /\ Len(b) \in Nat
  OBVIOUS
<1>2. ASSUME NEW i \in 1..Len(a)
      PROVE  d[off + i] = a[i]
  <2>1. i \in 1..Len(a \o b) /\ (a \o b)[i] = a[i]
    BY <1>1
  <2> QED
    BY <2>1 DEF Holds
<1>3. ASSUME NEW i \in 1..Len(b)
      PROVE  d[(off + Len(a)) + i] = b[i]
  <2>1. Len(a) + i \in 1..Len(a \o b) /\ (a \o b)[Len(a) + i] = b[i]
    BY <1>1
  <2>2. d[off + (Len(a) + i)] = (a \o b)[Len(a) + i]
    BY <2>1 DEF Holds
  <2>3. off + (Len(a) + i) = (off + Len(a)) + i
    BY <1>1
  <2> QED
    BY <2>1, <2>2, <2>3
<1> QED
  BY <1>1, <1>2, <1>3 DEF Holds

\* What stands in der is read as it is.
LEMMA HoldsValue ==
  ASSUME NEW d \in Seq(Byte), NEW off \in Nat, NEW s \in Seq(Byte), Holds(d, off, s)
  PROVE  SubSeq(d, off + 1, off + Len(s)) = s
<1>1. Len(s) \in Nat /\ off + Len(s) <= Len(d) /\ Len(d) \in Nat
  BY DEF Holds
<1> DEFINE v == SubSeq(d, off + 1, off + Len(s))
<1>2. v \in Seq(Byte) /\ Len(v) = Len(s)
  BY <1>1
<1>3. ASSUME NEW i \in 1..Len(s)
      PROVE  v[i] = s[i]
  <2>1. v[i] = d[off + i]
    BY <1>1
  <2> QED
    BY <2>1 DEF Holds
<1> HIDE DEF v
<1> QED
  BY <1>2, <1>3 DEF v

\* A length takes one, two or three bytes.
LEMMA DerLengthType ==
  ASSUME NEW n \in Nat, n < DerLengthLimit
  PROVE  /\ DerLength(n) \in Seq(Byte)
         /\ Len(DerLength(n)) = IF n < 128 THEN 1 ELSE IF n < 256 THEN 2 ELSE 3
<1>1. CASE n < 128
  BY <1>1 DEF DerLength, Byte
<1>2. CASE n >= 128 /\ n < 256
  <2>1. n \in Byte /\ 129 \in Byte /\ DerLength(n) = <<129, n>>
    BY <1>2 DEF DerLength, Byte
  <2> QED
    BY <1>2, <2>1
<1>3. CASE n >= 256
  <2>1. n \div 256 \in Byte /\ n % 256 \in Byte /\ 130 \in Byte
    BY <1>3 DEF DerLengthLimit, Byte
  <2>2. DerLength(n) = <<130, n \div 256, n % 256>>
    BY <1>3 DEF DerLength
  <2> QED
    BY <1>3, <2>1, <2>2
<1> QED
  BY <1>1, <1>2, <1>3

LEMMA DerTlvType ==
  ASSUME NEW tag \in Byte, NEW v \in Seq(Byte), Len(v) < DerLengthLimit
  PROVE  /\ DerTlv(tag, v) \in Seq(Byte)
         /\ Len(DerTlv(tag, v)) = 1 + Len(DerLength(Len(v))) + Len(v)
<1>1. Len(v) \in Nat
  OBVIOUS
<1>2. DerLength(Len(v)) \in Seq(Byte) /\ <<tag>> \in Seq(Byte)
  BY <1>1, DerLengthType
<1> HIDE DEF DerLength
<1> QED
  BY <1>2 DEF DerTlv

\* The parts of a binding that can be encoded, and their lengths.
LEMMA EncodingType ==
  ASSUME NEW b \in Binding, Encodable(b)
  PROVE  /\ <<b.teeType>> \in Seq(Byte) /\ Len(<<b.teeType>>) < DerLengthLimit
         /\ b.chipId \in Seq(Byte) /\ Len(b.chipId) < DerLengthLimit
         /\ b.issuedAt \in Seq(Byte) /\ Len(b.issuedAt) < DerLengthLimit
         /\ DerTlv(TagEnumerated, <<b.teeType>>) \in Seq(Byte)
         /\ DerTlv(TagOctetString, b.chipId) \in Seq(Byte)
         /\ DerTlv(TagGeneralizedTime, b.issuedAt) \in Seq(Byte)
         /\ Content(b) \in Seq(Byte) /\ Len(Content(b)) < DerLengthLimit
         /\ Encode(b) \in Seq(Byte)
<1>1. b \in BindingType
  BY BindingAssumption
<1>2. <<b.teeType>> \in Seq(Byte) /\ Len(<<b.teeType>>) = 1
  BY <1>1 DEF BindingType
<1>3. b.chipId \in Seq(Byte)
  BY <1>1 DEF BindingType
<1>4. b.issuedAt \in Seq(Byte) /\ Len(b.issuedAt) = 15
  BY <1>1 DEF BindingType
<1>5. /\ TagEnumerated \in Byte /\ TagOctetString \in Byte
      /\ TagGeneralizedTime \in Byte /\ TagSequence + Constructed \in Byte
  BY DEF TagEnumerated, TagOctetString, TagGeneralizedTime, TagSequence, Constructed, Byte
<1>6. /\ 1 < DerLengthLimit /\ 15 < DerLengthLimit
      /\ Len(b.chipId) < DerLengthLimit /\ Len(Content(b)) < DerLengthLimit
  BY DEF Encodable, DerLengthLimit
<1> HIDE DEF DerLengthLimit
<1>7. /\ DerTlv(TagEnumerated, <<b.teeType>>) \in Seq(Byte)
      /\ DerTlv(TagOctetString, b.chipId) \in Seq(Byte)
      /\ DerTlv(TagGeneralizedTime, b.issuedAt) \in Seq(Byte)
  BY <1>2, <1>3, <1>4, <1>5, <1>6, DerTlvType
<1>8. Content(b) \in Seq(Byte)
  BY <1>7 DEF Content
<1>9. Encode(b) \in Seq(Byte)
  BY <1>5, <1>6, <1>8, DerTlvType DEF Encode
<1> QED
  BY <1>2, <1>3, <1>4, <1>6, <1>7, <1>8, <1>9

\* A header with a tag below 31 and a definite length, in a text of which max bytes are left.
LEMMA Header ==
  ASSUME NEW d, NEW off \in Nat, NEW max \in Nat,
         At(d, off) % 32 \in 0..30, At(d, off + 1) \in Byte \ {128},
         LengthBytes(d, off + 1) \in Nat \ {0}, LengthValue(d, off + 1) \in Nat,
         1 + LengthBytes(d, off + 1) + LengthValue(d, off + 1) <= max,
         At(d, off + 1) < 128 \/ LengthValue(d, off + 1) # 0
  PROVE  GetObject(d, off, max) =
            [fails |-> FALSE, tag |-> At(d, off) % 32,
             body |-> (off + 1) + LengthBytes(d, off + 1), len |-> LengthValue(d, off + 1)]
<1>1. TagBytes(d, off) = 1 /\ Tag(d, off) = At(d, off) % 32
  BY DEF TagBytes, Tag
<1> HIDE DEF At, LengthBytes, LengthValue, TagBytes, Tag, IsConstructed
<1> DEFINE lengthAt == off + TagBytes(d, off)
           body == lengthAt + LengthBytes(d, lengthAt)
<1>2. lengthAt = off + 1
  BY <1>1
<1>3. body = (off + 1) + LengthBytes(d, off + 1)
  BY <1>2
<1>4. /\ ~(max < 2 \/ lengthAt + 1 > off + max)
      /\ ~(Tag(d, off) > 127)
      /\ ~(At(d, lengthAt) = 128)
      /\ ~(body > off + max)
      /\ ~(At(d, lengthAt) > 128 /\ body = off + max)
      /\ ~(body + LengthValue(d, lengthAt) > off + max)
  <2> HIDE DEF body, lengthAt
  <2>1. ~(At(d, lengthAt) > 128 /\ body = off + max)
    <3> DEFINE first == At(d, off + 1)
    <3>1. first \in Nat
      BY DEF Byte
    <3> HIDE DEF first
    <3> QED
      BY <1>2, <1>3, <3>1 DEF first
  <2> QED
    BY <1>1, <1>2, <1>3, <2>1
<1>5. GetObject(d, off, max) =
         [fails |-> FALSE, tag |-> Tag(d, off), body |-> body, len |-> LengthValue(d, lengthAt)]
  BY <1>4, Zenon DEF GetObject
<1> HIDE DEF body, lengthAt
<1> QED
  BY <1>1, <1>2, <1>3, <1>5

\* ASN1_get_object takes apart what der_tlv puts together.
LEMMA TlvIsRead ==
  ASSUME NEW d \in Seq(Byte), NEW off \in Nat, NEW max \in Nat,
         NEW tag \in Byte, NEW v \in Seq(Byte), Len(v) < DerLengthLimit,
         tag % 32 # 31,
         Holds(d, off, DerTlv(tag, v)),
         Len(DerTlv(tag, v)) <= max
  PROVE  LET o == GetObject(d, off, max)
         IN  /\ ~o.fails /\ o.tag = tag % 32
             /\ o.len = Len(v)
             /\ o.body + o.len = off + Len(DerTlv(tag, v))
             /\ o.body \in Nat
             /\ Holds(d, o.body, v)
<1> DEFINE n == Len(v)
           L == DerLength(n)
<1>1. n \in Nat /\ L \in Seq(Byte) /\ <<tag>> \in Seq(Byte) /\ Len(<<tag>>) = 1
  BY DerLengthType
<1>2. Len(L) = IF n < 128 THEN 1 ELSE IF n < 256 THEN 2 ELSE 3
  BY <1>1, DerLengthType
<1>3. Len(DerTlv(tag, v)) = 1 + Len(L) + n
  BY DerTlvType
<1>4. <<tag>> \o L \in Seq(Byte) /\ Len(<<tag>> \o L) = 1 + Len(L)
  BY <1>1
<1>5. /\ Holds(d, off, <<tag>>) /\ Holds(d, off + 1, L) /\ Holds(d, off + (1 + Len(L)), v)
  <2>1. Holds(d, off, (<<tag>> \o L) \o v)
    BY DEF DerTlv
  <2>2. Holds(d, off, <<tag>> \o L) /\ Holds(d, off + (1 + Len(L)), v)
    BY <1>4, <2>1, HoldsParts
  <2>3. Holds(d, off, <<tag>>) /\ Holds(d, off + 1, L)
    BY <1>1, <2>2, HoldsParts
  <2> QED
    BY <2>2, <2>3
<1>6. At(d, off) = tag
  BY <1>1, <1>5 DEF Holds, At
<1>7. \A i \in 1..Len(L) : d[(off + 1) + i] = L[i]
  BY <1>5 DEF Holds
<1>8. off + (1 + Len(L)) \in Nat
  BY <1>2
<1> HIDE DEF L, n
<1>9. /\ At(d, off + 1) \in Byte \ {128}
      /\ At(d, off + 1) < 128 \/ n # 0
      /\ LengthBytes(d, off + 1) = Len(L)
      /\ LengthValue(d, off + 1) = n
  <2>1. off + 1 + 1 = off + 2
    OBVIOUS
  <2>2. CASE n < 128
    <3>1. L = <<n>> /\ Len(L) = 1
      BY <1>2, <2>2 DEF L, DerLength
    <3>2. At(d, off + 1) = n
      BY <1>7, <3>1 DEF At
    <3>3. n \in Byte \ {128}
      BY <1>1, <2>2 DEF Byte
    <3>4. LengthBytes(d, off + 1) = 1 /\ LengthValue(d, off + 1) = n
      BY <1>1, <2>2, <3>2 DEF LengthBytes, LengthValue
    <3> QED
      BY <2>2, <3>1, <3>2, <3>3, <3>4
  <2>3. CASE n >= 128 /\ n < 256
    <3>1. L = <<129, n>> /\ Len(L) = 2
      BY <1>1, <1>2, <2>3 DEF L, DerLength
    <3>2. At(d, off + 1) = 129 /\ At(d, off + 2) = n
      BY <1>7, <3>1 DEF At
    <3>3. LongLength(d, off + 2, 1) = n
      BY <1>1, <2>3, <3>2 DEF LongLength, At
    <3> QED
      BY <2>1, <2>3, <3>1, <3>2, <3>3 DEF LengthBytes, LengthValue, Byte
  <2>4. CASE n >= 256
    <3>1. L = <<130, n \div 256, n % 256>> /\ Len(L) = 3
      BY <1>1, <1>2, <2>4 DEF L, DerLength
    <3>2. At(d, off + 1) = 130 /\ At(d, off + 2) = n \div 256 /\ At(d, off + 3) = n % 256
      BY <1>7, <3>1 DEF At
    <3>3. LongLength(d, off + 2, 2) = n
      <4>1. (n % 256) + 256 * (n \div 256) = n
        BY <1>1
      <4>2. off + 2 + 2 - 1 = off + 3 /\ off + 2 + 2 - 2 = off + 2
        OBVIOUS
      <4> QED
        BY <1>1, <3>2, <4>1, <4>2 DEF LongLength
    <3> QED
      BY <2>1, <2>4, <3>1, <3>2, <3>3 DEF LengthBytes, LengthValue, Byte
  <2> QED
    BY <1>1, <2>2, <2>3, <2>4
<1>10. At(d, off) % 32 = tag % 32 /\ At(d, off) % 32 \in 0..30
  BY <1>6 DEF Byte
<1>11. GetObject(d, off, max) =
         [fails |-> FALSE, tag |-> tag % 32, body |-> off + (1 + Len(L)), len |-> n]
  <2> HIDE DEF At, LengthBytes, LengthValue
  <2>1. /\ LengthBytes(d, off + 1) \in Nat \ {0} /\ LengthValue(d, off + 1) \in Nat
        /\ 1 + LengthBytes(d, off + 1) + LengthValue(d, off + 1) <= max
        /\ At(d, off + 1) < 128 \/ LengthValue(d, off + 1) # 0
    BY <1>1, <1>2, <1>3, <1>9, SMTT(30)
  <2>2. GetObject(d, off, max) =
          [fails |-> FALSE, tag |-> At(d, off) % 32,
           body |-> (off + 1) + LengthBytes(d, off + 1), len |-> LengthValue(d, off + 1)]
    BY <1>9, <1>10, <2>1, Header
  <2>3. (off + 1) + Len(L) = off + (1 + Len(L))
    BY <1>2
  <2> QED
    BY <1>9, <1>10, <2>2, <2>3
<1>12. off + (1 + Len(L)) + n = off + Len(DerTlv(tag, v))
  BY <1>1, <1>2, <1>3
<1> QED
  BY <1>5, <1>8, <1>11, <1>12 DEF n

\* A byte of the text.
LEMMA AtType ==
  ASSUME NEW d \in Seq(Byte), NEW off \in Nat, off < Len(d)
  PROVE  At(d, off) \in Byte
<1>1. off + 1 \in 1..Len(d)
  OBVIOUS
<1> QED
  BY <1>1 DEF At

\* The value of a length whose bytes are all there.
LEMMA LengthType ==
  ASSUME NEW d \in Seq(Byte), NEW off \in Nat, off < Len(d)
  PROVE  /\ LengthBytes(d, off) \in Nat \ {0}
         /\ off + LengthBytes(d, off) <= Len(d) => LengthValue(d, off) \in Nat
<1> DEFINE first == At(d, off)
           n == first - 128
           Digit(i) == IF i <= n THEN At(d, off + 1 + n - i) ELSE 0
<1>1. first \in 0..255 /\ Len(d) \in Nat
  BY AtType DEF Byte
<1>2. LengthBytes(d, off) = IF first <= 128 THEN 1 ELSE first - 127
  BY DEF LengthBytes
<1>3. LengthValue(d, off) = IF first < 128 THEN first
                            ELSE IF first = 128 THEN 0 ELSE LongLength(d, off + 1, n)
  BY DEF LengthValue
<1>4. LongLength(d, off + 1, n) =
        IF \E i \in 4..n : Digit(i) # 0 THEN MaxText + 1
        ELSE Digit(1) + 256 * Digit(2) + 65536 * Digit(3)
  BY DEF LongLength
<1> HIDE DEF first
<1>5. LengthBytes(d, off) \in Nat \ {0}
  BY <1>1, <1>2
<1>6. ASSUME first > 128, off + LengthBytes(d, off) <= Len(d), NEW i \in 1..3
      PROVE  Digit(i) \in Nat
  <2>1. CASE i <= n
    <3>1. off + 1 + n - i \in Nat /\ off + 1 + n - i < Len(d)
      BY <1>1, <1>2, <1>6, <2>1
    <3>2. Digit(i) = At(d, off + 1 + n - i)
      BY <2>1
    <3> HIDE DEF n, At, Digit
    <3>3. At(d, off + 1 + n - i) \in Byte
      BY <3>1, AtType
    <3>4. Byte \subseteq Nat
      BY DEF Byte
    <3> QED
      BY <3>2, <3>3, <3>4, Zenon
  <2>2. CASE ~(i <= n)
    BY <2>2
  <2> QED
    BY <2>1, <2>2
<1>7. ASSUME first > 128, off + LengthBytes(d, off) <= Len(d)
      PROVE  LongLength(d, off + 1, n) \in Nat
  <2>1. Digit(1) \in Nat /\ Digit(2) \in Nat /\ Digit(3) \in Nat
    BY <1>6, <1>7
  <2>2. MaxText + 1 \in Nat
    BY BindingAssumption
  <2> HIDE DEF Digit, n
  <2> QED
    BY <1>4, <2>1, <2>2
<1> HIDE DEF Digit, n
<1> QED
  BY <1>1, <1>3, <1>5, <1>7

\* What ASN1_get_object finds lies within the max bytes it was given.
LEMMA ObjectFits ==
  ASSUME NEW d \in Seq(Byte), NEW off \in Nat, NEW max \in Nat, off + max <= Len(d),
         ~GetObject(d, off, max).fails
  PROVE  LET o == GetObject(d, off, max)
         IN  /\ o.body \in Nat /\ o.len \in Nat
             /\ off <= o.body /\ o.body + o.len <= off + max
<1> DEFINE lengthAt == off + TagBytes(d, off)
           body == lengthAt + LengthBytes(d, lengthAt)
<1>1. /\ ~(max < 2 \/ lengthAt + 1 > off + max)
      /\ ~(body > off + max)
      /\ ~(body + LengthValue(d, lengthAt) > off + max)
      /\ GetObject(d, off, max).body = body
      /\ GetObject(d, off, max).len = LengthValue(d, lengthAt)
  <2> HIDE DEF At, LengthBytes, LengthValue, TagBytes, Tag, IsConstructed
  <2>1. Failure.fails
    BY DEF Failure
  <2>2. /\ ~(max < 2 \/ lengthAt + 1 > off + max)
        /\ ~(body > off + max)
        /\ ~(body + LengthValue(d, lengthAt) > off + max)
        /\ GetObject(d, off, max) =
              [fails |-> FALSE, tag |-> Tag(d, off), body |-> body,
               len |-> LengthValue(d, lengthAt)]
    BY <2>1, Zenon DEF GetObject
  <2> HIDE DEF body, lengthAt
  <2> QED
    BY <2>2
<1>2. lengthAt \in Nat /\ off < lengthAt
  BY DEF TagBytes
<1> HIDE DEF lengthAt
<1>3. lengthAt + 1 <= Len(d) /\ Len(d) \in Nat
  BY <1>1, <1>2
<1>4. LengthBytes(d, lengthAt) \in Nat \ {0} /\ LengthValue(d, lengthAt) \in Nat
  <2>1. LengthBytes(d, lengthAt) \in Nat \ {0}
    BY <1>2, <1>3, LengthType
  <2>2. lengthAt + LengthBytes(d, lengthAt) <= Len(d)
    BY <1>1, <1>2, <1>3, <2>1
  <2> QED
    BY <1>2, <1>3, <2>1, <2>2, LengthType
<1> QED
  BY <1>1, <1>2, <1>4

-----------------------------------------------------------------------------
\* The reading head is within the SEQUENCE, and the SEQUENCE within the text.
Reading ==
    /\ p \in Nat /\ end \in Nat
    /\ ReadsInSequence

LEMMA ReadingInvariant == Spec => [](TypeOK /\ Reading)
<1>1. Init => TypeOK /\ Reading
  <2> SUFFICES ASSUME Init
               PROVE  TypeOK /\ Reading
    OBVIOUS
  <2>1. der \in Seq(Byte) /\ written \in Binding \cup {None}
    <3>1. CASE written = None /\ der \in Others
      BY <3>1, BindingAssumption
    <3>2. CASE written \in Binding /\ Encodable(written) /\ der = Encode(written)
      BY <3>2, EncodingType
    <3> QED
      BY <3>1, <3>2 DEF Init
  <2> QED
    BY <2>1 DEF Init, TypeOK, Reading, ReadsInSequence
<1>2. TypeOK /\ Reading /\ [Next]_vars => (TypeOK /\ Reading)'
  <2> SUFFICES ASSUME TypeOK, Reading, [Next]_vars
               PROVE  (TypeOK /\ Reading)'
    OBVIOUS
  <2>1. Len(der) \in Nat /\ der \in Seq(Byte)
    BY DEF TypeOK
  <2>2. ASSUME NEW tag, ~MustRead(tag).fails
        PROVE  LET o == MustRead(tag)
               IN  /\ o.body \in Nat /\ o.len \in Nat
                   /\ p <= o.body /\ o.body + o.len <= end
                   /\ Value(o) \in Seq(Byte)
    <3> DEFINE o == GetObject(der, p, end - p)
    <3>1. MustRead(tag) = o /\ ~o.fails
      BY <2>2 DEF MustRead, Failure
    <3>2. end - p \in Nat /\ p + (end - p) = end /\ end <= Len(der)
      BY DEF Reading, ReadsInSequence
    <3>3. /\ o.body \in Nat /\ o.len \in Nat /\ p <= o.body /\ o.body + o.len <= end
      <4> HIDE DEF GetObject
      <4> QED
        BY <2>1, <3>1, <3>2, ObjectFits DEF Reading
    <3> HIDE DEF o
    <3>4. SubSeq(der, o.body + 1, o.body + o.len) \in Seq(Byte)
      <4>1. ASSUME NEW i \in (o.body + 1)..(o.body + o.len)
            PROVE  der[i] \in Byte
        <5>1. i \in 1..Len(der)
          BY <2>1, <3>2, <3>3 DEF Reading
        <5> QED
          BY <2>1, <5>1, ElementOfSeq
      <4>2. o.body + 1 \in Int /\ o.body + o.len \in Int
        BY <3>3
      <4> QED
        BY <4>1, <4>2, SubSeqProperties
    <3> QED
      BY <3>1, <3>3, <3>4 DEF Value
  <2>3. CASE ReadSequence
    <3> DEFINE o == GetObject(der, 0, Len(der))
    <3>1. CASE Throw
      BY <2>3, <3>1 DEF ReadSequence, Throw, fields, TypeOK, Reading, ReadsInSequence
    <3>2. CASE ~o.fails /\ ~Throw
      <4>1. o.body \in Nat /\ o.len \in Nat /\ o.body + o.len <= Len(der)
        <5> HIDE DEF GetObject
        <5> QED
          BY <2>1, <3>2, ObjectFits
      <4>2. /\ step' = "teeType" /\ p' = o.body /\ end' = o.body + o.len
            /\ UNCHANGED <<fields, written, der>>
        BY <2>3, <3>2 DEF ReadSequence, Goto
      <4> HIDE DEF o
      <4> QED
        BY <2>1, <4>1, <4>2 DEF fields, TypeOK, Reading, ReadsInSequence
    <3> QED
      BY <2>3, <3>1, <3>2 DEF ReadSequence
  <2>4. CASE ReadTeeType
    <3> DEFINE o == MustRead(TagEnumerated)
    <3>1. CASE Throw
      BY <2>4, <3>1 DEF ReadTeeType, Throw, fields, TypeOK, Reading, ReadsInSequence
    <3>2. CASE ~Throw
      <4>1. /\ ~o.fails /\ o.len = 1
            /\ step' = "chipId" /\ teeType' = At(der, o.body) /\ p' = o.body + o.len
            /\ UNCHANGED <<end, chipId, issuedAt, written, der>>
        BY <2>4, <3>2 DEF ReadTeeType, Goto
      <4>2. o.body \in Nat /\ p <= o.body /\ o.body + o.len <= end
        BY <2>2, <4>1
      <4> HIDE DEF o
      <4>3. At(der, o.body) \in Byte
        <5>1. o.body < Len(der)
          BY <2>1, <4>1, <4>2 DEF Reading, ReadsInSequence
        <5> QED
          BY <2>1, <4>2, <5>1, AtType
      <4> QED
        BY <2>1, <4>1, <4>2, <4>3 DEF TypeOK, Reading, ReadsInSequence
    <3> QED
      BY <3>1, <3>2
  <2>5. CASE ReadChipId
    <3> DEFINE o == MustRead(TagOctetString)
    <3>1. CASE Throw
      BY <2>5, <3>1 DEF ReadChipId, Throw, fields, TypeOK, Reading, ReadsInSequence
    <3>2. CASE ~Throw
      <4>1. /\ ~o.fails
            /\ step = "chipId" /\ step' = "issuedAt" /\ chipId' = Value(o)
            /\ p' = o.body + o.len
            /\ UNCHANGED <<end, teeType, issuedAt, written, der>>
        BY <2>5, <3>2 DEF ReadChipId, Goto
      <4>2. /\ o.body \in Nat /\ o.len \in Nat /\ p <= o.body /\ o.body + o.len <= end
            /\ Value(o) \in Seq(Byte)
        BY <2>2, <4>1
      <4> HIDE DEF o
      <4> QED
        BY <2>1, <4>1, <4>2 DEF TypeOK, Reading, ReadsInSequence
    <3> QED
      BY <3>1, <3>2
  <2>6. CASE ReadIssuedAt
    <3> DEFINE o == MustRead(TagGeneralizedTime)
    <3>1. CASE Throw
      BY <2>6, <3>1 DEF ReadIssuedAt, Throw, fields, TypeOK, Reading, ReadsInSequence
    <3>2. CASE ~Throw
      <4>1. /\ ~o.fails
            /\ step = "issuedAt" /\ step' = "done" /\ issuedAt' = Value(o)
            /\ p' = o.body + o.len
            /\ UNCHANGED <<end, teeType, chipId, written, der>>
        BY <2>6, <3>2 DEF ReadIssuedAt, Goto
      <4>2. /\ o.body \in Nat /\ o.len \in Nat /\ p <= o.body /\ o.body + o.len <= end
            /\ Value(o) \in Seq(Byte)
        BY <2>2, <4>1
      <4> HIDE DEF o
      <4> QED
        BY <2>1, <4>1, <4>2 DEF TypeOK, Reading, ReadsInSequence
    <3> QED
      BY <3>1, <3>2
  <2>7. CASE UNCHANGED vars
    BY <2>7 DEF vars, fields, TypeOK, Reading, ReadsInSequence
  <2> QED
    BY <2>3, <2>4, <2>5, <2>6, <2>7 DEF Next
<1> QED
  BY <1>1, <1>2, PTL DEF Spec

\* TypeOK, for bindings and texts of any length.
THEOREM TypeCorrect == Spec => []TypeOK
<1> QED
  BY ReadingInvariant, PTL

\* decode_chip_id_binding takes nothing beyond the SEQUENCE, nor the text, for a field.
THEOREM ReadingStaysInside == Spec => []ReadsInSequence
<1>1. Reading => ReadsInSequence
  BY DEF Reading
<1> QED
  BY <1>1, ReadingInvariant, PTL

-----------------------------------------------------------------------------
TeeTlv == DerTlv(TagEnumerated, <<written.teeType>>)
IdTlv == DerTlv(TagOctetString, written.chipId)
TimeTlv == DerTlv(TagGeneralizedTime, written.issuedAt)

\* What is left to read of what was written, and what has been read of it.
ToRead ==
    /\ step = "sequence" => der = Encode(written)
    /\ step = "teeType" =>
          /\ Holds(der, p, TeeTlv) /\ Holds(der, p + Len(TeeTlv), IdTlv)
          /\ Holds(der, p + Len(TeeTlv) + Len(IdTlv), TimeTlv)
          /\ end = p + Len(TeeTlv) + Len(IdTlv) + Len(TimeTlv)
    /\ step = "chipId" =>
          /\ teeType = written.teeType
          /\ Holds(der, p, IdTlv) /\ Holds(der, p + Len(IdTlv), TimeTlv)
          /\ end = p + Len(IdTlv) + Len(TimeTlv)
    /\ step = "issuedAt" =>
          /\ teeType = written.teeType /\ chipId = written.chipId
          /\ Holds(der, p, TimeTlv)
          /\ end = p + Len(TimeTlv)

Unread == written # None => written \in Binding /\ Encodable(written) /\ ToRead /\ RoundTrip

\* One part of the binding is read, and the next one comes after it.
LEMMA PartIsRead ==
  ASSUME TypeOK, Reading,
         NEW tag \in Byte, tag % 32 # 31, NEW v \in Seq(Byte), Len(v) < DerLengthLimit,
         Holds(der, p, DerTlv(tag, v)), p + Len(DerTlv(tag, v)) <= end
  PROVE  LET o == MustRead(tag % 32)
         IN  /\ ~o.fails
             /\ o.len = Len(v)
             /\ o.body + o.len = p + Len(DerTlv(tag, v))
             /\ Value(o) = v
             /\ Holds(der, o.body, v)
<1> DEFINE o == GetObject(der, p, end - p)
           l == Len(DerTlv(tag, v))
<1>1. der \in Seq(Byte) /\ p \in Nat /\ end \in Nat /\ end - p \in Nat /\ l \in Nat
  BY DerTlvType DEF TypeOK, Reading, ReadsInSequence
<1>2. l <= end - p
  BY <1>1
<1>3. /\ ~o.fails /\ o.tag = tag % 32 /\ o.len = Len(v)
      /\ o.body + o.len = p + l /\ o.body \in Nat /\ Holds(der, o.body, v)
  <2> HIDE DEF GetObject
  <2> QED
    BY <1>1, <1>2, TlvIsRead
<1>4. MustRead(tag % 32) = o
  BY <1>3 DEF MustRead
<1> HIDE DEF o, l
<1>5. Value(o) = v
  BY <1>1, <1>3, HoldsValue DEF Value
<1> QED
  BY <1>3, <1>4, <1>5 DEF l

\* The step of the invariant for a binding that was written.
LEMMA UnreadStep ==
  ASSUME TypeOK, Reading, Unread, written # None, Next
  PROVE  Unread'
<1> DEFINE b == written
<1>1. /\ written' = written /\ der' = der
      /\ b \in Binding /\ Encodable(b) /\ ToRead /\ RoundTrip
  BY DEF Next, ReadSequence, ReadTeeType, ReadChipId, ReadIssuedAt, Unread
<1>2. /\ <<b.teeType>> \in Seq(Byte) /\ Len(<<b.teeType>>) = 1
      /\ Len(<<b.teeType>>) < DerLengthLimit
      /\ b.chipId \in Seq(Byte) /\ Len(b.chipId) < DerLengthLimit
      /\ b.issuedAt \in Seq(Byte) /\ Len(b.issuedAt) < DerLengthLimit
      /\ TeeTlv \in Seq(Byte) /\ IdTlv \in Seq(Byte) /\ TimeTlv \in Seq(Byte)
      /\ Content(b) \in Seq(Byte) /\ Len(Content(b)) < DerLengthLimit
      /\ Encode(b) \in Seq(Byte)
  BY <1>1, EncodingType DEF TeeTlv, IdTlv, TimeTlv
<1>3. /\ Len(TeeTlv) \in Nat /\ Len(IdTlv) \in Nat /\ Len(TimeTlv) \in Nat
      /\ p \in Nat /\ end \in Nat /\ der \in Seq(Byte)
  BY <1>2 DEF Reading, TypeOK
<1>4. /\ TagEnumerated \in Byte /\ TagEnumerated % 32 = TagEnumerated
      /\ TagOctetString \in Byte /\ TagOctetString % 32 = TagOctetString
      /\ TagGeneralizedTime \in Byte /\ TagGeneralizedTime % 32 = TagGeneralizedTime
      /\ TagSequence + Constructed \in Byte /\ (TagSequence + Constructed) % 32 = TagSequence
      /\ TagEnumerated # 31 /\ TagOctetString # 31 /\ TagGeneralizedTime # 31
      /\ TagSequence # 31
  BY DEF TagEnumerated, TagOctetString, TagGeneralizedTime, TagSequence, Constructed, Byte
<1> HIDE DEF TagEnumerated, TagOctetString, TagGeneralizedTime, TagSequence, Constructed,
             DerLengthLimit
<1>5. SUFFICES ToRead' /\ RoundTrip'
  BY <1>1 DEF Unread, Encodable
<1>6. TeeTlv' = TeeTlv /\ IdTlv' = IdTlv /\ TimeTlv' = TimeTlv
  BY <1>1 DEF TeeTlv, IdTlv, TimeTlv
<1>7. CASE ReadSequence
  <2> DEFINE o == GetObject(der, 0, Len(der))
             s == (TeeTlv \o IdTlv) \o TimeTlv
  <2>1. step = "sequence" /\ der = Encode(b)
    BY <1>1, <1>7 DEF ReadSequence, ToRead
  <2>2. Content(b) = s /\ TeeTlv \o IdTlv \in Seq(Byte)
        /\ Len(TeeTlv \o IdTlv) = Len(TeeTlv) + Len(IdTlv)
        /\ Len(s) = Len(TeeTlv) + Len(IdTlv) + Len(TimeTlv)
    BY <1>2 DEF Content, TeeTlv, IdTlv, TimeTlv
  <2>3. /\ ~o.fails /\ o.tag = TagSequence
        /\ o.len = Len(Content(b)) /\ o.body \in Nat
        /\ Holds(der, o.body, Content(b))
    <3>1. Holds(der, 0, DerTlv(TagSequence + Constructed, Content(b)))
          /\ Len(DerTlv(TagSequence + Constructed, Content(b))) <= Len(der)
      BY <1>2, <2>1 DEF Encode, Holds
    <3> DEFINE tag == TagSequence + Constructed
               c == Content(b)
    <3>2. /\ Len(der) \in Nat /\ tag \in Byte /\ tag % 32 # 31 /\ tag % 32 = TagSequence
          /\ c \in Seq(Byte) /\ Len(c) < DerLengthLimit
      BY <1>2, <1>3, <1>4
    <3> HIDE DEF GetObject, tag, c
    <3> QED
      BY <1>3, <3>1, <3>2, TlvIsRead DEF tag, c
  <2>4. /\ Holds(der, o.body, TeeTlv) /\ Holds(der, o.body + Len(TeeTlv), IdTlv)
        /\ Holds(der, o.body + Len(TeeTlv) + Len(IdTlv), TimeTlv)
    <3> HIDE DEF o
    <3> DEFINE u == TeeTlv \o IdTlv
    <3>1. /\ Holds(der, o.body, u)
          /\ Holds(der, o.body + (Len(TeeTlv) + Len(IdTlv)), TimeTlv)
      <4>1. Holds(der, o.body, u \o TimeTlv) /\ u \in Seq(Byte)
            /\ Len(u) = Len(TeeTlv) + Len(IdTlv)
        BY <2>2, <2>3
      <4> HIDE DEF u
      <4> QED
        BY <1>2, <1>3, <2>3, <4>1, HoldsParts
    <3>2. o.body + (Len(TeeTlv) + Len(IdTlv)) = o.body + Len(TeeTlv) + Len(IdTlv)
      BY <1>3, <2>3
    <3> QED
      BY <1>2, <1>3, <2>3, <3>1, <3>2, HoldsParts
  <2>5. step' = "teeType" /\ p' = o.body /\ end' = o.body + o.len
    BY <1>7, <2>3 DEF ReadSequence, Goto
  <2> HIDE DEF o, s
  <2>6. end' = p' + Len(TeeTlv) + Len(IdTlv) + Len(TimeTlv)
    BY <1>3, <2>2, <2>3, <2>5 DEF s
  <2> QED
    BY <1>1, <1>6, <2>4, <2>5, <2>6 DEF ToRead, RoundTrip
<1>8. CASE ReadTeeType
  <2> DEFINE o == MustRead(TagEnumerated)
  <2>1. /\ step = "teeType"
        /\ Holds(der, p, TeeTlv) /\ Holds(der, p + Len(TeeTlv), IdTlv)
        /\ Holds(der, p + Len(TeeTlv) + Len(IdTlv), TimeTlv)
        /\ end = p + Len(TeeTlv) + Len(IdTlv) + Len(TimeTlv)
    BY <1>1, <1>8 DEF ReadTeeType, ToRead
  <2>2. p + Len(TeeTlv) <= end
    BY <1>3, <2>1
  <2>3. /\ ~o.fails /\ o.len = 1 /\ o.body + o.len = p + Len(TeeTlv)
        /\ Holds(der, o.body, <<b.teeType>>)
    <3> DEFINE v == <<b.teeType>>
    <3>1. v \in Seq(Byte) /\ Len(v) = 1 /\ Len(v) < DerLengthLimit
          /\ TeeTlv = DerTlv(TagEnumerated, v)
      BY <1>2 DEF TeeTlv
    <3> HIDE DEF MustRead, v
    <3>2. ~o.fails /\ o.len = 1 /\ o.body + o.len = p + Len(TeeTlv) /\ Holds(der, o.body, v)
      BY <1>4, <2>1, <2>2, <3>1, PartIsRead
    <3> QED
      BY <3>2 DEF v
  <2>4. At(der, o.body) = b.teeType
    <3> HIDE DEF o
    <3> QED
      BY <1>2, <2>3 DEF Holds, At
  <2>5. step' = "chipId" /\ teeType' = At(der, o.body) /\ p' = o.body + o.len /\ end' = end
    BY <1>8, <2>3 DEF ReadTeeType, Goto
  <2> HIDE DEF o
  <2> QED
    BY <1>1, <1>6, <2>1, <2>3, <2>4, <2>5 DEF ToRead, RoundTrip
<1>9. CASE ReadChipId
  <2> DEFINE o == MustRead(TagOctetString)
  <2>1. /\ step = "chipId" /\ teeType = b.teeType
        /\ Holds(der, p, IdTlv) /\ Holds(der, p + Len(IdTlv), TimeTlv)
        /\ end = p + Len(IdTlv) + Len(TimeTlv)
    BY <1>1, <1>9 DEF ReadChipId, ToRead
  <2>2. p + Len(IdTlv) <= end
    BY <1>3, <2>1
  <2>3. ~o.fails /\ Value(o) = b.chipId /\ o.body + o.len = p + Len(IdTlv)
    <3> HIDE DEF MustRead
    <3> QED
      BY <1>2, <1>4, <2>1, <2>2, PartIsRead DEF IdTlv
  <2>4. /\ step' = "issuedAt" /\ chipId' = Value(o) /\ p' = o.body + o.len
        /\ end' = end /\ teeType' = teeType
    BY <1>9, <2>3 DEF ReadChipId, Goto
  <2> HIDE DEF o
  <2> QED
    BY <1>1, <1>6, <2>1, <2>3, <2>4 DEF ToRead, RoundTrip
<1>10. CASE ReadIssuedAt
  <2> DEFINE o == MustRead(TagGeneralizedTime)
  <2>1. /\ step = "issuedAt" /\ teeType = b.teeType /\ chipId = b.chipId
        /\ Holds(der, p, TimeTlv)
        /\ end = p + Len(TimeTlv)
    BY <1>1, <1>10 DEF ReadIssuedAt, ToRead
  <2>2. p + Len(TimeTlv) <= end
    BY <1>3, <2>1
  <2>3. ~o.fails /\ Value(o) = b.issuedAt
    <3> HIDE DEF MustRead
    <3> QED
      BY <1>2, <1>4, <2>1, <2>2, PartIsRead DEF TimeTlv
  <2>4. step' = "done" /\ issuedAt' = Value(o) /\ teeType' = teeType /\ chipId' = chipId
    BY <1>10, <2>3 DEF ReadIssuedAt, Goto
  <2> HIDE DEF o
  <2> QED
    BY <1>1, <1>6, <2>1, <2>3, <2>4 DEF ToRead, RoundTrip
<1> QED
  BY <1>7, <1>8, <1>9, <1>10 DEF Next

\* verify reads the TEE type, the chip id and the time that provision wrote, for every
\* binding that encode_chip_id_binding encodes.
THEOREM WrittenIsRead == Spec => []RoundTrip
<1>1. Init => Unread
  BY BindingAssumption DEF Init, Unread, ToRead, RoundTrip
<1>2. TypeOK /\ Reading /\ Unread /\ [Next]_vars => Unread'
  <2> SUFFICES ASSUME TypeOK, Reading, Unread, [Next]_vars
               PROVE  Unread'
    OBVIOUS
  <2>1. CASE written # None /\ Next
    BY <2>1, UnreadStep
  <2>2. CASE written = None /\ Next
    BY <2>2 DEF Next, ReadSequence, ReadTeeType, ReadChipId, ReadIssuedAt, Unread
  <2>3. CASE UNCHANGED vars
    BY <2>3 DEF vars, fields, Unread, ToRead, RoundTrip, TeeTlv, IdTlv, TimeTlv
  <2> QED
    BY <2>1, <2>2, <2>3
<1>3. Unread => RoundTrip
  BY DEF Unread, RoundTrip
<1> QED
  BY <1>1, <1>2, <1>3, ReadingInvariant, PTL DEF Spec
=============================================================================
