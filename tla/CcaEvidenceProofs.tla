--------------------------- MODULE CcaEvidenceProofs ---------------------------
(***************************************************************************)
(* Which platform a CCA token is taken to come from, for tokens of any     *)
(* length and contents.  Half of it is about CBOR: that the decoder is     *)
(* defined for every text, that what it finds lies within the text, and    *)
(* that it takes apart what the encoder puts together.                     *)
(***************************************************************************)
EXTENDS CcaEvidence, FiniteSetTheorems, WellFoundedInduction, TLAPS

(***************************************************************************)
(* What holds of a number, and with each positive number of the one before *)
(* it, holds of 0: the least number it holds of cannot be another.  The    *)
(* intervals 0..x, ordered by inclusion, stand for the numbers.            *)
(***************************************************************************)
LEMMA Descent ==
  ASSUME NEW T, T \subseteq Nat, NEW k \in T, \A x \in T \ {0} : x - 1 \in T
  PROVE  0 \in T
<1> DEFINE D == {0..x : x \in T}
<1>1. D \subseteq FiniteSubsetsOf(Nat)
  <2> SUFFICES ASSUME NEW x \in T PROVE 0..x \in FiniteSubsetsOf(Nat)
    OBVIOUS
  <2>1. IsFiniteSet(0..x)
    BY FS_Interval
  <2> QED
    BY <2>1 DEF FiniteSubsetsOf
<1>2. PICK d \in D : \A e \in D : ~ (<<e, d>> \in StrictSubsetOrdering(Nat))
  <2>1. D # {}
    OBVIOUS
  <2> QED
    BY <1>1, <2>1, FS_StrictSubsetOrderingWellFounded, WFMin
<1>3. PICK x \in T : d = 0..x
  OBVIOUS
<1>4. ASSUME x # 0
      PROVE  FALSE
  <2>1. x - 1 \in T /\ x \in Nat /\ x - 1 \in Nat
    BY <1>4
  <2>2. 0..(x - 1) \subseteq 0..x /\ x \in 0..x /\ x \notin 0..(x - 1)
    BY <2>1
  <2>3. 0..(x - 1) \in D /\ 0..(x - 1) \in SUBSET Nat /\ 0..x \in SUBSET Nat
    BY <2>1
  <2> QED
    BY <1>2, <1>3, <2>2, <2>3 DEF StrictSubsetOrdering
<1> QED
  BY <1>3, <1>4

-----------------------------------------------------------------------------
\* Texts within texts.

LEMMA SameText ==
  ASSUME NEW v \in Seq(Byte), NEW s \in Seq(Byte), Len(v) = Len(s),
         \A i \in 1..Len(s) : v[i] = s[i]
  PROVE  v = s
<1>1. v = [i \in 1..Len(s) |-> v[i]] /\ s = [i \in 1..Len(s) |-> s[i]]
  OBVIOUS
<1>2. [i \in 1..Len(s) |-> v[i]] = [i \in 1..Len(s) |-> s[i]]
  OBVIOUS
<1> QED
  BY <1>1, <1>2, Zenon

\* The text s stands in m behind the first off bytes.
Holds(m, off, s) ==
    /\ off + Len(s) <= Len(m)
    /\ \A i \in 1..Len(s) : m[off + i] = s[i]

\* So do its parts.
LEMMA HoldsParts ==
  ASSUME NEW m \in Seq(Byte), NEW off \in Nat, NEW a \in Seq(Byte), NEW b \in Seq(Byte),
         Holds(m, off, a \o b)
  PROVE  Holds(m, off, a) /\ Holds(m, off + Len(a), b)
<1>1. Len(a \o b) = Len(a) + Len(b) /\ Len(a) \in Nat /\ Len(b) \in Nat
  OBVIOUS
<1>2. ASSUME NEW i \in 1..Len(a)
      PROVE  m[off + i] = a[i]
  <2>1. i \in 1..Len(a \o b) /\ (a \o b)[i] = a[i]
    BY <1>1
  <2> QED
    BY <2>1 DEF Holds
<1>3. ASSUME NEW i \in 1..Len(b)
      PROVE  m[(off + Len(a)) + i] = b[i]
  <2>1. Len(a) + i \in 1..Len(a \o b) /\ (a \o b)[Len(a) + i] = b[i]
    BY <1>1
  <2>2. m[off + (Len(a) + i)] = (a \o b)[Len(a) + i]
    BY <2>1 DEF Holds
  <2>3. off + (Len(a) + i) = (off + Len(a)) + i
    BY <1>1
  <2> QED
    BY <2>1, <2>2, <2>3
<1> QED
  BY <1>1, <1>2, <1>3 DEF Holds

LEMMA HoldsAtFront ==
  ASSUME NEW m \in Seq(Byte), NEW a \in Seq(Byte), NEW b \in Seq(Byte), Holds(m, 0, a \o b)
  PROVE  Holds(m, 0, a) /\ Holds(m, Len(a), b)
<1>1. 0 \in Nat /\ 0 + Len(a) = Len(a)
  OBVIOUS
<1>2. Holds(m, 0, a) /\ Holds(m, 0 + Len(a), b)
  BY <1>1, HoldsParts
<1> QED
  BY <1>1, <1>2

\* What stands in a text is read as it is.
LEMMA HoldsValue ==
  ASSUME NEW m \in Seq(Byte), NEW off \in Nat, NEW s \in Seq(Byte), Holds(m, off, s)
  PROVE  SubSeq(m, off + 1, off + Len(s)) = s
<1>1. Len(s) \in Nat /\ off + Len(s) <= Len(m) /\ Len(m) \in Nat
  BY DEF Holds
<1> DEFINE v == SubSeq(m, off + 1, off + Len(s))
<1>2. v \in Seq(Byte) /\ Len(v) = Len(s)
  BY <1>1
<1>3. ASSUME NEW i \in 1..Len(s)
      PROVE  v[i] = s[i]
  <2>1. v[i] = m[off + i]
    BY <1>1
  <2> QED
    BY <2>1 DEF Holds
<1> HIDE DEF v
<1>4. v = s
  BY <1>2, <1>3, SameText
<1> QED
  BY <1>4 DEF v

-----------------------------------------------------------------------------
\* The first bytes of an item.

LEMMA ByteType ==
  \A b \in Byte : /\ b \in Int /\ 0 <= b /\ b <= 255 /\ 255 - b \in Byte
                  /\ b \div 32 \in Int /\ b % 32 \in Int /\ 0 <= b % 32 /\ b % 32 <= 31
  BY DEF Byte

LEMMA ElementIsByte ==
  ASSUME NEW s \in Seq(Byte), NEW i \in 1..Len(s)
  PROVE  s[i] \in Byte
  OBVIOUS

LEMMA HugeType == Huge \in Nat
  BY DEF Huge

LEMMA FourDigits ==
  ASSUME NEW a \in Byte, NEW b \in Byte, NEW c \in Byte, NEW d \in Byte, d < 64
  PROVE  /\ a + 256 * (b + 256 * (c + 256 * d)) \in Int
         /\ 0 <= a + 256 * (b + 256 * (c + 256 * d))
         /\ a + 256 * (b + 256 * (c + 256 * d)) < Huge
  BY DEF Byte, Huge

LEMMA UnsignedType ==
  ASSUME NEW bs \in Seq(Byte)
  PROVE  Unsigned(bs) \in Int /\ 0 <= Unsigned(bs) /\ Unsigned(bs) <= Huge
<1> DEFINE digit(i) == IF i < Len(bs) THEN bs[Len(bs) - i] ELSE 0
           number == digit(0) + 256 * (digit(1) + 256 * (digit(2) + 256 * digit(3)))
           large == digit(3) >= 64 \/ \E i \in 4..7 : digit(i) > 0
<1>1. ASSUME NEW i \in 0..3
      PROVE  digit(i) \in Byte
  <2>1. CASE i < Len(bs)
    <3>1. Len(bs) - i \in 1..Len(bs)
      BY <2>1
    <3> QED
      BY <2>1, <3>1, ElementIsByte
  <2> QED
    BY <2>1 DEF Byte
<1>2. Unsigned(bs) = IF large THEN Huge ELSE number
  BY DEF Unsigned
<1>3. ~large => ~ (digit(3) >= 64)
  OBVIOUS
<1>4. digit(0) \in Byte /\ digit(1) \in Byte /\ digit(2) \in Byte /\ digit(3) \in Byte
  BY <1>1
<1> HIDE DEF digit, large
<1>5. ~large => digit(3) < 64
  <2>1. digit(3) \in Int
    BY <1>4, ByteType
  <2> QED
    BY <1>3, <2>1
<1>6. ~large => number \in Int /\ 0 <= number /\ number < Huge
  BY <1>4, <1>5, FourDigits
<1> HIDE DEF number
<1> QED
  BY <1>2, <1>6, HugeType

LEMMA Int64Type ==
  ASSUME NEW bs \in Seq(Byte)
  PROVE  Int64(bs) \in Int
<1> DEFINE flipped == [i \in 1..8 |-> 255 - bs[i]]
<1>1. ASSUME NEW s \in Seq(Byte)
      PROVE  Unsigned(s) \in Int
  BY UnsignedType, HugeType
<1>2. ASSUME Len(bs) = 8
      PROVE  flipped \in Seq(Byte)
  <2>1. ASSUME NEW i \in 1..8
        PROVE  255 - bs[i] \in Byte
    <3>1. i \in 1..Len(bs)
      BY <1>2
    <3> QED
      BY <3>1, ElementIsByte, ByteType
  <2> QED
    BY <2>1
<1>3. Int64(bs) = IF Len(bs) = 8 /\ bs[1] >= 128 THEN -1 - Unsigned(flipped) ELSE Unsigned(bs)
  BY DEF Int64
<1> HIDE DEF flipped
<1>4. Unsigned(bs) \in Int /\ (Len(bs) = 8 => Unsigned(flipped) \in Int)
  BY <1>1, <1>2
<1> QED
  BY <1>3, <1>4

LEMMA ArgSizeType ==
  ASSUME NEW major \in Int, NEW ai \in Int
  PROVE  ArgSize(major, ai) \in {-1, 0, 1, 2, 4, 8}
  BY DEF ArgSize

\* The first bytes of an item lie within the text, if there are any.
LEMMA ItemHeadType ==
  ASSUME NEW m \in Seq(Byte), NEW p \in Nat
  PROVE  LET h == ItemHead(m, p)
         IN  /\ h.fails \in BOOLEAN /\ h.major \in Int /\ h.int \in Int
             /\ h.fails => h = NoHead
             /\ ~h.fails => /\ p \in 1..Len(m) /\ h.next \in (p + 1)..(Len(m) + 1)
<1> DEFINE major == m[p] \div 32
           ai == m[p] % 32
           size == ArgSize(major, ai)
<1>1. CASE p \notin DOMAIN m
  BY <1>1 DEF ItemHead, NoHead
<1>2. CASE p \in DOMAIN m
  <2>1. m[p] \in Byte /\ p \in 1..Len(m)
    BY <1>2
  <2>2. major \in Int /\ ai \in Int
    BY <2>1, ByteType
  <2>3. size \in {-1, 0, 1, 2, 4, 8}
    BY <2>2, ArgSizeType
  <2>4. ItemHead(m, p) =
          IF size = -1 \/ p + size > Len(m) THEN NoHead
          ELSE [fails |-> FALSE, major |-> major,
                int |-> IF ai < 24 THEN ai ELSE Int64(SubSeq(m, p + 1, p + size)),
                next |-> p + 1 + size]
    BY <1>2 DEF ItemHead
  <2> HIDE DEF major, ai, size
  <2>5. CASE size = -1 \/ p + size > Len(m)
    BY <2>4, <2>5 DEF NoHead
  <2>6. CASE ~ (size = -1 \/ p + size > Len(m))
    <3>1. SubSeq(m, p + 1, p + size) \in Seq(Byte)
      BY <2>1, <2>3, <2>6
    <3>2. Int64(SubSeq(m, p + 1, p + size)) \in Int
      BY <3>1, Int64Type
    <3> QED
      BY <2>1, <2>2, <2>3, <2>4, <2>6, <3>2
  <2> QED
    BY <2>5, <2>6
<1> QED
  BY <1>1, <1>2

\* An item that is not too long for the text: the items in it start behind it, within the text.
LEMMA ItemType ==
  ASSUME NEW m \in Seq(Byte), NEW p \in Nat,
         ~ItemHead(m, p).fails, ~Exceeds(m, ItemHead(m, p))
  PROVE  LET h == ItemHead(m, p)
         IN  /\ ContentSize(h) \in Nat /\ Inside(h) \in Nat
             /\ h.next + ContentSize(h) \in (p + 1)..(Len(m) + 1)
<1> DEFINE h == ItemHead(m, p)
<1>1. /\ h.int \in Int /\ h.next \in Nat /\ p < h.next /\ h.next <= Len(m) + 1
  BY ItemHeadType
<1>2. h.major \in {Bytes, Text, Array, Map} => h.int >= 0 /\ h.int <= Len(m) - h.next + 1
  BY <1>1 DEF Exceeds
<1> HIDE DEF h
<1>3. ContentSize(h) \in Nat /\ h.next + ContentSize(h) <= Len(m) + 1
  BY <1>1, <1>2 DEF ContentSize
<1>4. Inside(h) \in Nat
  <2>1. 2 * h.int \in Int /\ (h.int >= 0 => 2 * h.int >= 0)
    BY <1>1
  <2> QED
    BY <1>1, <1>2, <2>1 DEF Inside, Array, Map, Tag, Bytes, Text
<1> QED
  BY <1>1, <1>3, <1>4 DEF h

-----------------------------------------------------------------------------
(***************************************************************************)
(* The decoder is defined.  End and Value call themselves with greater     *)
(* positions only, and with 0, where no item is; so there is a function    *)
(* that their equations hold of: one that they hold of from a position on  *)
(* can be changed at the position before.                                  *)
(***************************************************************************)

\* The equation of End.
EndStep(m, f, p, n) ==
    LET h == ItemHead(m, p)
    IN  IF n = 0 THEN p
        ELSE IF h.fails \/ Exceeds(m, h) THEN 0
        ELSE f[<<f[<<h.next + ContentSize(h), Inside(h)>>], n - 1>>]

\* Where the items end that start at p.
Bounded(m, p, e) ==
    e \in Nat /\ (e = 0 \/ (0 < p /\ p <= e /\ (p <= Len(m) + 1 => e <= Len(m) + 1)))

\* f is bounded at 0 and behind p.
BoundedBehind(m, f, p) ==
    \A q, n \in Nat : q = 0 \/ q > p => Bounded(m, q, f[<<q, n>>])

\* f and g are the same at 0 and behind p.
SameBehind(f, g, p) ==
    \A q, n \in Nat : q = 0 \/ q > p => g[<<q, n>>] = f[<<q, n>>]

LEMMA EndStepBounded ==
  ASSUME NEW m \in Seq(Byte), NEW f, NEW p \in Nat, NEW n \in Nat, BoundedBehind(m, f, p)
  PROVE  Bounded(m, p, EndStep(m, f, p, n))
<1> DEFINE h == ItemHead(m, p)
           q == h.next + ContentSize(h)
           r == f[<<q, Inside(h)>>]
<1>1. CASE n = 0
  BY <1>1 DEF EndStep, Bounded
<1>2. CASE n # 0 /\ (h.fails \/ Exceeds(m, h))
  BY <1>2 DEF EndStep, Bounded
<1>3. CASE n # 0 /\ ~ (h.fails \/ Exceeds(m, h))
  <2>1. q \in (p + 1)..(Len(m) + 1) /\ Inside(h) \in Nat
    BY <1>3, ItemType
  <2>2. EndStep(m, f, p, n) = f[<<r, n - 1>>]
    BY <1>3 DEF EndStep
  <2> HIDE DEF h, q
  <2>3. Bounded(m, q, r)
    BY <2>1 DEF BoundedBehind
  <2> DEFINE e == f[<<r, n - 1>>]
  <2> HIDE DEF r
  <2>4. r \in Nat /\ (r = 0 \/ (p < r /\ r <= Len(m) + 1)) /\ n - 1 \in Nat
    BY <1>3, <2>1, <2>3 DEF Bounded
  <2>5. Bounded(m, r, e)
    BY <2>4 DEF BoundedBehind
  <2> HIDE DEF e
  <2>6. e \in Nat /\ (e = 0 \/ (r <= e /\ e <= Len(m) + 1 /\ r # 0))
    BY <2>4, <2>5 DEF Bounded
  <2>7. e = 0 \/ (p < e /\ e <= Len(m) + 1)
    BY <2>4, <2>6
  <2>8. CASE p = 0 /\ e # 0
    \* No item starts at 0.
    <3>1. FALSE
      BY <1>3, <2>8, ItemHeadType DEF h
    <3> QED
      BY <3>1
  <2>9. CASE p # 0 \/ e = 0
    <3>1. Bounded(m, p, e)
      BY <2>6, <2>7, <2>9 DEF Bounded
    <3> QED
      BY <2>2, <3>1 DEF e
  <2> QED
    BY <2>8, <2>9
<1> QED
  BY <1>1, <1>2, <1>3

\* The equation looks at 0 and behind p only.
LEMMA EndStepLooksBehind ==
  ASSUME NEW m \in Seq(Byte), NEW f, NEW g, NEW p \in Nat, NEW n \in Nat,
         BoundedBehind(m, f, p), SameBehind(f, g, p)
  PROVE  EndStep(m, g, p, n) = EndStep(m, f, p, n)
<1> DEFINE h == ItemHead(m, p)
           q == h.next + ContentSize(h)
           r == f[<<q, Inside(h)>>]
<1>1. CASE n = 0 \/ h.fails \/ Exceeds(m, h)
  BY <1>1 DEF EndStep
<1>2. CASE ~ (n = 0 \/ h.fails \/ Exceeds(m, h))
  <2>1. q \in (p + 1)..(Len(m) + 1) /\ Inside(h) \in Nat
    BY <1>2, ItemType
  <2>2. /\ EndStep(m, f, p, n) = f[<<r, n - 1>>]
        /\ EndStep(m, g, p, n) = g[<<g[<<q, Inside(h)>>], n - 1>>]
    BY <1>2 DEF EndStep
  <2> HIDE DEF h, q
  <2>3. Bounded(m, q, r) /\ g[<<q, Inside(h)>>] = r
    BY <2>1 DEF BoundedBehind, SameBehind
  <2> HIDE DEF r
  <2>4. r \in Nat /\ (r = 0 \/ p < r) /\ n - 1 \in Nat
    BY <1>2, <2>1, <2>3 DEF Bounded
  <2> QED
    BY <2>2, <2>3, <2>4 DEF SameBehind
<1> QED
  BY <1>1, <1>2

\* The equation holds of f at 0 and from k on.
HoldsFrom(m, f, k) ==
    \A p, n \in Nat : p = 0 \/ p >= k =>
        f[<<p, n>>] = EndStep(m, f, p, n) /\ Bounded(m, p, f[<<p, n>>])

LEMMA EndHoldsBehind ==
  ASSUME NEW m \in Seq(Byte)
  PROVE  \E f \in [Nat \X Nat -> Nat] : HoldsFrom(m, f, Len(m) + 1)
<1> DEFINE f == [x \in Nat \X Nat |-> IF x[2] = 0 THEN x[1] ELSE 0]
<1>1. f \in [Nat \X Nat -> Nat]
  OBVIOUS
<1>2. ASSUME NEW p \in Nat, NEW n \in Nat, p = 0 \/ p >= Len(m) + 1
      PROVE  f[<<p, n>>] = EndStep(m, f, p, n) /\ Bounded(m, p, f[<<p, n>>])
  <2>1. p \notin 1..Len(m)
    BY <1>2
  <2>2. ItemHead(m, p).fails
    BY <2>1 DEF ItemHead, NoHead
  <2>3. EndStep(m, f, p, n) = IF n = 0 THEN p ELSE 0
    BY <2>2 DEF EndStep
  <2>4. f[<<p, n>>] = IF n = 0 THEN p ELSE 0
    OBVIOUS
  <2> QED
    BY <2>3, <2>4 DEF Bounded
<1> HIDE DEF f
<1>3. HoldsFrom(m, f, Len(m) + 1)
  BY <1>2 DEF HoldsFrom
<1> QED
  BY <1>1, <1>3

LEMMA EndHoldsBefore ==
  ASSUME NEW m \in Seq(Byte), NEW k \in Nat \ {0}, NEW f \in [Nat \X Nat -> Nat],
         HoldsFrom(m, f, k)
  PROVE  \E g \in [Nat \X Nat -> Nat] : HoldsFrom(m, g, k - 1)
<1> DEFINE l == k - 1
           g == [x \in Nat \X Nat |-> IF x[1] = l THEN EndStep(m, f, l, x[2]) ELSE f[x]]
<1>1. l \in Nat /\ k = l + 1
  OBVIOUS
<1>2. CASE l = 0
  <2>1. HoldsFrom(m, f, l)
    BY <1>1, <1>2 DEF HoldsFrom
  <2> QED
    BY <2>1
<1>3. CASE l # 0
  <2> HIDE DEF l
  <2>1. ASSUME NEW p \in Nat, p >= l
        PROVE  BoundedBehind(m, f, p)
    <3> SUFFICES ASSUME NEW q \in Nat, NEW j \in Nat, q = 0 \/ q > p
                 PROVE  Bounded(m, q, f[<<q, j>>])
      BY DEF BoundedBehind
    <3>1. q = 0 \/ q >= k
      BY <1>1, <2>1
    <3> QED
      BY <3>1 DEF HoldsFrom
  <2>2. \A n \in Nat : g[<<l, n>>] = EndStep(m, f, l, n)
    BY <1>1
  <2>3. \A p, n \in Nat : p # l => g[<<p, n>>] = f[<<p, n>>]
    OBVIOUS
  <2>4. \A n \in Nat : Bounded(m, l, EndStep(m, f, l, n))
    <3>1. BoundedBehind(m, f, l)
      BY <1>1, <2>1
    <3> QED
      BY <1>1, <3>1, EndStepBounded
  <2>5. g \in [Nat \X Nat -> Nat]
    BY <2>4 DEF Bounded
  <2> HIDE DEF g
  <2>6. ASSUME NEW p \in Nat, NEW n \in Nat, p = 0 \/ p >= l
        PROVE  g[<<p, n>>] = EndStep(m, g, p, n) /\ Bounded(m, p, g[<<p, n>>])
    <3>1. EndStep(m, g, p, n) = EndStep(m, f, p, n)
      <4>1. CASE p = 0
        <5>1. ItemHead(m, p).fails
          BY <4>1 DEF ItemHead, NoHead
        <5> QED
          BY <5>1 DEF EndStep
      <4>2. CASE p # 0
        <5>1. BoundedBehind(m, f, p)
          BY <2>1, <2>6, <4>2
        <5>2. ASSUME NEW q \in Nat, NEW j \in Nat, q = 0 \/ q > p
              PROVE  g[<<q, j>>] = f[<<q, j>>]
          <6>1. q # l
            BY <1>1, <1>3, <2>6, <4>2, <5>2
          <6> QED
            BY <2>3, <6>1
        <5>3. SameBehind(f, g, p)
          BY <5>2 DEF SameBehind
        <5> QED
          BY <5>1, <5>3, EndStepLooksBehind
      <4> QED
        BY <4>1, <4>2
    <3>2. CASE p = l
      BY <2>2, <2>4, <3>1, <3>2
    <3>3. CASE p # l
      <4>1. p = 0 \/ p >= k
        BY <1>1, <2>6, <3>3
      <4> QED
        BY <2>3, <3>1, <3>3, <4>1 DEF HoldsFrom
    <3> QED
      BY <3>2, <3>3
  <2>7. HoldsFrom(m, g, l)
    BY <2>6 DEF HoldsFrom
  <2> QED
    BY <2>5, <2>7 DEF l
<1> QED
  BY <1>2, <1>3

\* There is a function that the equation holds of, and it is bounded.
LEMMA EndExists ==
  ASSUME NEW m \in Seq(Byte)
  PROVE  \E f \in [Nat \X Nat -> Nat] :
            \A p, n \in Nat : f[<<p, n>>] = EndStep(m, f, p, n) /\ Bounded(m, p, f[<<p, n>>])
<1> DEFINE T == {k \in Nat : \E f \in [Nat \X Nat -> Nat] : HoldsFrom(m, f, k)}
<1>1. Len(m) + 1 \in T
  BY EndHoldsBehind
<1>2. \A k \in T \ {0} : k - 1 \in T
  BY EndHoldsBefore
<1>3. T \subseteq Nat
  OBVIOUS
<1>4. 0 \in T
  <2> HIDE DEF T
  <2> QED
    BY <1>1, <1>2, <1>3, Descent
<1> QED
  BY <1>4 DEF HoldsFrom

\* So End is what its definition says.
LEMMA EndEquation ==
  ASSUME NEW m \in Seq(Byte), NEW p \in Nat, NEW n \in Nat
  PROVE  End(m)[<<p, n>>] = EndStep(m, End(m), p, n)
<1>1. PICK f \in [Nat \X Nat -> Nat] : \A q, j \in Nat : f[<<q, j>>] = EndStep(m, f, q, j)
  BY EndExists
<1>2. f = [x \in Nat \X Nat |-> EndStep(m, f, x[1], x[2])]
  <2>1. ASSUME NEW x \in Nat \X Nat
        PROVE  f[x] = EndStep(m, f, x[1], x[2])
    <3>1. x[1] \in Nat /\ x[2] \in Nat /\ x = <<x[1], x[2]>>
      OBVIOUS
    <3> QED
      BY <1>1, <3>1
  <2> QED
    BY <2>1
<1>3. End(m) = [x \in Nat \X Nat |-> EndStep(m, End(m), x[1], x[2])]
  BY <1>2 DEF End, EndStep
<1> QED
  BY <1>3

LEMMA EndBounded ==
  ASSUME NEW m \in Seq(Byte), NEW p \in Nat, NEW n \in Nat
  PROVE  Bounded(m, p, End(m)[<<p, n>>])
<1> DEFINE E == End(m)
           T == {k \in Nat : \A q, j \in Nat : q = 0 \/ q >= k => Bounded(m, q, E[<<q, j>>])}
<1>1. \A q, j \in Nat : E[<<q, j>>] = EndStep(m, E, q, j)
  BY EndEquation
<1> HIDE DEF E
<1>2. ASSUME NEW q \in Nat, NEW j \in Nat, q = 0 \/ q >= Len(m) + 1
      PROVE  Bounded(m, q, E[<<q, j>>])
  <2>1. q \notin 1..Len(m)
    BY <1>2
  <2>2. ItemHead(m, q).fails
    BY <2>1 DEF ItemHead, NoHead
  <2>3. E[<<q, j>>] = IF j = 0 THEN q ELSE 0
    BY <1>1, <2>2 DEF EndStep
  <2> QED
    BY <2>3 DEF Bounded
<1>3. Len(m) + 1 \in T
  BY <1>2
<1>4. ASSUME NEW k \in T \ {0}
      PROVE  k - 1 \in T
  <2>1. k \in Nat /\ k - 1 \in Nat
    OBVIOUS
  <2>2. ASSUME NEW q \in Nat, NEW j \in Nat, q = 0 \/ q >= k - 1
        PROVE  Bounded(m, q, E[<<q, j>>])
    <3>1. CASE q = 0 \/ q >= k
      BY <3>1
    <3>2. CASE q # 0 /\ q = k - 1
      <4>1. ASSUME NEW r \in Nat, NEW i \in Nat, r = 0 \/ r > q
            PROVE  Bounded(m, r, E[<<r, i>>])
        <5>1. r = 0 \/ r >= k
          BY <2>1, <3>2, <4>1
        <5> QED
          BY <5>1
      <4>2. BoundedBehind(m, E, q)
        BY <4>1 DEF BoundedBehind
      <4> QED
        BY <1>1, <4>2, EndStepBounded
    <3> QED
      BY <2>1, <2>2, <3>1, <3>2
  <2> QED
    BY <2>1, <2>2
<1>5. T \subseteq Nat
  OBVIOUS
<1>6. 0 \in T
  <2> HIDE DEF T
  <2> QED
    BY <1>3, <1>4, <1>5, Descent
<1> QED
  BY <1>6 DEF E

\* No item starts at 0, or behind the text.
LEMMA EndOfNothing ==
  ASSUME NEW m \in Seq(Byte), NEW n \in Nat
  PROVE  End(m)[<<0, n>>] = 0
<1>1. ItemHead(m, 0).fails
  BY DEF ItemHead, NoHead
<1> QED
  BY <1>1, EndEquation DEF EndStep

LEMMA EndOfNone ==
  ASSUME NEW m \in Seq(Byte), NEW p \in Nat
  PROVE  End(m)[<<p, 0>>] = p
BY EndEquation DEF EndStep

\* An item is passed over with what is in it.
LEMMA EndOfOne ==
  ASSUME NEW m \in Seq(Byte), NEW p \in Nat
  PROVE  LET h == ItemHead(m, p)
         IN  End(m)[<<p, 1>>] =
                IF h.fails \/ Exceeds(m, h) THEN 0
                ELSE End(m)[<<h.next + ContentSize(h), Inside(h)>>]
<1> DEFINE h == ItemHead(m, p)
           q == h.next + ContentSize(h)
           r == End(m)[<<q, Inside(h)>>]
<1>1. CASE h.fails \/ Exceeds(m, h)
  <2>1. End(m)[<<p, 1>>] = EndStep(m, End(m), p, 1)
    BY EndEquation
  <2>2. EndStep(m, End(m), p, 1) = 0
    BY <1>1 DEF EndStep
  <2> QED
    BY <1>1, <2>1, <2>2
<1>2. CASE ~ (h.fails \/ Exceeds(m, h))
  <2>1. q \in Nat /\ Inside(h) \in Nat
    BY <1>2, ItemType
  <2>2. r \in Nat
    <3> HIDE DEF q, h
    <3> QED
      BY <2>1, EndBounded DEF Bounded
  <2>3. End(m)[<<p, 1>>] = End(m)[<<r, 1 - 1>>]
    BY <1>2, EndEquation DEF EndStep
  <2> HIDE DEF r
  <2>4. End(m)[<<p, 1>>] = End(m)[<<r, 0>>]
    BY <2>3
  <2>5. End(m)[<<p, 1>>] = r
    BY <2>2, <2>4, EndOfNone
  <2> QED
    BY <1>2, <2>5 DEF r
<1> QED
  BY <1>1, <1>2

\* Items are passed over one after the other.
LEMMA EndOfFirst ==
  ASSUME NEW m \in Seq(Byte), NEW p \in Nat, NEW n \in Nat \ {0}
  PROVE  End(m)[<<p, n>>] = End(m)[<<End(m)[<<p, 1>>], n - 1>>]
<1> DEFINE h == ItemHead(m, p)
           r == End(m)[<<h.next + ContentSize(h), Inside(h)>>]
<1>1. CASE h.fails \/ Exceeds(m, h)
  <2>1. End(m)[<<p, 1>>] = 0
    BY <1>1, EndOfOne
  <2>2. EndStep(m, End(m), p, n) = 0
    BY <1>1 DEF EndStep
  <2>3. End(m)[<<p, n>>] = 0
    BY <2>2, EndEquation
  <2>4. n - 1 \in Nat
    OBVIOUS
  <2> QED
    BY <2>1, <2>3, <2>4, EndOfNothing
<1>2. CASE ~ (h.fails \/ Exceeds(m, h))
  <2>1. End(m)[<<p, n>>] = End(m)[<<r, n - 1>>]
    BY <1>2, EndEquation DEF EndStep
  <2>2. End(m)[<<p, 1>>] = r
    BY <1>2, EndOfOne
  <2> QED
    BY <2>1, <2>2
<1> QED
  BY <1>1, <1>2

\* What holds of 0, and with each number of the next, holds of all.
LEMMA Ascent ==
  ASSUME NEW T, T \subseteq Nat, 0 \in T, \A x \in T : x + 1 \in T
  PROVE  Nat \subseteq T
<1> SUFFICES ASSUME NEW k \in Nat, k \notin T PROVE FALSE
  OBVIOUS
<1> DEFINE U == Nat \ T
<1>1. U \subseteq Nat /\ k \in U
  OBVIOUS
<1>2. ASSUME NEW x \in U \ {0} PROVE x - 1 \in U
  <2>1. x - 1 \in Nat /\ (x - 1) + 1 = x
    OBVIOUS
  <2> QED
    BY <2>1
<1>3. 0 \notin U
  OBVIOUS
<1> HIDE DEF U
<1> QED
  BY <1>1, <1>2, <1>3, Descent

LEMMA EndOfSome ==
  ASSUME NEW m \in Seq(Byte), NEW p \in Nat, NEW n \in Nat, NEW i \in Nat, i <= n
  PROVE  End(m)[<<p, n>>] = End(m)[<<End(m)[<<p, i>>], n - i>>]
<1> DEFINE E == End(m)
           T == {k \in Nat : \A q, j \in Nat : k <= j => E[<<q, j>>] = E[<<E[<<q, k>>], j - k>>]}
<1>1. \A q \in Nat : E[<<q, 0>>] = q
  BY EndOfNone
<1>2. \A q \in Nat, j \in Nat \ {0} : E[<<q, j>>] = E[<<E[<<q, 1>>], j - 1>>]
  BY EndOfFirst
<1>3. \A q, j \in Nat : E[<<q, j>>] \in Nat
  BY EndBounded DEF Bounded
<1> HIDE DEF E
<1>4. 0 \in T
  <2> SUFFICES ASSUME NEW q \in Nat, NEW j \in Nat PROVE E[<<q, j>>] = E[<<E[<<q, 0>>], j - 0>>]
    OBVIOUS
  <2>1. j - 0 = j
    OBVIOUS
  <2> QED
    BY <1>1, <2>1
<1>5. ASSUME NEW k \in T
      PROVE  k + 1 \in T
  <2>1. k \in Nat /\ k + 1 \in Nat /\ k + 1 # 0 /\ (k + 1) - 1 = k
    OBVIOUS
  <2>2. ASSUME NEW q \in Nat, NEW j \in Nat, k + 1 <= j
        PROVE  E[<<q, j>>] = E[<<E[<<q, k + 1>>], j - (k + 1)>>]
    <3>1. j \in Nat \ {0} /\ j - 1 \in Nat /\ k <= j - 1 /\ (j - 1) - k = j - (k + 1)
      BY <2>1, <2>2
    <3>2. E[<<q, j>>] = E[<<E[<<q, 1>>], j - 1>>] /\ E[<<q, 1>>] \in Nat
      BY <1>2, <1>3, <3>1
    <3>3. E[<<q, k + 1>>] = E[<<E[<<q, 1>>], k>>]
      BY <1>2, <2>1
    <3>4. E[<<E[<<q, 1>>], j - 1>>] = E[<<E[<<E[<<q, 1>>], k>>], (j - 1) - k>>]
      BY <3>1, <3>2
    <3> QED
      BY <3>1, <3>2, <3>3, <3>4
  <2> QED
    BY <2>1, <2>2
<1>6. T \subseteq Nat
  OBVIOUS
<1>7. Nat \subseteq T
  <2> HIDE DEF T
  <2> QED
    BY <1>4, <1>5, <1>6, Ascent
<1> QED
  BY <1>7 DEF E

\* Of items none of which fails, each one starts somewhere and does not fail.
LEMMA EndOfEach ==
  ASSUME NEW m \in Seq(Byte), NEW p \in Nat, NEW n \in Nat, NEW i \in 1..n,
         End(m)[<<p, n>>] # 0
  PROVE  /\ End(m)[<<p, i - 1>>] \in Nat
         /\ End(m)[<<End(m)[<<p, i - 1>>], 1>>] # 0
<1> DEFINE q == End(m)[<<p, i - 1>>]
           j == n - (i - 1)
           r == End(m)[<<q, 1>>]
<1>1. i - 1 \in Nat /\ i - 1 <= n /\ j \in Nat \ {0} /\ j - 1 \in Nat
  OBVIOUS
<1>2. q \in Nat
  BY <1>1, EndBounded DEF Bounded
<1>3. End(m)[<<p, n>>] = End(m)[<<q, j>>]
  BY <1>1, EndOfSome
<1> HIDE DEF q, j
<1>4. End(m)[<<q, j>>] = End(m)[<<r, j - 1>>]
  BY <1>1, <1>2, EndOfFirst
<1>5. r # 0
  BY <1>1, <1>3, <1>4, EndOfNothing
<1> QED
  BY <1>2, <1>5 DEF q

-----------------------------------------------------------------------------
\* Values.

\* The equation of Value.
ValueStep(m, f, p) ==
    LET h == ItemHead(m, p)
    IN  [type |-> h.major, int |-> h.int,
         bytes |-> SubSeq(m, h.next, h.next + ContentSize(h) - 1),
         items |-> [i \in 1..Inside(h) |-> f[End(m)[<<h.next, i - 1>>]]]]

\* Items within an item start behind it, or nowhere; where no item is, nothing is in it.
LEMMA InsideLiesBehind ==
  ASSUME NEW m \in Seq(Byte), NEW p \in Nat, NEW i \in 1..Inside(ItemHead(m, p))
  PROVE  LET q == End(m)[<<ItemHead(m, p).next, i - 1>>]
         IN  p # 0 /\ q \in Nat /\ (q = 0 \/ q > p)
<1> DEFINE h == ItemHead(m, p)
           q == End(m)[<<h.next, i - 1>>]
<1>1. ~h.fails
  <2> SUFFICES ASSUME h = NoHead PROVE FALSE
    BY ItemHeadType
  <2>1. Inside(h) = 0
    BY DEF NoHead, Inside, Array, Map, Tag
  <2> QED
    BY <2>1
<1>2. p \in 1..Len(m) /\ h.next \in Nat /\ h.next > p
  <2>1. p \in 1..Len(m) /\ h.next \in (p + 1)..(Len(m) + 1)
    BY <1>1, ItemHeadType
  <2> HIDE DEF h
  <2> QED
    BY <2>1
<1>3. i - 1 \in Nat
  <2> HIDE DEF h
  <2> QED
    OBVIOUS
<1> HIDE DEF h
<1>4. Bounded(m, h.next, q)
  BY <1>2, <1>3, EndBounded
<1> HIDE DEF q
<1>5. q \in Nat /\ (q = 0 \/ q > p)
  BY <1>2, <1>4 DEF Bounded
<1> QED
  BY <1>2, <1>5 DEF q, h

\* The equation looks at 0 and behind p only.
LEMMA ValueStepLooksBehind ==
  ASSUME NEW m \in Seq(Byte), NEW f, NEW g, NEW p \in Nat,
         \A q \in Nat : q = 0 \/ q > p => g[q] = f[q]
  PROVE  ValueStep(m, g, p) = ValueStep(m, f, p)
<1>1. ASSUME NEW i \in 1..Inside(ItemHead(m, p))
      PROVE  g[End(m)[<<ItemHead(m, p).next, i - 1>>]] = f[End(m)[<<ItemHead(m, p).next, i - 1>>]]
  BY InsideLiesBehind
<1> QED
  BY <1>1 DEF ValueStep

\* The equation holds of f at 0 and from k on.
ValueHoldsFrom(m, f, k) == \A p \in Nat : p = 0 \/ p >= k => f[p] = ValueStep(m, f, p)

LEMMA ValueHoldsBehind ==
  ASSUME NEW m \in Seq(Byte)
  PROVE  \E f : f = [p \in Nat |-> f[p]] /\ ValueHoldsFrom(m, f, Len(m) + 1)
<1> DEFINE nothing == [p \in Nat |-> 0]
           f == [p \in Nat |-> ValueStep(m, nothing, p)]
<1>1. ASSUME NEW p \in Nat, p = 0 \/ p >= Len(m) + 1
      PROVE  f[p] = ValueStep(m, f, p)
  <2>1. p \notin 1..Len(m)
    BY <1>1
  <2>2. Inside(ItemHead(m, p)) = 0
    BY <2>1 DEF ItemHead, NoHead, Inside, Array, Map, Tag
  <2>3. ValueStep(m, f, p) = ValueStep(m, nothing, p)
    <3> HIDE DEF f, nothing
    <3> QED
      BY <2>2 DEF ValueStep
  <2> QED
    BY <2>3
<1>2. f = [p \in Nat |-> f[p]]
  OBVIOUS
<1> HIDE DEF f
<1>3. ValueHoldsFrom(m, f, Len(m) + 1)
  BY <1>1 DEF ValueHoldsFrom
<1> QED
  BY <1>2, <1>3

LEMMA ValueHoldsBefore ==
  ASSUME NEW m \in Seq(Byte), NEW k \in Nat \ {0}, NEW f, ValueHoldsFrom(m, f, k)
  PROVE  \E g : g = [p \in Nat |-> g[p]] /\ ValueHoldsFrom(m, g, k - 1)
<1> DEFINE l == k - 1
           g == [p \in Nat |-> IF p = l /\ l # 0 THEN ValueStep(m, f, l) ELSE f[p]]
<1>1. l \in Nat /\ k = l + 1
  OBVIOUS
<1>2. g = [p \in Nat |-> g[p]]
  OBVIOUS
<1> HIDE DEF l
<1>3. \A p \in Nat : p = 0 \/ p # l => g[p] = f[p]
  OBVIOUS
<1>4. l # 0 => g[l] = ValueStep(m, f, l)
  BY <1>1
<1> HIDE DEF g
<1>5. ASSUME NEW p \in Nat, p = 0 \/ p >= l
      PROVE  g[p] = ValueStep(m, g, p)
  <2>1. ValueStep(m, g, p) = ValueStep(m, f, p)
    <3>1. CASE p = 0
      <4>1. Inside(ItemHead(m, p)) = 0
        BY <3>1 DEF ItemHead, NoHead, Inside, Array, Map, Tag
      <4> QED
        BY <4>1 DEF ValueStep
    <3>2. CASE p # 0
      <4>1. ASSUME NEW q \in Nat, q = 0 \/ q > p
            PROVE  g[q] = f[q]
        <5>1. q = 0 \/ q # l
          BY <1>1, <1>5, <3>2, <4>1
        <5> QED
          BY <1>3, <5>1
      <4> QED
        BY <4>1, ValueStepLooksBehind
    <3> QED
      BY <3>1, <3>2
  <2>2. CASE p # 0 /\ p = l
    BY <1>4, <2>1, <2>2
  <2>3. CASE p = 0 \/ p # l
    <3>1. p = 0 \/ p >= k
      BY <1>1, <1>5, <2>3
    <3> QED
      BY <1>3, <2>1, <2>3, <3>1 DEF ValueHoldsFrom
  <2> QED
    BY <2>2, <2>3
<1>6. ValueHoldsFrom(m, g, l)
  BY <1>5 DEF ValueHoldsFrom
<1> QED
  BY <1>2, <1>6 DEF l

LEMMA ValueEquation ==
  ASSUME NEW m \in Seq(Byte), NEW p \in Nat
  PROVE  Value(m)[p] = ValueStep(m, Value(m), p)
<1> DEFINE T == {k \in Nat : \E f : f = [q \in Nat |-> f[q]] /\ ValueHoldsFrom(m, f, k)}
<1>1. Len(m) + 1 \in T
  BY ValueHoldsBehind
<1>2. \A k \in T \ {0} : k - 1 \in T
  BY ValueHoldsBefore
<1>3. T \subseteq Nat
  OBVIOUS
<1>4. 0 \in T
  <2> HIDE DEF T
  <2> QED
    BY <1>1, <1>2, <1>3, Descent
<1>5. PICK f : f = [q \in Nat |-> f[q]] /\ ValueHoldsFrom(m, f, 0)
  BY <1>4
<1>6. \A q \in Nat : f[q] = ValueStep(m, f, q)
  BY <1>5 DEF ValueHoldsFrom
<1>7. f = [q \in Nat |-> ValueStep(m, f, q)]
  BY <1>5, <1>6
<1>8. Value(m) = [q \in Nat |-> ValueStep(m, Value(m), q)]
  BY <1>7 DEF Value, ValueStep
<1> QED
  BY <1>8

LEMMA ValueParts ==
  ASSUME NEW m \in Seq(Byte), NEW p \in Nat
  PROVE  LET h == ItemHead(m, p)
         IN  /\ Value(m)[p].type = h.major /\ Value(m)[p].int = h.int
             /\ Value(m)[p].bytes = SubSeq(m, h.next, h.next + ContentSize(h) - 1)
             /\ Value(m)[p].items = [i \in 1..Inside(h) |-> Value(m)[End(m)[<<h.next, i - 1>>]]]
<1> DEFINE h == ItemHead(m, p)
           v == Value(m)[p]
           bs == SubSeq(m, h.next, h.next + ContentSize(h) - 1)
           items == [i \in 1..Inside(h) |-> Value(m)[End(m)[<<h.next, i - 1>>]]]
<1>1. v = [type |-> h.major, int |-> h.int, bytes |-> bs, items |-> items]
  BY ValueEquation DEF ValueStep
<1> HIDE DEF h, v, bs, items
<1>2. v.type = h.major /\ v.int = h.int /\ v.bytes = bs /\ v.items = items
  BY <1>1
<1> QED
  BY <1>2 DEF h, v, bs, items

(***************************************************************************)
(* The values in a text: what Decode returns, and all that is in it.       *)
(***************************************************************************)
Values(m) == {NoValue} \cup {Value(m)[p] : p \in {q \in Nat : End(m)[<<q, 1>>] # 0}}

\* An item that does not fail: its first bytes, its contents, and the items in it.
LEMMA Whole ==
  ASSUME NEW m \in Seq(Byte), NEW p \in Nat, End(m)[<<p, 1>>] # 0
  PROVE  LET h == ItemHead(m, p)
         IN  /\ ~h.fails /\ ~Exceeds(m, h) /\ h.next \in Nat /\ 0 < h.next
             /\ ContentSize(h) \in Nat /\ h.next + ContentSize(h) <= Len(m) + 1
             /\ Inside(h) \in Nat
             /\ \A i \in 1..Inside(h) : Value(m)[End(m)[<<h.next, i - 1>>]] \in Values(m)
<1> DEFINE h == ItemHead(m, p)
           c == ContentSize(h)
<1>1. ~h.fails /\ ~Exceeds(m, h) /\ End(m)[<<h.next + c, Inside(h)>>] # 0
  BY EndOfOne
<1>2. h.next \in (p + 1)..(Len(m) + 1)
  BY <1>1, ItemHeadType
<1>3. c \in Nat /\ Inside(h) \in Nat /\ h.next + c \in (p + 1)..(Len(m) + 1)
  BY <1>1, ItemType
<1>4. Inside(h) # 0 => c = 0
  BY DEF Inside, ContentSize, Array, Map, Tag, Bytes, Text
<1> HIDE DEF h, c
<1>5. h.next \in Nat /\ 0 < h.next
  BY <1>2
<1>6. ASSUME NEW i \in 1..Inside(h)
      PROVE  Value(m)[End(m)[<<h.next, i - 1>>]] \in Values(m)
  <2>1. End(m)[<<h.next, Inside(h)>>] # 0
    <3>1. h.next + c = h.next
      BY <1>3, <1>4, <1>5
    <3> QED
      BY <1>1, <3>1
  <2>2. /\ End(m)[<<h.next, i - 1>>] \in Nat
        /\ End(m)[<<End(m)[<<h.next, i - 1>>], 1>>] # 0
    BY <1>3, <1>5, <2>1, EndOfEach
  <2> QED
    BY <2>2 DEF Values
<1>7. ~h.fails /\ ~Exceeds(m, h) /\ c \in Nat /\ Inside(h) \in Nat /\ h.next + c <= Len(m) + 1
  BY <1>1, <1>3
<1> QED
  BY <1>5, <1>6, <1>7 DEF h, c

LEMMA ValueType ==
  ASSUME NEW m \in Seq(Byte), NEW v \in Values(m)
  PROVE  /\ v.bytes \in Seq(Byte) /\ Len(v.bytes) <= Len(m)
         /\ v.items \in Seq(Values(m))
         /\ v.type = Tag => Len(v.items) = 1
<1>1. CASE v = NoValue
  BY <1>1 DEF NoValue, Tag, Simple
<1>2. CASE \E p \in Nat : End(m)[<<p, 1>>] # 0 /\ v = Value(m)[p]
  <2>1. PICK p \in Nat : End(m)[<<p, 1>>] # 0 /\ v = Value(m)[p]
    BY <1>2
  <2> DEFINE h == ItemHead(m, p)
             n == Inside(h)
             first == h.next
             last == h.next + ContentSize(h) - 1
             item(i) == Value(m)[End(m)[<<h.next, i - 1>>]]
  <2>3. /\ v.bytes = SubSeq(m, first, last) /\ v.type = h.major
        /\ v.items = [i \in 1..n |-> item(i)]
    BY <2>1, ValueParts
  <2>4. first \in Nat /\ 0 < first /\ last \in Int /\ last <= Len(m)
    BY <2>1, Whole
  <2>5. n \in Nat /\ \A i \in 1..n : item(i) \in Values(m)
    BY <2>1, Whole
  <2>6. v.type = Tag => n = 1
    BY <2>3 DEF Inside, Tag, Array, Map
  <2> HIDE DEF h, n, first, last, item
  <2>7. SubSeq(m, first, last) \in Seq(Byte) /\ Len(SubSeq(m, first, last)) <= Len(m)
    BY <2>4
  <2>8. v.items \in Seq(Values(m)) /\ Len(v.items) = n
    BY <2>3, <2>5
  <2> QED
    BY <2>3, <2>6, <2>7, <2>8
<1> QED
  BY <1>1, <1>2 DEF Values

LEMMA DecodeType ==
  ASSUME NEW m \in Seq(Byte)
  PROVE  Decode(m) \in Values(m)
BY DEF Decode, Values

LEMMA UntagType ==
  ASSUME NEW m \in Seq(Byte), NEW v \in Values(m), NEW tag
  PROVE  Untag(v, tag) \in Values(m)
<1>1. v.type = Tag => v.items[1] \in Values(m)
  BY ValueType
<1>2. NoValue \in Values(m)
  BY DEF Values
<1> QED
  BY <1>1, <1>2 DEF Untag

\* A set of numbers that is not empty has a least one.
LEMMA LeastNumber ==
  ASSUME NEW S, S \subseteq Nat, S # {}
  PROVE  \E i \in S : \A j \in S : i <= j
<1> SUFFICES ASSUME \A i \in S : \E j \in S : ~ (i <= j) PROVE FALSE
  OBVIOUS
<1> DEFINE T == {k \in Nat : \A j \in S : k <= j}
<1>1. T \subseteq Nat /\ 0 \in T
  OBVIOUS
<1>2. ASSUME NEW k \in T PROVE k + 1 \in T
  <2>1. k \notin S
    OBVIOUS
  <2> QED
    BY <2>1
<1>3. Nat \subseteq T
  <2> HIDE DEF T
  <2> QED
    BY <1>1, <1>2, Ascent
<1>4. PICK j \in S : TRUE
  OBVIOUS
<1>5. j + 1 <= j /\ j \in Nat
  BY <1>3
<1> QED
  BY <1>5

LEMMA AtType ==
  ASSUME NEW m \in Seq(Byte), NEW v \in Values(m), NEW key
  PROVE  At(v, key) \in Values(m)
<1> DEFINE Fits(i) == v.items[2 * i - 1].type \in {Uint, Nint} /\ AsInt(v.items[2 * i - 1]) = key
           half == Len(v.items) \div 2
           hits == {i \in 1..half : Fits(i)}
           first == CHOOSE i \in hits : \A j \in hits : i <= j
<1>1. v.items \in Seq(Values(m)) /\ Len(v.items) \in Nat
  BY ValueType
<1>2. At(v, key) = IF v.type # Map \/ hits = {} THEN NoValue ELSE v.items[2 * first]
  BY DEF At
<1>3. NoValue \in Values(m)
  BY DEF Values
<1> DEFINE len == Len(v.items)
<1> HIDE DEF Fits, len
<1>4. half \in Int /\ 2 * half <= len /\ len \in Nat
  <2>1. half = len \div 2 /\ len \in Nat
    BY <1>1 DEF len
  <2> HIDE DEF half
  <2> QED
    BY <2>1
<1> HIDE DEF half
<1>5. CASE hits # {}
  <2>1. hits \subseteq Nat
    BY <1>4
  <2>2. first \in hits
    <3> HIDE DEF hits
    <3> QED
      BY <1>5, <2>1, LeastNumber
  <2> HIDE DEF first
  <2>3. first \in Int /\ 1 <= first /\ first <= half
    BY <1>4, <2>2
  <2> HIDE DEF hits
  <2>4. 2 * first \in 1..len
    BY <1>4, <2>3
  <2>5. v.items[2 * first] \in Values(m)
    BY <1>1, <2>4 DEF len
  <2> QED
    BY <1>2, <1>3, <2>5
<1> HIDE DEF hits, first
<1> QED
  BY <1>2, <1>3, <1>5

-----------------------------------------------------------------------------
\* What the encoder writes, the decoder reads.

\* What short arguments stand for.
LEMMA OneDigit ==
  ASSUME NEW d \in Byte
  PROVE  Int64(<<d>>) = d
<1>1. d \in Int /\ d >= 0
  BY ByteType
<1>2. Len(<<d>>) = 1 /\ <<d>>[1] = d
  OBVIOUS
<1>3. Int64(<<d>>) = Unsigned(<<d>>)
  BY <1>2 DEF Int64
<1>4. Unsigned(<<d>>) = d + 256 * (0 + 256 * (0 + 256 * 0))
  BY <1>2 DEF Unsigned
<1> QED
  BY <1>1, <1>3, <1>4

LEMMA TwoDigits ==
  ASSUME NEW c \in Byte, NEW d \in Byte
  PROVE  Int64(<<c, d>>) = d + 256 * c
<1> DEFINE bs == <<c, d>>
<1>1. c \in Int /\ d \in Int
  BY ByteType
<1>2. Len(bs) = 2 /\ bs[1] = c /\ bs[2] = d
  OBVIOUS
<1> HIDE DEF bs
<1>3. Int64(bs) = Unsigned(bs)
  BY <1>2 DEF Int64
<1>4. Unsigned(bs) = d + 256 * (c + 256 * (0 + 256 * 0))
  BY <1>2 DEF Unsigned
<1> QED
  BY <1>1, <1>3, <1>4 DEF bs

LEMMA ManyDigits ==
  ASSUME NEW a \in Byte, NEW b \in Byte, NEW c \in Byte, NEW d \in Byte, a < 64
  PROVE  Int64(<<a, b, c, d>>) = d + 256 * (c + 256 * (b + 256 * a))
<1> DEFINE bs == <<a, b, c, d>>
<1>1. a \in Int
  BY ByteType
<1>2. Len(bs) = 4 /\ bs[1] = a /\ bs[2] = b /\ bs[3] = c /\ bs[4] = d
  OBVIOUS
<1> HIDE DEF bs
<1>3. Int64(bs) = Unsigned(bs)
  BY <1>2 DEF Int64
<1>4. Unsigned(bs) = d + 256 * (c + 256 * (b + 256 * a))
  BY <1>1, <1>2 DEF Unsigned
<1> QED
  BY <1>3, <1>4 DEF bs

LEMMA FirstByte ==
  ASSUME NEW major \in 0..6, NEW ai \in 0..27
  PROVE  /\ major * 32 + ai \in Byte
         /\ (major * 32 + ai) \div 32 = major
         /\ (major * 32 + ai) % 32 = ai
<1>1. major \in Int /\ ai \in Int /\ 0 <= major /\ major <= 6 /\ 0 <= ai /\ ai <= 27
  OBVIOUS
<1> DEFINE x == major * 32 + ai
<1>2. x \in Int /\ 0 <= x /\ x <= 255 /\ x = 32 * major + ai
  BY <1>1
<1> HIDE DEF x
<1>3. x \div 32 = major
  BY <1>1, <1>2
<1>4. x % 32 = ai
  BY <1>1, <1>2
<1>5. x \in Byte
  BY <1>2 DEF Byte
<1> QED
  BY <1>3, <1>4, <1>5 DEF x

\* An item's first bytes, whatever their form.
LEMMA FormIsRead ==
  ASSUME NEW m \in Seq(Byte), NEW off \in Nat, NEW major \in 0..6, NEW ai \in 0..27,
         NEW arg \in Seq(Byte), Len(arg) = ArgSize(major, ai),
         Holds(m, off, <<major * 32 + ai>> \o arg)
  PROVE  ItemHead(m, off + 1) =
            [fails |-> FALSE, major |-> major,
             int |-> IF ai < 24 THEN ai ELSE Int64(arg), next |-> off + 1 + 1 + Len(arg)]
<1> DEFINE p == off + 1
           first == major * 32 + ai
           size == Len(arg)
<1>1. first \in Byte /\ first \div 32 = major /\ first % 32 = ai
  BY FirstByte
<1> HIDE DEF first
<1>2. <<first>> \in Seq(Byte) /\ Len(<<first>>) = 1 /\ <<first>>[1] = first
  BY <1>1
<1>3. Holds(m, off, <<first>>) /\ Holds(m, off + 1, arg)
  <2>1. Holds(m, off, <<first>> \o arg)
    BY DEF first
  <2>2. Holds(m, off, <<first>>) /\ Holds(m, off + Len(<<first>>), arg)
    BY <1>2, <2>1, HoldsParts
  <2> QED
    BY <1>2, <2>2
<1>4. m[p] = first /\ p \in DOMAIN m
  BY <1>2, <1>3 DEF Holds
<1>5. SubSeq(m, p + 1, p + size) = arg /\ p + size <= Len(m)
  BY <1>3, HoldsValue DEF Holds
<1>6. size # -1 /\ size = ArgSize(major, ai) /\ ~ (p + size > Len(m))
  BY <1>5
<1> HIDE DEF size, p
<1>7. ItemHead(m, p) = [fails |-> FALSE, major |-> major,
                        int |-> IF ai < 24 THEN ai ELSE Int64(arg), next |-> p + 1 + size]
  BY <1>1, <1>4, <1>5, <1>6 DEF ItemHead, size
<1> QED
  BY <1>7 DEF p, size

\* The digits of a number.
LEMMA Digits ==
  ASSUME NEW n \in Nat, n < Huge
  PROVE  LET a == ((n \div 65536) \div 256) % 256
             b == (n \div 65536) % 256
             c == (n \div 256) % 256
             d == n % 256
         IN  /\ a \in Byte /\ b \in Byte /\ c \in Byte /\ d \in Byte /\ a < 64
             /\ d + 256 * (c + 256 * (b + 256 * a)) = n
<1> DEFINE x == n \div 65536
           y == n \div 256
           a == (x \div 256) % 256
           b == x % 256
           c == y % 256
           d == n % 256
<1>1. x \in Int /\ y \in Int /\ 0 <= x /\ x < 16384 /\ x = y \div 256
  BY DEF Huge
<1>2. d \in Int /\ 0 <= d /\ d <= 255 /\ n = 256 * y + d
  OBVIOUS
<1> HIDE DEF d
<1> HIDE DEF x, y
<1>3. c \in Int /\ 0 <= c /\ c <= 255 /\ y = 256 * x + c
  BY <1>1
<1>4. b \in Int /\ 0 <= b /\ b <= 255
  BY <1>1
<1>5. a \in Int /\ 0 <= a /\ a < 64 /\ x = 256 * a + b
  BY <1>1
<1> HIDE DEF a, b, c
<1>6. d + 256 * (c + 256 * (b + 256 * a)) = n
  BY <1>1, <1>2, <1>3, <1>4, <1>5
<1>7. a \in Byte /\ b \in Byte /\ c \in Byte /\ d \in Byte /\ a < 64
  BY <1>2, <1>3, <1>4, <1>5 DEF Byte
<1> QED
  BY <1>6, <1>7 DEF a, b, c, d, x, y

LEMMA Concatenated ==
  ASSUME NEW s \in Seq(Byte), NEW t \in Seq(Byte)
  PROVE  /\ s \o t \in Seq(Byte) /\ Len(s \o t) = Len(s) + Len(t)
         /\ \A i \in 1..Len(s) : (s \o t)[i] = s[i]
         /\ \A i \in 1..Len(t) : (s \o t)[Len(s) + i] = t[i]
OBVIOUS

LEMMA Single ==
  \A x \in Byte : <<x>> \in Seq(Byte) /\ Len(<<x>>) = 1 /\ <<x>>[1] = x
OBVIOUS

\* A byte in front of others.
LEMMA InFront ==
  ASSUME NEW x \in Byte, NEW t \in Seq(Byte), NEW u \in Seq(Byte), Len(u) = 1 + Len(t), u[1] = x,
         \A i \in 1..Len(t) : u[1 + i] = t[i]
  PROVE  <<x>> \o t = u
<1> DEFINE s == <<x>>
           v == s \o t
<1>1. s \in Seq(Byte) /\ Len(s) = 1 /\ s[1] = x
  BY Single
<1> HIDE DEF s
<1>2. v \in Seq(Byte) /\ Len(v) = 1 + Len(t) /\ v[1] = s[1]
  <2>1. v \in Seq(Byte) /\ Len(v) = Len(s) + Len(t) /\ \A i \in 1..Len(s) : v[i] = s[i]
    BY <1>1, Concatenated
  <2>2. 1 \in 1..Len(s)
    BY <1>1
  <2> HIDE DEF v
  <2> QED
    BY <1>1, <2>1, <2>2
<1>3. \A i \in 1..Len(t) : v[1 + i] = t[i]
  <2>1. \A i \in 1..Len(t) : v[Len(s) + i] = t[i]
    BY <1>1, Concatenated
  <2> HIDE DEF v
  <2> QED
    BY <1>1, <2>1
<1> HIDE DEF v
<1>4. \A i \in 1..Len(v) : v[i] = u[i]
  <2> SUFFICES ASSUME NEW i \in 1..Len(v) PROVE v[i] = u[i]
    OBVIOUS
  <2>1. CASE i = 1
    BY <1>1, <1>2, <2>1
  <2>2. CASE i # 1
    <3>1. i - 1 \in 1..Len(t) /\ 1 + (i - 1) = i
      BY <1>2, <2>2
    <3>2. v[1 + (i - 1)] = u[1 + (i - 1)]
      BY <1>3, <3>1
    <3> QED
      BY <3>1, <3>2
  <2> QED
    BY <2>1, <2>2
<1> QED
  BY <1>2, <1>4, SameText DEF v, s

LEMMA Pair ==
  ASSUME NEW x \in Byte, NEW y \in Byte
  PROVE  <<x>> \o <<y>> = <<x, y>>
<1> DEFINE t == <<y>>
           u == <<x, y>>
<1>1. t \in Seq(Byte) /\ Len(t) = 1 /\ t[1] = y
  OBVIOUS
<1>2. u \in Seq(Byte) /\ Len(u) = 2 /\ u[1] = x /\ u[2] = y
  OBVIOUS
<1> HIDE DEF t, u
<1>3. Len(u) = 1 + Len(t) /\ \A i \in 1..Len(t) : u[1 + i] = t[i]
  BY <1>1, <1>2
<1>4. <<x>> \o t = u
  BY <1>1, <1>2, <1>3, InFront
<1> QED
  BY <1>4 DEF t, u

LEMMA Triple ==
  ASSUME NEW x \in Byte, NEW c \in Byte, NEW d \in Byte
  PROVE  <<x>> \o <<c, d>> = <<x, c, d>>
<1> DEFINE t == <<c, d>>
           u == <<x, c, d>>
<1>1. t \in Seq(Byte) /\ Len(t) = 2 /\ t[1] = c /\ t[2] = d
  OBVIOUS
<1>2. u \in Seq(Byte) /\ Len(u) = 3 /\ u[1] = x /\ u[2] = c /\ u[3] = d
  OBVIOUS
<1> HIDE DEF t, u
<1>3. Len(u) = 1 + Len(t) /\ \A i \in 1..Len(t) : u[1 + i] = t[i]
  BY <1>1, <1>2
<1>4. <<x>> \o t = u
  BY <1>1, <1>2, <1>3, InFront
<1> QED
  BY <1>4 DEF t, u

LEMMA Quintuple ==
  ASSUME NEW x \in Byte, NEW a \in Byte, NEW b \in Byte, NEW c \in Byte, NEW d \in Byte
  PROVE  <<x>> \o <<a, b, c, d>> = <<x, a, b, c, d>>
<1> DEFINE t == <<a, b, c, d>>
           u == <<x, a, b, c, d>>
<1>1. t \in Seq(Byte) /\ Len(t) = 4 /\ t[1] = a /\ t[2] = b /\ t[3] = c /\ t[4] = d
  OBVIOUS
<1>2. u \in Seq(Byte) /\ Len(u) = 5 /\ u[1] = x /\ u[2] = a /\ u[3] = b /\ u[4] = c /\ u[5] = d
  OBVIOUS
<1> HIDE DEF t, u
<1>3. Len(u) = 1 + Len(t) /\ \A i \in 1..Len(t) : u[1 + i] = t[i]
  BY <1>1, <1>2
<1>4. <<x>> \o t = u
  BY <1>1, <1>2, <1>3, InFront
<1> QED
  BY <1>4 DEF t, u

LEMMA EightDigits ==
  ASSUME NEW a \in Byte, NEW b \in Byte, NEW c \in Byte, NEW d \in Byte, a < 64
  PROVE  Int64(<<0, 0, 0, 0, a, b, c, d>>) = d + 256 * (c + 256 * (b + 256 * a))
<1> DEFINE bs == <<0, 0, 0, 0, a, b, c, d>>
<1>1. a \in Int
  BY ByteType
<1>2. /\ Len(bs) = 8 /\ bs[1] = 0 /\ bs[2] = 0 /\ bs[3] = 0 /\ bs[4] = 0
      /\ bs[5] = a /\ bs[6] = b /\ bs[7] = c /\ bs[8] = d
  OBVIOUS
<1> HIDE DEF bs
<1>3. Int64(bs) = Unsigned(bs)
  BY <1>2 DEF Int64
<1>4. Unsigned(bs) = d + 256 * (c + 256 * (b + 256 * a))
  <2> DEFINE digit(i) == IF i < Len(bs) THEN bs[Len(bs) - i] ELSE 0
  <2>1. digit(0) = d /\ digit(1) = c /\ digit(2) = b /\ digit(3) = a
    BY <1>2
  <2>2. \A i \in 4..7 : digit(i) = 0
    BY <1>2
  <2>3. Unsigned(bs) = IF digit(3) >= 64 \/ \E i \in 4..7 : digit(i) > 0
                       THEN Huge
                       ELSE digit(0) + 256 * (digit(1) + 256 * (digit(2) + 256 * digit(3)))
    BY DEF Unsigned
  <2> HIDE DEF digit
  <2> QED
    BY <1>1, <2>1, <2>2, <2>3
<1> QED
  BY <1>3, <1>4 DEF bs

\* A number in bytes, as many as were asked for.
LEMMA InBytesType ==
  ASSUME NEW n \in Nat, NEW size \in {0, 1, 2, 4, 8}
  PROVE  InBytes(n, size) \in Seq(Byte) /\ Len(InBytes(n, size)) = size
<1> DEFINE a == ((n \div 65536) \div 256) % 256
           b == (n \div 65536) % 256
           c == (n \div 256) % 256
           d == n % 256
<1>1. a \in Byte /\ b \in Byte /\ c \in Byte /\ d \in Byte /\ 0 \in Byte
  BY DEF Byte
<1> HIDE DEF a, b, c, d
<1>2. /\ InBytes(n, 0) = <<>> /\ InBytes(n, 1) = <<d>> /\ InBytes(n, 2) = <<c, d>>
      /\ InBytes(n, 4) = <<a, b, c, d>> /\ InBytes(n, 8) = <<0, 0, 0, 0, a, b, c, d>>
  BY DEF InBytes, a, b, c, d
<1>3. <<>> \in Seq(Byte) /\ <<d>> \in Seq(Byte) /\ <<c, d>> \in Seq(Byte)
      /\ <<a, b, c, d>> \in Seq(Byte) /\ <<0, 0, 0, 0, a, b, c, d>> \in Seq(Byte)
  BY <1>1
<1>4. /\ Len(<<>>) = 0 /\ Len(<<d>>) = 1 /\ Len(<<c, d>>) = 2
      /\ Len(<<a, b, c, d>>) = 4 /\ Len(<<0, 0, 0, 0, a, b, c, d>>) = 8
  OBVIOUS
<1> QED
  BY <1>2, <1>3, <1>4

\* The number can be read from so many bytes, if there is room for it in them.
LEMMA InBytesIsRead ==
  ASSUME NEW n \in Nat, n < Huge
  PROVE  /\ n < 256 => Int64(InBytes(n, 1)) = n
         /\ n < 65536 => Int64(InBytes(n, 2)) = n
         /\ Int64(InBytes(n, 4)) = n
         /\ Int64(InBytes(n, 8)) = n
<1> DEFINE a == ((n \div 65536) \div 256) % 256
           b == (n \div 65536) % 256
           c == (n \div 256) % 256
           d == n % 256
<1>1. /\ a \in Byte /\ b \in Byte /\ c \in Byte /\ d \in Byte /\ a < 64
      /\ d + 256 * (c + 256 * (b + 256 * a)) = n
  BY Digits
<1>2. n < 256 => d = n
  OBVIOUS
<1>3. n < 65536 => d + 256 * c = n
  OBVIOUS
<1> HIDE DEF a, b, c, d
<1>4. /\ InBytes(n, 1) = <<d>> /\ InBytes(n, 2) = <<c, d>>
      /\ InBytes(n, 4) = <<a, b, c, d>> /\ InBytes(n, 8) = <<0, 0, 0, 0, a, b, c, d>>
  BY DEF InBytes, a, b, c, d
<1>5. /\ Int64(<<d>>) = d /\ Int64(<<c, d>>) = d + 256 * c
      /\ Int64(<<a, b, c, d>>) = d + 256 * (c + 256 * (b + 256 * a))
      /\ Int64(<<0, 0, 0, 0, a, b, c, d>>) = d + 256 * (c + 256 * (b + 256 * a))
  BY <1>1, OneDigit, TwoDigits, ManyDigits, EightDigits
<1> QED
  BY <1>1, <1>2, <1>3, <1>4, <1>5

\* The forms of an item's first bytes.
Form(major, n, ai, size) == <<major * 32 + ai>> \o InBytes(n, size)

LEMMA HeadForms ==
  ASSUME NEW major, NEW n, NEW head
  PROVE  head \in Heads(major, n)
            <=> \/ n < 24 /\ head = Form(major, n, n, 0)
                \/ n < 256 /\ head = Form(major, n, 24, 1)
                \/ n < 65536 /\ head = Form(major, n, 25, 2)
                \/ n < Huge /\ head = Form(major, n, 26, 4)
                \/ n < Huge /\ head = Form(major, n, 27, 8)
<1> DEFINE form(ai, size, limit) == IF n < limit THEN {Form(major, n, ai, size)} ELSE {}
<1>1. Heads(major, n) = form(n, 0, 24) \cup form(24, 1, 256) \cup form(25, 2, 65536)
                          \cup form(26, 4, Huge) \cup form(27, 8, Huge)
  BY DEF Heads, Form
<1> QED
  BY <1>1

LEMMA FormLength ==
  ASSUME NEW major \in 0..6, NEW n \in Nat, NEW ai \in 0..27, NEW size \in {0, 1, 2, 4, 8}
  PROVE  Form(major, n, ai, size) \in Seq(Byte) /\ Len(Form(major, n, ai, size)) = 1 + size
<1>1. <<major * 32 + ai>> \in Seq(Byte) /\ Len(<<major * 32 + ai>>) = 1
  BY FirstByte, Single
<1>2. InBytes(n, size) \in Seq(Byte) /\ Len(InBytes(n, size)) = size
  BY InBytesType
<1> QED
  BY <1>1, <1>2, Concatenated DEF Form

\* In each form, a first byte and an argument stand for the number.
LEMMA HeadForm ==
  ASSUME NEW major \in 0..6, NEW n \in Nat, NEW head \in Heads(major, n)
  PROVE  /\ n < Huge
         /\ \E ai \in 0..27, arg \in Seq(Byte) :
               /\ head = <<major * 32 + ai>> \o arg
               /\ Len(arg) = ArgSize(major, ai)
               /\ n = IF ai < 24 THEN ai ELSE Int64(arg)
<1>1. n < Huge
  BY HeadForms DEF Huge
<1> DEFINE Reads(ai, arg) == /\ head = <<major * 32 + ai>> \o arg
                             /\ Len(arg) = ArgSize(major, ai)
                             /\ n = IF ai < 24 THEN ai ELSE Int64(arg)
<1> SUFFICES \E ai \in 0..27, arg \in Seq(Byte) : Reads(ai, arg)
  BY <1>1
<1>2. /\ ArgSize(major, 24) = 1 /\ ArgSize(major, 25) = 2 /\ ArgSize(major, 26) = 4
      /\ ArgSize(major, 27) = 8 /\ (n < 24 => ArgSize(major, n) = 0)
  BY DEF ArgSize, Simple
<1>3. ASSUME NEW ai \in 0..27, NEW size \in {0, 1, 2, 4, 8}, head = Form(major, n, ai, size),
             ArgSize(major, ai) = size, n = IF ai < 24 THEN ai ELSE Int64(InBytes(n, size))
      PROVE  \E x \in 0..27, arg \in Seq(Byte) : Reads(x, arg)
  <2>1. InBytes(n, size) \in Seq(Byte) /\ Len(InBytes(n, size)) = size
    BY InBytesType
  <2>2. Reads(ai, InBytes(n, size))
    BY <1>3, <2>1 DEF Form
  <2> HIDE DEF Reads
  <2> QED
    BY <2>1, <2>2
<1> HIDE DEF Reads
<1>4. CASE n < 24 /\ head = Form(major, n, n, 0)
  <2>1. n \in 0..27 /\ 0 \in {0, 1, 2, 4, 8}
    BY <1>4
  <2> QED
    BY <1>1, <1>2, <1>3, <1>4, <2>1
<1>5. CASE n < 256 /\ head = Form(major, n, 24, 1)
  <2>1. n = (IF 24 < 24 THEN 24 ELSE Int64(InBytes(n, 1))) /\ 24 \in 0..27 /\ 1 \in {0, 1, 2, 4, 8}
    BY <1>1, <1>5, InBytesIsRead
  <2> QED
    BY <1>2, <1>3, <1>5, <2>1
<1>6. CASE n < 65536 /\ head = Form(major, n, 25, 2)
  <2>1. n = (IF 25 < 24 THEN 25 ELSE Int64(InBytes(n, 2))) /\ 25 \in 0..27 /\ 2 \in {0, 1, 2, 4, 8}
    BY <1>1, <1>6, InBytesIsRead
  <2> QED
    BY <1>2, <1>3, <1>6, <2>1
<1>7. CASE head = Form(major, n, 26, 4)
  <2>1. n = (IF 26 < 24 THEN 26 ELSE Int64(InBytes(n, 4))) /\ 26 \in 0..27 /\ 4 \in {0, 1, 2, 4, 8}
    BY <1>1, InBytesIsRead
  <2> QED
    BY <1>2, <1>3, <1>7, <2>1
<1>8. CASE head = Form(major, n, 27, 8)
  <2>1. n = (IF 27 < 24 THEN 27 ELSE Int64(InBytes(n, 8))) /\ 27 \in 0..27 /\ 8 \in {0, 1, 2, 4, 8}
    BY <1>1, InBytesIsRead
  <2> QED
    BY <1>2, <1>3, <1>8, <2>1
<1>9. \/ n < 24 /\ head = Form(major, n, n, 0)
      \/ n < 256 /\ head = Form(major, n, 24, 1)
      \/ n < 65536 /\ head = Form(major, n, 25, 2)
      \/ head = Form(major, n, 26, 4)
      \/ head = Form(major, n, 27, 8)
  BY HeadForms
<1> QED
  BY <1>4, <1>5, <1>6, <1>7, <1>8, <1>9

LEMMA HeadType ==
  ASSUME NEW major \in 0..6, NEW n \in Nat, NEW head \in Heads(major, n)
  PROVE  head \in Seq(Byte) /\ Len(head) \in Nat /\ Len(head) >= 1
<1>1. PICK ai \in 0..27, arg \in Seq(Byte) :
        /\ head = <<major * 32 + ai>> \o arg
        /\ Len(arg) = ArgSize(major, ai)
        /\ n = IF ai < 24 THEN ai ELSE Int64(arg)
  BY HeadForm
<1>2. <<major * 32 + ai>> \in Seq(Byte) /\ Len(<<major * 32 + ai>>) = 1
  BY FirstByte, Single
<1>3. head \in Seq(Byte) /\ Len(head) = 1 + Len(arg)
  BY <1>1, <1>2, Concatenated
<1> QED
  BY <1>3

\* First bytes of every form are read.
LEMMA HeadIsRead ==
  ASSUME NEW m \in Seq(Byte), NEW off \in Nat, NEW major \in 0..6, NEW n \in Nat,
         NEW head \in Heads(major, n), Holds(m, off, head)
  PROVE  ItemHead(m, off + 1) = [fails |-> FALSE, major |-> major, int |-> n,
                                 next |-> off + 1 + Len(head)]
<1>1. PICK ai \in 0..27, arg \in Seq(Byte) :
        /\ head = <<major * 32 + ai>> \o arg
        /\ Len(arg) = ArgSize(major, ai)
        /\ n = IF ai < 24 THEN ai ELSE Int64(arg)
  BY HeadForm
<1>2. <<major * 32 + ai>> \in Seq(Byte) /\ Len(<<major * 32 + ai>>) = 1
  BY FirstByte, Single
<1>3. Len(head) = 1 + Len(arg)
  BY <1>1, <1>2, Concatenated
<1>4. ItemHead(m, off + 1) = [fails |-> FALSE, major |-> major,
                              int |-> IF ai < 24 THEN ai ELSE Int64(arg),
                              next |-> off + 1 + 1 + Len(arg)]
  <2>1. Holds(m, off, <<major * 32 + ai>> \o arg)
    BY <1>1
  <2> QED
    BY <1>1, <2>1, FormIsRead, ZenonT(60)
<1>5. off + 1 + 1 + Len(arg) = off + 1 + Len(head)
  BY <1>3
<1> QED
  BY <1>1, <1>4, <1>5

\* enc_head writes one of the forms.
LEMMA EncHeadIsHead ==
  ASSUME NEW major \in 0..6, NEW n \in Nat, n < Huge
  PROVE  EncHead(major, n) =
            IF n < 24 THEN Form(major, n, n, 0)
            ELSE IF n < 256 THEN Form(major, n, 24, 1)
            ELSE IF n < 65536 THEN Form(major, n, 25, 2)
            ELSE Form(major, n, 26, 4)
<1> DEFINE a == ((n \div 65536) \div 256) % 256
           b == (n \div 65536) % 256
           c == (n \div 256) % 256
           d == n % 256
<1>1. a \in Byte /\ b \in Byte /\ c \in Byte /\ d \in Byte
  BY Digits
<1>2. n < 256 => d = n
  OBVIOUS
<1>3. n < 65536 => c = n \div 256
  OBVIOUS
<1> HIDE DEF a, b, c, d
<1>4. /\ InBytes(n, 0) = <<>> /\ InBytes(n, 1) = <<d>> /\ InBytes(n, 2) = <<c, d>>
      /\ InBytes(n, 4) = <<a, b, c, d>>
  BY DEF InBytes, a, b, c, d
<1>5. \A x \in 0..27 : major * 32 + x \in Byte
  BY FirstByte
<1>6. CASE n < 24
  <2>1. EncHead(major, n) = <<major * 32 + n>>
    BY <1>6 DEF EncHead
  <2> QED
    BY <1>4, <1>6, <2>1 DEF Form
<1>7. CASE 24 <= n /\ n < 256
  <2>1. EncHead(major, n) = <<major * 32 + 24, d>>
    BY <1>2, <1>7 DEF EncHead
  <2>2. Form(major, n, 24, 1) = <<major * 32 + 24, d>>
    <3>1. major * 32 + 24 \in Byte
      BY <1>5
    <3> QED
      BY <1>1, <1>4, <3>1, Pair DEF Form
  <2> QED
    BY <1>7, <2>1, <2>2
<1>8. CASE 256 <= n /\ n < 65536
  <2>1. EncHead(major, n) = <<major * 32 + 25, c, d>>
    BY <1>3, <1>8 DEF EncHead, d
  <2>2. Form(major, n, 25, 2) = <<major * 32 + 25, c, d>>
    <3>1. Form(major, n, 25, 2) = <<major * 32 + 25>> \o <<c, d>>
      BY <1>4 DEF Form
    <3>2. <<major * 32 + 25>> \o <<c, d>> = <<major * 32 + 25, c, d>>
      <4>1. major * 32 + 25 \in Byte
        BY <1>5
      <4> QED
        BY <1>1, <4>1, Triple
    <3> QED
      BY <3>1, <3>2
  <2> QED
    BY <1>8, <2>1, <2>2
<1>9. CASE 65536 <= n
  <2>1. EncHead(major, n) = <<major * 32 + 26, a, b, c, d>>
    BY <1>9 DEF EncHead, a, b, c, d
  <2>2. Form(major, n, 26, 4) = <<major * 32 + 26, a, b, c, d>>
    <3>1. Form(major, n, 26, 4) = <<major * 32 + 26>> \o <<a, b, c, d>>
      BY <1>4 DEF Form
    <3>2. <<major * 32 + 26>> \o <<a, b, c, d>> = <<major * 32 + 26, a, b, c, d>>
      <4>1. major * 32 + 26 \in Byte
        BY <1>5
      <4> QED
        BY <1>1, <4>1, Quintuple
    <3> QED
      BY <3>1, <3>2
  <2> QED
    BY <1>9, <2>1, <2>2
<1> QED
  BY <1>6, <1>7, <1>8, <1>9

\* enc_head writes the shortest form, and no other form is as short.
LEMMA EncHeadIsShortest ==
  ASSUME NEW major \in 0..6, NEW n \in Nat, n < Huge
  PROVE  EncHead(major, n) \in Heads(major, n) /\ EncHead(major, n) = Shortest(major, n)
<1> DEFINE head == EncHead(major, n)
<1>1. head \in Heads(major, n)
  BY EncHeadIsHead, HeadForms
<1>2. /\ n < 24 => Len(Form(major, n, n, 0)) = 1
      /\ Len(Form(major, n, 24, 1)) = 2 /\ Len(Form(major, n, 25, 2)) = 3
      /\ Len(Form(major, n, 26, 4)) = 5 /\ Len(Form(major, n, 27, 8)) = 9
  <2>1. \A ai \in 0..27, size \in {0, 1, 2, 4, 8} : Len(Form(major, n, ai, size)) = 1 + size
    BY FormLength
  <2>2. n < 24 => n \in 0..27
    OBVIOUS
  <2>3. 24 \in 0..27 /\ 25 \in 0..27 /\ 26 \in 0..27 /\ 27 \in 0..27
    OBVIOUS
  <2>4. 0 \in {0, 1, 2, 4, 8} /\ 1 \in {0, 1, 2, 4, 8} /\ 2 \in {0, 1, 2, 4, 8}
        /\ 4 \in {0, 1, 2, 4, 8} /\ 8 \in {0, 1, 2, 4, 8}
    OBVIOUS
  <2>5. 1 + 0 = 1 /\ 1 + 1 = 2 /\ 1 + 2 = 3 /\ 1 + 4 = 5 /\ 1 + 8 = 9
    OBVIOUS
  <2> HIDE DEF head
  <2> QED
    BY <2>1, <2>2, <2>3, <2>4, <2>5
<1> DEFINE f1 == Form(major, n, n, 0)
           f2 == Form(major, n, 24, 1)
           f3 == Form(major, n, 25, 2)
           f4 == Form(major, n, 26, 4)
           f5 == Form(major, n, 27, 8)
<1>3. ASSUME NEW g \in Heads(major, n), g # head
      PROVE  Len(head) < Len(g)
  <2>1. head = IF n < 24 THEN f1 ELSE IF n < 256 THEN f2 ELSE IF n < 65536 THEN f3 ELSE f4
    BY EncHeadIsHead
  <2>2. \/ n < 24 /\ g = f1
        \/ n < 256 /\ g = f2
        \/ n < 65536 /\ g = f3
        \/ g = f4
        \/ g = f5
    BY HeadForms
  <2> HIDE DEF head, f1, f2, f3, f4, f5
  <2>3. (n < 24 => Len(f1) = 1) /\ Len(f2) = 2 /\ Len(f3) = 3 /\ Len(f4) = 5 /\ Len(f5) = 9
    BY <1>2 DEF f1, f2, f3, f4, f5
  <2>4. /\ n < 24 => /\ Len(f1) < Len(f2) /\ Len(f1) < Len(f3)
                     /\ Len(f1) < Len(f4) /\ Len(f1) < Len(f5)
        /\ Len(f2) < Len(f3) /\ Len(f2) < Len(f4) /\ Len(f2) < Len(f5)
        /\ Len(f3) < Len(f4) /\ Len(f3) < Len(f5) /\ Len(f4) < Len(f5)
    <3>1. ASSUME n < 24
          PROVE  /\ Len(f1) < Len(f2) /\ Len(f1) < Len(f3)
                 /\ Len(f1) < Len(f4) /\ Len(f1) < Len(f5)
      <4>1. Len(f1) = 1
        BY <2>3, <3>1
      <4>2. Len(f2) = 2 /\ Len(f3) = 3 /\ Len(f4) = 5 /\ Len(f5) = 9
        BY <2>3
      <4> QED
        BY <4>1, <4>2
    <3>2. Len(f2) = 2 /\ Len(f3) = 3 /\ Len(f4) = 5 /\ Len(f5) = 9
      BY <2>3
    <3>3. /\ Len(f2) < Len(f3) /\ Len(f2) < Len(f4) /\ Len(f2) < Len(f5)
          /\ Len(f3) < Len(f4) /\ Len(f3) < Len(f5) /\ Len(f4) < Len(f5)
      BY <3>2
    <3> QED
      BY <3>1, <3>3
  <2>5. CASE n < 24
    <3>1. head = f1 /\ (g = f2 \/ g = f3 \/ g = f4 \/ g = f5)
      BY <1>3, <2>1, <2>2, <2>5
    <3> QED
      BY <2>4, <2>5, <3>1, Zenon
  <2>6. CASE 24 <= n /\ n < 256
    <3>1. head = f2 /\ (g = f3 \/ g = f4 \/ g = f5)
      BY <1>3, <2>1, <2>2, <2>6
    <3> QED
      BY <2>4, <3>1, Zenon
  <2>7. CASE 256 <= n /\ n < 65536
    <3>1. head = f3 /\ (g = f4 \/ g = f5)
      BY <1>3, <2>1, <2>2, <2>7
    <3> QED
      BY <2>4, <3>1, Zenon
  <2>8. CASE 65536 <= n
    <3>1. head = f4 /\ g = f5
      BY <1>3, <2>1, <2>2, <2>8
    <3> QED
      BY <2>4, <3>1, Zenon
  <2> QED
    BY <2>5, <2>6, <2>7, <2>8
<1> HIDE DEF head
<1>4. \A g \in Heads(major, n) : Len(head) <= Len(g) /\ Len(g) \in Nat
  <2>1. Len(head) \in Nat
    BY <1>1, HeadType
  <2> QED
    BY <1>3, <2>1, HeadType
<1>5. ASSUME NEW h \in Heads(major, n), \A g \in Heads(major, n) : Len(h) <= Len(g)
      PROVE  h = head
  BY <1>1, <1>3, <1>4, <1>5
<1> QED
  BY <1>1, <1>4, <1>5 DEF head, Shortest

LEMMA EncHeadType ==
  ASSUME NEW major \in 0..6, NEW n \in Nat, n < Huge
  PROVE  EncHead(major, n) \in Seq(Byte) /\ Len(EncHead(major, n)) >= 1
BY EncHeadIsShortest, HeadType

-----------------------------------------------------------------------------
\* Items, wherever in a text they stand.

\* The text s is one item.
IsItem(s) ==
    /\ s \in Seq(Byte) /\ Len(s) >= 1
    /\ \A m \in Seq(Byte), off \in Nat :
          Holds(m, off, s) => End(m)[<<off + 1, 1>>] = off + Len(s) + 1

\* It is a string of these bytes.
IsString(s, type, bytes) ==
    /\ IsItem(s)
    /\ \A m \in Seq(Byte), off \in Nat :
          Holds(m, off, s) => Value(m)[off + 1].type = type /\ Value(m)[off + 1].bytes = bytes

\* It is the number n.
IsNumber(s, n) ==
    /\ IsItem(s)
    /\ \A m \in Seq(Byte), off \in Nat :
          Holds(m, off, s) => Value(m)[off + 1].type = Uint /\ Value(m)[off + 1].int = n

\* A string, with its length in whatever form.
LEMMA StringForms ==
  ASSUME NEW major \in {Bytes, Text}, NEW s \in Seq(Byte), NEW head \in Heads(major, Len(s))
  PROVE  IsString(head \o s, major, s)
<1>1. major \in 0..6 /\ Len(s) \in Nat
  BY DEF Bytes, Text
<1>2. head \in Seq(Byte) /\ Len(head) \in Nat /\ Len(head) >= 1
  BY <1>1, HeadType
<1>3. head \o s \in Seq(Byte) /\ Len(head \o s) = Len(head) + Len(s) /\ Len(head \o s) >= 1
  BY <1>1, <1>2, Concatenated
<1>4. ASSUME NEW m \in Seq(Byte), NEW off \in Nat, Holds(m, off, head \o s)
      PROVE  /\ End(m)[<<off + 1, 1>>] = off + Len(head \o s) + 1
             /\ Value(m)[off + 1].type = major /\ Value(m)[off + 1].bytes = s
  <2> DEFINE p == off + 1
             h == ItemHead(m, p)
  <2>1. Holds(m, off, head) /\ Holds(m, off + Len(head), s)
    BY <1>2, <1>4, HoldsParts
  <2>2. h = [fails |-> FALSE, major |-> major, int |-> Len(s), next |-> p + Len(head)]
    BY <1>1, <2>1, HeadIsRead
  <2>3. ContentSize(h) = Len(s) /\ Inside(h) = 0
    BY <2>2 DEF ContentSize, Inside, Bytes, Text, Array, Map, Tag
  <2>4. SubSeq(m, off + Len(head) + 1, off + Len(head) + Len(s)) = s
    BY <1>2, <2>1, HoldsValue
  <2>5. off + Len(head) + Len(s) <= Len(m)
    BY <2>1 DEF Holds
  <2>6. ~h.fails /\ h.major = major /\ h.int = Len(s) /\ h.next = p + Len(head)
    BY <2>2
  <2> HIDE DEF h
  <2>7. ~Exceeds(m, h)
    BY <1>1, <1>2, <2>5, <2>6 DEF Exceeds
  <2>8. End(m)[<<p, 1>>] = off + Len(head \o s) + 1
    <3>1. End(m)[<<p, 1>>] = End(m)[<<h.next + ContentSize(h), Inside(h)>>]
      BY <2>6, <2>7, EndOfOne DEF h
    <3>2. h.next + ContentSize(h) = off + Len(head \o s) + 1 /\ h.next + ContentSize(h) \in Nat
      BY <1>1, <1>2, <1>3, <2>3, <2>6
    <3> QED
      BY <2>3, <3>1, <3>2, EndOfNone
  <2>9. Value(m)[p].type = major /\ Value(m)[p].bytes = s
    <3>1. /\ Value(m)[p].type = h.major
          /\ Value(m)[p].bytes = SubSeq(m, h.next, h.next + ContentSize(h) - 1)
      <4>1. p \in Nat
        OBVIOUS
      <4> HIDE DEF p
      <4> QED
        BY <4>1, ValueParts DEF h
    <3>2. h.next = off + Len(head) + 1 /\ h.next + ContentSize(h) - 1 = off + Len(head) + Len(s)
      BY <1>1, <1>2, <2>3, <2>6
    <3> QED
      BY <2>4, <2>6, <3>1, <3>2
  <2> QED
    BY <2>8, <2>9
<1> HIDE DEF IsItem
<1>5. IsItem(head \o s)
  BY <1>3, <1>4 DEF IsItem
<1> QED
  BY <1>4, <1>5 DEF IsString

\* A number, or a map of nothing, is what its first bytes are.
LEMMA BareItem ==
  ASSUME NEW major \in {Uint, Map}, NEW n \in Nat, major = Uint \/ n = 0,
         NEW head \in Heads(major, n),
         NEW m \in Seq(Byte), NEW off \in Nat, Holds(m, off, head)
  PROVE  /\ End(m)[<<off + 1, 1>>] = off + Len(head) + 1
         /\ Value(m)[off + 1].type = major /\ Value(m)[off + 1].int = n
<1> DEFINE p == off + 1
           h == ItemHead(m, p)
<1>1. major \in 0..6
  BY DEF Uint, Map
<1>2. head \in Seq(Byte) /\ Len(head) \in Nat /\ Len(head) >= 1
  BY <1>1, HeadType
<1>3. h = [fails |-> FALSE, major |-> major, int |-> n, next |-> p + Len(head)]
  BY <1>1, HeadIsRead
<1>4. ContentSize(h) = 0 /\ Inside(h) = 0
  BY <1>3 DEF ContentSize, Inside, Uint, Bytes, Text, Array, Map, Tag
<1>5. ~h.fails /\ h.major = major /\ h.int = n /\ h.next = p + Len(head)
  BY <1>3
<1>6. off + Len(head) <= Len(m)
  BY DEF Holds
<1> HIDE DEF h
<1>7. ~Exceeds(m, h)
  <2>1. CASE major = Uint
    BY <1>5, <2>1 DEF Exceeds, Uint, Bytes, Text, Array, Map
  <2>2. CASE n = 0
    BY <1>2, <1>5, <1>6, <2>2 DEF Exceeds
  <2> QED
    BY <2>1, <2>2
<1>8. End(m)[<<p, 1>>] = off + Len(head) + 1
  <2>1. End(m)[<<p, 1>>] = End(m)[<<h.next + ContentSize(h), Inside(h)>>]
    BY <1>5, <1>7, EndOfOne DEF h
  <2>2. h.next + ContentSize(h) = off + Len(head) + 1 /\ h.next + ContentSize(h) \in Nat
    BY <1>2, <1>4, <1>5
  <2> QED
    BY <1>4, <2>1, <2>2, EndOfNone
<1>9. Value(m)[p].type = h.major /\ Value(m)[p].int = h.int
  <2>1. p \in Nat
    OBVIOUS
  <2> HIDE DEF p
  <2> QED
    BY <2>1, ValueParts DEF h
<1> QED
  BY <1>5, <1>8, <1>9

LEMMA NumberForms ==
  ASSUME NEW n \in Nat, NEW head \in Heads(Uint, n)
  PROVE  IsNumber(head, n)
<1>1. head \in Seq(Byte) /\ Len(head) >= 1
  <2>1. Uint \in 0..6
    BY DEF Uint
  <2> QED
    BY <2>1, HeadType
<1>2. ASSUME NEW m \in Seq(Byte), NEW off \in Nat, Holds(m, off, head)
      PROVE  /\ End(m)[<<off + 1, 1>>] = off + Len(head) + 1
             /\ Value(m)[off + 1].type = Uint /\ Value(m)[off + 1].int = n
  <2>1. Uint \in {Uint, Map}
    OBVIOUS
  <2> QED
    BY <1>2, <2>1, BareItem
<1>3. IsItem(head)
  BY <1>1, <1>2 DEF IsItem
<1> QED
  BY <1>2, <1>3 DEF IsNumber

LEMMA EmptyMapForms ==
  ASSUME NEW head \in Heads(Map, 0)
  PROVE  IsItem(head)
<1>1. head \in Seq(Byte) /\ Len(head) >= 1
  <2>1. Map \in 0..6 /\ 0 \in Nat
    BY DEF Map
  <2> QED
    BY <2>1, HeadType
<1>2. ASSUME NEW m \in Seq(Byte), NEW off \in Nat, Holds(m, off, head)
      PROVE  End(m)[<<off + 1, 1>>] = off + Len(head) + 1
  <2>1. Map \in {Uint, Map} /\ 0 \in Nat
    OBVIOUS
  <2> QED
    BY <1>2, <2>1, BareItem
<1> QED
  BY <1>1, <1>2 DEF IsItem

\* What is in a tag.
LEMMA TagIsRead ==
  ASSUME NEW m \in Seq(Byte), NEW off \in Nat, NEW n \in Nat, NEW head \in Heads(Tag, n),
         Holds(m, off, head), End(m)[<<off + Len(head) + 1, 1>>] # 0
  PROVE  /\ End(m)[<<off + 1, 1>>] # 0
         /\ Value(m)[off + 1].type = Tag /\ Value(m)[off + 1].int = n
         /\ Value(m)[off + 1].items[1] = Value(m)[off + Len(head) + 1]
<1> DEFINE p == off + 1
           h == ItemHead(m, p)
           q == off + Len(head) + 1
<1>1. Tag \in 0..6
  BY DEF Tag
<1>2. head \in Seq(Byte) /\ Len(head) \in Nat
  BY <1>1, HeadType
<1>3. h = [fails |-> FALSE, major |-> Tag, int |-> n, next |-> p + Len(head)]
  BY <1>1, HeadIsRead
<1>4. ~h.fails /\ h.major = Tag /\ h.int = n /\ h.next = q /\ q \in Nat /\ p \in Nat
  BY <1>2, <1>3
<1> HIDE DEF h, p, q
<1>5. ContentSize(h) = 0 /\ Inside(h) = 1 /\ ~Exceeds(m, h)
  BY <1>4 DEF ContentSize, Inside, Exceeds, Bytes, Text, Array, Map, Tag
<1>6. End(m)[<<p, 1>>] # 0
  <2>1. End(m)[<<p, 1>>] = End(m)[<<h.next + ContentSize(h), Inside(h)>>]
    BY <1>4, <1>5, EndOfOne DEF h
  <2>2. h.next + ContentSize(h) = q
    BY <1>4, <1>5
  <2> QED
    BY <1>5, <2>1, <2>2 DEF q
<1>7. /\ Value(m)[p].type = h.major /\ Value(m)[p].int = h.int
      /\ Value(m)[p].items = [i \in 1..Inside(h) |-> Value(m)[End(m)[<<h.next, i - 1>>]]]
  BY <1>4, ValueParts DEF h
<1>8. Value(m)[p].items[1] = Value(m)[q]
  <2>1. Value(m)[p].items[1] = Value(m)[End(m)[<<q, 1 - 1>>]]
    BY <1>4, <1>5, <1>7
  <2>2. End(m)[<<q, 0>>] = q
    BY <1>4, EndOfNone
  <2> QED
    BY <2>1, <2>2
<1> QED
  BY <1>4, <1>6, <1>7, <1>8 DEF p, q

\* How an array of four items, or a map of two keys and two values, is announced.
IsListOfFour(major, n) == (major = Array /\ n = 4) \/ (major = Map /\ n = 2)

LEMMA FourContents ==
  ASSUME NEW h, IsListOfFour(h.major, h.int)
  PROVE  ContentSize(h) = 0 /\ Inside(h) = 4
<1>1. CASE h.major = Array /\ h.int = 4
  BY <1>1 DEF ContentSize, Inside, Array, Map, Tag, Bytes, Text
<1>2. CASE h.major = Map /\ h.int = 2
  BY <1>2 DEF ContentSize, Inside, Array, Map, Tag, Bytes, Text
<1> QED
  BY <1>1, <1>2 DEF IsListOfFour

\* In m, four items are announced at q, start at the positions given, each where the one before
\* ends, and end before e.
InRow(m, q, major, n, p1, p2, p3, p4, e) ==
    /\ IsListOfFour(major, n)
    /\ ItemHead(m, q) = [fails |-> FALSE, major |-> major, int |-> n, next |-> p1]
    /\ p1 + 4 <= Len(m) + 1
    /\ End(m)[<<p1, 1>>] = p2 /\ End(m)[<<p2, 1>>] = p3
    /\ End(m)[<<p3, 1>>] = p4 /\ End(m)[<<p4, 1>>] = e

\* Of the item at q, these are the items.
HasItems(m, q, major, p1, p2, p3, p4) ==
    LET v == Value(m)[q]
    IN  /\ v.type = major /\ DOMAIN v.items = 1..4 /\ Len(v.items) = 4
        /\ v.items[1] = Value(m)[p1] /\ v.items[2] = Value(m)[p2]
        /\ v.items[3] = Value(m)[p3] /\ v.items[4] = Value(m)[p4]

\* Four items, each of which ends where the next one starts.
LEMMA FourItems ==
  ASSUME NEW m \in Seq(Byte), NEW q \in Nat, NEW p1 \in Nat, NEW p2 \in Nat, NEW p3 \in Nat,
         NEW p4 \in Nat, NEW e \in Nat \ {0}, NEW major, NEW n,
         InRow(m, q, major, n, p1, p2, p3, p4, e)
  PROVE  End(m)[<<q, 1>>] # 0 /\ HasItems(m, q, major, p1, p2, p3, p4)
<1> DEFINE h == ItemHead(m, q)
           v == Value(m)[q]
<1>1. /\ ~h.fails /\ h.int = n /\ h.next = p1 /\ h.major = major
      /\ IsListOfFour(major, n) /\ p1 + 4 <= Len(m) + 1
  BY DEF InRow
<1> HIDE DEF h
<1>2. ContentSize(h) = 0 /\ Inside(h) = 4
  BY <1>1, FourContents
<1>3. ~Exceeds(m, h)
  <2>1. Len(m) \in Nat
    OBVIOUS
  <2>2. n = 4 \/ n = 2
    BY <1>1 DEF IsListOfFour
  <2>3. ~ (n < 0) /\ ~ (n > Len(m) - p1 + 1)
    BY <1>1, <2>1, <2>2
  <2> QED
    BY <1>1, <2>3 DEF Exceeds
<1>4. \A p \in Nat : /\ End(m)[<<p, 2>>] = End(m)[<<End(m)[<<p, 1>>], 1>>]
                     /\ End(m)[<<p, 3>>] = End(m)[<<End(m)[<<p, 1>>], 2>>]
                     /\ End(m)[<<p, 4>>] = End(m)[<<End(m)[<<p, 1>>], 3>>]
  <2>1. ASSUME NEW p \in Nat, NEW k \in Nat \ {0}
        PROVE  End(m)[<<p, k>>] = End(m)[<<End(m)[<<p, 1>>], k - 1>>]
    BY EndOfFirst
  <2>2. 2 - 1 = 1 /\ 3 - 1 = 2 /\ 4 - 1 = 3 /\ {2, 3, 4} \subseteq Nat \ {0}
    OBVIOUS
  <2> QED
    BY <2>1, <2>2
<1>5. /\ End(m)[<<p1, 0>>] = p1 /\ End(m)[<<p1, 1>>] = p2 /\ End(m)[<<p1, 2>>] = p3
      /\ End(m)[<<p1, 3>>] = p4 /\ End(m)[<<p1, 4>>] = e
  <2>1. End(m)[<<p1, 0>>] = p1 /\ End(m)[<<p1, 1>>] = p2
    BY EndOfNone DEF InRow
  <2>2. End(m)[<<p1, 2>>] = p3 /\ End(m)[<<p2, 2>>] = p4 /\ End(m)[<<p3, 2>>] = e
    BY <1>4 DEF InRow
  <2>3. End(m)[<<p1, 3>>] = p4 /\ End(m)[<<p2, 3>>] = e
    BY <1>4, <2>2 DEF InRow
  <2> QED
    BY <1>4, <2>1, <2>2, <2>3 DEF InRow
<1>6. End(m)[<<q, 1>>] # 0
  <2>1. End(m)[<<q, 1>>] = End(m)[<<p1 + 0, 4>>]
    BY <1>1, <1>2, <1>3, EndOfOne DEF h
  <2>2. p1 + 0 = p1
    OBVIOUS
  <2> QED
    BY <1>5, <2>1, <2>2
<1>7. v.type = major /\ v.items = [i \in 1..4 |-> Value(m)[End(m)[<<p1, i - 1>>]]]
  <2>1. v.type = h.major
        /\ v.items = [i \in 1..Inside(h) |-> Value(m)[End(m)[<<h.next, i - 1>>]]]
    BY ValueParts DEF h
  <2> HIDE DEF v
  <2> QED
    BY <1>1, <1>2, <2>1
<1> HIDE DEF v
<1>8. /\ v.items[1] = Value(m)[End(m)[<<p1, 0>>]] /\ v.items[2] = Value(m)[End(m)[<<p1, 1>>]]
      /\ v.items[3] = Value(m)[End(m)[<<p1, 2>>]] /\ v.items[4] = Value(m)[End(m)[<<p1, 3>>]]
  BY <1>7
<1>9. DOMAIN v.items = 1..4 /\ Len(v.items) = 4
  BY <1>7
<1> QED
  BY <1>5, <1>6, <1>7, <1>8, <1>9 DEF v, HasItems

\* The value v is that of s, which stands in m.
ValueOf(v, m, s) == \E off \in Nat : Holds(m, off, s) /\ v = Value(m)[off + 1]

\* The value v is the array or the map of the values of these texts.
IsListOf(v, m, major, s1, s2, s3, s4) ==
    /\ v.type = major /\ DOMAIN v.items = 1..4 /\ Len(v.items) = 4
    /\ ValueOf(v.items[1], m, s1) /\ ValueOf(v.items[2], m, s2)
    /\ ValueOf(v.items[3], m, s3) /\ ValueOf(v.items[4], m, s4)

\* In m, these texts stand behind off bytes, each behind the one before.
StandInRow(m, off, head, o1, s1, o2, s2, o3, s3, o4, s4) ==
    /\ o1 = off + Len(head) /\ o2 = o1 + Len(s1) /\ o3 = o2 + Len(s2) /\ o4 = o3 + Len(s3)
    /\ Holds(m, off, head)
    /\ Holds(m, o1, s1) /\ Holds(m, o2, s2) /\ Holds(m, o3, s3) /\ Holds(m, o4, s4)

LEMMA ItemStands ==
  ASSUME NEW m \in Seq(Byte), NEW off \in Nat, NEW s, IsItem(s), Holds(m, off, s)
  PROVE  End(m)[<<off + 1, 1>>] = off + Len(s) + 1
BY DEF IsItem

LEMMA ItemLength ==
  ASSUME NEW s, IsItem(s)
  PROVE  Len(s) \in Nat /\ Len(s) >= 1
BY DEF IsItem

\* An array or a map, each of its items behind the one before.
LEMMA ListIsRead ==
  ASSUME NEW m \in Seq(Byte), NEW off \in Nat, NEW o1 \in Nat, NEW o2 \in Nat, NEW o3 \in Nat,
         NEW o4 \in Nat, NEW major, NEW n, IsListOfFour(major, n), NEW head \in Heads(major, n),
         NEW s1, NEW s2, NEW s3, NEW s4, IsItem(s1), IsItem(s2), IsItem(s3), IsItem(s4),
         StandInRow(m, off, head, o1, s1, o2, s2, o3, s3, o4, s4)
  PROVE  /\ End(m)[<<off + 1, 1>>] # 0
         /\ IsListOf(Value(m)[off + 1], m, major, s1, s2, s3, s4)
<1>1. /\ Len(s1) \in Nat /\ Len(s1) >= 1 /\ Len(s2) \in Nat /\ Len(s2) >= 1
      /\ Len(s3) \in Nat /\ Len(s3) >= 1 /\ Len(s4) \in Nat /\ Len(s4) >= 1
  BY ItemLength
<1>2. major \in 0..6 /\ n \in Nat
  BY DEF IsListOfFour, Array, Map
<1>3. Len(head) \in Nat
  BY <1>2, HeadType
<1>4. /\ Holds(m, off, head) /\ Holds(m, o1, s1) /\ Holds(m, o2, s2)
      /\ Holds(m, o3, s3) /\ Holds(m, o4, s4)
  BY DEF StandInRow
<1>5. /\ End(m)[<<o1 + 1, 1>>] = o1 + Len(s1) + 1 /\ End(m)[<<o2 + 1, 1>>] = o2 + Len(s2) + 1
      /\ End(m)[<<o3 + 1, 1>>] = o3 + Len(s3) + 1 /\ End(m)[<<o4 + 1, 1>>] = o4 + Len(s4) + 1
  BY <1>4, ItemStands
<1> DEFINE q == off + 1
           p1 == o1 + 1
           p2 == o2 + 1
           p3 == o3 + 1
           p4 == o4 + 1
           e == o4 + Len(s4) + 1
<1>6. /\ q \in Nat /\ p1 \in Nat /\ p2 \in Nat /\ p3 \in Nat /\ p4 \in Nat /\ e \in Nat \ {0}
      /\ p1 + 4 <= Len(m) + 1
  <2>1. o4 + Len(s4) <= Len(m) /\ Len(m) \in Nat
    BY <1>4 DEF Holds
  <2>2. o2 = o1 + Len(s1) /\ o3 = o2 + Len(s2) /\ o4 = o3 + Len(s3)
    BY DEF StandInRow
  <2> QED
    BY <1>1, <2>1, <2>2
<1>7. ItemHead(m, q) = [fails |-> FALSE, major |-> major, int |-> n, next |-> p1]
  <2>1. ItemHead(m, off + 1) = [fails |-> FALSE, major |-> major, int |-> n,
                                next |-> off + 1 + Len(head)]
    BY <1>4, <1>2, HeadIsRead, SMTT(30)
  <2>2. off + 1 + Len(head) = p1
    BY <1>3 DEF StandInRow
  <2> QED
    BY <2>1, <2>2
<1>8. InRow(m, q, major, n, p1, p2, p3, p4, e)
  <2>1. o2 = o1 + Len(s1) /\ o3 = o2 + Len(s2) /\ o4 = o3 + Len(s3)
    BY DEF StandInRow
  <2>2. /\ End(m)[<<p1, 1>>] = p2 /\ End(m)[<<p2, 1>>] = p3
        /\ End(m)[<<p3, 1>>] = p4 /\ End(m)[<<p4, 1>>] = e
    BY <1>5, <2>1
  <2> HIDE DEF q, p1, p2, p3, p4, e
  <2> QED
    BY <1>6, <1>7, <2>2 DEF InRow
<1> DEFINE v == Value(m)[q]
<1> HIDE DEF q, p1, p2, p3, p4, e
<1>9. /\ End(m)[<<q, 1>>] # 0
      /\ v.type = major /\ DOMAIN v.items = 1..4 /\ Len(v.items) = 4
      /\ v.items[1] = Value(m)[p1] /\ v.items[2] = Value(m)[p2]
      /\ v.items[3] = Value(m)[p3] /\ v.items[4] = Value(m)[p4]
  <2>1. End(m)[<<q, 1>>] # 0 /\ HasItems(m, q, major, p1, p2, p3, p4)
    BY <1>6, <1>8, FourItems
  <2> QED
    BY <2>1 DEF HasItems
<1> HIDE DEF v
<1>10. /\ ValueOf(v.items[1], m, s1) /\ ValueOf(v.items[2], m, s2)
      /\ ValueOf(v.items[3], m, s3) /\ ValueOf(v.items[4], m, s4)
  BY <1>4, <1>9 DEF ValueOf, p1, p2, p3, p4
<1>11. IsListOf(v, m, major, s1, s2, s3, s4)
  BY <1>9, <1>10 DEF IsListOf
<1> QED
  BY <1>9, <1>11 DEF v, q

\* In m, these texts stand at the front, each behind the one before.
StandAtFront(m, a, s1, s2, s3, s4) ==
    LET o1 == Len(a)
        o2 == o1 + Len(s1)
        o3 == o2 + Len(s2)
        o4 == o3 + Len(s3)
    IN  /\ m \in Seq(Byte) /\ Holds(m, 0, a) /\ Holds(m, o1, s1) /\ Holds(m, o2, s2)
        /\ Holds(m, o3, s3) /\ Holds(m, o4, s4)
        /\ o1 \in Nat /\ o2 \in Nat /\ o3 \in Nat /\ o4 \in Nat

\* A text of five stands in itself, part by part.
LEMMA FiveParts ==
  ASSUME NEW a \in Seq(Byte), NEW s1 \in Seq(Byte), NEW s2 \in Seq(Byte), NEW s3 \in Seq(Byte),
         NEW s4 \in Seq(Byte)
  PROVE  StandAtFront(a \o s1 \o s2 \o s3 \o s4, a, s1, s2, s3, s4)
<1> DEFINE a1 == a \o s1
           a2 == a1 \o s2
           a3 == a2 \o s3
           m == a3 \o s4
<1>1. /\ a1 \in Seq(Byte) /\ Len(a1) = Len(a) + Len(s1)
      /\ a2 \in Seq(Byte) /\ Len(a2) = Len(a1) + Len(s2)
      /\ a3 \in Seq(Byte) /\ Len(a3) = Len(a2) + Len(s3)
      /\ m \in Seq(Byte) /\ Len(m) = Len(a3) + Len(s4)
  BY Concatenated
<1> HIDE DEF a1, a2, a3, m
<1>2. Holds(m, 0, a3) /\ Holds(m, Len(a3), s4)
  <2>1. Holds(m, 0, a3 \o s4)
    BY <1>1 DEF Holds, m
  <2> QED
    BY <1>1, <2>1, HoldsAtFront
<1>3. Holds(m, 0, a2) /\ Holds(m, Len(a2), s3)
  <2>1. Holds(m, 0, a2 \o s3)
    BY <1>2 DEF a3
  <2> QED
    BY <1>1, <2>1, HoldsAtFront
<1>4. Holds(m, 0, a1) /\ Holds(m, Len(a1), s2)
  <2>1. Holds(m, 0, a1 \o s2)
    BY <1>3 DEF a2
  <2> QED
    BY <1>1, <2>1, HoldsAtFront
<1>5. Holds(m, 0, a) /\ Holds(m, Len(a), s1)
  <2>1. Holds(m, 0, a \o s1)
    BY <1>4 DEF a1
  <2> QED
    BY <1>1, <2>1, HoldsAtFront
<1>6. Len(a) \in Nat /\ Len(a1) \in Nat /\ Len(a2) \in Nat /\ Len(a3) \in Nat
  BY <1>1
<1> QED
  <2>1. StandAtFront(m, a, s1, s2, s3, s4)
    BY <1>1, <1>2, <1>3, <1>4, <1>5, <1>6 DEF StandAtFront
  <2> QED
    BY <2>1 DEF m, a3, a2, a1

\* The text of an array of four strings.
FourWritten(t1, s1, t2, s2, t3, s3, t4, s4) ==
    EncHead(Array, 4) \o (EncHead(t1, Len(s1)) \o s1) \o (EncHead(t2, Len(s2)) \o s2)
        \o (EncHead(t3, Len(s3)) \o s3) \o (EncHead(t4, Len(s4)) \o s4)

\* The value v is an array of these strings.
IsArrayOfStrings(v, strings) ==
    v.type = Array /\ [i \in DOMAIN v.items |-> v.items[i].bytes] = strings

\* EncBytes and EncText write strings.
LEMMA StringIsWritten ==
  ASSUME NEW major \in {Bytes, Text}, NEW s \in Seq(Byte), Len(s) < Huge
  PROVE  IsString(EncHead(major, Len(s)) \o s, major, s)
<1>1. major \in 0..6 /\ Len(s) \in Nat
  BY DEF Bytes, Text
<1>2. EncHead(major, Len(s)) \in Heads(major, Len(s))
  BY <1>1, EncHeadIsShortest
<1> QED
  BY <1>2, StringForms

\* The bytes of a string that stands in a text.
LEMMA StringStands ==
  ASSUME NEW m \in Seq(Byte), NEW s, NEW type, NEW bytes, IsString(s, type, bytes),
         NEW v, ValueOf(v, m, s)
  PROVE  v.type = type /\ v.bytes = bytes
BY DEF IsString, ValueOf

\* An array of four strings is read as it was written.
LEMMA ArrayIsRead ==
  ASSUME NEW s1 \in Seq(Byte), NEW s2 \in Seq(Byte), NEW s3 \in Seq(Byte), NEW s4 \in Seq(Byte),
         Len(s1) < Huge, Len(s2) < Huge, Len(s3) < Huge, Len(s4) < Huge,
         NEW t1 \in {Bytes, Text}, NEW t2 \in {Bytes, Text},
         NEW t3 \in {Bytes, Text}, NEW t4 \in {Bytes, Text}
  PROVE  IsArrayOfStrings(Decode(FourWritten(t1, s1, t2, s2, t3, s3, t4, s4)),
                          <<s1, s2, s3, s4>>)
<1> DEFINE a == EncHead(Array, 4)
           b1 == EncHead(t1, Len(s1)) \o s1
           b2 == EncHead(t2, Len(s2)) \o s2
           b3 == EncHead(t3, Len(s3)) \o s3
           b4 == EncHead(t4, Len(s4)) \o s4
           m == a \o b1 \o b2 \o b3 \o b4
           v == Decode(m)
           o1 == Len(a)
           o2 == o1 + Len(b1)
           o3 == o2 + Len(b2)
           o4 == o3 + Len(b3)
<1>1. a \in Heads(Array, 4) /\ a \in Seq(Byte)
  <2>1. Array \in 0..6 /\ 4 \in Nat /\ 4 < Huge
    BY DEF Array, Huge
  <2> QED
    BY <2>1, EncHeadIsShortest, HeadType
<1>2. /\ IsString(b1, t1, s1) /\ IsString(b2, t2, s2)
      /\ IsString(b3, t3, s3) /\ IsString(b4, t4, s4)
  BY StringIsWritten
<1> HIDE DEF a, b1, b2, b3, b4
<1>3. /\ IsItem(b1) /\ IsItem(b2) /\ IsItem(b3) /\ IsItem(b4)
      /\ b1 \in Seq(Byte) /\ b2 \in Seq(Byte) /\ b3 \in Seq(Byte) /\ b4 \in Seq(Byte)
  BY <1>2 DEF IsString, IsItem
<1>4. /\ m \in Seq(Byte) /\ Holds(m, 0, a) /\ Holds(m, o1, b1) /\ Holds(m, o2, b2)
      /\ Holds(m, o3, b3) /\ Holds(m, o4, b4)
      /\ o1 \in Nat /\ o2 \in Nat /\ o3 \in Nat /\ o4 \in Nat
  <2>1. StandAtFront(m, a, b1, b2, b3, b4)
    BY <1>1, <1>3, FiveParts
  <2> HIDE DEF m
  <2> QED
    BY <2>1 DEF StandAtFront
<1>5. o1 = 0 + Len(a) /\ o2 = o1 + Len(b1) /\ o3 = o2 + Len(b2) /\ o4 = o3 + Len(b3) /\ 0 \in Nat
  BY <1>4
<1>6. IsListOfFour(Array, 4)
  BY DEF IsListOfFour
<1> HIDE DEF m, o1, o2, o3, o4
<1>7. End(m)[<<0 + 1, 1>>] # 0 /\ IsListOf(Value(m)[0 + 1], m, Array, b1, b2, b3, b4)
  <2>1. StandInRow(m, 0, a, o1, b1, o2, b2, o3, b3, o4, b4)
    BY <1>4, <1>5 DEF StandInRow
  <2> QED
    BY <1>1, <1>3, <1>4, <1>5, <1>6, <2>1, ListIsRead
<1>8. IsListOf(v, m, Array, b1, b2, b3, b4)
  <2>1. 0 + 1 = 1
    OBVIOUS
  <2> QED
    BY <1>7, <2>1 DEF Decode
<1> HIDE DEF v
<1>9. /\ v.items[1].bytes = s1 /\ v.items[2].bytes = s2
      /\ v.items[3].bytes = s3 /\ v.items[4].bytes = s4
  <2>1. /\ ValueOf(v.items[1], m, b1) /\ ValueOf(v.items[2], m, b2)
        /\ ValueOf(v.items[3], m, b3) /\ ValueOf(v.items[4], m, b4)
    BY <1>8 DEF IsListOf
  <2> QED
    BY <1>2, <1>4, <2>1, StringStands
<1>10. v.type = Array /\ DOMAIN v.items = 1..4
  BY <1>8 DEF IsListOf
<1>11. [i \in DOMAIN v.items |-> v.items[i].bytes] = <<s1, s2, s3, s4>>
  BY <1>9, <1>10
<1> QED
  BY <1>10, <1>11 DEF v, m, a, b1, b2, b3, b4, IsArrayOfStrings, FourWritten

-----------------------------------------------------------------------------
\* What a signature is about.

Short(s) == s \in Seq(Byte) /\ Len(s) < Huge

LEMMA ContextType == Short(Context) /\ Short(<<>>)
<1>1. Context \in Seq(Byte) /\ Len(Context) = 10
  BY DEF Context, Byte
<1>2. <<>> \in Seq(Byte) /\ Len(<<>>) = 0
  OBVIOUS
<1>3. 0 < Huge /\ 10 < Huge
  BY DEF Huge
<1> QED
  BY <1>1, <1>2, <1>3 DEF Short

\* enc_head, enc_bytes and enc_text write what RFC 9052 wants signed.
LEMMA SigStructureIsToBeSigned ==
  ASSUME NEW protected, NEW payload, Short(protected), Short(payload)
  PROVE  SigStructure(protected, payload) = ToBeSigned(protected, payload)
<1>1. Short(Context) /\ Short(<<>>)
  BY ContextType
<1>2. ASSUME NEW s, Short(s)
      PROVE  EncHead(Bytes, Len(s)) = Shortest(Bytes, Len(s))
             /\ EncHead(Text, Len(s)) = Shortest(Text, Len(s))
  <2>1. Len(s) \in Nat /\ Len(s) < Huge
    BY <1>2 DEF Short
  <2>2. Bytes \in 0..6 /\ Text \in 0..6
    BY DEF Bytes, Text
  <2> QED
    BY <2>1, <2>2, EncHeadIsShortest
<1>3. EncHead(Array, 4) = Shortest(Array, 4)
  <2>1. Array \in 0..6 /\ 4 \in Nat /\ 4 < Huge
    BY DEF Array, Huge
  <2> QED
    BY <2>1, EncHeadIsShortest
<1>4. EncText(Context) = ShortestString(Text, Context)
  BY <1>1, <1>2 DEF EncText, ShortestString
<1>5. \A s \in {protected, <<>>, payload} : EncBytes(s) = ShortestString(Bytes, s)
  BY <1>1, <1>2 DEF EncBytes, ShortestString
<1> QED
  BY <1>3, <1>4, <1>5 DEF SigStructure, ToBeSigned

LEMMA SigStructureIsRead ==
  ASSUME NEW protected, NEW payload, Short(protected), Short(payload)
  PROVE  IsArrayOfStrings(Decode(SigStructure(protected, payload)),
                          <<Context, protected, <<>>, payload>>)
<1>1. SigStructure(protected, payload)
        = FourWritten(Text, Context, Bytes, protected, Bytes, <<>>, Bytes, payload)
  BY DEF SigStructure, EncText, EncBytes, FourWritten
<1>2. /\ Context \in Seq(Byte) /\ Len(Context) < Huge
      /\ <<>> \in Seq(Byte) /\ Len(<<>>) < Huge
      /\ protected \in Seq(Byte) /\ Len(protected) < Huge
      /\ payload \in Seq(Byte) /\ Len(payload) < Huge
  BY ContextType DEF Short
<1>3. Text \in {Bytes, Text} /\ Bytes \in {Bytes, Text}
  OBVIOUS
<1>4. IsArrayOfStrings(
        Decode(FourWritten(Text, Context, Bytes, protected, Bytes, <<>>, Bytes, payload)),
        <<Context, protected, <<>>, payload>>)
  BY <1>2, <1>3, ArrayIsRead
<1> QED
  BY <1>1, <1>4

\* One message cannot be cut into a header and a payload in two ways.
LEMMA SigStructureIsInjective ==
  ASSUME NEW h1, NEW p1, NEW h2, NEW p2, Short(h1), Short(p1), Short(h2), Short(p2),
         SigStructure(h1, p1) = SigStructure(h2, p2)
  PROVE  h1 = h2 /\ p1 = p2
<1>1. <<Context, h1, <<>>, p1>> = <<Context, h2, <<>>, p2>>
  <2> DEFINE v(h, p) == Decode(SigStructure(h, p))
             bytes(h, p) == [i \in DOMAIN v(h, p).items |-> v(h, p).items[i].bytes]
  <2>1. bytes(h1, p1) = <<Context, h1, <<>>, p1>> /\ bytes(h2, p2) = <<Context, h2, <<>>, p2>>
    BY SigStructureIsRead DEF IsArrayOfStrings
  <2>2. bytes(h1, p1) = bytes(h2, p2)
    OBVIOUS
  <2> QED
    BY <2>1, <2>2
<1> QED
  BY <1>1

-----------------------------------------------------------------------------
(***************************************************************************)
(* The invariant.  Decoding never makes a text longer, so no part of a     *)
(* token is longer than a length can be; what the signature was checked    *)
(* for stays what was taken apart; and the chip id is the one claimed in   *)
(* what was signed.                                                        *)
(***************************************************************************)
PartsAreShort ==
    /\ Short(token)
    /\ platform # None => Short(platform)
    /\ sign1 # None => /\ sign1 \in [protected : Seq(Byte), payload : Seq(Byte),
                                     signature : Seq(Byte)]
                       /\ Short(sign1.protected) /\ Short(sign1.payload)

SignatureHolds ==
    step \in {"claims", "done"} =>
        \E s \in Signed : /\ s.sig = sign1.signature
                          /\ s.msg = SigStructure(sign1.protected, sign1.payload)

IdIsClaimed ==
    step = "done" => instanceId = At(Decode(sign1.payload), InstanceIdKey).bytes

IInv == TypeOK /\ PartsAreShort /\ SignatureHolds /\ IdIsClaimed

\* What is found in a short text is short.
LEMMA FoundIsShort ==
  ASSUME NEW m, Short(m), NEW v \in Values(m)
  PROVE  Short(v.bytes)
<1>1. m \in Seq(Byte) /\ Len(m) < Huge /\ Len(m) \in Nat
  BY DEF Short
<1>2. v.bytes \in Seq(Byte) /\ Len(v.bytes) <= Len(m) /\ Len(v.bytes) \in Nat
  BY <1>1, ValueType
<1>3. Len(v.bytes) < Huge
  BY <1>1, <1>2, HugeType
<1> QED
  BY <1>2, <1>3 DEF Short

LEMMA InitInv == ASSUME Init PROVE IInv
<1>1. token \in Seq(Byte) /\ Len(token) < Huge
  BY CcaAssumption DEF Init
<1>2. TypeOK
  BY <1>1 DEF Init, TypeOK
<1> QED
  BY <1>1, <1>2 DEF Init, IInv, PartsAreShort, Short, SignatureHolds, IdIsClaimed

LEMMA FindPlatformInv == ASSUME IInv, FindPlatform PROVE IInv'
<1> DEFINE plat == At(Untag(Decode(token), CcaTokenTag), PlatformTokenKey)
<1>1. /\ step = "token" /\ Short(token) /\ token \in Seq(Byte)
      /\ sign1 # None => /\ sign1 \in [protected : Seq(Byte), payload : Seq(Byte),
                                       signature : Seq(Byte)]
                         /\ Short(sign1.protected) /\ Short(sign1.payload)
  BY DEF FindPlatform, IInv, PartsAreShort, TypeOK
<1>2. Short(plat.bytes)
  <2>1. plat \in Values(token)
    BY <1>1, DecodeType, UntagType, AtType
  <2> QED
    BY <1>1, <2>1, FoundIsShort
<1>3. /\ step' \in {"platform", "reject"} /\ UNCHANGED <<token, sign1, instanceId>>
      /\ platform' = None \/ Short(platform')
      /\ step' = "platform" => platform' = plat.bytes
  BY <1>2 DEF FindPlatform, Keep
<1>4. platform' \in Seq(Byte) \cup {None} /\ (step' = "platform" => platform' # None)
  BY <1>2, <1>3, CcaAssumption DEF Short
<1>5. /\ sign1 = None \/ \A f \in {"protected", "payload", "signature"} : sign1[f] \in Seq(Byte)
      /\ instanceId \in (Seq(Byte) \ {<<>>}) \cup {None}
      /\ instanceId = None
  BY <1>1 DEF IInv, TypeOK
<1>6. TypeOK'
  BY <1>1, <1>3, <1>4, <1>5 DEF TypeOK
<1>7. PartsAreShort'
  BY <1>1, <1>3 DEF PartsAreShort
<1>8. SignatureHolds' /\ IdIsClaimed'
  BY <1>3 DEF SignatureHolds, IdIsClaimed
<1> QED
  BY <1>6, <1>7, <1>8 DEF IInv

LEMMA TakeApartInv == ASSUME IInv, TakeApart PROVE IInv'
<1> DEFINE arr == Untag(Decode(platform), CoseSign1Tag)
           fits == /\ arr.type = Array /\ Len(arr.items) = 4
                   /\ \A i \in {1, 3, 4} : arr.items[i].type = Bytes
           parts == [protected |-> arr.items[1].bytes, payload |-> arr.items[3].bytes,
                     signature |-> arr.items[4].bytes]
<1>1. /\ step = "platform" /\ Short(token) /\ token \in Seq(Byte)
      /\ platform # None /\ Short(platform) /\ instanceId = None
  BY DEF TakeApart, IInv, PartsAreShort, TypeOK
<1>2. platform \in Seq(Byte)
  BY <1>1 DEF Short
<1>3. ASSUME fits
      PROVE  /\ Short(arr.items[1].bytes) /\ Short(arr.items[3].bytes)
             /\ Short(arr.items[4].bytes)
  <2>1. arr \in Values(platform)
    BY <1>2, DecodeType, UntagType
  <2>2. arr.items \in Seq(Values(platform))
    BY <1>2, <2>1, ValueType
  <2> HIDE DEF arr
  <2>3. arr.items[1] \in Values(platform) /\ arr.items[3] \in Values(platform)
        /\ arr.items[4] \in Values(platform)
    BY <1>3, <2>2
  <2> QED
    BY <1>1, <2>3, FoundIsShort
<1>4. /\ step' = (IF fits THEN "alg" ELSE "reject")
      /\ sign1' = (IF fits THEN parts ELSE None)
      /\ UNCHANGED <<token, platform, instanceId>>
  BY DEF TakeApart, Keep
<1> HIDE DEF arr, fits
<1>5. fits => /\ parts \in [protected : Seq(Byte), payload : Seq(Byte), signature : Seq(Byte)]
              /\ parts.protected \in Seq(Byte) /\ parts.payload \in Seq(Byte)
              /\ parts.signature \in Seq(Byte)
              /\ Short(parts.protected) /\ Short(parts.payload)
  BY <1>3 DEF Short
<1> HIDE DEF parts
<1>6. sign1' = None \/ \A f \in {"protected", "payload", "signature"} : sign1'[f] \in Seq(Byte)
  BY <1>4, <1>5
<1>7. step' = "alg" => sign1' # None
  BY <1>4, <1>5, CcaAssumption
<1>8. TypeOK'
  BY <1>1, <1>2, <1>4, <1>6, <1>7 DEF TypeOK
<1>9. PartsAreShort'
  BY <1>1, <1>4, <1>5 DEF PartsAreShort
<1>10. SignatureHolds' /\ IdIsClaimed'
  BY <1>4 DEF SignatureHolds, IdIsClaimed
<1> QED
  BY <1>8, <1>9, <1>10 DEF IInv

LEMMA CheckAlgInv == ASSUME IInv, CheckAlg PROVE IInv'
<1>1. /\ step = "alg" /\ step' \in {"signature", "reject"}
      /\ UNCHANGED <<token, platform, sign1, instanceId>>
  BY DEF CheckAlg, Keep
<1>2. TypeOK'
  BY <1>1 DEF IInv, TypeOK
<1>3. PartsAreShort'
  BY <1>1 DEF IInv, PartsAreShort
<1>4. SignatureHolds' /\ IdIsClaimed'
  BY <1>1 DEF SignatureHolds, IdIsClaimed
<1> QED
  BY <1>2, <1>3, <1>4 DEF IInv

LEMMA VerifySignatureInv == ASSUME IInv, VerifySignature PROVE IInv'
<1> DEFINE msg == SigStructure(sign1.protected, sign1.payload)
<1>1. /\ step = "signature" /\ step' \in {"claims", "reject"}
      /\ UNCHANGED <<token, platform, sign1, instanceId>>
      /\ step' = "claims" => VerifyEs384(msg, sign1.signature)
  BY DEF VerifySignature, Keep
<1>2. TypeOK'
  BY <1>1 DEF IInv, TypeOK
<1>3. PartsAreShort'
  BY <1>1 DEF IInv, PartsAreShort
<1>4. SignatureHolds'
  BY <1>1 DEF SignatureHolds, VerifyEs384
<1>5. IdIsClaimed'
  BY <1>1 DEF IdIsClaimed
<1> QED
  BY <1>2, <1>3, <1>4, <1>5 DEF IInv

LEMMA TakeInstanceIdInv == ASSUME IInv, TakeInstanceId PROVE IInv'
<1> DEFINE iid == At(Decode(sign1.payload), InstanceIdKey)
           fits == iid.type = Bytes /\ iid.bytes # <<>>
<1>1. /\ step = "claims" /\ UNCHANGED <<token, platform, sign1>>
      /\ step' = (IF fits THEN "done" ELSE "reject")
      /\ instanceId' = (IF fits THEN iid.bytes ELSE None)
  BY DEF TakeInstanceId, Keep
<1>2. iid.bytes \in Seq(Byte)
  <2>1. sign1.payload \in Seq(Byte)
    BY <1>1 DEF IInv, TypeOK
  <2>2. iid \in Values(sign1.payload)
    BY <2>1, DecodeType, AtType
  <2> QED
    BY <2>1, <2>2, ValueType
<1>3. IdIsClaimed'
  BY <1>1 DEF IdIsClaimed
<1> HIDE DEF iid
<1>4. /\ instanceId' \in (Seq(Byte) \ {<<>>}) \cup {None}
      /\ instanceId' # None <=> step' = "done"
  BY <1>1, <1>2, CcaAssumption
<1>5. TypeOK'
  BY <1>1, <1>4 DEF IInv, TypeOK
<1>6. PartsAreShort'
  BY <1>1 DEF IInv, PartsAreShort
<1>7. SignatureHolds'
  BY <1>1 DEF IInv, SignatureHolds
<1> QED
  BY <1>3, <1>5, <1>6, <1>7 DEF IInv

\* The invariant holds in every state, whatever bytes the tokens are made of.
THEOREM Invariance == Spec => []IInv
<1>1. Init => IInv
  BY InitInv
<1>2. IInv /\ [Next]_vars => IInv'
  <2> SUFFICES ASSUME IInv, [Next]_vars PROVE IInv'
    OBVIOUS
  <2>1. CASE FindPlatform
    BY <2>1, FindPlatformInv
  <2>2. CASE TakeApart
    BY <2>2, TakeApartInv
  <2>3. CASE CheckAlg
    BY <2>3, CheckAlgInv
  <2>4. CASE VerifySignature
    BY <2>4, VerifySignatureInv
  <2>5. CASE TakeInstanceId
    BY <2>5, TakeInstanceIdInv
  <2>6. CASE UNCHANGED vars
    BY <2>6 DEF vars, IInv, TypeOK, PartsAreShort, SignatureHolds, IdIsClaimed
  <2> QED
    BY <2>1, <2>2, <2>3, <2>4, <2>5, <2>6 DEF Next
<1> QED
  BY <1>1, <1>2, PTL DEF Spec

\* Each step of verify_and_extract has found what the next one needs, in bytes; a chip id
\* that is returned is not empty.
THEOREM TypeCorrect == Spec => []TypeOK
<1>1. IInv => TypeOK
  BY DEF IInv
<1> QED
  BY <1>1, Invariance, PTL

\* The bytes that are checked against the signature are the array of the four strings that
\* RFC 9052 wants, for headers and payloads of every length.
THEOREM SignedBytesAreExact == Spec => []SigStructureIsExact
<1>1. IInv => SigStructureIsExact
  <2> SUFFICES ASSUME IInv, sign1 # None
               PROVE  LET v == Decode(SigStructure(sign1.protected, sign1.payload))
                      IN  /\ v.type = Array
                          /\ [i \in DOMAIN v.items |-> v.items[i].bytes]
                               = <<Context, sign1.protected, <<>>, sign1.payload>>
    BY DEF SigStructureIsExact
  <2>1. Short(sign1.protected) /\ Short(sign1.payload)
    BY DEF IInv, PartsAreShort
  <2> QED
    BY <2>1, SigStructureIsRead DEF IsArrayOfStrings
<1> QED
  BY <1>1, Invariance, PTL

\* Where platforms sign claims that say who they are, verify_and_extract returns the instance
\* id of a platform that signed, however the token was put together.
THEOREM TheSignersIdOnly ==
  ASSUME SignsClaims({s \in Seq(Byte) : Len(s) < Huge})
  PROVE  Spec => []IdIsTheSigners
<1>1. IInv => IdIsTheSigners
  <2> SUFFICES ASSUME IInv, step = "done"
               PROVE  \E s \in Signed :
                        /\ instanceId = s.id
                        /\ s.sig = sign1.signature
                        /\ s.msg = SigStructure(sign1.protected, sign1.payload)
    BY DEF IdIsTheSigners
  <2>1. PICK s \in Signed : /\ s.sig = sign1.signature
                            /\ s.msg = SigStructure(sign1.protected, sign1.payload)
    BY DEF IInv, SignatureHolds
  <2>2. PICK protected, payload \in {x \in Seq(Byte) : Len(x) < Huge} :
          /\ s.msg = ToBeSigned(protected, payload)
          /\ s.id = At(Decode(payload), InstanceIdKey).bytes
    BY DEF SignsClaims
  <2>3. Short(protected) /\ Short(payload) /\ Short(sign1.protected) /\ Short(sign1.payload)
    BY DEF IInv, PartsAreShort, Short, TypeOK
  <2>4. payload = sign1.payload
    <3>1. s.msg = SigStructure(protected, payload)
      BY <2>2, <2>3, SigStructureIsToBeSigned
    <3> QED
      BY <2>1, <2>3, <3>1, SigStructureIsInjective
  <2>5. instanceId = At(Decode(sign1.payload), InstanceIdKey).bytes
    BY DEF IInv, IdIsClaimed
  <2> QED
    BY <2>1, <2>2, <2>4, <2>5
<1> QED
  BY <1>1, Invariance, PTL

-----------------------------------------------------------------------------
(***************************************************************************)
(* What realms hand out is taken apart as it was put together, in each of  *)
(* the forms and orders that it may have.                                  *)
(***************************************************************************)

\* A form of a number makes a text, and is there for numbers below Huge only.
LEMMA FormType ==
  ASSUME NEW major \in 0..6, NEW n \in Nat, NEW head \in Heads(major, n)
  PROVE  head \in Seq(Byte) /\ n < Huge
BY HeadForm, HeadType

\* The value of the four items in a tag, where the tag is the one that is looked for.
LEMMA TaggedIsRead ==
  ASSUME NEW tag \in Nat, NEW t \in Heads(Tag, tag),
         NEW major, NEW n, IsListOfFour(major, n), NEW head \in Heads(major, n),
         NEW s1, NEW s2, NEW s3, NEW s4, IsItem(s1), IsItem(s2), IsItem(s3), IsItem(s4)
  PROVE  LET m == t \o head \o s1 \o s2 \o s3 \o s4
         IN  m \in Seq(Byte) /\ IsListOf(Untag(Decode(m), tag), m, major, s1, s2, s3, s4)
<1> DEFINE a == t \o head
           m == a \o s1 \o s2 \o s3 \o s4
           off == Len(t)
           o1 == Len(a)
           o2 == o1 + Len(s1)
           o3 == o2 + Len(s2)
           o4 == o3 + Len(s3)
           v == Value(m)[off + 1]
           w == Value(m)[1]
<1>1. Tag \in 0..6 /\ major \in 0..6 /\ n \in Nat
  BY DEF Tag, IsListOfFour, Array, Map
<1>2. t \in Seq(Byte) /\ head \in Seq(Byte)
  BY <1>1, FormType
<1>3. a \in Seq(Byte) /\ Len(a) = Len(t) + Len(head) /\ off \in Nat
  BY <1>2, Concatenated
<1>4. s1 \in Seq(Byte) /\ s2 \in Seq(Byte) /\ s3 \in Seq(Byte) /\ s4 \in Seq(Byte)
  BY DEF IsItem
<1> HIDE DEF a
<1>5. /\ m \in Seq(Byte) /\ Holds(m, 0, a) /\ Holds(m, o1, s1) /\ Holds(m, o2, s2)
      /\ Holds(m, o3, s3) /\ Holds(m, o4, s4)
      /\ o1 \in Nat /\ o2 \in Nat /\ o3 \in Nat /\ o4 \in Nat
  <2>1. StandAtFront(m, a, s1, s2, s3, s4)
    BY <1>3, <1>4, FiveParts
  <2> HIDE DEF m
  <2> QED
    BY <2>1 DEF StandAtFront
<1>6. o1 = off + Len(head) /\ o2 = o1 + Len(s1) /\ o3 = o2 + Len(s2) /\ o4 = o3 + Len(s3)
  BY <1>3
<1> HIDE DEF m, o1, o2, o3, o4
<1>7. Holds(m, 0, t) /\ Holds(m, off, head)
  <2>1. Holds(m, 0, t \o head)
    BY <1>5 DEF a
  <2> QED
    BY <1>2, <1>5, <2>1, HoldsAtFront
<1> HIDE DEF off
<1>8. End(m)[<<off + 1, 1>>] # 0 /\ IsListOf(v, m, major, s1, s2, s3, s4)
  <2>1. StandInRow(m, off, head, o1, s1, o2, s2, o3, s3, o4, s4)
    BY <1>5, <1>6, <1>7 DEF StandInRow
  <2> QED
    BY <1>3, <1>5, <2>1, ListIsRead
<1>9. End(m)[<<1, 1>>] # 0 /\ w.type = Tag /\ w.int = tag /\ w.items[1] = v
  <2>1. 0 \in Nat /\ 0 + Len(t) + 1 = off + 1 /\ 0 + 1 = 1
    BY <1>3 DEF off
  <2>2. End(m)[<<0 + Len(t) + 1, 1>>] # 0
    BY <1>8, <2>1
  <2>3. /\ End(m)[<<0 + 1, 1>>] # 0
        /\ Value(m)[0 + 1].type = Tag /\ Value(m)[0 + 1].int = tag
        /\ Value(m)[0 + 1].items[1] = Value(m)[0 + Len(t) + 1]
    BY <1>5, <1>7, <2>1, <2>2, TagIsRead
  <2> QED
    BY <2>1, <2>3
<1> HIDE DEF v, w
<1>10. Untag(Decode(m), tag) = v
  <2>1. Decode(m) = w
    BY <1>9 DEF Decode, w
  <2> QED
    BY <1>9, <2>1 DEF Untag
<1> QED
  BY <1>5, <1>8, <1>10 DEF m, a

\* A number that stands in a text.
LEMMA NumberStands ==
  ASSUME NEW m \in Seq(Byte), NEW s, NEW n, IsNumber(s, n), NEW v, ValueOf(v, m, s)
  PROVE  v.type = Uint /\ v.int = n
BY DEF IsNumber, ValueOf

\* In a map with two numbers for keys, the value of the key that is looked for.
LEMMA AtOfTwo ==
  ASSUME NEW v, v.type = Map, Len(v.items) = 4, NEW key \in Int, NEW other \in Int, other # key,
         v.items[1].type = Uint, v.items[3].type = Uint
  PROVE  /\ v.items[1].int = key /\ v.items[3].int = other => At(v, key) = v.items[2]
         /\ v.items[1].int = other /\ v.items[3].int = key => At(v, key) = v.items[4]
<1> DEFINE Fits(i) == v.items[2 * i - 1].type \in {Uint, Nint} /\ AsInt(v.items[2 * i - 1]) = key
           hits == {i \in 1..(Len(v.items) \div 2) : Fits(i)}
<1>1. At(v, key) = IF hits = {} THEN NoValue
                   ELSE v.items[2 * (CHOOSE i \in hits : \A j \in hits : i <= j)]
  BY DEF At
<1>2. 1..(Len(v.items) \div 2) = {1, 2}
  <2>1. Len(v.items) \div 2 = 2
    OBVIOUS
  <2> QED
    BY <2>1
<1>3. 2 * 1 - 1 = 1 /\ 2 * 2 - 1 = 3 /\ 2 * 1 = 2 /\ 2 * 2 = 4
  OBVIOUS
<1>4. (Fits(1) <=> v.items[1].int = key) /\ (Fits(2) <=> v.items[3].int = key)
  BY <1>3 DEF AsInt
<1> HIDE DEF Fits
<1>5. ASSUME NEW k \in {1, 2}, hits = {k}
      PROVE  At(v, key) = v.items[2 * k]
  <2>1. (CHOOSE i \in hits : \A j \in hits : i <= j) = k
    <3>1. k <= k
      OBVIOUS
    <3> HIDE DEF hits
    <3> QED
      BY <1>5, <3>1
  <2>2. hits # {}
    BY <1>5
  <2> HIDE DEF hits
  <2> QED
    BY <1>1, <2>1, <2>2
<1>6. ASSUME v.items[1].int = key, v.items[3].int = other
      PROVE  At(v, key) = v.items[2]
  <2>1. hits = {1}
    BY <1>2, <1>4, <1>6
  <2> HIDE DEF hits
  <2> QED
    BY <1>3, <1>5, <2>1
<1>7. ASSUME v.items[1].int = other, v.items[3].int = key
      PROVE  At(v, key) = v.items[4]
  <2>1. hits = {2}
    BY <1>2, <1>4, <1>7
  <2> HIDE DEF hits
  <2> QED
    BY <1>3, <1>5, <2>1
<1> QED
  BY <1>6, <1>7

\* The parts that a token may have.
Parts == [token : Seq(Byte), platform : Seq(Byte), realm : Seq(Byte),
          protected : Seq(Byte), payload : Seq(Byte), signature : Seq(Byte)]

\* The platform token is found in the collection.
LEMMA CollectionIsRead ==
  ASSUME NEW i \in Parts, IsCollection(i)
  PROVE  LET plat == At(Untag(Decode(i.token), CcaTokenTag), PlatformTokenKey)
         IN  plat.type = Bytes /\ plat.bytes = i.platform
<1> DEFINE v == Untag(Decode(i.token), CcaTokenTag)
           plat == At(v, PlatformTokenKey)
<1>1. PICK tag \in Heads(Tag, CcaTokenTag), map \in Heads(Map, 2),
           pk \in Heads(Uint, PlatformTokenKey), p \in Strings(i.platform),
           rk \in Heads(Uint, RealmTokenKey), r \in Strings(i.realm) :
        i.token \in {tag \o map \o pk \o p \o rk \o r, tag \o map \o rk \o r \o pk \o p}
  BY DEF IsCollection
<1>2. /\ CcaTokenTag \in Nat /\ PlatformTokenKey \in Nat /\ RealmTokenKey \in Nat
      /\ PlatformTokenKey # RealmTokenKey /\ IsListOfFour(Map, 2)
  BY DEF CcaTokenTag, PlatformTokenKey, RealmTokenKey, IsListOfFour
<1>3. IsNumber(pk, PlatformTokenKey) /\ IsNumber(rk, RealmTokenKey)
  BY <1>2, NumberForms
<1>4. IsString(p, Bytes, i.platform) /\ IsString(r, Bytes, i.realm)
  <2>1. i.platform \in Seq(Byte) /\ i.realm \in Seq(Byte)
    BY DEF Parts
  <2>2. Bytes \in {Bytes, Text}
    OBVIOUS
  <2> QED
    BY <2>1, <2>2, StringForms DEF Strings
<1>5. IsItem(pk) /\ IsItem(rk) /\ IsItem(p) /\ IsItem(r)
  BY <1>3, <1>4 DEF IsNumber, IsString
<1>6. i.token \in Seq(Byte)
  BY DEF Parts
<1>7. \/ IsListOf(v, i.token, Map, pk, p, rk, r)
      \/ IsListOf(v, i.token, Map, rk, r, pk, p)
  <2>1. \/ i.token = tag \o map \o pk \o p \o rk \o r
        \/ i.token = tag \o map \o rk \o r \o pk \o p
    BY <1>1
  <2> QED
    BY <1>2, <1>5, <2>1, TaggedIsRead
<1> HIDE DEF v
<1>8. CASE IsListOf(v, i.token, Map, pk, p, rk, r)
  <2>1. /\ v.type = Map /\ Len(v.items) = 4
        /\ ValueOf(v.items[1], i.token, pk) /\ ValueOf(v.items[2], i.token, p)
        /\ ValueOf(v.items[3], i.token, rk)
    BY <1>8 DEF IsListOf
  <2>2. /\ v.items[1].type = Uint /\ v.items[1].int = PlatformTokenKey
        /\ v.items[3].type = Uint /\ v.items[3].int = RealmTokenKey
    BY <1>3, <1>6, <2>1, NumberStands
  <2>3. plat = v.items[2]
    BY <1>2, <2>1, <2>2, AtOfTwo
  <2>4. v.items[2].type = Bytes /\ v.items[2].bytes = i.platform
    BY <1>4, <1>6, <2>1, StringStands
  <2> HIDE DEF plat
  <2> QED
    BY <2>3, <2>4 DEF v, plat
<1>9. CASE IsListOf(v, i.token, Map, rk, r, pk, p)
  <2>1. /\ v.type = Map /\ Len(v.items) = 4
        /\ ValueOf(v.items[1], i.token, rk) /\ ValueOf(v.items[3], i.token, pk)
        /\ ValueOf(v.items[4], i.token, p)
    BY <1>9 DEF IsListOf
  <2>2. /\ v.items[1].type = Uint /\ v.items[1].int = RealmTokenKey
        /\ v.items[3].type = Uint /\ v.items[3].int = PlatformTokenKey
    BY <1>3, <1>6, <2>1, NumberStands
  <2>3. plat = v.items[4]
    BY <1>2, <2>1, <2>2, AtOfTwo
  <2>4. v.items[4].type = Bytes /\ v.items[4].bytes = i.platform
    BY <1>4, <1>6, <2>1, StringStands
  <2> HIDE DEF plat
  <2> QED
    BY <2>3, <2>4 DEF v, plat
<1> QED
  BY <1>7, <1>8, <1>9

\* The header, the payload and the signature are found in the COSE_Sign1.
LEMMA Sign1IsRead ==
  ASSUME NEW i \in Parts, IsSign1(i)
  PROVE  LET arr == Untag(Decode(i.platform), CoseSign1Tag)
         IN  /\ arr.type = Array /\ Len(arr.items) = 4
             /\ \A k \in {1, 3, 4} : arr.items[k].type = Bytes
             /\ arr.items[1].bytes = i.protected /\ arr.items[3].bytes = i.payload
             /\ arr.items[4].bytes = i.signature
             /\ Short(i.protected) /\ Short(i.payload)
<1> DEFINE v == Untag(Decode(i.platform), CoseSign1Tag)
<1>1. PICK tag \in Heads(Tag, CoseSign1Tag), arr \in Heads(Array, 4), unprotected \in Heads(Map, 0),
           h \in Strings(i.protected), c \in Strings(i.payload), s \in Strings(i.signature) :
        i.platform = tag \o arr \o h \o unprotected \o c \o s
  BY DEF IsSign1
<1>2. CoseSign1Tag \in Nat /\ IsListOfFour(Array, 4)
  BY DEF CoseSign1Tag, IsListOfFour
<1>3. i.protected \in Seq(Byte) /\ i.payload \in Seq(Byte) /\ i.signature \in Seq(Byte)
      /\ i.platform \in Seq(Byte)
  BY DEF Parts
<1>4. /\ IsString(h, Bytes, i.protected) /\ IsString(c, Bytes, i.payload)
      /\ IsString(s, Bytes, i.signature)
  <2>1. Bytes \in {Bytes, Text}
    OBVIOUS
  <2> QED
    BY <1>3, <2>1, StringForms DEF Strings
<1>5. IsItem(h) /\ IsItem(c) /\ IsItem(s) /\ IsItem(unprotected)
  BY <1>4, EmptyMapForms DEF IsString
<1>6. IsListOf(v, i.platform, Array, h, unprotected, c, s)
  BY <1>1, <1>2, <1>5, TaggedIsRead
<1> HIDE DEF v
<1>7. /\ v.type = Array /\ Len(v.items) = 4
      /\ ValueOf(v.items[1], i.platform, h) /\ ValueOf(v.items[3], i.platform, c)
      /\ ValueOf(v.items[4], i.platform, s)
  BY <1>6 DEF IsListOf
<1>8. /\ v.items[1].type = Bytes /\ v.items[1].bytes = i.protected
      /\ v.items[3].type = Bytes /\ v.items[3].bytes = i.payload
      /\ v.items[4].type = Bytes /\ v.items[4].bytes = i.signature
  BY <1>3, <1>4, <1>7, StringStands
<1>9. Short(i.protected) /\ Short(i.payload)
  <2>1. Bytes \in 0..6 /\ Len(i.protected) \in Nat /\ Len(i.payload) \in Nat
    BY <1>3 DEF Bytes
  <2>2. Heads(Bytes, Len(i.protected)) # {} /\ Heads(Bytes, Len(i.payload)) # {}
    BY DEF Strings
  <2> QED
    BY <1>3, <2>1, <2>2, FormType DEF Short
<1> QED
  BY <1>7, <1>8, <1>9 DEF v

\* How far verify_and_extract has come with a token that was put together of these parts.
Passes(i) ==
    token = i.token =>
        /\ step # "reject"
        /\ step = "platform" => platform = i.platform
        /\ step \in {"alg", "signature", "claims", "done"} =>
              sign1 = [protected |-> i.protected, payload |-> i.payload, signature |-> i.signature]

LEMMA StepPasses ==
  ASSUME NEW i \in Parts, IsIssued(i), Passes(i), Next
  PROVE  Passes(i)'
<1> SUFFICES ASSUME token' = i.token
             PROVE  /\ step' # "reject"
                    /\ step' = "platform" => platform' = i.platform
                    /\ step' \in {"alg", "signature", "claims", "done"} =>
                          sign1' = [protected |-> i.protected, payload |-> i.payload,
                                    signature |-> i.signature]
  BY DEF Passes
<1>1. token = i.token
  BY DEF Next, FindPlatform, TakeApart, CheckAlg, VerifySignature, TakeInstanceId
<1>2. /\ step # "reject"
      /\ step = "platform" => platform = i.platform
      /\ step \in {"alg", "signature", "claims", "done"} =>
            sign1 = [protected |-> i.protected, payload |-> i.payload, signature |-> i.signature]
  BY <1>1 DEF Passes
<1>3. CASE FindPlatform
  <2>1. step' = "platform" /\ platform' = i.platform
    BY <1>1, <1>3, CollectionIsRead DEF FindPlatform, Keep, IsIssued
  <2> QED
    BY <2>1
<1>4. CASE TakeApart
  <2>1. step' = "alg"
        /\ sign1' = [protected |-> i.protected, payload |-> i.payload, signature |-> i.signature]
    BY <1>2, <1>4, Sign1IsRead DEF TakeApart, Keep, IsIssued
  <2> QED
    BY <2>1
<1>5. ASSUME step \in {"alg", "signature", "claims"}
      PROVE  /\ sign1 = [protected |-> i.protected, payload |-> i.payload,
                         signature |-> i.signature]
             /\ sign1.protected = i.protected /\ sign1.payload = i.payload
             /\ sign1.signature = i.signature
  BY <1>2, <1>5
<1>6. CASE CheckAlg
  <2> DEFINE alg == At(Decode(i.protected), CoseAlgKey)
  <2>1. /\ step = "alg" /\ sign1' = sign1
        /\ Keep(alg.type \in {Uint, Nint} /\ AsInt(alg) = CoseAlgES384, "signature")
    BY <1>5, <1>6 DEF CheckAlg
  <2>2. alg.type = Nint /\ alg.int = -1 - CoseAlgES384
    BY DEF IsIssued
  <2> HIDE DEF alg
  <2>3. alg.type \in {Uint, Nint} /\ AsInt(alg) = CoseAlgES384
    BY <2>2 DEF AsInt, CoseAlgES384, Uint, Nint
  <2>4. step' = "signature"
    BY <2>1, <2>3 DEF Keep
  <2> QED
    BY <1>5, <2>1, <2>4
<1>7. CASE VerifySignature
  <2>1. /\ step = "signature" /\ sign1' = sign1
        /\ Keep(VerifyEs384(SigStructure(i.protected, i.payload), i.signature), "claims")
    BY <1>5, <1>7 DEF VerifySignature
  <2>2. SigStructure(i.protected, i.payload) = ToBeSigned(i.protected, i.payload)
    BY Sign1IsRead, SigStructureIsToBeSigned DEF IsIssued
  <2>3. VerifyEs384(SigStructure(i.protected, i.payload), i.signature)
    BY <2>2 DEF IsIssued, VerifyEs384
  <2>4. step' = "claims"
    BY <2>1, <2>3 DEF Keep
  <2> QED
    BY <1>5, <2>1, <2>4
<1>8. CASE TakeInstanceId
  <2>1. /\ step = "claims" /\ sign1' = sign1
        /\ LET iid == At(Decode(i.payload), InstanceIdKey)
           IN  Keep(iid.type = Bytes /\ iid.bytes # <<>>, "done")
    BY <1>5, <1>8 DEF TakeInstanceId
  <2>2. step' = "done"
    BY <2>1 DEF Keep, IsIssued
  <2> QED
    BY <1>5, <2>1, <2>2
<1> QED
  BY <1>3, <1>4, <1>6, <1>7, <1>8 DEF Next

\* Where realms hand out collections of what their platform signed, none of them is refused:
\* whatever the order of the two tokens, the form of each length and number, and the length of
\* header and claims.
THEOREM GenuineTokensPass ==
  ASSUME HandsOut(Parts)
  PROVE  Spec => []GenuineIsAccepted
<1> DEFINE AllPass == \A i \in Parts : IsIssued(i) => Passes(i)
<1>1. Init => AllPass
  BY DEF Init, Passes
<1>2. AllPass /\ [Next]_vars => AllPass'
  <2> SUFFICES ASSUME AllPass, [Next]_vars, NEW i \in Parts, IsIssued(i) PROVE Passes(i)'
    BY DEF IsIssued, IsCollection, IsSign1
  <2>1. Passes(i)
    OBVIOUS
  <2>2. CASE Next
    BY <2>1, <2>2, StepPasses
  <2>3. CASE UNCHANGED vars
    BY <2>1, <2>3 DEF Passes, vars
  <2> QED
    BY <2>2, <2>3
<1>3. AllPass => GenuineIsAccepted
  <2> SUFFICES ASSUME AllPass, token \in Genuine PROVE step # "reject"
    BY DEF GenuineIsAccepted
  <2>1. PICK i \in Parts : i.token = token /\ IsIssued(i)
    BY DEF HandsOut
  <2> QED
    BY <2>1 DEF Passes
<1> QED
  BY <1>1, <1>2, <1>3, PTL DEF Spec
=============================================================================
