---------------------------------- MODULE Cbor ----------------------------------
(***************************************************************************)
(* The CBOR decoder and encoder of common/cbor.hpp, on sequences of bytes. *)
(* A value is a record: its major type, its integer, its bytes, and the    *)
(* values in it (of a map: key, value, key, value...).  Integers are those *)
(* of int64_t; since TLC's are smaller, all that are not between -2^30 and *)
(* 2^30 are taken for Huge or its complement, which exceed every text and  *)
(* equal no key.                                                           *)
(***************************************************************************)
EXTENDS Integers, Sequences

Byte == 0..255

Uint == 0
Nint == 1
Bytes == 2
Text == 3
Array == 4
Map == 5
Tag == 6
Simple == 7

Huge == 64 * 256 * 256 * 256   \* 2^30

\* What bytes stand for as an unsigned integer, most significant byte first.
Unsigned(bs) ==
    LET digit(i) == IF i < Len(bs) THEN bs[Len(bs) - i] ELSE 0
    IN  IF digit(3) >= 64 \/ \E i \in 4..7 : digit(i) > 0
        THEN Huge
        ELSE digit(0) + 256 * (digit(1) + 256 * (digit(2) + 256 * digit(3)))

\* The cast of a uint64_t to int64_t.  Lengths are not cast, but with eight bytes and the
\* highest bit set they exceed every text, for which a negative number stands just as well.
Int64(bs) ==
    IF Len(bs) = 8 /\ bs[1] >= 128
    THEN -1 - Unsigned([i \in 1..8 |-> 255 - bs[i]])
    ELSE Unsigned(bs)

-----------------------------------------------------------------------------
\* Decoding.

\* How many bytes after the first one the additional information ai asks for; none for what
\* is left out: indefinite and reserved lengths, floats and break.
ArgSize(major, ai) ==
    CASE ai < 24 -> 0
      [] ai = 24 -> 1
      [] ai = 25 /\ major # Simple -> 2
      [] ai = 26 /\ major # Simple -> 4
      [] ai = 27 /\ major # Simple -> 8
      [] OTHER -> -1

NoHead == [fails |-> TRUE, major |-> 0, int |-> 0, next |-> 0]

\* The first bytes of the item at p, where there may be none.
ItemHead(text, p) ==
    IF p \notin DOMAIN text THEN NoHead
    ELSE LET major == text[p] \div 32
             ai    == text[p] % 32
             size  == ArgSize(major, ai)
         IN  IF size = -1 \/ p + size > Len(text) THEN NoHead
             ELSE [fails |-> FALSE, major |-> major,
                   int |-> IF ai < 24 THEN ai ELSE Int64(SubSeq(text, p + 1, p + size)),
                   next |-> p + 1 + size]

\* More bytes, or more items, than are left: an array or a map of so many runs into the end
\* of the text, if there is memory for it.
Exceeds(text, h) ==
    /\ h.major \in {Bytes, Text, Array, Map}
    /\ h.int < 0 \/ h.int > Len(text) - h.next + 1

ContentSize(h) == IF h.major \in {Bytes, Text} THEN h.int ELSE 0

\* Items within an item.
Inside(h) ==
    CASE h.major = Array -> h.int
      [] h.major = Map -> 2 * h.int
      [] h.major = Tag -> 1
      [] OTHER -> 0

\* End(text)[<<p, n>>]: the position after the n items that start at p; 0 if one of them fails.
End(text) ==
    LET end[x \in Nat \X Nat] ==
        LET h == ItemHead(text, x[1])
        IN  IF x[2] = 0 THEN x[1]
            ELSE IF h.fails \/ Exceeds(text, h) THEN 0
            ELSE end[<<end[<<h.next + ContentSize(h), Inside(h)>>], x[2] - 1>>]
    IN  end

\* Value(text)[p]: the value of the item at p, which must not fail.
Value(text) ==
    LET value[p \in Nat] ==
        LET h == ItemHead(text, p)
        IN  [type |-> h.major, int |-> h.int,
             bytes |-> SubSeq(text, h.next, h.next + ContentSize(h) - 1),
             items |-> [i \in 1..Inside(h) |-> value[End(text)[<<h.next, i - 1>>]]]]
    IN  value

NoValue == [type |-> Simple, int |-> -1, items |-> <<>>, bytes |-> <<>>]

\* Decoder::decode: one item; what follows it is not looked at.
Decode(text) == IF End(text)[<<1, 1>>] = 0 THEN NoValue ELSE Value(text)[1]

-----------------------------------------------------------------------------
\* Access.

AsInt(v) == IF v.type = Uint THEN v.int ELSE -1 - v.int

\* The first value that a map has for the key.
At(v, key) ==
    LET hits == {i \in 1..(Len(v.items) \div 2) :
                    v.items[2 * i - 1].type \in {Uint, Nint} /\ AsInt(v.items[2 * i - 1]) = key}
    IN  IF v.type # Map \/ hits = {} THEN NoValue
        ELSE v.items[2 * (CHOOSE i \in hits : \A j \in hits : i <= j)]

\* What is in the tag; a value without a tag is returned as it is.
Untag(v, tag) ==
    IF v.type # Tag THEN v ELSE IF v.int = tag THEN v.items[1] ELSE NoValue

-----------------------------------------------------------------------------
\* Encoding.

\* Mutant of EncHead: the limit of the shortest form is off by one.
EncHeadOffByOne(major, n) ==
    LET b == major * 32
    IN  CASE n <= 24 -> <<b + n>>
          [] 24 < n /\ n < 256 -> <<b + 24, n>>
          [] OTHER -> <<b + 25, (n \div 256) % 256, n % 256>>

EncHead(major, n) ==
    LET b == major * 32
    IN  CASE n < 24 -> <<b + n>>
          [] 24 <= n /\ n < 256 -> <<b + 24, n>>
          [] 256 <= n /\ n < 65536 -> <<b + 25, n \div 256, n % 256>>
          [] OTHER -> <<b + 26, ((n \div 65536) \div 256) % 256, (n \div 65536) % 256,
                     (n \div 256) % 256, n % 256>>

EncBytes(bs) == EncHead(Bytes, Len(bs)) \o bs

EncText(bs) == EncHead(Text, Len(bs)) \o bs
=============================================================================
