----------------------------- MODULE MCCcaEvidence -----------------------------
(***************************************************************************)
(* CcaEvidence on small sets, for TLC: the tokens of two platforms, with   *)
(* payloads of the lengths at which the form of a length changes, and in   *)
(* all forms; tokens put together from parts of others; and tokens that    *)
(* differ from one of these in a byte, or are cut.                         *)
(***************************************************************************)
EXTENDS CcaEvidence, TLC

\* An item's first bytes with the number n in the given size.
H(major, size, n) ==
    <<major * 32 + (CASE size = 0 -> n [] size = 1 -> 24 [] size = 2 -> 25
                      [] size = 4 -> 26 [] size = 8 -> 27)>>
        \o [i \in 1..size |-> IF size - i > 3 THEN 0 ELSE (n \div 256^(size - i)) % 256]

SizeFor(n) == CASE n < 24 -> 0 [] n \in 24..255 -> 1 [] n > 255 -> 2

S(major, n) == H(major, SizeFor(n), n)
Str(bs) == S(2, Len(bs)) \o bs
Many(x, n) == [i \in 1..n |-> x]

Es384 == S(5, 1) \o S(0, 1) \o S(1, 34)
Es256 == S(5, 1) \o S(0, 1) \o S(1, 6)
WithKid == S(5, 2) \o S(0, 4) \o Str(Many(75, 20)) \o S(0, 1) \o S(1, 34)

IdA == <<1, 170>>
IdB == <<1, 187>>

\* Claims before and after the instance id; with n bytes in one of them the payload has
\* n + 17 bytes, or one more if n > 23.
Claims(id, n) ==
    S(5, 3) \o S(0, 10) \o Str(Many(7, n)) \o S(0, 256) \o Str(id) \o S(0, 2396) \o Str(<<5, 5, 5, 5>>)

WithoutId == S(5, 1) \o S(0, 2396) \o Str(<<1>>)

Sig(i) == Many(i, 96)

SignedAs(i, protected, payload, id) ==
    [msg |-> S(4, 4) \o S(3, 10) \o Context \o Str(protected) \o Str(<<>>) \o Str(payload),
     sig |-> Sig(i), id |-> id]

Lengths == {0, 5, 6, 7} \cup 232..240

MCSigned ==
    {SignedAs(n, Es384, Claims(IdA, n), IdA) : n \in Lengths}
        \cup {SignedAs(101, WithKid, Claims(IdA, 0), IdA), SignedAs(102, Es384, Claims(IdB, 0), IdB),
              SignedAs(103, Es256, Claims(IdA, 0), IdA), SignedAs(104, Es384, Claims(<<>>, 0), <<>>),
              SignedAs(105, Es384, WithoutId, <<>>)}

\* Every platform in this model signs claims that say who it is.
ASSUME MCSignsClaims ==
    SignsClaims({Es384, WithKid, Es256, WithoutId}
                    \cup {Claims(id, n) : id \in {IdA, IdB, <<>>}, n \in Lengths})

\* What the token has in its platform token.
Sign1(protected, payload, sig) ==
    S(6, 18) \o S(4, 4) \o Str(protected) \o S(5, 0) \o Str(payload) \o Str(sig)

Realm == Many(0, 3)

Collection(plat) == H(6, 2, 399) \o S(5, 2) \o S(0, 44241) \o Str(Realm) \o S(0, 44234) \o Str(plat)
PlatformFirst(plat) == H(6, 2, 399) \o S(5, 2) \o S(0, 44234) \o Str(plat) \o S(0, 44241) \o Str(Realm)
InForms(size, plat) ==
    H(6, 2, 399) \o H(5, size, 2) \o H(0, 4, 44241) \o Str(Realm)
        \o H(0, 8, 44234) \o H(2, IF size < 2 THEN 2 ELSE size, Len(plat)) \o plat

Plain == Sign1(Es384, Claims(IdA, 5), Sig(5))

Issue(Around(_), protected, payload, sig) ==
    [token |-> Around(Sign1(protected, payload, sig)), platform |-> Sign1(protected, payload, sig),
     realm |-> Realm, protected |-> protected, payload |-> payload, signature |-> sig]

MCIssued ==
    {Issue(Collection, Es384, Claims(IdA, n), Sig(n)) : n \in Lengths}
        \cup {Issue(PlatformFirst, WithKid, Claims(IdA, 0), Sig(101)),
              Issue(Collection, Es384, Claims(IdB, 0), Sig(102))}
        \cup {Issue(LAMBDA plat : InForms(size, plat), Es384, Claims(IdA, 5), Sig(5)) :
                size \in {0, 1, 2, 4, 8}}

MCGenuine == {i.token : i \in MCIssued}

\* The realms in this model hand out collections of well-formed parts.
ASSUME MCHandsOut == HandsOut(MCIssued)

\* Parts of one token with parts of others.
Mixed ==
    {Collection(Sign1(protected, payload, sig)) :
        protected \in {Es384, Es256, WithKid, <<>>},
        payload \in {Claims(IdA, 0), Claims(IdB, 0), Claims(<<>>, 0), WithoutId},
        sig \in {Sig(i) : i \in {0, 101, 102, 103, 104, 105}} \cup {Many(102, 95), Many(102, 97)}}

\* Two platform tokens; a key that is 44234 in 64 bits with a sign; no tags; something after
\* the token.
Odd ==
    LET other == Sign1(Es384, Claims(IdB, 0), Sig(102))
    IN  {H(6, 2, 399) \o S(5, 2) \o S(0, 44234) \o Str(x) \o S(0, 44234) \o Str(y) :
            x \in {Plain, other, <<>>}, y \in {Plain, other}}
        \cup {S(5, 1) \o <<59, 255, 255, 255, 255, 255, 255, 83, 53>> \o Str(Plain),
              S(5, 1) \o S(0, 44234) \o Str(Plain), H(6, 2, 400) \o S(5, 1) \o S(0, 44234) \o Str(Plain),
              Collection(Plain) \o <<255>>, <<>>, <<191>>, <<251>>, <<248, 1>>,
              <<155, 255, 255, 255, 255, 255, 255, 255, 255>>, <<187, 128, 0, 0, 0, 0, 0, 0, 0>>}

Altered ==
    LET t == Collection(Plain)
    IN  {[t EXCEPT ![i] = x] : i \in DOMAIN t,
            x \in {0, 24, 25, 27, 31, 34, 65, 88, 96, 131, 161, 191, 210, 255}}
        \cup {SubSeq(t, 1, n) : n \in 0..Len(t)}

MCTokens == MCGenuine \cup Mixed \cup Odd \cup Altered
=============================================================================
