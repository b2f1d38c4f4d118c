---------------------------- MODULE MCChipIdBinding ----------------------------
(***************************************************************************)
(* ChipIdBinding on small sets, for TLC: chip ids of the lengths that occur*)
(* and of those at which a length takes one more byte; and texts that are  *)
(* bindings but for one byte.                                              *)
(***************************************************************************)
EXTENDS ChipIdBinding, TLC

Time == [i \in 1..15 |-> IF i = 15 THEN 90 ELSE 48 + (i % 10)]

Bind(tee, n) == [teeType |-> tee, chipId |-> [i \in 1..n |-> (i * 7) % 256], issuedAt |-> Time]

MCBinding ==
    {Bind(0, n) : n \in {0, 1, 16, 64} \cup 100..130 \cup 228..257}
        \cup {Bind(2, 64), Bind(3, 33), Bind(3, 2000)}

\* A binding with byte i replaced by x.
Altered ==
    {[Encode(b) EXCEPT ![i] = x] :
        b \in {Bind(1, 18), Bind(3, 127)}, i \in 1..40,
        x \in {0, 1, 2, 4, 10, 16, 17, 24, 31, 48, 127, 128, 129, 130, 132, 255}}

\* Longer forms of lengths and tags than provision writes, and stray ends.
Odd ==
    {<<48, 128, 10, 1, 1, 4, 0, 24, 0, 0, 0>>, <<63, 16, 7, 10, 1, 1, 4, 0, 24, 0>>,
     <<48, 132, 0, 0, 0, 7, 10, 1, 1, 4, 0, 24, 0>>, <<48, 7, 10, 1, 1, 4, 0, 24, 0, 5, 0>>,
     <<48, 131, 1, 0, 7, 10, 1, 1, 4, 0, 24, 0>>, <<48>>, <<63>>, <<48, 0>>}

MCOthers == Altered \cup Odd
=============================================================================
