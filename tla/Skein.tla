-------------------------------- MODULE Skein --------------------------------
(***************************************************************************)
(* Skein-256, Skein-512 and Skein-1024 (skein_provider.hpp): operators     *)
(* only.                                                                   *)
(*                                                                         *)
(* An algorithm is a record of its name, the size of its state in bits, the*)
(* size hs of its hash (0 for a XOF) and xof.  A provider is a record of   *)
(* its members: the words H, those kept for the output in hbk, the buffer m*)
(* with pos and total, the tweak, and what was set by name:                *)
(* personalization, nonce and key, as bytes.                               *)
(***************************************************************************)
EXTENDS AbsorbData

\* How far the words are rotated in each of eight rounds, and their order in
\* each of four: a word is added to and the one after it rotated.
SkeinC(n) ==
    CASE n = 4  -> <<<<14, 16>>, <<52, 57>>, <<23, 40>>, <<5, 37>>, <<25, 33>>, <<46, 12>>, <<58, 22>>, <<32, 32>>>>
      [] n = 8  -> <<<<46, 36, 19, 37>>, <<33, 27, 14, 42>>, <<17, 49, 36, 39>>, <<44, 9, 54, 56>>,
                     <<39, 30, 34, 24>>, <<13, 50, 10, 17>>, <<25, 29, 39, 43>>, <<8, 35, 56, 22>>>>
      [] n = 16 -> <<<<24, 13, 8, 47, 8, 17, 22, 37>>, <<38, 19, 10, 55, 49, 18, 23, 52>>,
                     <<33, 4, 51, 13, 34, 41, 59, 17>>, <<5, 20, 48, 41, 47, 28, 16, 25>>,
                     <<41, 9, 37, 31, 12, 47, 44, 30>>, <<16, 34, 56, 51, 4, 53, 42, 41>>,
                     <<31, 44, 47, 46, 19, 42, 44, 25>>, <<9, 48, 35, 52, 23, 31, 37, 20>>>>
SkeinI(n) ==
    CASE n = 4  -> <<<<0, 1, 2, 3>>, <<0, 3, 2, 1>>, <<0, 1, 2, 3>>, <<0, 3, 2, 1>>>>
      [] n = 8  -> <<<<0, 1, 2, 3, 4, 5, 6, 7>>, <<2, 1, 4, 7, 6, 5, 0, 3>>,
                     <<4, 1, 6, 3, 0, 5, 2, 7>>, <<6, 1, 0, 7, 2, 5, 4, 3>>>>
      [] n = 16 -> <<<<0, 1, 2, 3, 4, 5, 6, 7, 8, 9, 10, 11, 12, 13, 14, 15>>,
                     <<0, 9, 2, 13, 6, 11, 4, 15, 10, 7, 12, 3, 14, 5, 8, 1>>,
                     <<0, 7, 2, 5, 4, 3, 6, 1, 12, 15, 14, 13, 8, 11, 10, 9>>,
                     <<0, 15, 2, 11, 6, 13, 4, 9, 14, 1, 8, 5, 10, 3, 12, 7>>>>

SkeinWords(a) == a.state \div 64

\* One round: in every pair of words, the first is added to and the second rotated
\* and xored with the sum.
SkeinPaired(n, G, mixed, place, rotation) ==
    Tuple([i \in 1 .. n |->
              IF place[i] % 2 = 1 THEN mixed[(place[i] + 1) \div 2]
              ELSE Xor(RotL(64, G[i], rotation[place[i] \div 2]), mixed[place[i] \div 2])])

SkeinMix(n, G, order, rotation) ==
    SkeinPaired(n, G, Tuple([j \in 1 .. n \div 2 |-> Add(64, G[order[2 * j - 1] + 1], G[order[2 * j] + 1])]),
                Tuple([i \in 1 .. n |-> CHOOSE j \in 1 .. n : order[j] = i - 1]), rotation)

\* The s-th of the subkeys is added.
SkeinKeyed(n, G, keys, tweaks, s) ==
    Tuple([i \in 1 .. n |->
        Sum(64, <<G[i], keys[((s + i - 1) % (n + 1)) + 1],
                  CASE i = n - 2 -> tweaks[(s % 3) + 1]
                    [] i = n - 1 -> tweaks[((s + 1) % 3) + 1]
                    [] i = n     -> Word(s)
                    [] OTHER     -> {}>>)])

\* Four rounds and a subkey, and all of them
SkeinFour(n, G, keys, tweaks, s) ==
    SkeinKeyed(n, Loop(LAMBDA x, r : SkeinMix(n, x, SkeinI(n)[r], SkeinC(n)[4 * ((s - 1) % 2) + r]), G, 4),
               keys, tweaks, s)
SkeinRounds(n, M, keys, tweaks) ==
    Loop(LAMBDA G, s : SkeinFour(n, G, keys, tweaks, s), SkeinKeyed(n, M, keys, tweaks, 0),
         IF n = 16 THEN 20 ELSE 18)

SkeinKeys(H)         == Append(H, XorAll(<<HexWords(64, "1bd11bdaa9fc1a22")[1]>> \o H))
SkeinTweaks(t1, t2)  == <<t1, t2, Xor(t1, t2)>>
SkeinMixed(G, M)     == Tuple([i \in DOMAIN M |-> Xor(G[i], M[i])])
SkeinBlock(n, H, M, tweaks) == SkeinMixed(SkeinRounds(n, M, SkeinKeys(H), tweaks), M)

SkeinTransform(a, p, block, reallen) ==
    LET t == Add(64, p.tweak[1], Word(reallen))
    IN [p EXCEPT !.H = SkeinBlock(SkeinWords(a), @, Load(64, block, TRUE), SkeinTweaks(t, p.tweak[2])),
                 !.tweak = <<t, p.tweak[2] \ {62}>>]

SkeinUpdate(a, p, data) ==
    LET N8 == a.state \div 8
    IN Absorb(p, data, N8, N8 + 1, LAMBDA q, d : SkeinTransform(a, q, d, N8))

\* The last block of its type
SkeinLast(a, p) ==
    LET m == Cleared(p.m, p.pos, a.state \div 8)
    IN SkeinTransform(a, [p EXCEPT !.m = m, !.tweak[2] = @ \cup {63}], m, p.pos)

\* The type of a block is in the highest byte of the tweak, 48 for the message.
Typed(code)  == {62} \cup {56 + i : i \in BitsOf[code]}
Restarted(p) == [p EXCEPT !.pos = 0, !.total = 0, !.tweak = <<{}, Typed(48)>>]

InjectParameter(a, p, d, code) ==
    IF d = <<>> THEN p
    ELSE Restarted(SkeinLast(a, SkeinUpdate(a, [p EXCEPT !.tweak[2] = Typed(code)], d)))

SkeinInit(a, p) ==
    LET size  == IF a.hs = 0 THEN 0 .. 63 ELSE Word(a.hs)
        start == [p EXCEPT !.squeezing = FALSE, !.pos = 0, !.total = 0, !.tweak = <<{}, {}>>,
                           !.H = Tuple([i \in 1 .. SkeinWords(a) |-> {}])]
        m     == Overwrite(Zeros(a.state \div 8), 0, Hex("5348413301000000") \o Reversed(ToBytes(64, size)))
        keyed == [InjectParameter(a, start, p.key, 0) EXCEPT !.m = m, !.tweak[2] = Typed(4) \cup {63}]
        named(q) == Restarted(SkeinTransform(a, q, m, 32))
    IN InjectParameter(a, InjectParameter(a, named(keyed), p.personalization, 8), p.nonce, 20)

\* What the output begins with, and one block of it more; total numbers the blocks.
SkeinBegin(N8, p) ==
    [p EXCEPT !.squeezing = TRUE, !.m = Zeros(N8), !.hbk = p.H, !.pos = 0, !.total = 0]
SkeinOutput(p, out, k) ==
    [p |-> [p EXCEPT !.total = @ + 1, !.pos = k], out |-> out \o SubSeq(Stored(64, p.H, TRUE), 1, k)]
SkeinMore(a, p, n, out) ==
    LET m == Overwrite(p.m, 0, Reversed(ToBytes(64, Word(p.total))))
    IN SkeinOutput(SkeinTransform(a, [p EXCEPT !.m = m, !.H = p.hbk, !.tweak = <<{}, 56 .. 63>>], m, 8), out,
                   Min({n - Len(out), a.state \div 8}))

\* squeeze(): n more bytes, and the provider after them
SkeinSqueeze(a, p, n) ==
    LET N8     == a.state \div 8
        copied == IF p.squeezing /\ p.pos < N8 THEN Min({n, N8 - p.pos}) ELSE 0
        begun  == IF p.squeezing THEN [p EXCEPT !.pos = @ + copied]
                  ELSE SkeinBegin(N8, SkeinLast(a, p))
        first  == IF copied > 0 THEN SubSeq(Stored(64, p.H, TRUE), p.pos + 1, p.pos + copied) ELSE <<>>
    IN Loop(LAMBDA s, i : SkeinMore(a, s.p, n, s.out), [p |-> begun, out |-> first], (n - copied + N8 - 1) \div N8)

SkeinFinal(a, p) == SkeinSqueeze(a, p, a.hs \div 8).out

=============================================================================
