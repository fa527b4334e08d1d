-------------------------------- MODULE Blake --------------------------------
(***************************************************************************)
(* BLAKE and BLAKE2 with its extendable forms (blake_provider.hpp,         *)
(* blake2_provider.hpp): operators only.                                   *)
(*                                                                         *)
(* An algorithm is a record of its name, the width w of its words, the     *)
(* size hs of its hash in bits, and, for BLAKE2, its type: "hash", "x_hash"*)
(* or "xof".  A provider is a record of its members: the words H, the      *)
(* buffer m with pos and total, and what was set by name: the salt, and    *)
(* for BLAKE2 the personalization and the key, as bytes.                   *)
(***************************************************************************)
EXTENDS MerkleDamgard

\* The digits of pi; BLAKE with 32-bit words uses the halves of these words.
BlakeC512 == HexWords(64,
    "243f6a8885a308d313198a2e03707344a4093822299f31d0082efa98ec4e6c89" \o
    "452821e638d01377be5466cf34e90c6cc0ac29b7c97c50dd3f84d5b5b5470917" \o
    "9216d5d98979fb1bd1310ba698dfb5ac2ffd72dbd01adfb7b8e1afed6a267e96" \o
    "ba7c9045f12c7f9924a19947b3916cf70801f2e2858efc16636920d871574e69")

BlakeC256 == Tuple([i \in 1 .. 16 |-> Half(BlakeC512[(i + 1) \div 2], i % 2 = 1)])
BlakeC(w) == IF w = 64 THEN BlakeC512 ELSE BlakeC256

BlakeS == <<
    <<0, 1, 2, 3, 4, 5, 6, 7, 8, 9, 10, 11, 12, 13, 14, 15>>,
    <<14, 10, 4, 8, 9, 15, 13, 6, 1, 12, 0, 2, 11, 7, 5, 3>>,
    <<11, 8, 12, 0, 5, 2, 15, 13, 10, 14, 3, 6, 7, 1, 9, 4>>,
    <<7, 9, 3, 1, 13, 12, 11, 14, 2, 6, 5, 10, 4, 0, 15, 8>>,
    <<9, 0, 5, 7, 2, 4, 10, 15, 14, 1, 11, 12, 6, 8, 3, 13>>,
    <<2, 12, 6, 10, 0, 11, 8, 3, 4, 13, 7, 5, 15, 14, 1, 9>>,
    <<12, 5, 1, 15, 14, 13, 4, 10, 0, 7, 6, 3, 9, 2, 8, 11>>,
    <<13, 11, 7, 14, 12, 1, 3, 9, 5, 0, 15, 4, 8, 6, 2, 10>>,
    <<6, 15, 14, 9, 11, 3, 0, 8, 12, 2, 13, 7, 1, 4, 10, 5>>,
    <<10, 2, 8, 4, 7, 6, 1, 5, 15, 11, 9, 14, 3, 12, 13, 0>> >>

\* The words that each G of a round works on: the columns, then the diagonals
BlakeG == << <<1, 5, 9, 13>>, <<2, 6, 10, 14>>, <<3, 7, 11, 15>>, <<4, 8, 12, 16>>,
             <<1, 6, 11, 16>>, <<2, 7, 12, 13>>, <<3, 8, 9, 14>>, <<4, 5, 10, 15>> >>

BlakeSalt(a, salt)  == IF salt = <<>> THEN [i \in 1 .. 4 |-> {}] ELSE Load(a.w, salt, FALSE)
BlakeRotation(a)    == IF a.w = 32 THEN <<16, 12, 8, 7>>
                       ELSE IF a.name = "blake" THEN <<32, 25, 16, 11>> ELSE <<32, 24, 16, 63>>

\* G: one word is added to another, and the one that is xored with it rotated
AddTo(w, u, i, z)      == [u EXCEPT ![i] = Add(w, @, z)]
Turn(w, u, i, z, r)    == [u EXCEPT ![i] = RotR(w, Xor(@, z), r)]
MixDC(w, u, r)         == LET d == Turn(w, u, 4, u[1], r) IN AddTo(w, d, 3, d[4])
MixB(w, u, r)          == Turn(w, u, 2, u[3], r)
HalfG(w, u, z, r1, r2) == MixB(w, MixDC(w, AddTo(w, u, 1, Add(w, u[2], z)), r1), r2)

\* G at four places, with the two words of the message it mixes in
Placed(v, p, u) == [v EXCEPT ![p[1]] = u[1], ![p[2]] = u[2], ![p[3]] = u[3], ![p[4]] = u[4]]
Mix(w, rot, v, p, x, y) ==
    Placed(v, p, HalfG(w, HalfG(w, [k \in 1 .. 4 |-> v[p[k]]], x, rot[1], rot[2]), y, rot[3], rot[4]))

\* The s-th and the t-th word of the message, as each of the two takes them
BlakeWord(a, M, C, s, t) == IF a.name = "blake" THEN Xor(M[s + 1], C[t + 1]) ELSE M[s + 1]

BlakeRound(a, v, M, C, S) ==
    Loop(LAMBDA u, i : Mix(a.w, BlakeRotation(a), u, BlakeG[i],
                           BlakeWord(a, M, C, S[2 * i - 1], S[2 * i]), BlakeWord(a, M, C, S[2 * i], S[2 * i - 1])),
         v, 8)

BlakeRounds(a, v, M, C, rounds) ==
    Loop(LAMBDA u, r : BlakeRound(a, u, M, C, BlakeS[((r - 1) % 10) + 1]), v, rounds)

\* The words after the rounds folded onto those before
Folded(H, salt, v) == Tuple([i \in 1 .. 8 |-> XorAll(<<H[i], salt[((i - 1) % 4) + 1], v[i], v[i + 8]>>)])

-----------------------------------------------------------------------------
(* BLAKE.  A block without a bit of the message counts zero bits.           *)

BlakeCompressed(a, H, M, C, salt, t) ==
    Folded(H, salt, BlakeRounds(a, H \o [i \in 1 .. 4 |-> Xor(salt[i], C[i])]
                                     \o <<Xor(t, C[5]), Xor(t, C[6]), C[7], C[8]>>,
                                M, C, IF a.w = 64 THEN 16 ELSE 14))

BlakeTransform(a, p, block, padding, final) ==
    LET t == IF padding THEN {} ELSE Word(p.total + (IF final THEN 0 ELSE 16 * a.w))
    IN [p EXCEPT !.H = BlakeCompressed(a, @, Load(a.w, block, FALSE), BlakeC(a.w), BlakeSalt(a, p.salt), t)]

BlakeUpdate(a, p, data) ==
    Absorb(p, data, 2 * a.w, 2 * a.w, LAMBDA q, d : BlakeTransform(a, q, d, FALSE, FALSE))

BlakeFinal(a, p) ==
    LET bs         == 2 * a.w
        messageend == bs - (a.w \div 4) - 1
        one        == IF a.hs \in {224, 384} THEN 0 ELSE 1
        q    == [p EXCEPT !.total = @ + 8 * p.pos]
        m    == Cleared(Overwrite(p.m, p.pos, <<128 + (IF p.pos = messageend THEN one ELSE 0)>>),
                        p.pos + 1, bs)
        over == p.pos > messageend
        m1   == IF over THEN Zeros(bs) ELSE m
        m2   == IF p.pos = messageend THEN m1 ELSE Overwrite(m1, messageend, <<one>>)
        last == Overwrite(m2, bs - 8, ToBytes(64, Word(q.total)))
        q1   == BlakeTransform(a, IF over THEN BlakeTransform(a, q, m, FALSE, TRUE) ELSE q,
                               last, over \/ p.pos = 0, TRUE)
    IN SubSeq(Stored(a.w, q1.H, FALSE), 1, a.hs \div 8)

BlakeInit(a, p) ==
    [p EXCEPT !.pos = 0, !.total = 0,
              !.H = CASE a.hs = 512 -> Sha512H [] a.hs = 384 -> Sha384H
                      [] a.hs = 256 -> Sha256H [] a.hs = 224 -> Sha224H]

-----------------------------------------------------------------------------
(* BLAKE2.  The last block is held back, so that it can be marked as last.  *)

IV(w) == IF w = 64 THEN Sha512H ELSE Sha256H

Blake2Compressed(a, H, M, iv, t, f) ==
    Folded(H, <<{}, {}, {}, {}>>,
           BlakeRounds(a, H \o SubSeq(iv, 1, 4) \o <<Xor(t, iv[5]), iv[6], Xor(f, iv[7]), iv[8]>>,
                       M, <<>>, IF a.w = 64 THEN 12 ELSE 10))

Blake2Transform(a, p, block, padding) ==
    LET t == Word((p.total \div 8) + (IF padding THEN 0 ELSE 2 * a.w))
        f == IF padding THEN 0 .. a.w - 1 ELSE {}
    IN [p EXCEPT !.H = Blake2Compressed(a, @, Load(a.w, block, TRUE), IV(a.w), t, f)]

Blake2Update(a, p, data) ==
    Absorb(p, data, 2 * a.w, 2 * a.w + 1, LAMBDA q, d : Blake2Transform(a, q, d, FALSE))

\* Salt and personalization, two words each, zero until they are set
Parameters(a, p) ==
    LET words(d) == IF d = <<>> THEN <<{}, {}>> ELSE Load(a.w, d, TRUE)
    IN words(p.salt) \o words(p.personalization)

\* The words of a parameter block: the first four changed by some words, the
\* others by the salt and the personalization
Blake2H(a, p, changes) ==
    Tuple([i \in 1 .. 8 |-> XorAll(<<IV(a.w)[i]>> \o (IF i <= 4 THEN changes[i] ELSE <<Parameters(a, p)[i - 4]>>))])

Blake2Init(a, p) ==
    LET hash == a.type = "hash"
        rhs  == IF a.type = "x_hash" THEN Word(a.hs \div 8) ELSE 0 .. (a.w \div 2) - 1
        H    == Blake2H(a, p, <<
                    <<{16, 24}, Word(IF hash THEN a.hs \div 8 ELSE a.w), ShiftL(a.w, Word(Len(p.key)), 8)>>,
                    IF ~hash /\ a.w = 64 THEN <<ShiftL(64, rhs, 32)>> ELSE <<>>,
                    <<>>,
                    IF ~hash /\ a.w = 32 THEN <<rhs>> ELSE <<>> >>)
        q    == [p EXCEPT !.H = H, !.pos = 0, !.total = 0, !.xoffset = 0, !.squeezing = FALSE]
    IN IF p.key = <<>> THEN q
       ELSE Blake2Update(a, q, p.key \o Zeros(2 * a.w - Len(p.key)))

\* initX: one block of n bytes of output is hashed from the root hash in m.
Blake2InitX(a, p, n, left) ==
    LET xof == a.type = "xof"
        rhs == IF xof THEN 0 .. a.w - 1 ELSE Word(n)
        len == Word(IF xof THEN a.w ELSE Min({left, a.w}))
    IN Blake2H(a, p, IF a.w = 64
                     THEN << <<len, {38}>>, <<Word(p.xoffset), ShiftL(64, rhs, 32)>>, <<{14}>>, <<>> >>
                     ELSE << <<len>>, <<{5}>>, <<Word(p.xoffset)>>, <<{29}, rhs \cap 0 .. 15>> >>)

Blake2Last(a, p) ==
    Blake2Transform(a, [p EXCEPT !.total = @ + 8 * p.pos], Cleared(p.m, p.pos, 2 * a.w), TRUE)

\* The root hash goes to the start of the buffer.
Blake2Begin(a, root) ==
    [root EXCEPT !.squeezing = TRUE, !.xoffset = 0,
                 !.m = Overwrite(Cleared(@, root.pos, 2 * a.w), 0, Stored(a.w, root.H, TRUE))]

\* One more block of the n bytes, of which out are there
Blake2Output(a, p, out) == [p |-> p, out |-> out \o SubSeq(Stored(a.w, p.H, TRUE), 1, p.pos)]
Blake2Block(a, p, n, left) ==
    [p EXCEPT !.H = Blake2InitX(a, p, n, left), !.xoffset = @ + 1,
              !.total = 8 * a.w, !.m = Cleared(@, a.w, 2 * a.w), !.pos = Min({left, a.w})]
Blake2More(a, p, n, out) ==
    LET q == Blake2Block(a, p, n, n - Len(out))
    IN Blake2Output(a, Blake2Transform(a, q, q.m, TRUE), out)

\* squeeze(): n more bytes, and the provider after them
Blake2Squeeze(a, p, n) ==
    LET copied == IF p.squeezing /\ p.pos < a.w THEN Min({n, a.w - p.pos}) ELSE 0
        begun  == IF p.squeezing THEN [p EXCEPT !.pos = @ + copied]
                  ELSE Blake2Begin(a, Blake2Last(a, p))
        first  == IF copied > 0 THEN SubSeq(Stored(a.w, p.H, TRUE), p.pos + 1, p.pos + copied) ELSE <<>>
    IN Loop(LAMBDA s, i : Blake2More(a, s.p, n, s.out), [p |-> begun, out |-> first], (n - copied + a.w - 1) \div a.w)

Blake2Final(a, p) ==
    IF a.type = "hash"
    THEN SubSeq(Stored(a.w, Blake2Last(a, p).H, TRUE), 1, a.hs \div 8)
    ELSE Blake2Squeeze(a, p, a.hs \div 8).out

=============================================================================
