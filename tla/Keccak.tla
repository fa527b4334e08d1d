------------------------------- MODULE Keccak --------------------------------
(***************************************************************************)
(* SHA-3, SHAKE, cSHAKE and KMAC (sha3_provider.hpp, shake_provider.hpp,   *)
(* kmac_provider.hpp): operators only.                                     *)
(*                                                                         *)
(* An algorithm is a record of its name, its rate in bits, the size hs of  *)
(* its hash in bits (0 if any number of bytes can be squeezed out) and xof.*)
(* A provider is a record of its members: the 25 words A, the buffer m with*)
(* pos and total, and what was set by name: function_name, customization   *)
(* and key, as bytes.                                                      *)
(***************************************************************************)
EXTENDS AbsorbData

KeccakRC == HexWords(64,
    "00000000000000010000000000008082800000000000808a8000000080008000" \o
    "000000000000808b000000008000000180000000800080818000000000008009" \o
    "000000000000008a00000000000000880000000080008009000000008000000a" \o
    "000000008000808b800000000000008b80000000000080898000000000008003" \o
    "80000000000080028000000000000080000000000000800a800000008000000a" \o
    "8000000080008081800000000000808000000000800000018000000080008008")

\* How far each word is rotated, and the word that comes to each place
KeccakRotation == <<0, 1, 62, 28, 27, 36, 44, 6, 55, 20, 3, 10, 43, 25, 39, 41, 45, 15, 21, 8, 18, 2, 61, 56, 14>>
KeccakSource   == <<0, 6, 12, 18, 24, 3, 9, 10, 16, 22, 1, 7, 13, 19, 20, 4, 5, 11, 17, 23, 2, 8, 14, 15, 21>>

KeccakRound(A, i) ==
    LET C == Tuple([x \in 1 .. 5 |-> XorAll(<<A[x], A[x + 5], A[x + 10], A[x + 15], A[x + 20]>>)])
        D == Tuple([x \in 1 .. 5 |-> Xor(C[((x + 3) % 5) + 1], RotL(64, C[(x % 5) + 1], 1))])
        B == Tuple([k \in 1 .. 25 |-> LET s == KeccakSource[k]
                                       IN RotL(64, Xor(A[s + 1], D[(s % 5) + 1]), KeccakRotation[s + 1])])
        b(k, x) == B[k - ((k - 1) % 5) + ((k - 1 + x) % 5)]
    IN Tuple([k \in 1 .. 25 |-> Xor(Xor(b(k, 0), b(k, 2) \ b(k, 1)), IF k = 1 THEN KeccakRC[i] ELSE {})])

Permuted(A) == Loop(KeccakRound, A, 24)

SpongeTransform(p, block) ==
    LET d == Load(64, block, TRUE)
    IN [p EXCEPT !.A = Permuted(Tuple([i \in 1 .. 25 |-> IF i <= Len(d) THEN Xor(p.A[i], d[i]) ELSE p.A[i]]))]

SpongeUpdate(a, p, data) == Absorb(p, data, a.rate \div 8, a.rate \div 8, SpongeTransform)

\* The end of the message: a suffix, zeroes, and the last bit of the block
Padded(a, p, suffix) ==
    LET r == a.rate \div 8
        m == Cleared(Overwrite(p.m, p.pos, <<suffix>>), p.pos + 1, r)
    IN SpongeTransform(p, SubSeq(Overwrite(m, r - 1, <<ValueOf(BitsOf[m[r]] \cup {7})>>), 1, r))

Sha3Final(a, p) == SubSeq(Stored(64, Padded(a, p, 6).A, TRUE), 1, a.hs \div 8)

-----------------------------------------------------------------------------
(* Lengths as text: their bytes, and how many there are                     *)

NumBytes(n) == CHOOSE k \in 1 .. 4 : /\ k = 4 \/ n < 256 ^ k
                                     /\ k = 1 \/ n >= 256 ^ (k - 1)
NumberBytes(n) == [i \in 1 .. NumBytes(n) |-> (n \div 256 ^ (NumBytes(n) - i)) % 256]
LeftEncode(n)  == <<NumBytes(n)>> \o NumberBytes(n)
RightEncode(n) == NumberBytes(n) \o <<NumBytes(n)>>

Kmac == Hex("4b4d4143")

\* What init() absorbs before the message.  The first filling is never empty,
\* the second never a whole block.
CshakePrefix(a, p) ==
    LET r    == a.rate \div 8
        text == LeftEncode(r) \o LeftEncode(8 * Len(p.function_name)) \o p.function_name
                              \o LeftEncode(8 * Len(p.customization)) \o p.customization
    IN IF p.function_name = <<>> /\ p.customization = <<>> THEN <<>>
       ELSE text \o Zeros(r - (Len(text) % r))
Bytepad(a, key) ==
    LET r    == a.rate \div 8
        text == LeftEncode(r) \o LeftEncode(8 * Len(key)) \o key
    IN text \o Zeros((r - (Len(text) % r)) % r)

\* init(): the buffer and what was set stay.
SpongeInit(a, p) ==
    LET named == IF a.name = "kmac" THEN [p EXCEPT !.function_name = Kmac] ELSE p
        q     == [named EXCEPT !.A = [i \in 1 .. 25 |-> {}], !.pos = 0, !.total = 0, !.squeezing = FALSE]
    IN CASE a.name = "sha3"  -> q
         [] a.name = "shake" -> SpongeUpdate(a, q, CshakePrefix(a, q))
         [] a.name = "kmac"  -> SpongeUpdate(a, SpongeUpdate(a, q, CshakePrefix(a, q)), Bytepad(a, q.key))

-----------------------------------------------------------------------------
(* squeeze(): n more bytes, and the provider after them.  pos counts the    *)
(* bytes of A that were handed out.                                         *)

SpongeOutput(p, out, k) == [p |-> [p EXCEPT !.pos = k], out |-> out \o SubSeq(Stored(64, p.A, TRUE), 1, k)]

ShakeSqueeze(a, p, n) ==
    LET r      == a.rate \div 8
        suffix == IF p.function_name = <<>> /\ p.customization = <<>> THEN 31 ELSE 4
        copied == IF p.squeezing /\ p.pos < r THEN Min({n, r - p.pos}) ELSE 0
        begun  == IF ~p.squeezing THEN [Padded(a, p, suffix) EXCEPT !.squeezing = TRUE, !.pos = @ + 1]
                  ELSE IF p.pos < r THEN [p EXCEPT !.pos = @ + copied]
                  ELSE [p EXCEPT !.A = Permuted(@)]
        first  == SubSeq(Stored(64, p.A, TRUE), p.pos + 1, p.pos + copied)
    IN Loop(LAMBDA s, i : SpongeOutput(IF s.out = <<>> THEN s.p ELSE [s.p EXCEPT !.A = Permuted(@)], s.out,
                                       Min({n - Len(s.out), r})),
            [p |-> begun, out |-> IF copied > 0 THEN first ELSE <<>>], (n - copied + r - 1) \div r)

SpongeSqueeze(a, p, n) ==
    ShakeSqueeze(a, IF a.name = "kmac" /\ ~p.squeezing
                    THEN SpongeUpdate(a, p, RightEncode(IF a.xof THEN 0 ELSE 8 * n)) ELSE p, n)

SpongeFinal(a, p) ==
    IF a.name = "sha3" THEN Sha3Final(a, p) ELSE SpongeSqueeze(a, p, a.hs \div 8).out

=============================================================================
