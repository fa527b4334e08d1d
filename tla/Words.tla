------------------------------- MODULE Words --------------------------------
(***************************************************************************)
(* Machine words as the hash functions of digestpp use them                *)
(* (detail/functions.hpp): operators only.  A word of w bits is the set of *)
(* the places of its ones, 0 for the lowest, so that the bitwise           *)
(* operations are those of sets; a byte is a number in 0 .. 255.           *)
(***************************************************************************)
EXTENDS Integers, Sequences, FiniteSetsExt

\* The sequence s, as TLC keeps it when each element is evaluated at once
Tuple(s) == s \o <<>>

Reversed(s) == Tuple([i \in DOMAIN s |-> s[Len(s) + 1 - i]])

Xor(a, b)      == (a \ b) \cup (b \ a)
Not(w, a)      == (0 .. w - 1) \ a
RotL(w, a, n)  == {(i + n) % w : i \in a}
RotR(w, a, n)  == {(i + w - n) % w : i \in a}
ShiftL(w, a, n) == {i + n : i \in {j \in a : j + n < w}}
ShiftR(a, n)   == {i - n : i \in {j \in a : j >= n}}

XorAll(words) == LET x[i \in 0 .. Len(words)] == IF i = 0 THEN {} ELSE Xor(x[i - 1], words[i])
                 IN x[Len(words)]

\* Addition modulo 2^w: carries are added until there are none.
RECURSIVE Add(_, _, _)
Add(w, a, b) == IF b = {} THEN a ELSE Add(w, Xor(a, b), ShiftL(w, a \cap b, 1))

\* Sum, and the sums of the words of two sequences
Sum(w, words) == LET s[i \in 0 .. Len(words)] == IF i = 0 THEN {} ELSE Add(w, s[i - 1], words[i])
                 IN s[Len(words)]
Sums(w, a, b) == Tuple([i \in DOMAIN a |-> Add(w, a[i], b[i])])

\* The higher or the lower 32 bits of a word of 64
Half(a, higher) == IF higher THEN ShiftR(a, 32) ELSE a \cap 0 .. 31

-----------------------------------------------------------------------------
(* Words, bytes and numbers                                                 *)

BitsOf        == [b \in 0 .. 255 |-> {i \in 0 .. 7 : (b \div 2 ^ i) % 2 = 1}]
ValueOf(bits) == MapThenSumSet(LAMBDA i : 2 ^ i, bits)

\* The word of a number below 2^31
Word(n) == {i \in 0 .. 30 : (n \div 2 ^ i) % 2 = 1}

\* A word from its bytes, the highest first, and back; byteswap is the other order.
FromBytes(d)   == UNION {{i + 8 * (Len(d) - k) : i \in BitsOf[d[k]]} : k \in DOMAIN d}
ToBytes(w, a)  == Tuple([k \in 1 .. w \div 8 |->
                             ValueOf({i - (w - 8 * k) : i \in {j \in a : j \div 8 = w \div 8 - k}})])

\* The words of a block, and the bytes of words, in either order of bytes
Load(w, d, little) ==
    Tuple([i \in 1 .. (8 * Len(d)) \div w |->
              LET b == SubSeq(d, (i - 1) * (w \div 8) + 1, i * (w \div 8))
              IN FromBytes(IF little THEN Reversed(b) ELSE b)])
Stored(w, words, little) ==
    LET bytes == Tuple([i \in DOMAIN words |-> IF little THEN Reversed(ToBytes(w, words[i])) ELSE ToBytes(w, words[i])])
        size  == w \div 8
    IN Tuple([k \in 1 .. Len(words) * size |-> bytes[(k - 1) \div size + 1][((k - 1) % size) + 1]])

HexDigit(c) == CHOOSE n \in 0 .. 15 : SubSeq("0123456789abcdef", n + 1, n + 1) = c

\* The bytes, and the words, that a text of hexadecimal digits writes
Hex(s) == [k \in 1 .. Len(s) \div 2 |-> 16 * HexDigit(SubSeq(s, 2 * k - 1, 2 * k - 1))
                                           + HexDigit(SubSeq(s, 2 * k, 2 * k))]
HexWords(w, s) == Load(w, Hex(s), FALSE)

-----------------------------------------------------------------------------

\* A loop of n turns, each of which makes a new value of the last one and its
\* number, from 1.
Loop(turn(_, _), start, n) ==
    LET RECURSIVE Run(_, _, _)
        Run(x, first, last) ==
            LET half == (first + last) \div 2
            IN CASE first > last -> x
                 [] first = last -> CHOOSE z \in {turn(y, first) : y \in {x}} : TRUE
                 [] OTHER -> CHOOSE z \in {Run(y, half + 1, last) : y \in {Run(x, first, half)}} : TRUE
    IN Run(start, 1, n)

=============================================================================
