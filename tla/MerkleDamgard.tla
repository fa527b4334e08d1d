--------------------------- MODULE MerkleDamgard ----------------------------
(***************************************************************************)
(* MD5, SHA-1, SM3 and the SHA-2 family (md5_provider.hpp,                 *)
(* sha1_provider.hpp, sm3_provider.hpp, sha2_provider.hpp): operators only.*)
(*                                                                         *)
(* An algorithm is a record of its name, the width w of its words and the  *)
(* size hs of its hash in bits.  A provider is a record of its members: the*)
(* words H, the block m of which the first pos bytes are filled, and the   *)
(* count of bits absorbed before them.                                     *)
(***************************************************************************)
EXTENDS AbsorbData, TLC

Rotated(h, a) == <<a>> \o SubSeq(h, 1, Len(h) - 1)

Ch(x, y, z)     == Xor(x \cap y, z \ x)
Maj(x, y, z)    == XorAll(<<x \cap y, x \cap z, y \cap z>>)
Parity(x, y, z) == XorAll(<<x, y, z>>)

-----------------------------------------------------------------------------
(* MD5.  The words turn their roles with every round.                       *)

Md5K == HexWords(32,
    "d76aa478e8c7b756242070dbc1bdceeef57c0faf4787c62aa8304613fd469501" \o
    "698098d88b44f7afffff5bb1895cd7be6b901122fd987193a679438e49b40821" \o
    "f61e2562c040b340265e5a51e9b6c7aad62f105d02441453d8a1e681e7d3fbc8" \o
    "21e1cde6c33707d6f4d50d87455a14eda9e3e905fcefa3f8676f02d98d2a4c8a" \o
    "fffa39428771f6816d9d6122fde5380ca4beea444bdecfa9f6bb4b60bebfbc70" \o
    "289b7ec6eaa127fad4ef308504881d05d9d4d039e6db99e51fa27cf8c4ac5665" \o
    "f4292244432aff97ab9423a7fc93a039655b59c38f0ccc92ffeff47d85845dd1" \o
    "6fa87e4ffe2ce6e0a30143144e0811a1f7537e82bd3af2352ad7d2bbeb86d391")

Md5S == <<<<7, 12, 17, 22>>, <<5, 9, 14, 20>>, <<4, 11, 16, 23>>, <<6, 10, 15, 21>>>>

Md5F(q, b, c, d) ==
    CASE q = 0 -> Xor(d, b \cap Xor(c, d))
      [] q = 1 -> Xor(c, d \cap Xor(b, c))
      [] q = 2 -> Parity(b, c, d)
      [] q = 3 -> Xor(c, b \cup Not(32, d))

Md5Word(q, r) ==
    CASE q = 0 -> r
      [] q = 1 -> (5 * r + 1) % 16
      [] q = 2 -> (3 * r + 5) % 16
      [] q = 3 -> (7 * r) % 16

Md5Round(v, M, r) ==
    LET q == r \div 16
    IN <<v[4],
         Add(32, v[2], RotL(32, Sum(32, <<v[1], Md5F(q, v[2], v[3], v[4]), Md5K[r + 1], M[Md5Word(q, r) + 1]>>),
                            Md5S[q + 1][(r % 4) + 1])),
         v[2], v[3]>>

Md5Transform(H, M) == Sums(32, H, Loop(LAMBDA v, i : Md5Round(v, M, i - 1), H, 64))

-----------------------------------------------------------------------------
(* SHA-1                                                                    *)

Sha1K == HexWords(32, "5a8279996ed9eba18f1bbcdcca62c1d6")

Sha1W(M) == Loop(LAMBDA W, t : Append(W, RotL(32, XorAll(<<W[t + 13], W[t + 8], W[t + 2], W[t]>>), 1)), M, 64)

Sha1F(q, b, c, d) == CASE q = 0 -> Ch(b, c, d) [] q = 2 -> Maj(b, c, d) [] OTHER -> Parity(b, c, d)

Sha1Round(v, q, word) ==
    Rotated([v EXCEPT ![2] = RotL(32, @, 30)],
            Sum(32, <<RotL(32, v[1], 5), Sha1F(q, v[2], v[3], v[4]), v[5], Sha1K[q + 1], word>>))

Sha1Rounds(H, W) == Loop(LAMBDA v, t : Sha1Round(v, (t - 1) \div 20, W[t]), H, 80)

Sha1Transform(H, M) == Sums(32, H, Sha1Rounds(H, Sha1W(M)))

-----------------------------------------------------------------------------
(* SM3                                                                      *)

Sm3P0(x) == XorAll(<<x, RotL(32, x, 9), RotL(32, x, 17)>>)
Sm3P1(x) == XorAll(<<x, RotL(32, x, 15), RotL(32, x, 23)>>)
Sm3T     == HexWords(32, "79cc45197a879d8a")

Sm3W(M) ==
    Loop(LAMBDA W, t : Append(W, XorAll(<<Sm3P1(XorAll(<<W[t], W[t + 7], RotL(32, W[t + 13], 15)>>)),
                                          RotL(32, W[t + 3], 7), W[t + 10]>>)),
         M, 52)

\* ss1 of a round, and the words after it
Sm3SS1(v, t) ==
    RotL(32, Sum(32, <<RotL(32, v[1], 12), v[5], RotL(32, Sm3T[IF t <= 16 THEN 1 ELSE 2], t - 1)>>), 7)
Sm3Round(v, ss1, early, word, word4) ==
    LET ff == IF early THEN Parity(v[1], v[2], v[3]) ELSE Maj(v[1], v[2], v[3])
        gg == IF early THEN Parity(v[5], v[6], v[7]) ELSE Ch(v[5], v[6], v[7])
    IN <<Sum(32, <<ff, v[4], Xor(ss1, RotL(32, v[1], 12)), Xor(word, word4)>>), v[1], RotL(32, v[2], 9), v[3],
         Sm3P0(Sum(32, <<gg, v[8], ss1, word>>)), v[5], RotL(32, v[6], 19), v[7]>>

Sm3Rounds(H, W) == Loop(LAMBDA v, t : Sm3Round(v, Sm3SS1(v, t), t <= 16, W[t], W[t + 4]), H, 64)

Sm3Mixed(H, v)     == Tuple([i \in 1 .. 8 |-> Xor(H[i], v[i])])
Sm3Transform(H, M) == Sm3Mixed(H, Sm3Rounds(H, Sm3W(M)))

-----------------------------------------------------------------------------
(* SHA-2.  The constants of the 32-bit algorithms are the upper halves of   *)
(* those of the 64-bit ones.                                                *)

Sha512K == HexWords(64,
    "428a2f98d728ae227137449123ef65cdb5c0fbcfec4d3b2fe9b5dba58189dbbc" \o
    "3956c25bf348b53859f111f1b605d019923f82a4af194f9bab1c5ed5da6d8118" \o
    "d807aa98a303024212835b0145706fbe243185be4ee4b28c550c7dc3d5ffb4e2" \o
    "72be5d74f27b896f80deb1fe3b1696b19bdc06a725c71235c19bf174cf692694" \o
    "e49b69c19ef14ad2efbe4786384f25e30fc19dc68b8cd5b5240ca1cc77ac9c65" \o
    "2de92c6f592b02754a7484aa6ea6e4835cb0a9dcbd41fbd476f988da831153b5" \o
    "983e5152ee66dfaba831c66d2db43210b00327c898fb213fbf597fc7beef0ee4" \o
    "c6e00bf33da88fc2d5a79147930aa72506ca6351e003826f142929670a0e6e70" \o
    "27b70a8546d22ffc2e1b21385c26c9264d2c6dfc5ac42aed53380d139d95b3df" \o
    "650a73548baf63de766a0abb3c77b2a881c2c92e47edaee692722c851482353b" \o
    "a2bfe8a14cf10364a81a664bbc423001c24b8b70d0f89791c76c51a30654be30" \o
    "d192e819d6ef5218d69906245565a910f40e35855771202a106aa07032bbd1b8" \o
    "19a4c116b8d2d0c81e376c085141ab532748774cdf8eeb9934b0bcb5e19b48a8" \o
    "391c0cb3c5c95a634ed8aa4ae3418acb5b9cca4f7763e373682e6ff3d6b2b8a3" \o
    "748f82ee5defb2fc78a5636f43172f6084c87814a1f0ab728cc702081a6439ec" \o
    "90befffa23631e28a4506cebde82bde9bef9a3f7b2c67915c67178f2e372532b" \o
    "ca273eceea26619cd186b8c721c0c207eada7dd6cde0eb1ef57d4f7fee6ed178" \o
    "06f067aa72176fba0a637dc5a2c898a6113f9804bef90dae1b710b35131c471b" \o
    "28db77f523047d8432caab7b40c724933c9ebe0a15c9bebc431d67c49c100d4c" \o
    "4cc5d4becb3e42b6597f299cfc657e2a5fcb6fab3ad6faec6c44198c4a475817")
Sha256K == [t \in 1 .. 64 |-> Half(Sha512K[t], TRUE)]

\* Three rotations combined, the last a shift in the schedule
Sum2(w, x, r)   == XorAll(<<RotR(w, x, r[1]), RotR(w, x, r[2]), RotR(w, x, r[3])>>)
Sigma2(w, x, r) == XorAll(<<RotR(w, x, r[1]), RotR(w, x, r[2]), ShiftR(x, r[3])>>)

Sha2Count(w) == IF w = 64 THEN 80 ELSE 64

Sha2W(w, M) ==
    LET sigma0 == IF w = 64 THEN <<1, 8, 7>>   ELSE <<7, 18, 3>>
        sigma1 == IF w = 64 THEN <<19, 61, 6>> ELSE <<17, 19, 10>>
    IN Loop(LAMBDA W, t : Append(W, Sum(w, <<Sigma2(w, W[t + 14], sigma1), W[t + 9],
                                             Sigma2(w, W[t + 1], sigma0), W[t]>>)),
            M, Sha2Count(w) - 16)

Sha2T1(w, v, k, word) ==
    Sum(w, <<v[8], Sum2(w, v[5], IF w = 64 THEN <<14, 18, 41>> ELSE <<6, 11, 25>>), Ch(v[5], v[6], v[7]), k, word>>)
Sha2T2(w, v) ==
    Add(w, Sum2(w, v[1], IF w = 64 THEN <<28, 34, 39>> ELSE <<2, 13, 22>>), Maj(v[1], v[2], v[3]))

Sha2Round(w, v, t1, t2) == [Rotated(v, Add(w, t1, t2)) EXCEPT ![5] = Add(w, v[4], t1)]

Sha2Rounds(w, H, K, W) ==
    Loop(LAMBDA v, t : Sha2Round(w, v, Sha2T1(w, v, K[t], W[t]), Sha2T2(w, v)), H, Sha2Count(w))

Sha2Transform(w, H, M) == Sums(w, H, Sha2Rounds(w, H, IF w = 64 THEN Sha512K ELSE Sha256K, Sha2W(w, M)))

-----------------------------------------------------------------------------
(* The providers: init(), update(), final()                                 *)

Md5H   == HexWords(32, "67452301efcdab8998badcfe10325476")
Sha1H  == HexWords(32, "67452301efcdab8998badcfe10325476c3d2e1f0")
Sm3H   == HexWords(32, "7380166f4914b2b9172442d7da8a0600a96f30bc163138aae38dee4db0fb0e4e")
Sha512H == HexWords(64,
    "6a09e667f3bcc908bb67ae8584caa73b3c6ef372fe94f82ba54ff53a5f1d36f1" \o
    "510e527fade682d19b05688c2b3e6c1f1f83d9abfb41bd6b5be0cd19137e2179")
Sha384H == HexWords(64,
    "cbbb9d5dc1059ed8629a292a367cd5079159015a3070dd17152fecd8f70e5939" \o
    "67332667ffc00b318eb44a8768581511db0c2e0d64f98fa747b5481dbefa4fa4")
Sha512_256H == HexWords(64,
    "22312194fc2bf72c9f555fa3c84c64c22393b86b6f53b151963877195940eabd" \o
    "96283ee2a88effe3be5e1e25538639922b0199fc2c85b8aa0eb72ddc81c52ca2")
Sha512_224H == HexWords(64,
    "8c3d37c819544da273e1996689dcd4d61dfab7ae32ff9c82679dd514582f9fcf" \o
    "0f6d2b697bd44da877e36f7304c489423f9d85a86a1d36c81112e6ad91d692a1")
\* The words of SHA-256 and SHA-224 are halves of those of SHA-512 and SHA-384.
Sha256H == [i \in 1 .. 8 |-> Half(Sha512H[i], TRUE)]
Sha224H == [i \in 1 .. 8 |-> Half(Sha384H[i], FALSE)]

MdCompressed(a, H, M) ==
    CASE a.name = "md5"  -> Md5Transform(H, M)
      [] a.name = "sha1" -> Sha1Transform(H, M)
      [] a.name = "sm3"  -> Sm3Transform(H, M)
      [] a.name = "sha2" -> Sha2Transform(a.w, H, M)

MdTransform(a, p, block) == [p EXCEPT !.H = MdCompressed(a, @, Load(a.w, block, a.name = "md5"))]

MdUpdate(a, p, data) ==
    Absorb(p, data, 2 * a.w, 2 * a.w, LAMBDA q, d : MdTransform(a, q, d))

\* The end mark, zeroes, and the length in bits in the last eight bytes, in a
\* block of its own when the mark leaves too little room.
MdFinished(a, p) ==
    LET bs    == 2 * a.w
        m     == Cleared(Overwrite(p.m, p.pos, <<128>>), p.pos + 1, bs)
        over  == p.pos + 1 > bs - a.w \div 4
        len   == ToBytes(64, Word(p.total + 8 * p.pos))
        last  == Overwrite(IF over THEN Zeros(bs) ELSE m, bs - 8,
                           IF a.name = "md5" THEN Reversed(len) ELSE len)
    IN MdTransform(a, IF over THEN MdTransform(a, p, m) ELSE p, last)

MdFinal(a, p) == SubSeq(Stored(a.w, MdFinished(a, p).H, a.name = "md5"), 1, a.hs \div 8)

\* init() leaves the bytes of m as they are.  For a hash size that is not in
\* the table SHA-512/t hashes its own name.
MdInit(a, p) ==
    LET start(H) == [p EXCEPT !.H = H, !.pos = 0, !.total = 0]
        digits   == ToString(a.hs)
        name     == Hex("5348412d3531322f")
                        \o [i \in 1 .. Len(digits) |-> 48 + HexDigit(SubSeq(digits, i, i))]
        flipped  == Tuple([i \in 1 .. 8 |-> Xor(Sha512H[i], FromBytes([k \in 1 .. 8 |-> 165]))])
    IN CASE a.name = "md5"           -> start(Md5H)
         [] a.name = "sha1"          -> start(Sha1H)
         [] a.name = "sm3"           -> start(Sm3H)
         [] a.w = 32 /\ a.hs = 256   -> start(Sha256H)
         [] a.w = 32 /\ a.hs = 224   -> start(Sha224H)
         [] a.w = 64 /\ a.hs = 224   -> start(Sha512_224H)
         [] a.w = 64 /\ a.hs = 256   -> start(Sha512_256H)
         [] a.w = 64 /\ a.hs = 384   -> start(Sha384H)
         [] a.w = 64 /\ a.hs = 512   -> start(Sha512H)
         [] OTHER -> [MdFinished(a, MdUpdate(a, start(flipped), name)) EXCEPT !.pos = 0, !.total = 0]

-----------------------------------------------------------------------------
(* The service's sha1::computeHash: absorbed byte after byte                *)

Sha1 == [name |-> "sha1", w |-> 32, hs |-> 160]
ComputeHash(data) ==
    LET new == MdInit(Sha1, [H |-> <<>>, m |-> Zeros(64), pos |-> 0, total |-> 0])
    IN MdFinal(Sha1, Loop(LAMBDA p, i : MdUpdate(Sha1, p, <<data[i]>>), new, Len(data)))

=============================================================================
