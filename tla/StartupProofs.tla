---------------------------- MODULE StartupProofs ----------------------------
(***************************************************************************)
(* The exchange with the tracker, for every tracker that keeps to the      *)
(* protocol and whatever the random bytes: the requests are understood as  *)
(* they were meant, and the peers that are contacted, or the error that is *)
(* reported, are what the tracker answered.                                *)
(***************************************************************************)
EXTENDS Startup, SequenceTheorems, TLAPS

Byte == 0 .. 255

-----------------------------------------------------------------------------
(* Bytes at an offset.                                                      *)

\* The n bytes at offset o of d; x lies there.
Slice(d, o, n) == SubSeq(d, o + 1, o + n)
Has(d, o, x)   == o + Len(x) <= Len(d) /\ Slice(d, o, Len(x)) = x

LEMMA SliceBytes ==
    ASSUME NEW d \in Seq(Byte), NEW o \in Nat, NEW n \in Nat, o + n <= Len(d)
    PROVE  /\ Slice(d, o, n) \in Seq(Byte) /\ Len(Slice(d, o, n)) = n
           /\ \A j \in 1 .. n : Slice(d, o, n)[j] = d[o + j]
<1>1. \A i \in o + 1 .. o + n : d[i] \in Byte
  BY ElementOfSeq
<1>2. o + 1 \in Int /\ o + n \in Int
  OBVIOUS
<1>3. /\ Slice(d, o, n) \in Seq(Byte)
      /\ Len(Slice(d, o, n)) = IF o + 1 <= o + n THEN o + n - (o + 1) + 1 ELSE 0
      /\ \A i \in 1 .. o + n - (o + 1) + 1 : Slice(d, o, n)[i] = d[o + 1 + i - 1]
  BY <1>1, <1>2, SubSeqProperties DEF Slice
<1>4. o + n - (o + 1) + 1 = n /\ (\A i \in 1 .. n : o + 1 + i - 1 = o + i)
  OBVIOUS
<1> QED
  BY <1>3, <1>4

\* x lies where each of its bytes does.
LEMMA HasBytes ==
    ASSUME NEW d \in Seq(Byte), NEW o \in Nat, NEW x \in Seq(Byte), o + Len(x) <= Len(d)
    PROVE  Has(d, o, x) <=> \A j \in 1 .. Len(x) : d[o + j] = x[j]
<1>1. Len(x) \in Nat
  BY LenProperties
<1>2. /\ Slice(d, o, Len(x)) \in Seq(Byte) /\ Len(Slice(d, o, Len(x))) = Len(x)
      /\ \A j \in 1 .. Len(x) : Slice(d, o, Len(x))[j] = d[o + j]
  BY <1>1, SliceBytes
<1>3. ASSUME \A j \in 1 .. Len(x) : d[o + j] = x[j] PROVE Slice(d, o, Len(x)) = x
  BY <1>2, <1>3, SeqEqual
<1> QED
  BY <1>2, <1>3 DEF Has

\* Two sequences one after the other: each lies in the whole, with all that lay in it.
LEMMA HasJoined ==
    ASSUME NEW a \in Seq(Byte), NEW b \in Seq(Byte)
    PROVE  /\ a \o b \in Seq(Byte) /\ Len(a \o b) = Len(a) + Len(b)
           /\ Has(a \o b, 0, a) /\ Has(a \o b, Len(a), b)
           /\ \A o \in Nat, x \in Seq(Byte) : Has(a, o, x) => Has(a \o b, o, x)
<1> DEFINE ab == a \o b
<1>1. Len(a) \in Nat /\ Len(b) \in Nat
  BY LenProperties
<1>2. /\ ab \in Seq(Byte) /\ Len(ab) = Len(a) + Len(b)
      /\ \A i \in 1 .. Len(a) + Len(b) : ab[i] = IF i <= Len(a) THEN a[i] ELSE b[i - Len(a)]
  BY ConcatProperties
<1> HIDE DEF ab
<1>3. \A j \in 1 .. Len(a) : ab[j] = a[j]
  BY <1>1, <1>2
<1>4. ASSUME NEW j \in 1 .. Len(b) PROVE ab[Len(a) + j] = b[j]
  <2>1. /\ Len(a) + j \in 1 .. Len(a) + Len(b) /\ ~(Len(a) + j <= Len(a))
        /\ Len(a) + j - Len(a) = j
    BY <1>1
  <2> QED
    BY <1>2, <2>1
<1>5. Has(ab, Len(a), b)
  <2>1. Len(a) + Len(b) <= Len(ab)
    BY <1>1, <1>2
  <2> QED
    BY <1>1, <1>2, <1>4, <2>1, HasBytes
<1>6. ASSUME NEW o \in Nat, NEW x \in Seq(Byte), Has(a, o, x) PROVE Has(ab, o, x)
  <2>1. Len(x) \in Nat /\ o + Len(x) <= Len(a)
    BY <1>6, LenProperties DEF Has
  <2>2. \A j \in 1 .. Len(x) : a[o + j] = x[j]
    BY <1>6, <2>1, HasBytes
  <2>3. \A j \in 1 .. Len(x) : o + j \in 1 .. Len(a)
    BY <1>1, <2>1
  <2>4. \A j \in 1 .. Len(x) : ab[o + j] = x[j]
    BY <1>3, <2>2, <2>3
  <2>5. o + Len(x) <= Len(ab)
    BY <1>1, <1>2, <2>1
  <2> QED
    BY <1>2, <2>4, <2>5, HasBytes
<1>7. Has(a, 0, a)
  <2>1. 0 + Len(a) <= Len(a) /\ \A j \in 1 .. Len(a) : a[0 + j] = a[j]
    BY <1>1
  <2> QED
    BY <2>1, HasBytes
<1> QED
  BY <1>2, <1>5, <1>6, <1>7 DEF ab

\* Where x lies, its bytes are.
LEMMA HasSlice ==
    ASSUME NEW d, NEW o \in Nat, NEW x \in Seq(Byte), NEW n, Len(x) = n, Has(d, o, x)
    PROVE  Slice(d, o, n) = x
  BY DEF Has

\* Bytes numbered from 1 are a sequence.
LEMMA Numbered ==
    ASSUME NEW n \in Nat, NEW f \in [1 .. n -> Byte]
    PROVE  f \in Seq(Byte) /\ Len(f) = n
  OBVIOUS

-----------------------------------------------------------------------------
(* Numbers.                                                                 *)

\* A number is its last byte and what is before it.
LEMMA LastByte ==
    ASSUME NEW n \in Nat
    PROVE  /\ n \div 256 \in Nat /\ n % 256 \in Byte
           /\ n = 256 * (n \div 256) + (n % 256)
           /\ \A x \in Nat : n < 256 * x => n \div 256 < x
<1>1. n \div 256 \in Nat /\ n % 256 \in 0 .. 255 /\ n = 256 * (n \div 256) + (n % 256)
  BY SMTT(30)
<1> QED
  BY <1>1 DEF Byte

\* The bytes of a number are read as that number.
LEMMA NumberBytes ==
    /\ \A n \in Uint31 :
         /\ Number(4, n) \in Seq(Byte) /\ Len(Number(4, n)) = 4 /\ AsNat(Number(4, n)) = n
         /\ Number(8, n) \in Seq(Byte) /\ Len(Number(8, n)) = 8
    /\ \A n \in Uint16 :
         Number(2, n) \in Seq(Byte) /\ Len(Number(2, n)) = 2 /\ AsNat(Number(2, n)) = n
<1>0. ASSUME NEW n \in Uint31,
             NEW a, a = n \div 256, NEW b, b = a \div 256,
             NEW w \in {2, 4, 8}
      PROVE  /\ Number(w, n) = [i \in 1 .. w |-> IF i > 4 THEN 0 ELSE <<n % 256, a % 256, b % 256, b \div 256>>[i]]
             /\ Number(w, n) \in [1 .. w -> Byte]
             /\ a \in Nat /\ n % 256 \in Byte /\ n = 256 * a + (n % 256)
             /\ b \in Nat /\ a % 256 \in Byte /\ a = 256 * b + (a % 256)
             /\ b % 256 \in Byte /\ b \div 256 \in Byte /\ b = 256 * (b \div 256) + (b % 256)
  <2>0. n \in Nat /\ n \div 256 < 256 * (128 * 256)
    BY DEF Uint31
  <2>1. a \in Nat /\ n % 256 \in Byte /\ n = 256 * a + (n % 256) /\ a < 256 * (128 * 256)
    BY <1>0, <2>0, LastByte
  <2>2. b \in Nat /\ a % 256 \in Byte /\ a = 256 * b + (a % 256) /\ b < 256 * 128
    BY <1>0, <2>1, LastByte
  <2>3. b \div 256 \in Nat /\ b % 256 \in Byte /\ b = 256 * (b \div 256) + (b % 256) /\ b \div 256 < 128
    BY <2>2, LastByte
  <2>4. b \div 256 \in Byte
    BY <2>3 DEF Byte
  <2>5. Number(w, n) = [i \in 1 .. w |-> IF i > 4 THEN 0 ELSE <<n % 256, a % 256, b % 256, b \div 256>>[i]]
    BY <1>0 DEF Number
  <2>6. ASSUME NEW i \in 1 .. w
        PROVE  (IF i > 4 THEN 0 ELSE <<n % 256, a % 256, b % 256, b \div 256>>[i]) \in Byte
    <3>1. i > 4 \/ i \in {1, 2, 3, 4}
      BY <2>6, <1>0
    <3>2. 0 \in Byte
      BY DEF Byte
    <3> QED
      BY <2>1, <2>2, <2>3, <2>4, <3>1, <3>2
  <2>7. Number(w, n) \in [1 .. w -> Byte]
    BY <2>5, <2>6
  <2> QED
    BY <2>1, <2>2, <2>3, <2>4, <2>5, <2>7
<1>1. ASSUME NEW n \in Uint31
      PROVE  /\ Number(4, n) \in Seq(Byte) /\ Len(Number(4, n)) = 4 /\ AsNat(Number(4, n)) = n
             /\ Number(8, n) \in Seq(Byte) /\ Len(Number(8, n)) = 8
  <2>1. PICK a, b : a = n \div 256 /\ b = a \div 256
    OBVIOUS
  <2>2. /\ Number(4, n) = [i \in 1 .. 4 |-> IF i > 4 THEN 0 ELSE <<n % 256, a % 256, b % 256, b \div 256>>[i]]
        /\ Number(4, n) \in [1 .. 4 -> Byte] /\ Number(8, n) \in [1 .. 8 -> Byte]
        /\ a \in Nat /\ n % 256 \in Byte /\ n = 256 * a + (n % 256)
        /\ b \in Nat /\ a % 256 \in Byte /\ a = 256 * b + (a % 256)
        /\ b % 256 \in Byte /\ b \div 256 \in Byte /\ b = 256 * (b \div 256) + (b % 256)
    BY <1>0, <2>1
  <2>3. Number(4, n) \in Seq(Byte) /\ Len(Number(4, n)) = 4 /\ Number(8, n) \in Seq(Byte) /\ Len(Number(8, n)) = 8
    <3>1. Number(4, n) \in [1 .. 4 -> Byte] /\ Number(8, n) \in [1 .. 8 -> Byte]
      BY <2>2
    <3> QED
      BY <3>1, Numbered
  <2>4. /\ Number(4, n)[1] = n % 256 /\ Number(4, n)[2] = a % 256
        /\ Number(4, n)[3] = b % 256 /\ Number(4, n)[4] = b \div 256
    BY <2>2
  <2>5. AsNat(Number(4, n)) = (n % 256) + 256 * ((a % 256) + 256 * ((b % 256) + 256 * (b \div 256)))
    BY <2>3, <2>4 DEF AsNat
  <2> DEFINE u == n % 256
             v == a % 256
             w == b % 256
             x == b \div 256
  <2>6. u \in Nat /\ v \in Nat /\ w \in Nat /\ x \in Nat /\ n = 256 * a + u /\ a = 256 * b + v /\ b = 256 * x + w
    BY <2>2 DEF Byte
  <2>7. AsNat(Number(4, n)) = u + 256 * (v + 256 * (w + 256 * x))
    BY <2>5
  <2> HIDE DEF u, v, w, x
  <2>8. AsNat(Number(4, n)) = n
    BY <2>2, <2>6, <2>7
  <2> QED
    BY <2>3, <2>8
<1>2. ASSUME NEW n \in Uint16
      PROVE  Number(2, n) \in Seq(Byte) /\ Len(Number(2, n)) = 2 /\ AsNat(Number(2, n)) = n
  <2>0. n \in Uint31 /\ n \in Nat /\ n < 256 * 256
    <3>1. n \in Nat /\ n < 256 * 256
      BY DEF Uint16
    <3>2. n \div 256 \in Nat /\ n \div 256 < 256
      BY <3>1, LastByte
    <3> QED
      BY <3>1, <3>2 DEF Uint31
  <2>1. PICK a, b : a = n \div 256 /\ b = a \div 256
    OBVIOUS
  <2>2. /\ Number(2, n) = [i \in 1 .. 2 |-> IF i > 4 THEN 0 ELSE <<n % 256, a % 256, b % 256, b \div 256>>[i]]
        /\ Number(2, n) \in [1 .. 2 -> Byte]
        /\ a \in Nat /\ n % 256 \in Byte /\ n = 256 * a + (n % 256) /\ a % 256 \in Byte
    BY <1>0, <2>0, <2>1
  <2>3. Number(2, n) \in Seq(Byte) /\ Len(Number(2, n)) = 2
    <3>1. Number(2, n) \in [1 .. 2 -> Byte]
      BY <2>2
    <3> QED
      BY <3>1, Numbered
  <2>4. Number(2, n)[1] = n % 256 /\ Number(2, n)[2] = a % 256
    BY <2>2
  <2>5. a % 256 = a
    <3>1. a < 256
      BY <2>0, <2>1, LastByte
    <3> QED
      BY <2>2, <3>1
  <2>6. AsNat(Number(2, n)) = (n % 256) + 256 * ((a % 256) + 0)
    BY <2>3, <2>4 DEF AsNat
  <2>7. n % 256 \in Nat
    BY <2>2 DEF Byte
  <2> QED
    BY <2>2, <2>3, <2>5, <2>6, <2>7
<1> QED
  BY <1>1, <1>2

\* Swapped twice, a number is as it was.
LEMMA SwappedBytes ==
    ASSUME NEW s \in Seq(Byte)
    PROVE  /\ Swapped(s) \in Seq(Byte) /\ Len(Swapped(s)) = Len(s)
           /\ \A i \in 1 .. Len(s) : Swapped(s)[i] = s[Len(s) - i + 1]
           /\ Swapped(Swapped(s)) = s
<1>1. Len(s) \in Nat
  BY LenProperties
<1>2. ASSUME NEW t \in Seq(Byte), Len(t) = Len(s)
      PROVE  /\ Swapped(t) \in Seq(Byte) /\ Len(Swapped(t)) = Len(s)
             /\ \A i \in 1 .. Len(s) : Swapped(t)[i] = t[Len(s) - i + 1]
  <2>1. Swapped(t) = [i \in 1 .. Len(s) |-> t[Len(s) - i + 1]]
    BY <1>2 DEF Swapped, Reverse
  <2>2. \A i \in 1 .. Len(s) : Len(s) - i + 1 \in 1 .. Len(t)
    BY <1>1, <1>2
  <2>3. \A i \in 1 .. Len(s) : t[Len(s) - i + 1] \in Byte
    BY <2>2, ElementOfSeq
  <2>4. Swapped(t) \in [1 .. Len(s) -> Byte]
    BY <2>1, <2>3
  <2> QED
    BY <1>1, <2>1, <2>4
<1> DEFINE t == Swapped(s)
<1>3. /\ t \in Seq(Byte) /\ Len(t) = Len(s)
      /\ \A i \in 1 .. Len(s) : t[i] = s[Len(s) - i + 1]
  BY <1>2
<1> HIDE DEF t
<1>4. /\ Swapped(t) \in Seq(Byte) /\ Len(Swapped(t)) = Len(s)
      /\ \A i \in 1 .. Len(s) : Swapped(t)[i] = t[Len(s) - i + 1]
  BY <1>2, <1>3
<1>5. \A i \in 1 .. Len(s) : Len(s) - i + 1 \in 1 .. Len(s) /\ Len(s) - (Len(s) - i + 1) + 1 = i
  BY <1>1
<1>6. \A i \in 1 .. Len(s) : Swapped(t)[i] = s[i]
  BY <1>3, <1>4, <1>5
<1>7. Swapped(t) = s
  BY <1>4, <1>6, SeqEqual
<1> QED
  BY <1>3, <1>7 DEF t

\* A number whose bytes are known is written as these, the highest first.
LEMMA Written ==
    ASSUME NEW p \in Byte, NEW q \in Byte, NEW r \in Byte, NEW s \in Byte,
           NEW n \in Nat, n = 256 * (256 * (256 * p + q) + r) + s
    PROVE  /\ Swapped(Number(4, n)) = <<p, q, r, s>>
           /\ Swapped(Number(8, n)) = <<0, 0, 0, 0, p, q, r, s>>
           /\ p = 0 /\ q = 0 => Swapped(Number(2, n)) = <<r, s>>
<1> DEFINE a == n \div 256
           b == a \div 256
<1>1. p \in 0 .. 255 /\ q \in 0 .. 255 /\ r \in 0 .. 255 /\ s \in 0 .. 255
  BY DEF Byte
<1>2. a = 256 * (256 * p + q) + r /\ n % 256 = s
  BY <1>1
<1> HIDE DEF a
<1>3. b = 256 * p + q /\ a % 256 = r
  BY <1>1, <1>2
<1> HIDE DEF b
<1>4. b \div 256 = p /\ b % 256 = q
  BY <1>1, <1>3
<1>5. \A w \in {2, 4, 8} : Number(w, n) = [i \in 1 .. w |-> IF i > 4 THEN 0 ELSE <<s, r, q, p>>[i]]
  BY <1>2, <1>3, <1>4 DEF Number, a, b
<1>6. ASSUME NEW w \in {2, 4, 8}
      PROVE  Swapped(Number(w, n)) = [i \in 1 .. w |-> IF w - i + 1 > 4 THEN 0 ELSE <<s, r, q, p>>[w - i + 1]]
  <2> DEFINE f == Number(w, n)
  <2>0. w \in Nat
    BY <1>6
  <2>1. f = [i \in 1 .. w |-> IF i > 4 THEN 0 ELSE <<s, r, q, p>>[i]]
    BY <1>5, ZenonT(40)
  <2>2. Len(f) = w
    BY <2>0, <2>1
  <2>3. Swapped(f) = [i \in 1 .. w |-> f[w - i + 1]]
    BY <2>2 DEF Swapped, Reverse
  <2>4. \A i \in 1 .. w : w - i + 1 \in 1 .. w
    BY <2>0
  <2>5. \A i \in 1 .. w : f[w - i + 1] = IF w - i + 1 > 4 THEN 0 ELSE <<s, r, q, p>>[w - i + 1]
    BY <2>1, <2>4
  <2> HIDE DEF f
  <2>6. Swapped(f) = [i \in 1 .. w |-> IF w - i + 1 > 4 THEN 0 ELSE <<s, r, q, p>>[w - i + 1]]
    BY <2>3, <2>5
  <2> QED
    BY <2>6 DEF f
<1>7. 0 \in Byte
  BY DEF Byte
<1>8. Swapped(Number(4, n)) = <<p, q, r, s>>
  <2>1. Swapped(Number(4, n)) = [i \in 1 .. 4 |-> IF 4 - i + 1 > 4 THEN 0 ELSE <<s, r, q, p>>[4 - i + 1]]
    BY <1>6
  <2>2. [i \in 1 .. 4 |-> IF 4 - i + 1 > 4 THEN 0 ELSE <<s, r, q, p>>[4 - i + 1]] = <<p, q, r, s>>
    OBVIOUS
  <2> QED
    BY <2>1, <2>2
<1>9. Swapped(Number(8, n)) = <<0, 0, 0, 0, p, q, r, s>>
  <2>1. Swapped(Number(8, n)) = [i \in 1 .. 8 |-> IF 8 - i + 1 > 4 THEN 0 ELSE <<s, r, q, p>>[8 - i + 1]]
    BY <1>6
  <2>2. [i \in 1 .. 8 |-> IF 8 - i + 1 > 4 THEN 0 ELSE <<s, r, q, p>>[8 - i + 1]] = <<0, 0, 0, 0, p, q, r, s>>
    OBVIOUS
  <2> QED
    BY <2>1, <2>2
<1>10. Swapped(Number(2, n)) = <<r, s>>
  <2>1. Swapped(Number(2, n)) = [i \in 1 .. 2 |-> IF 2 - i + 1 > 4 THEN 0 ELSE <<s, r, q, p>>[2 - i + 1]]
    BY <1>6
  <2>2. [i \in 1 .. 2 |-> IF 2 - i + 1 > 4 THEN 0 ELSE <<s, r, q, p>>[2 - i + 1]] = <<r, s>>
    OBVIOUS
  <2> QED
    BY <2>1, <2>2
<1> QED
  BY <1>8, <1>9, <1>10

\* The numbers of the requests, as the tracker reads them.
LEMMA Literals ==
    /\ Swapped(Number(4, 0)) = <<0, 0, 0, 0>> /\ Swapped(Number(4, 1)) = <<0, 0, 0, 1>>
    /\ Swapped(Number(4, 2)) = <<0, 0, 0, 2>> /\ Swapped(Number(4, 50)) = <<0, 0, 0, 50>>
    /\ Swapped(Number(8, 0)) = <<0, 0, 0, 0, 0, 0, 0, 0>>
    /\ Swapped(Number(8, 12000)) = <<0, 0, 0, 0, 0, 0, 46, 224>>
    /\ Swapped(Number(2, 6881)) = <<26, 225>>
    /\ Swapped(Magic) = <<0, 0, 4, 23, 39, 16, 25, 128>>
<1>0. {0, 1, 2, 50, 46, 224, 26, 225} \subseteq Byte
  BY DEF Byte
<1>1. Swapped(Number(4, 0)) = <<0, 0, 0, 0>> /\ Swapped(Number(8, 0)) = <<0, 0, 0, 0, 0, 0, 0, 0>>
  BY <1>0, Written
<1>2. Swapped(Number(4, 1)) = <<0, 0, 0, 1>>
  BY <1>0, Written
<1>3. Swapped(Number(4, 2)) = <<0, 0, 0, 2>>
  BY <1>0, Written
<1>4. Swapped(Number(4, 50)) = <<0, 0, 0, 50>>
  BY <1>0, Written
<1>5. Swapped(Number(8, 12000)) = <<0, 0, 0, 0, 0, 0, 46, 224>>
  <2>1. 12000 = 256 * (256 * (256 * 0 + 0) + 46) + 224
    OBVIOUS
  <2> QED
    BY <1>0, <2>1, Written
<1>6. Swapped(Number(2, 6881)) = <<26, 225>>
  <2>1. 6881 = 256 * (256 * (256 * 0 + 0) + 26) + 225
    OBVIOUS
  <2> QED
    BY <1>0, <2>1, Written, SMTT(30)
<1>7. Swapped(Magic) = <<0, 0, 4, 23, 39, 16, 25, 128>>
  <2>1. Magic = <<128, 25, 16, 39, 23, 4, 0, 0>> /\ Len(Magic) = 8
    BY DEF Magic
  <2>2. Swapped(Magic) = [i \in 1 .. 8 |-> <<128, 25, 16, 39, 23, 4, 0, 0>>[8 - i + 1]]
    BY <2>1 DEF Swapped, Reverse
  <2>3. [i \in 1 .. 8 |-> <<128, 25, 16, 39, 23, 4, 0, 0>>[8 - i + 1]] = <<0, 0, 4, 23, 39, 16, 25, 128>>
    OBVIOUS
  <2> QED
    BY <2>2, <2>3
<1> QED
  BY <1>1, <1>2, <1>3, <1>4, <1>5, <1>6, <1>7

-----------------------------------------------------------------------------
(* The requests, as the tracker reads them.                                 *)

Tids == {t \in Seq(Byte) : Len(t) = 4}

\* The connection id, the action and the transaction id come first.
LEMMA HeaderBytes ==
    ASSUME NEW req,
           req.connection_id \in Seq(Byte), Len(req.connection_id) = 8,
           req.action \in Seq(Byte), Len(req.action) = 4, req.transaction_id \in Tids
    PROVE  /\ Header(req) \in Seq(Byte) /\ Len(Header(req)) = 16
           /\ Has(Header(req), 0, Swapped(req.connection_id) \o Swapped(req.action))
           /\ Len(Swapped(req.connection_id) \o Swapped(req.action)) = 12
           /\ Swapped(req.connection_id) \o Swapped(req.action) \in Seq(Byte)
           /\ Has(Header(req), 12, Swapped(req.transaction_id))
<1> DEFINE a == Swapped(req.connection_id)
           b == Swapped(req.action)
           c == Swapped(req.transaction_id)
           ab == a \o b
<1>1. a \in Seq(Byte) /\ Len(a) = 8 /\ b \in Seq(Byte) /\ Len(b) = 4 /\ c \in Seq(Byte) /\ Len(c) = 4
  BY SwappedBytes DEF Tids
<1>2. Header(req) = ab \o c
  BY DEF Header
<1> HIDE DEF a, b, c
<1>3. ab \in Seq(Byte) /\ Len(ab) = 12
  <2>1. a \o b \in Seq(Byte) /\ Len(a \o b) = Len(a) + Len(b)
    BY <1>1, HasJoined
  <2> QED
    BY <1>1, <2>1
<1> HIDE DEF ab
<1>4. /\ ab \o c \in Seq(Byte) /\ Len(ab \o c) = Len(ab) + Len(c)
      /\ Has(ab \o c, 0, ab) /\ Has(ab \o c, Len(ab), c)
  BY <1>1, <1>3, HasJoined
<1>5. ab \o c \in Seq(Byte) /\ Len(ab \o c) = 16 /\ Has(ab \o c, 0, ab) /\ Has(ab \o c, 12, c)
  BY <1>1, <1>3, <1>4
<1> QED
  BY <1>2, <1>3, <1>5 DEF a, b, c, ab


\* The widths of an announce's fields.
AnnounceFields(req) ==
    /\ req.connection_id \in Seq(Byte) /\ Len(req.connection_id) = 8
    /\ req.action \in Seq(Byte) /\ Len(req.action) = 4 /\ req.transaction_id \in Tids
    /\ req.info_hash \in Seq(Byte) /\ Len(req.info_hash) = 20
    /\ req.peer_id \in Seq(Byte) /\ Len(req.peer_id) = 20
    /\ req.downloaded \in Seq(Byte) /\ Len(req.downloaded) = 8
    /\ req.left \in Seq(Byte) /\ Len(req.left) = 8
    /\ req.uploaded \in Seq(Byte) /\ Len(req.uploaded) = 8
    /\ req.event \in Seq(Byte) /\ Len(req.event) = 4
    /\ req.ip_addr \in Seq(Byte) /\ Len(req.ip_addr) = 4
    /\ req.key \in Seq(Byte) /\ Len(req.key) = 4
    /\ req.num_want \in Seq(Byte) /\ Len(req.num_want) = 4
    /\ req.port \in Seq(Byte) /\ Len(req.port) = 2

\* Every field of an announce is where the tracker looks for it.
LEMMA AnnounceBytes ==
    ASSUME NEW req, AnnounceFields(req)
    PROVE  /\ Len(Announce(req)) = 98
           /\ Slice(Announce(req), 0, 12) = Swapped(req.connection_id) \o Swapped(req.action)
           /\ Slice(Announce(req), 12, 4) = Swapped(req.transaction_id)
           /\ Slice(Announce(req), 16, 20) = req.info_hash
           /\ Slice(Announce(req), 36, 20) = req.peer_id
           /\ Slice(Announce(req), 56, 8) = Swapped(req.downloaded)
           /\ Slice(Announce(req), 64, 8) = Swapped(req.left)
           /\ Slice(Announce(req), 72, 8) = Swapped(req.uploaded)
           /\ Slice(Announce(req), 80, 4) = Swapped(req.event)
           /\ Slice(Announce(req), 84, 4) = Swapped(req.ip_addr)
           /\ Slice(Announce(req), 88, 4) = Swapped(req.key)
           /\ Slice(Announce(req), 92, 4) = Swapped(req.num_want)
           /\ Slice(Announce(req), 96, 2) = Swapped(req.port)
<1> DEFINE p0 == Swapped(req.connection_id) \o Swapped(req.action)
           t0 == Swapped(req.transaction_id)
           x0 == Header(req)
           p1 == req.info_hash
           x1 == x0 \o p1
           p2 == req.peer_id
           x2 == x1 \o p2
           p3 == Swapped(req.downloaded)
           x3 == x2 \o p3
           p4 == Swapped(req.left)
           x4 == x3 \o p4
           p5 == Swapped(req.uploaded)
           x5 == x4 \o p5
           p6 == Swapped(req.event)
           x6 == x5 \o p6
           p7 == Swapped(req.ip_addr)
           x7 == x6 \o p7
           p8 == Swapped(req.key)
           x8 == x7 \o p8
           p9 == Swapped(req.num_want)
           x9 == x8 \o p9
           p10 == Swapped(req.port)
           x10 == x9 \o p10
<1>0. Announce(req) = x10
  BY DEF Announce
<1>1. /\ x0 \in Seq(Byte) /\ Len(x0) = 16 /\ Has(x0, 0, p0) /\ Has(x0, 12, t0)
      /\ p0 \in Seq(Byte) /\ t0 \in Seq(Byte) /\ Len(p0) = 12 /\ Len(t0) = 4
  BY HeaderBytes, SwappedBytes DEF Tids, AnnounceFields
<1>2. /\ p1 \in Seq(Byte) /\ Len(p1) = 20
      /\ p2 \in Seq(Byte) /\ Len(p2) = 20
      /\ p3 \in Seq(Byte) /\ Len(p3) = 8
      /\ p4 \in Seq(Byte) /\ Len(p4) = 8
      /\ p5 \in Seq(Byte) /\ Len(p5) = 8
      /\ p6 \in Seq(Byte) /\ Len(p6) = 4
      /\ p7 \in Seq(Byte) /\ Len(p7) = 4
      /\ p8 \in Seq(Byte) /\ Len(p8) = 4
      /\ p9 \in Seq(Byte) /\ Len(p9) = 4
      /\ p10 \in Seq(Byte) /\ Len(p10) = 2
  BY SwappedBytes DEF AnnounceFields
<1> HIDE DEF p0, t0, x0, p1, p2, p3, p4, p5, p6, p7, p8, p9, p10
<1>11. /\ x1 \in Seq(Byte) /\ Len(x1) = 36 /\ Has(x1, 16, p1)
       /\ \A o \in Nat, x \in Seq(Byte) : Has(x0, o, x) => Has(x1, o, x)
  <2>1. p1 \in Seq(Byte) /\ Len(p1) = 20 /\ x0 \in Seq(Byte) /\ Len(x0) = 16
    BY <1>1, <1>2
  <2>2. /\ x1 \in Seq(Byte) /\ Len(x1) = Len(x0) + Len(p1) /\ Has(x1, Len(x0), p1)
        /\ \A o \in Nat, x \in Seq(Byte) : Has(x0, o, x) => Has(x1, o, x)
    BY <2>1, HasJoined
  <2> QED
    BY <2>1, <2>2
<1> HIDE DEF x1
<1>12. /\ x2 \in Seq(Byte) /\ Len(x2) = 56 /\ Has(x2, 36, p2)
       /\ \A o \in Nat, x \in Seq(Byte) : Has(x1, o, x) => Has(x2, o, x)
  <2>1. p2 \in Seq(Byte) /\ Len(p2) = 20 /\ x1 \in Seq(Byte) /\ Len(x1) = 36
    BY <1>11, <1>2
  <2>2. /\ x2 \in Seq(Byte) /\ Len(x2) = Len(x1) + Len(p2) /\ Has(x2, Len(x1), p2)
        /\ \A o \in Nat, x \in Seq(Byte) : Has(x1, o, x) => Has(x2, o, x)
    BY <2>1, HasJoined
  <2> QED
    BY <2>1, <2>2
<1> HIDE DEF x2
<1>13. /\ x3 \in Seq(Byte) /\ Len(x3) = 64 /\ Has(x3, 56, p3)
       /\ \A o \in Nat, x \in Seq(Byte) : Has(x2, o, x) => Has(x3, o, x)
  <2>1. p3 \in Seq(Byte) /\ Len(p3) = 8 /\ x2 \in Seq(Byte) /\ Len(x2) = 56
    BY <1>12, <1>2
  <2>2. /\ x3 \in Seq(Byte) /\ Len(x3) = Len(x2) + Len(p3) /\ Has(x3, Len(x2), p3)
        /\ \A o \in Nat, x \in Seq(Byte) : Has(x2, o, x) => Has(x3, o, x)
    BY <2>1, HasJoined
  <2> QED
    BY <2>1, <2>2
<1> HIDE DEF x3
<1>14. /\ x4 \in Seq(Byte) /\ Len(x4) = 72 /\ Has(x4, 64, p4)
       /\ \A o \in Nat, x \in Seq(Byte) : Has(x3, o, x) => Has(x4, o, x)
  <2>1. p4 \in Seq(Byte) /\ Len(p4) = 8 /\ x3 \in Seq(Byte) /\ Len(x3) = 64
    BY <1>13, <1>2
  <2>2. /\ x4 \in Seq(Byte) /\ Len(x4) = Len(x3) + Len(p4) /\ Has(x4, Len(x3), p4)
        /\ \A o \in Nat, x \in Seq(Byte) : Has(x3, o, x) => Has(x4, o, x)
    BY <2>1, HasJoined
  <2> QED
    BY <2>1, <2>2
<1> HIDE DEF x4
<1>15. /\ x5 \in Seq(Byte) /\ Len(x5) = 80 /\ Has(x5, 72, p5)
       /\ \A o \in Nat, x \in Seq(Byte) : Has(x4, o, x) => Has(x5, o, x)
  <2>1. p5 \in Seq(Byte) /\ Len(p5) = 8 /\ x4 \in Seq(Byte) /\ Len(x4) = 72
    BY <1>14, <1>2
  <2>2. /\ x5 \in Seq(Byte) /\ Len(x5) = Len(x4) + Len(p5) /\ Has(x5, Len(x4), p5)
        /\ \A o \in Nat, x \in Seq(Byte) : Has(x4, o, x) => Has(x5, o, x)
    BY <2>1, HasJoined, ZenonT(40)
  <2> QED
    BY <2>1, <2>2
<1> HIDE DEF x5
<1>16. /\ x6 \in Seq(Byte) /\ Len(x6) = 84 /\ Has(x6, 80, p6)
       /\ \A o \in Nat, x \in Seq(Byte) : Has(x5, o, x) => Has(x6, o, x)
  <2>1. p6 \in Seq(Byte) /\ Len(p6) = 4 /\ x5 \in Seq(Byte) /\ Len(x5) = 80
    BY <1>15, <1>2
  <2>2. /\ x6 \in Seq(Byte) /\ Len(x6) = Len(x5) + Len(p6) /\ Has(x6, Len(x5), p6)
        /\ \A o \in Nat, x \in Seq(Byte) : Has(x5, o, x) => Has(x6, o, x)
    BY <2>1, HasJoined
  <2> QED
    BY <2>1, <2>2
<1> HIDE DEF x6
<1>17. /\ x7 \in Seq(Byte) /\ Len(x7) = 88 /\ Has(x7, 84, p7)
       /\ \A o \in Nat, x \in Seq(Byte) : Has(x6, o, x) => Has(x7, o, x)
  <2>1. p7 \in Seq(Byte) /\ Len(p7) = 4 /\ x6 \in Seq(Byte) /\ Len(x6) = 84
    BY <1>16, <1>2
  <2>2. /\ x7 \in Seq(Byte) /\ Len(x7) = Len(x6) + Len(p7) /\ Has(x7, Len(x6), p7)
        /\ \A o \in Nat, x \in Seq(Byte) : Has(x6, o, x) => Has(x7, o, x)
    BY <2>1, HasJoined
  <2> QED
    BY <2>1, <2>2
<1> HIDE DEF x7
<1>18. /\ x8 \in Seq(Byte) /\ Len(x8) = 92 /\ Has(x8, 88, p8)
       /\ \A o \in Nat, x \in Seq(Byte) : Has(x7, o, x) => Has(x8, o, x)
  <2>1. p8 \in Seq(Byte) /\ Len(p8) = 4 /\ x7 \in Seq(Byte) /\ Len(x7) = 88
    BY <1>17, <1>2
  <2>2. /\ x8 \in Seq(Byte) /\ Len(x8) = Len(x7) + Len(p8) /\ Has(x8, Len(x7), p8)
        /\ \A o \in Nat, x \in Seq(Byte) : Has(x7, o, x) => Has(x8, o, x)
    BY <2>1, HasJoined, ZenonT(40)
  <2> QED
    BY <2>1, <2>2
<1> HIDE DEF x8
<1>19. /\ x9 \in Seq(Byte) /\ Len(x9) = 96 /\ Has(x9, 92, p9)
       /\ \A o \in Nat, x \in Seq(Byte) : Has(x8, o, x) => Has(x9, o, x)
  <2>1. p9 \in Seq(Byte) /\ Len(p9) = 4 /\ x8 \in Seq(Byte) /\ Len(x8) = 92
    BY <1>18, <1>2
  <2>2. /\ x9 \in Seq(Byte) /\ Len(x9) = Len(x8) + Len(p9) /\ Has(x9, Len(x8), p9)
        /\ \A o \in Nat, x \in Seq(Byte) : Has(x8, o, x) => Has(x9, o, x)
    BY <2>1, HasJoined, ZenonT(40)
  <2> QED
    BY <2>1, <2>2
<1> HIDE DEF x9
<1>20. /\ x10 \in Seq(Byte) /\ Len(x10) = 98 /\ Has(x10, 96, p10)
       /\ \A o \in Nat, x \in Seq(Byte) : Has(x9, o, x) => Has(x10, o, x)
  <2>1. p10 \in Seq(Byte) /\ Len(p10) = 2 /\ x9 \in Seq(Byte) /\ Len(x9) = 96
    BY <1>19, <1>2
  <2>2. /\ x10 \in Seq(Byte) /\ Len(x10) = Len(x9) + Len(p10) /\ Has(x10, Len(x9), p10)
        /\ \A o \in Nat, x \in Seq(Byte) : Has(x9, o, x) => Has(x10, o, x)
    BY <2>1, HasJoined
  <2> QED
    BY <2>1, <2>2
<1> HIDE DEF x10
<1>29. \A o \in Nat, x \in Seq(Byte) : Has(x9, o, x) => Has(x10, o, x)
  BY <1>20
<1>28. \A o \in Nat, x \in Seq(Byte) : Has(x8, o, x) => Has(x10, o, x)
  BY <1>19, <1>29
<1>27. \A o \in Nat, x \in Seq(Byte) : Has(x7, o, x) => Has(x10, o, x)
  BY <1>18, <1>28
<1>26. \A o \in Nat, x \in Seq(Byte) : Has(x6, o, x) => Has(x10, o, x)
  BY <1>17, <1>27
<1>25. \A o \in Nat, x \in Seq(Byte) : Has(x5, o, x) => Has(x10, o, x)
  BY <1>16, <1>26
<1>24. \A o \in Nat, x \in Seq(Byte) : Has(x4, o, x) => Has(x10, o, x)
  BY <1>15, <1>25
<1>23. \A o \in Nat, x \in Seq(Byte) : Has(x3, o, x) => Has(x10, o, x)
  BY <1>14, <1>24
<1>22. \A o \in Nat, x \in Seq(Byte) : Has(x2, o, x) => Has(x10, o, x)
  BY <1>13, <1>23
<1>21. \A o \in Nat, x \in Seq(Byte) : Has(x1, o, x) => Has(x10, o, x)
  BY <1>12, <1>22
<1>30. \A o \in Nat, x \in Seq(Byte) : Has(x0, o, x) => Has(x10, o, x)
  BY <1>11, <1>21
<1>40. Slice(x10, 0, 12) = p0
  <2>1. Has(x10, 0, p0)
    BY <1>1, <1>30
  <2> QED
    BY <1>1, <2>1 DEF Has
<1>50. Slice(x10, 12, 4) = t0
  <2>1. Has(x10, 12, t0)
    BY <1>1, <1>30
  <2> QED
    BY <1>1, <2>1 DEF Has
<1>41. Slice(x10, 16, 20) = p1
  <2>1. Has(x10, 16, p1)
    BY <1>2, <1>11, <1>21
  <2> QED
    BY <1>2, <2>1 DEF Has
<1>42. Slice(x10, 36, 20) = p2
  <2>1. Has(x10, 36, p2)
    BY <1>2, <1>12, <1>22
  <2> QED
    BY <1>2, <2>1 DEF Has
<1>43. Slice(x10, 56, 8) = p3
  <2>1. Has(x10, 56, p3)
    BY <1>2, <1>13, <1>23
  <2> QED
    BY <1>2, <2>1 DEF Has
<1>44. Slice(x10, 64, 8) = p4
  <2>1. Has(x10, 64, p4)
    BY <1>2, <1>14, <1>24
  <2> QED
    BY <1>2, <2>1 DEF Has
<1>45. Slice(x10, 72, 8) = p5
  <2>1. Has(x10, 72, p5)
    BY <1>2, <1>15, <1>25
  <2> QED
    BY <1>2, <2>1 DEF Has
<1>46. Slice(x10, 80, 4) = p6
  <2>1. Has(x10, 80, p6)
    BY <1>2, <1>16, <1>26
  <2> QED
    BY <1>2, <2>1 DEF Has
<1>47. Slice(x10, 84, 4) = p7
  <2>1. Has(x10, 84, p7)
    BY <1>2, <1>17, <1>27
  <2> QED
    BY <1>2, <2>1 DEF Has
<1>48. Slice(x10, 88, 4) = p8
  <2>1. Has(x10, 88, p8)
    BY <1>2, <1>18, <1>28
  <2> QED
    BY <1>2, <2>1 DEF Has
<1>49. Slice(x10, 92, 4) = p9
  <2>1. Has(x10, 92, p9)
    BY <1>2, <1>19, <1>29
  <2> QED
    BY <1>2, <2>1 DEF Has
<1>51. Slice(x10, 96, 2) = p10
  <2>1. Has(x10, 96, p10)
    BY <1>2, <1>20
  <2> QED
    BY <1>2, <2>1 DEF Has
<1> QED
  BY <1>0, <1>20, <1>40, <1>41, <1>42, <1>43, <1>44, <1>45, <1>46, <1>47, <1>48, <1>49, <1>50, <1>51 DEF p0, t0, p1, p2, p3, p4, p5, p6, p7, p8, p9, p10

\* The small numbers that are sent.
LEMMA Small ==
    /\ \A n \in {0, 1, 2, 50, 12000} : n \in Uint31
    /\ \A n \in {0, 6881} : n \in Uint16
<1>1. \A n \in {0, 1, 2, 50} : n \in Nat /\ n \div 256 = 0
  OBVIOUS
<1>2. 12000 \in Nat /\ 12000 \div 256 = 46
  OBVIOUS
<1>3. 0 < 128 * (256 * 256) /\ 46 < 128 * (256 * 256)
  OBVIOUS
<1>4. \A n \in {0, 1, 2, 50, 12000} : n \in Uint31
  BY <1>1, <1>2, <1>3 DEF Uint31
<1>5. \A n \in {0, 6881} : n \in Nat /\ n < 256 * 256
  OBVIOUS
<1> QED
  BY <1>4, <1>5 DEF Uint16

\* The bytes that are written out.
LEMMA Constants ==
    /\ Magic \in Seq(Byte) /\ Len(Magic) = 8
    /\ Assigned \in Seq(Byte) /\ Len(Assigned) = 8
<1>1. Magic \in [1 .. 8 -> Byte]
  BY DEF Magic, Byte
<1>2. Assigned \in [1 .. 8 -> Byte]
  BY DEF Assigned, Byte
<1> QED
  BY <1>1, <1>2, Numbered

\* The tracker takes a connect request for one.
LEMMA ConnectSent ==
    ASSUME NEW t \in Tids, NEW x, x = Serialized([ConnectRequest(t) EXCEPT !.connection_id = Magic])
    PROVE  /\ Len(x) = 16 /\ Slice(x, 12, 4) = Swapped(t)
           /\ Slice(x, 0, 12) = <<0, 0, 4, 23, 39, 16, 25, 128>> \o <<0, 0, 0, 0>>
<1> DEFINE r == [ConnectRequest(t) EXCEPT !.connection_id = Magic]
<1>1. x = Header(r)
  BY DEF Serialized, ConnectRequest
<1>2. r.connection_id = Magic /\ r.action = Number(4, 0) /\ r.transaction_id = t
  BY DEF ConnectRequest
<1> HIDE DEF r
<1>3. Number(4, 0) \in Seq(Byte) /\ Len(Number(4, 0)) = 4
  BY Small, NumberBytes
<1>4. /\ Len(Header(r)) = 16 /\ Has(Header(r), 12, Swapped(t))
      /\ Has(Header(r), 0, Swapped(Magic) \o Swapped(Number(4, 0)))
      /\ Len(Swapped(Magic) \o Swapped(Number(4, 0))) = 12
      /\ Swapped(Magic) \o Swapped(Number(4, 0)) \in Seq(Byte)
  BY <1>2, <1>3, Constants, HeaderBytes
<1>5. Swapped(t) \in Seq(Byte) /\ Len(Swapped(t)) = 4
  BY SwappedBytes DEF Tids
<1>6. Slice(Header(r), 12, 4) = Swapped(t)
  BY <1>4, <1>5, HasSlice
<1>7. Slice(Header(r), 0, 12) = Swapped(Magic) \o Swapped(Number(4, 0))
  BY <1>4, HasSlice
<1>8. Swapped(Magic) = <<0, 0, 4, 23, 39, 16, 25, 128>> /\ Swapped(Number(4, 0)) = <<0, 0, 0, 0>>
  BY Literals
<1> QED
  BY <1>1, <1>4, <1>6, <1>7, <1>8

\* What the client is, in the announce.
Identified ==
    /\ metainfo.info_hash \in Seq(Byte) /\ Len(metainfo.info_hash) = 20
    /\ peer_id \in Seq(Byte) /\ Len(peer_id) = 20 /\ key \in Tids

\* An announce of which every field is understood.
Understood(x, t) ==
    /\ Len(x) = 98 /\ Slice(x, 12, 4) = Swapped(t)
    /\ Slice(x, 0, 12) = Assigned \o <<0, 0, 0, 1>>
    /\ Slice(x, 16, 20) = metainfo.info_hash /\ Slice(x, 36, 20) = peer_id
    /\ Slice(x, 56, 8) = <<0, 0, 0, 0, 0, 0, 0, 0>> /\ Slice(x, 64, 8) = <<0, 0, 0, 0, 0, 0, 46, 224>>
    /\ Slice(x, 72, 8) = <<0, 0, 0, 0, 0, 0, 0, 0>>
    /\ Slice(x, 80, 4) = <<0, 0, 0, 2>> /\ Slice(x, 84, 4) = <<0, 0, 0, 0>>
    /\ Slice(x, 88, 4) = Swapped(key) /\ Slice(x, 92, 4) = <<0, 0, 0, 50>> /\ Slice(x, 96, 2) = <<26, 225>>

\* The tracker takes an announce for one, and understands every field of it.
LEMMA AnnounceSent ==
    ASSUME Identified, NEW t \in Tids,
           NEW x, x = Serialized([AnnounceRequest(t) EXCEPT !.connection_id = Swapped(Assigned)])
    PROVE  Understood(x, t)
<1> DEFINE r == [AnnounceRequest(t) EXCEPT !.connection_id = Swapped(Assigned)]
<1>1. x = Announce(r)
  BY DEF Serialized, AnnounceRequest
<1>2. /\ r.connection_id = Swapped(Assigned) /\ r.action = Number(4, 1) /\ r.transaction_id = t
      /\ r.info_hash = metainfo.info_hash /\ r.peer_id = peer_id
      /\ r.downloaded = Number(8, 0) /\ r.left = Number(8, 12000) /\ r.uploaded = Number(8, 0)
      /\ r.event = Number(4, 2) /\ r.ip_addr = Number(4, 0) /\ r.key = key
      /\ r.num_want = Number(4, 50) /\ r.port = Number(2, 6881)
  BY DEF AnnounceRequest, STARTED
<1> HIDE DEF r
<1>3. /\ \A n \in {0, 1, 2, 50, 12000} : Number(4, n) \in Seq(Byte) /\ Len(Number(4, n)) = 4
                                         /\ Number(8, n) \in Seq(Byte) /\ Len(Number(8, n)) = 8
      /\ Number(2, 6881) \in Seq(Byte) /\ Len(Number(2, 6881)) = 2
  BY Small, NumberBytes
<1>4. /\ Swapped(Assigned) \in Seq(Byte) /\ Len(Swapped(Assigned)) = 8
      /\ Swapped(Swapped(Assigned)) = Assigned
  BY Constants, SwappedBytes
<1>5. AnnounceFields(r)
  BY <1>2, <1>3, <1>4 DEF AnnounceFields, Identified, Tids
<1>6. /\ Len(Announce(r)) = 98
      /\ Slice(Announce(r), 0, 12) = Swapped(r.connection_id) \o Swapped(r.action)
      /\ Slice(Announce(r), 12, 4) = Swapped(r.transaction_id)
      /\ Slice(Announce(r), 16, 20) = r.info_hash /\ Slice(Announce(r), 36, 20) = r.peer_id
      /\ Slice(Announce(r), 56, 8) = Swapped(r.downloaded) /\ Slice(Announce(r), 64, 8) = Swapped(r.left)
      /\ Slice(Announce(r), 72, 8) = Swapped(r.uploaded) /\ Slice(Announce(r), 80, 4) = Swapped(r.event)
      /\ Slice(Announce(r), 84, 4) = Swapped(r.ip_addr) /\ Slice(Announce(r), 88, 4) = Swapped(r.key)
      /\ Slice(Announce(r), 92, 4) = Swapped(r.num_want) /\ Slice(Announce(r), 96, 2) = Swapped(r.port)
  BY <1>5, AnnounceBytes
<1>7. Swapped(r.connection_id) = Assigned /\ Swapped(r.action) = <<0, 0, 0, 1>>
  BY <1>2, <1>4, Literals
<1>8. Swapped(r.downloaded) = <<0, 0, 0, 0, 0, 0, 0, 0>> /\ Swapped(r.uploaded) = <<0, 0, 0, 0, 0, 0, 0, 0>>
  BY <1>2, Literals
<1>9. Swapped(r.left) = <<0, 0, 0, 0, 0, 0, 46, 224>>
  BY <1>2, Literals
<1>10. /\ Swapped(r.event) = <<0, 0, 0, 2>> /\ Swapped(r.ip_addr) = <<0, 0, 0, 0>>
       /\ Swapped(r.num_want) = <<0, 0, 0, 50>> /\ Swapped(r.port) = <<26, 225>>
  BY <1>2, Literals
<1>11. r.transaction_id = t /\ r.info_hash = metainfo.info_hash /\ r.peer_id = peer_id /\ r.key = key
  BY <1>2
<1> QED
  BY <1>1, <1>6, <1>7, <1>8, <1>9, <1>10, <1>11 DEF Understood

-----------------------------------------------------------------------------
(* The answers, as the client reads them.                                   *)

\* The datagram lies at the start of the buffer, and zeroes follow it.
LEMMA ResBufBytes ==
    ASSUME NEW g \in Seq(Byte), Len(g) <= BufferSize
    PROVE  /\ ResBuf(g) \in Seq(Byte) /\ Len(ResBuf(g)) = BufferSize
           /\ \A i \in Len(g) + 1 .. BufferSize : ResBuf(g)[i] = 0
           /\ \A o \in Nat, x \in Seq(Byte) : Has(g, o, x) => Has(ResBuf(g), o, x)
<1> DEFINE z == [i \in 1 .. BufferSize - Len(g) |-> 0]
<1>1. Len(g) \in Nat /\ BufferSize - Len(g) \in Nat /\ BufferSize \in Nat
  BY LenProperties DEF BufferSize
<1>2. z \in Seq(Byte) /\ Len(z) = BufferSize - Len(g)
  <2>1. z \in [1 .. BufferSize - Len(g) -> Byte]
    BY DEF Byte
  <2> QED
    BY <1>1, <2>1, Numbered
<1>3. \A i \in 1 .. BufferSize - Len(g) : z[i] = 0
  OBVIOUS
<1>4. ResBuf(g) = g \o z
  BY DEF ResBuf
<1> HIDE DEF z
<1>5. /\ g \o z \in Seq(Byte) /\ Len(g \o z) = Len(g) + Len(z)
      /\ \A o \in Nat, x \in Seq(Byte) : Has(g, o, x) => Has(g \o z, o, x)
  BY <1>2, HasJoined
<1>6. \A i \in 1 .. Len(g) + Len(z) : (g \o z)[i] = IF i <= Len(g) THEN g[i] ELSE z[i - Len(g)]
  BY <1>2, ConcatProperties
<1>7. Len(g) + Len(z) = BufferSize
  BY <1>1, <1>2
<1>8. ASSUME NEW i \in Len(g) + 1 .. BufferSize PROVE (g \o z)[i] = 0
  <2>1. i \in 1 .. Len(g) + Len(z) /\ ~(i <= Len(g)) /\ i - Len(g) \in 1 .. BufferSize - Len(g)
    BY <1>1, <1>7
  <2> QED
    BY <1>3, <1>6, <2>1
<1> QED
  BY <1>4, <1>5, <1>7, <1>8

\* What lies in what lies in the buffer lies in the buffer.
LEMMA HasWithin ==
    ASSUME NEW d \in Seq(Byte), NEW o \in Nat, NEW x \in Seq(Byte), Has(d, o, x),
           NEW n \in Nat, NEW y \in Seq(Byte), Has(x, n, y)
    PROVE  Has(d, o + n, y)
<1>1. Len(x) \in Nat /\ Len(y) \in Nat /\ o + Len(x) <= Len(d) /\ n + Len(y) <= Len(x)
  BY LenProperties DEF Has
<1>2. o + n \in Nat /\ o + n + Len(y) <= Len(d)
  BY <1>1, LenProperties
<1>3. \A j \in 1 .. Len(x) : d[o + j] = x[j]
  BY <1>1, HasBytes
<1>4. \A j \in 1 .. Len(y) : x[n + j] = y[j]
  BY <1>1, HasBytes
<1>5. ASSUME NEW j \in 1 .. Len(y) PROVE d[o + n + j] = y[j]
  <2>1. n + j \in 1 .. Len(x) /\ o + (n + j) = o + n + j
    BY <1>1
  <2> QED
    BY <1>3, <1>4, <2>1
<1> QED
  BY <1>2, <1>5, HasBytes

\* A number is read where its bytes lie.
LEMMA FieldRead ==
    ASSUME NEW d, NEW o \in Nat, NEW x \in Seq(Byte), NEW n, Len(x) = n, Has(d, o, x)
    PROVE  Field(d, o, n) = Swapped(x)
  BY DEF Has, Slice, Field

\* The action of an answer, in the program's order of bytes.
LEMMA Actions ==
    /\ \A k \in {0, 1, 3} : /\ <<0, 0, 0, k>> \in Seq(Byte) /\ Len(<<0, 0, 0, k>>) = 4
                            /\ AsNat(Swapped(<<0, 0, 0, k>>)) = k
<1> SUFFICES ASSUME NEW k \in {0, 1, 3}
             PROVE  /\ <<0, 0, 0, k>> \in Seq(Byte) /\ Len(<<0, 0, 0, k>>) = 4
                    /\ AsNat(Swapped(<<0, 0, 0, k>>)) = k
  OBVIOUS
<1> DEFINE s == <<0, 0, 0, k>>
<1>1. s \in [1 .. 4 -> Byte]
  BY DEF Byte
<1>2. s \in Seq(Byte) /\ Len(s) = 4
  BY <1>1, Numbered
<1>3. s[1] = 0 /\ s[2] = 0 /\ s[3] = 0 /\ s[4] = k
  OBVIOUS
<1> HIDE DEF s
<1>4. Len(Swapped(s)) = 4 /\ \A i \in 1 .. 4 : Swapped(s)[i] = s[4 - i + 1]
  BY <1>2, SwappedBytes
<1>5. Swapped(s)[1] = k /\ Swapped(s)[2] = 0 /\ Swapped(s)[3] = 0 /\ Swapped(s)[4] = 0
  BY <1>3, <1>4
<1>6. AsNat(Swapped(s)) = k
  BY <1>4, <1>5 DEF AsNat
<1> QED
  BY <1>2, <1>6 DEF s

\* An answer's action, its transaction id and what follows.
LEMMA AnswerHeader ==
    ASSUME NEW k \in {0, 1, 3}, NEW id \in Seq(Byte), Len(id) = 4, NEW b \in Seq(Byte),
           8 + Len(b) <= BufferSize,
           NEW d, d = ResBuf(<<0, 0, 0, k>> \o id \o b)
    PROVE  /\ d \in Seq(Byte) /\ Len(d) = BufferSize
           /\ AsNat(Field(d, 0, 4)) = k /\ Field(d, 4, 4) = Swapped(id)
           /\ Has(d, 8, b)
           /\ \A i \in 9 + Len(b) .. BufferSize : d[i] = 0
<1> DEFINE a == <<0, 0, 0, k>>
           ai == a \o id
           g == ai \o b
<1>1. a \in Seq(Byte) /\ Len(a) = 4 /\ AsNat(Swapped(a)) = k
  BY Actions
<1> HIDE DEF a
<1>2. ai \in Seq(Byte) /\ Len(ai) = 8 /\ Has(ai, 0, a) /\ Has(ai, 4, id)
  <2>1. ai \in Seq(Byte) /\ Len(ai) = Len(a) + Len(id) /\ Has(ai, 0, a) /\ Has(ai, Len(a), id)
    BY <1>1, HasJoined
  <2> QED
    BY <1>1, <2>1
<1> HIDE DEF ai
<1>3. /\ g \in Seq(Byte) /\ Len(g) = 8 + Len(b) /\ Has(g, 8, b)
      /\ Has(g, 0, a) /\ Has(g, 4, id)
  <2>1. /\ g \in Seq(Byte) /\ Len(g) = Len(ai) + Len(b) /\ Has(g, Len(ai), b)
        /\ \A o \in Nat, x \in Seq(Byte) : Has(ai, o, x) => Has(g, o, x)
    BY <1>2, HasJoined
  <2>2. Len(b) \in Nat
    BY LenProperties
  <2>3. Has(g, 0, a) /\ Has(g, 4, id)
    BY <1>1, <1>2, <2>1
  <2> QED
    BY <1>2, <2>1, <2>2, <2>3
<1>4. d = ResBuf(g)
  BY DEF g, ai, a
<1> HIDE DEF g
<1>5. /\ d \in Seq(Byte) /\ Len(d) = BufferSize
      /\ \A i \in Len(g) + 1 .. BufferSize : d[i] = 0
      /\ \A o \in Nat, x \in Seq(Byte) : Has(g, o, x) => Has(d, o, x)
  <2>1. g \in Seq(Byte) /\ Len(g) <= BufferSize
    BY <1>3
  <2>2. /\ ResBuf(g) \in Seq(Byte) /\ Len(ResBuf(g)) = BufferSize
        /\ \A i \in Len(g) + 1 .. BufferSize : ResBuf(g)[i] = 0
        /\ \A o \in Nat, x \in Seq(Byte) : Has(g, o, x) => Has(ResBuf(g), o, x)
    BY <2>1, ResBufBytes
  <2> QED
    BY <1>4, <2>2
<1>6. Has(d, 0, a) /\ Has(d, 4, id) /\ Has(d, 8, b)
  BY <1>1, <1>3, <1>5
<1>7. Field(d, 0, 4) = Swapped(a) /\ Field(d, 4, 4) = Swapped(id)
  BY <1>1, <1>6, FieldRead
<1>8. Len(g) + 1 = 9 + Len(b)
  BY <1>3, LenProperties
<1> QED
  BY <1>1, <1>5, <1>6, <1>7, <1>8

\* The error is read as it was sent.
LEMMA ErrorRead ==
    ASSUME NEW m \in Seq(1 .. 255), 8 + Len(m) <= BufferSize, NEW d \in Seq(Byte), Len(d) = BufferSize,
           Has(d, 8, m), \A i \in 9 + Len(m) .. BufferSize : d[i] = 0
    PROVE  ErrorMessage(d) = m
<1> DEFINE n == 9 + Len(m)
           S == {i \in 9 .. Len(d) + 1 : i > Len(d) \/ d[i] = 0}
<1>1. Len(m) \in Nat /\ n \in Nat /\ BufferSize \in Nat /\ n <= BufferSize + 1
  BY LenProperties DEF BufferSize
<1>2. n \in S
  <2>1. n \in 9 .. Len(d) + 1
    BY <1>1
  <2>2. n > Len(d) \/ n \in 9 + Len(m) .. BufferSize
    BY <1>1
  <2> QED
    BY <2>1, <2>2
<1>3. m \in Seq(Byte) /\ \A j \in 1 .. Len(m) : m[j] \in 1 .. 255
  <2>1. \A j \in 1 .. Len(m) : m[j] \in 1 .. 255 /\ m[j] \in Byte
    BY ElementOfSeq DEF Byte
  <2>2. m = [j \in 1 .. Len(m) |-> m[j]]
    OBVIOUS
  <2>3. m \in [1 .. Len(m) -> Byte]
    BY <2>1, <2>2
  <2> QED
    BY <1>1, <2>1, <2>3, Numbered
<1>4. \A j \in 1 .. Len(m) : d[8 + j] = m[j]
  <2>1. 8 \in Nat /\ 8 + Len(m) <= Len(d)
    OBVIOUS
  <2> QED
    BY <1>3, <2>1, HasBytes
<1>5. ASSUME NEW i \in S PROVE n <= i
  <2>1. CASE i > Len(d)
    BY <1>1, <2>1
  <2>2. CASE d[i] = 0 /\ ~(i > Len(d))
    <3>1. SUFFICES ASSUME i < n PROVE FALSE
      BY <1>1
    <3>2. i - 8 \in 1 .. Len(m) /\ 8 + (i - 8) = i
      BY <1>1, <3>1
    <3>3. d[i] \in 1 .. 255
      BY <1>3, <1>4, <3>2, ZenonT(40)
    <3> QED
      BY <2>2, <3>3
  <2> QED
    BY <2>1, <2>2
<1>6. S \subseteq Nat
  BY <1>1
<1> HIDE DEF n, S
<1>7. Min(S) = n
  <2>1. \A x \in S : (\A y \in S : x <= y) => x = n
    BY <1>1, <1>2, <1>5, <1>6
  <2> QED
    BY <1>2, <1>5, <2>1 DEF Min
<1>8. ErrorMessage(d) = SubSeq(d, 9, n - 1)
  BY <1>7 DEF ErrorMessage, S
<1>9. SubSeq(d, 9, n - 1) = Slice(d, 8, Len(m))
  BY <1>1 DEF Slice, n
<1> QED
  BY <1>8, <1>9 DEF Has

Endpoints == [address : [1 .. 4 -> 0 .. 255], port : Uint16]

\* The six bytes of an endpoint.
LEMMA PeerBytesType ==
    ASSUME NEW p \in Endpoints
    PROVE  /\ PeerBytes(p) \in Seq(Byte) /\ Len(PeerBytes(p)) = 6
           /\ p.address \in Seq(Byte) /\ Len(p.address) = 4 /\ Has(PeerBytes(p), 0, p.address)
           /\ Swapped(Number(2, p.port)) \in Seq(Byte) /\ Len(Swapped(Number(2, p.port))) = 2
           /\ Has(PeerBytes(p), 4, Swapped(Number(2, p.port)))
           /\ AsNat(Swapped(Swapped(Number(2, p.port)))) = p.port
<1>1. p.address \in [1 .. 4 -> Byte] /\ p.port \in Uint16
  BY DEF Endpoints, Byte
<1>2. p.address \in Seq(Byte) /\ Len(p.address) = 4
  BY <1>1, Numbered
<1> DEFINE x == Number(2, p.port)
           a == p.address
<1>3. x \in Seq(Byte) /\ Len(x) = 2 /\ AsNat(x) = p.port
  BY <1>1, NumberBytes
<1> HIDE DEF x, a
<1>4. Swapped(x) \in Seq(Byte) /\ Len(Swapped(x)) = 2 /\ Swapped(Swapped(x)) = x
  BY <1>3, SwappedBytes
<1>5. a \in Seq(Byte) /\ Len(a) = 4
  BY <1>2 DEF a
<1>6. /\ a \o Swapped(x) \in Seq(Byte) /\ Len(a \o Swapped(x)) = Len(a) + Len(Swapped(x))
      /\ Has(a \o Swapped(x), 0, a) /\ Has(a \o Swapped(x), Len(a), Swapped(x))
  BY <1>4, <1>5, HasJoined
<1>7. Len(a \o Swapped(x)) = 6 /\ Has(a \o Swapped(x), 4, Swapped(x))
  BY <1>4, <1>5, <1>6
<1>8. PeerBytes(p) = a \o Swapped(x)
  BY DEF PeerBytes, a, x
<1> QED
  BY <1>3, <1>4, <1>5, <1>6, <1>7, <1>8 DEF a, x

\* An endpoint is read where its bytes lie.
LEMMA EndpointRead ==
    ASSUME NEW p \in Endpoints, NEW d \in Seq(Byte), NEW o \in Nat, Has(d, o, PeerBytes(p))
    PROVE  Endpoint([ip |-> Field(d, o, 4), port |-> Field(d, o + 4, 2)]) = p
<1> DEFINE x == Swapped(Number(2, p.port))
           b == PeerBytes(p)
<1>1. /\ b \in Seq(Byte) /\ p.address \in Seq(Byte) /\ Len(p.address) = 4 /\ Has(b, 0, p.address)
      /\ x \in Seq(Byte) /\ Len(x) = 2 /\ Has(b, 4, x) /\ AsNat(Swapped(x)) = p.port
  BY PeerBytesType
<1> HIDE DEF x
<1>2. Has(d, o, b)
  OBVIOUS
<1> HIDE DEF b
<1>3. Has(d, o, p.address)
  <2>1. Has(d, o + 0, p.address)
    BY <1>1, <1>2, HasWithin
  <2> QED
    BY <2>1
<1>4. Has(d, o + 4, x)
  BY <1>1, <1>2, HasWithin
<1>5. Field(d, o, 4) = Swapped(p.address) /\ Field(d, o + 4, 2) = Swapped(x)
  <2>1. o + 4 \in Nat
    OBVIOUS
  <2>2. Field(d, o, 4) = Swapped(p.address)
    BY <1>1, <1>3, FieldRead
  <2>3. Field(d, o + 4, 2) = Swapped(x)
    BY <1>1, <1>4, <2>1, FieldRead, ZenonT(40)
  <2> QED
    BY <2>2, <2>3
<1>6. Swapped(Swapped(p.address)) = p.address
  BY <1>1, SwappedBytes
<1>7. p = [address |-> p.address, port |-> p.port]
  BY DEF Endpoints
<1> QED
  BY <1>1, <1>5, <1>6, <1>7 DEF Endpoint

Phantom == [address |-> <<0, 0, 0, 0>>, port |-> 0]

\* Zeroes are the endpoint 0.0.0.0:0.
LEMMA PhantomBytes ==
    Phantom \in Endpoints /\ \A j \in 1 .. 6 : PeerBytes(Phantom)[j] = 0
<1>1. Phantom \in Endpoints
  <2>1. <<0, 0, 0, 0>> \in [1 .. 4 -> 0 .. 255]
    OBVIOUS
  <2> QED
    BY <2>1, Small DEF Phantom, Endpoints
<1>2. Number(2, 0) \in Seq(Byte) /\ Len(Number(2, 0)) = 2 /\ Swapped(Number(2, 0)) = <<0, 0>>
  <2>1. 0 \in Byte /\ 0 = 256 * (256 * (256 * 0 + 0) + 0) + 0
    BY DEF Byte
  <2>2. Swapped(Number(2, 0)) = <<0, 0>>
    BY <2>1, Written
  <2> QED
    BY <2>2, Small, NumberBytes
<1>3. PeerBytes(Phantom) = <<0, 0, 0, 0>> \o <<0, 0>>
  BY <1>2 DEF PeerBytes, Phantom
<1>4. \A j \in 1 .. 6 : (<<0, 0, 0, 0>> \o <<0, 0>>)[j] = 0
  OBVIOUS
<1> QED
  BY <1>1, <1>3, <1>4

\* The endpoints of a listing, six bytes each.
Block(ps) == [j \in 1 .. 6 * Len(ps) |-> PeerBytes(ps[1 + ((j - 1) \div 6)])[1 + ((j - 1) % 6)]]

LEMMA BlockBytes ==
    ASSUME NEW ps \in Seq(Endpoints)
    PROVE  /\ Block(ps) \in Seq(Byte) /\ Len(Block(ps)) = 6 * Len(ps)
           /\ \A i \in 1 .. Len(ps) : Has(Block(ps), 6 * (i - 1), PeerBytes(ps[i]))
<1> DEFINE n == Len(ps)
           B == Block(ps)
<1>0. n \in Nat /\ 6 * n \in Nat
  BY LenProperties
<1>1. \A i \in 1 .. n : PeerBytes(ps[i]) \in Seq(Byte) /\ Len(PeerBytes(ps[i])) = 6
  BY ElementOfSeq, PeerBytesType
<1>2. B = [j \in 1 .. 6 * n |-> PeerBytes(ps[1 + ((j - 1) \div 6)])[1 + ((j - 1) % 6)]]
  BY DEF Block
<1> HIDE DEF n, B
<1>3. ASSUME NEW j \in 1 .. 6 * n
      PROVE  1 + ((j - 1) \div 6) \in 1 .. n /\ 1 + ((j - 1) % 6) \in 1 .. 6
  BY <1>0
<1>4. ASSUME NEW j \in 1 .. 6 * n
      PROVE  PeerBytes(ps[1 + ((j - 1) \div 6)])[1 + ((j - 1) % 6)] \in Byte
  <2>1. \A x \in Seq(Byte), k \in 1 .. 6 : Len(x) = 6 => x[k] \in Byte
    BY ElementOfSeq
  <2> QED
    BY <1>1, <1>3, <2>1
<1>5. B \in [1 .. 6 * n -> Byte]
  BY <1>2, <1>4
<1>6. B \in Seq(Byte) /\ Len(B) = 6 * n
  BY <1>0, <1>5, Numbered
<1>7. ASSUME NEW i \in 1 .. n PROVE Has(B, 6 * (i - 1), PeerBytes(ps[i]))
  <2>1. 6 * (i - 1) \in Nat /\ 6 * (i - 1) + 6 <= 6 * n
    BY <1>0
  <2>2. ASSUME NEW k \in 1 .. 6 PROVE B[6 * (i - 1) + k] = PeerBytes(ps[i])[k]
    <3>1. 6 * (i - 1) + k \in 1 .. 6 * n
      BY <1>0, <2>1
    <3>2. (6 * (i - 1) + k - 1) \div 6 = i - 1 /\ (6 * (i - 1) + k - 1) % 6 = k - 1
      BY <1>0
    <3>3. 1 + (i - 1) = i /\ 1 + (k - 1) = k
      BY <1>0
    <3>4. B[6 * (i - 1) + k] = PeerBytes(ps[1 + ((6 * (i - 1) + k - 1) \div 6)])[1 + ((6 * (i - 1) + k - 1) % 6)]
      BY <1>2, <3>1
    <3> QED
      BY <3>2, <3>3, <3>4
  <2>3. PeerBytes(ps[i]) \in Seq(Byte) /\ Len(PeerBytes(ps[i])) = 6
    BY <1>1
  <2>4. 6 * (i - 1) + Len(PeerBytes(ps[i])) <= Len(B)
    BY <1>6, <2>1, <2>3
  <2> QED
    BY <1>6, <2>1, <2>2, <2>3, <2>4, HasBytes
<1> QED
  BY <1>6, <1>7 DEF n, B

\* Bytes one after the other, whichever are joined first.
LEMMA JoinedTwice ==
    ASSUME NEW a \in Seq(Byte), NEW b \in Seq(Byte), NEW c \in Seq(Byte)
    PROVE  (a \o b) \o c = a \o (b \o c)
  BY ConcatAssociative

\* What the client reads of a listing: as many endpoints as leechers and
\* seeders were counted, those that were listed first.
LEMMA ListingRead ==
    ASSUME NEW id \in Seq(Byte), Len(id) = 4, NEW ps \in Seq(Endpoints), 20 + 6 * Len(ps) <= BufferSize,
           NEW l \in Uint31, NEW s \in Uint31, NEW t \in Uint31,
           NEW d, d = ResBuf(<<0, 0, 0, 1>> \o id \o Swapped(Number(4, t)) \o Swapped(Number(4, l))
                                \o Swapped(Number(4, s)) \o Block(ps))
    PROVE  /\ Len(d) = BufferSize /\ AsNat(Field(d, 0, 4)) = 1 /\ Field(d, 4, 4) = Swapped(id)
           /\ NumPeers(d) = l + s
           /\ 20 + 6 * (l + s) <= BufferSize =>
                AddPeers(Peers(d)) = Foreign([i \in 1 .. l + s |-> IF i <= Len(ps) THEN ps[i] ELSE Phantom])
<1> DEFINE h == <<0, 0, 0, 1>> \o id
           x == Swapped(Number(4, t))
           y == Swapped(Number(4, l))
           z == Swapped(Number(4, s))
           w == Block(ps)
           xy == x \o y
           xyz == xy \o z
           b == xyz \o w
<1>0. Len(ps) \in Nat /\ BufferSize \in Nat /\ l \in Nat /\ s \in Nat
  BY LenProperties DEF BufferSize, Uint31
<1>1. /\ \A n \in Uint31 : /\ Swapped(Number(4, n)) \in Seq(Byte) /\ Len(Swapped(Number(4, n))) = 4
                           /\ AsNat(Swapped(Swapped(Number(4, n)))) = n
  BY NumberBytes, SwappedBytes
<1>2. /\ x \in Seq(Byte) /\ Len(x) = 4 /\ y \in Seq(Byte) /\ Len(y) = 4 /\ AsNat(Swapped(y)) = l
      /\ z \in Seq(Byte) /\ Len(z) = 4 /\ AsNat(Swapped(z)) = s
  BY <1>1
<1>3. /\ w \in Seq(Byte) /\ Len(w) = 6 * Len(ps)
      /\ \A i \in 1 .. Len(ps) : Has(w, 6 * (i - 1), PeerBytes(ps[i]))
  BY BlockBytes
<1>4. h \in Seq(Byte)
  <2>1. <<0, 0, 0, 1>> \in Seq(Byte)
    BY Actions
  <2> QED
    BY <2>1, HasJoined
<1>5. d = ResBuf(h \o x \o y \o z \o w)
  OBVIOUS
<1> HIDE DEF h, x, y, z, w
<1>6. xy \in Seq(Byte) /\ Len(xy) = 8 /\ Has(xy, 4, y) /\ h \o x \o y = h \o xy
  <2>1. xy \in Seq(Byte) /\ Len(xy) = Len(x) + Len(y) /\ Has(xy, Len(x), y)
    BY <1>2, HasJoined
  <2>2. h \o x \o y = h \o xy
    BY <1>2, <1>4, JoinedTwice
  <2> QED
    BY <1>2, <2>1, <2>2
<1> HIDE DEF xy
<1>7. xyz \in Seq(Byte) /\ Len(xyz) = 12 /\ Has(xyz, 4, y) /\ Has(xyz, 8, z) /\ h \o xy \o z = h \o xyz
  <2>1. /\ xyz \in Seq(Byte) /\ Len(xyz) = Len(xy) + Len(z) /\ Has(xyz, Len(xy), z)
        /\ \A o \in Nat, u \in Seq(Byte) : Has(xy, o, u) => Has(xyz, o, u)
    BY <1>2, <1>6, HasJoined
  <2>2. h \o xy \o z = h \o xyz
    BY <1>2, <1>4, <1>6, JoinedTwice
  <2>3. Has(xyz, 4, y)
    BY <1>2, <1>6, <2>1
  <2> QED
    BY <1>2, <1>6, <2>1, <2>2, <2>3
<1> HIDE DEF xyz
<1>8. /\ b \in Seq(Byte) /\ Len(b) = 12 + 6 * Len(ps) /\ Has(b, 4, y) /\ Has(b, 8, z) /\ Has(b, 12, w)
      /\ h \o xyz \o w = h \o b
  <2>1. /\ b \in Seq(Byte) /\ Len(b) = Len(xyz) + Len(w) /\ Has(b, Len(xyz), w)
        /\ \A o \in Nat, u \in Seq(Byte) : Has(xyz, o, u) => Has(b, o, u)
    BY <1>3, <1>7, HasJoined
  <2>2. h \o xyz \o w = h \o b
    BY <1>3, <1>4, <1>7, JoinedTwice
  <2>3. Has(b, 4, y) /\ Has(b, 8, z)
    BY <1>2, <1>7, <2>1
  <2>4. Len(b) = 12 + 6 * Len(ps) /\ Has(b, 12, w)
    BY <1>3, <1>7, <2>1
  <2> QED
    BY <2>1, <2>2, <2>3, <2>4
<1> HIDE DEF b
<1>9. d = ResBuf(<<0, 0, 0, 1>> \o id \o b)
  BY <1>5, <1>6, <1>7, <1>8 DEF h
<1>10. 8 + Len(b) <= BufferSize
  BY <1>0, <1>8
<1>11. /\ d \in Seq(Byte) /\ Len(d) = BufferSize
       /\ AsNat(Field(d, 0, 4)) = 1 /\ Field(d, 4, 4) = Swapped(id)
       /\ Has(d, 8, b)
       /\ \A i \in 9 + Len(b) .. BufferSize : d[i] = 0
  <2>1. 1 \in {0, 1, 3}
    OBVIOUS
  <2>2. b \in Seq(Byte)
    BY <1>8
  <2> QED
    BY <1>9, <1>10, <2>1, <2>2, AnswerHeader
<1>12. Has(d, 12, y) /\ Has(d, 16, z) /\ Has(d, 20, w)
  <2>1. Has(d, 8 + 4, y) /\ Has(d, 8 + 8, z) /\ Has(d, 8 + 12, w)
    BY <1>2, <1>3, <1>8, <1>11, HasWithin
  <2> QED
    BY <2>1
<1>13. NumPeers(d) = l + s
  <2>1. Field(d, 12, 4) = Swapped(y)
    BY <1>2, <1>12, FieldRead, ZenonT(40)
  <2>2. Field(d, 16, 4) = Swapped(z)
    BY <1>2, <1>12, FieldRead, ZenonT(40)
  <2> QED
    BY <1>2, <2>1, <2>2 DEF NumPeers
<1>14. ASSUME 20 + 6 * (l + s) <= BufferSize, NEW i \in 1 .. l + s, NEW p, p = IF i <= Len(ps) THEN ps[i] ELSE Phantom
       PROVE  Endpoint([ip |-> Field(d, 14 + 6 * i, 4), port |-> Field(d, 18 + 6 * i, 2)]) = p
  <2>1. 14 + 6 * i \in Nat /\ 14 + 6 * i + 4 = 18 + 6 * i /\ 14 + 6 * i + 6 <= BufferSize
    BY <1>0, <1>14
  <2>2. p \in Endpoints
    BY <1>0, <1>14, ElementOfSeq, PhantomBytes
  <2>3. PeerBytes(p) \in Seq(Byte) /\ Len(PeerBytes(p)) = 6
    BY <2>2, PeerBytesType
  <2>4. Has(d, 14 + 6 * i, PeerBytes(p))
    <3>1. CASE i <= Len(ps)
      <4>1. i \in 1 .. Len(ps) /\ p = ps[i]
        BY <1>0, <1>14, <3>1
      <4>2. Has(w, 6 * (i - 1), PeerBytes(p)) /\ 6 * (i - 1) \in Nat
        BY <1>0, <1>3, <4>1
      <4>3. Has(d, 20 + 6 * (i - 1), PeerBytes(p))
        BY <1>3, <1>11, <1>12, <2>3, <4>2, HasWithin
      <4>4. 20 + 6 * (i - 1) = 14 + 6 * i
        BY <1>0, <4>1
      <4> QED
        BY <4>3, <4>4
    <3>2. CASE ~(i <= Len(ps))
      <4>1. p = Phantom
        BY <1>14, <3>2
      <4>2. \A j \in 1 .. 6 : 14 + 6 * i + j \in 9 + Len(b) .. BufferSize
        BY <1>0, <1>8, <2>1, <3>2
      <4>3. \A j \in 1 .. 6 : d[14 + 6 * i + j] = PeerBytes(p)[j]
        BY <1>11, <4>1, <4>2, PhantomBytes
      <4>4. 14 + 6 * i + Len(PeerBytes(p)) <= Len(d)
        BY <1>11, <2>1, <2>3
      <4> QED
        BY <1>11, <2>1, <2>3, <4>3, <4>4, HasBytes
    <3> QED
      BY <3>1, <3>2
  <2>5. Endpoint([ip |-> Field(d, 14 + 6 * i, 4), port |-> Field(d, 14 + 6 * i + 4, 2)]) = p
    BY <1>11, <2>1, <2>2, <2>4, EndpointRead
  <2> QED
    BY <2>1, <2>5
<1>15. ASSUME 20 + 6 * (l + s) <= BufferSize
       PROVE  AddPeers(Peers(d)) = Foreign([i \in 1 .. l + s |-> IF i <= Len(ps) THEN ps[i] ELSE Phantom])
  <2>1. Peers(d) = [i \in 1 .. l + s |-> [ip |-> Field(d, 14 + 6 * i, 4), port |-> Field(d, 18 + 6 * i, 2)]]
    BY <1>13 DEF Peers
  <2>2. DOMAIN Peers(d) = 1 .. l + s
    BY <2>1
  <2>3. \A i \in 1 .. l + s : Endpoint(Peers(d)[i]) = IF i <= Len(ps) THEN ps[i] ELSE Phantom
    BY <1>14, <1>15, <2>1
  <2>4. [i \in DOMAIN Peers(d) |-> Endpoint(Peers(d)[i])] = [i \in 1 .. l + s |-> IF i <= Len(ps) THEN ps[i] ELSE Phantom]
    BY <2>2, <2>3
  <2> QED
    BY <2>4 DEF AddPeers
<1> QED
  BY <1>11, <1>13, <1>15

-----------------------------------------------------------------------------
(* The invariant.                                                           *)

\* SHA-1 makes 20 bytes of any text.
DigestSize == \A text : Hash(Bytes(text)) \in [1 .. 20 -> 0 .. 255]

Stale == [swarm |-> None, datagram |-> <<0, 0, 0, 0>> \o <<0, 0, 0, 0>> \o Assigned]

Running == {"sent", "answered", "asked", "failed"}

\* What the announce is made of, once it is there.
IdentityInv ==
    /\ phase \in {"read", "made"} \cup Running =>
          metainfo.info_hash \in Seq(Byte) /\ Len(metainfo.info_hash) = 20
    /\ phase \in {"made"} \cup Running => Identified /\ SubSeq(peer_id, 1, 8) = ClientName

\* First the connect request waits for its answer, and the announce after it;
\* then the announce does, with the connection id that the tracker assigned.
Connecting ==
    \E s \in Tids, t \in Tids :
        /\ queue = <<ConnectRequest(s), AnnounceRequest(t)>> /\ connection_id = Magic
        /\ req_buf = Serialized([ConnectRequest(s) EXCEPT !.connection_id = Magic])
Announcing ==
    \E t \in Tids :
        /\ queue = <<AnnounceRequest(t)>> /\ connection_id = Swapped(Assigned)
        /\ req_buf = Serialized([AnnounceRequest(t) EXCEPT !.connection_id = Swapped(Assigned)])

\* What was received is an answer to what was sent, or to what was sent before;
\* nothing comes of an answer before it is handled.
ExchangeInv ==
    /\ phase \in {"sent", "answered"} => Connecting \/ Announcing
    /\ phase = "answered" => response \in Answers \/ response = Stale
    /\ phase \notin {"asked", "failed"} => answered = None /\ contacted = <<>> /\ complaint = <<>>
    /\ asked # None => phase \in Running

StartupInv == IdentityInv /\ ExchangeInv /\ UnderstoodAsMeant /\ HandledAsAnswered

\* While the client connects, the tracker sees a connect request.
LEMMA ConnectingSeen ==
    ASSUME Connecting
    PROVE  IsConnect /\ ~IsAnnounce /\ Part(12, 16) \in Seq(Byte) /\ Len(Part(12, 16)) = 4
<1>1. PICK t \in Tids : req_buf = Serialized([ConnectRequest(t) EXCEPT !.connection_id = Magic])
  BY DEF Connecting
<1>2. /\ Len(req_buf) = 16 /\ Slice(req_buf, 12, 4) = Swapped(t)
      /\ Slice(req_buf, 0, 12) = <<0, 0, 4, 23, 39, 16, 25, 128>> \o <<0, 0, 0, 0>>
  BY <1>1, ConnectSent
<1>3. Part(12, 16) = Slice(req_buf, 12, 4) /\ Part(0, 12) = Slice(req_buf, 0, 12)
  BY DEF Part, Slice
<1>4. Swapped(t) \in Seq(Byte) /\ Len(Swapped(t)) = 4
  BY SwappedBytes DEF Tids
<1>5. ~IsAnnounce
  BY <1>2 DEF IsAnnounce
<1>6. IsConnect
  BY <1>2, <1>3 DEF IsConnect
<1> QED
  BY <1>2, <1>3, <1>4, <1>5, <1>6

\* While it announces, the tracker sees the announce.
LEMMA AnnouncingSeen ==
    ASSUME Announcing, Identified
    PROVE  /\ IsAnnounce /\ ~IsConnect /\ Part(12, 16) \in Seq(Byte) /\ Len(Part(12, 16)) = 4
           /\ Part(16, 36) = metainfo.info_hash /\ Part(36, 56) = peer_id
           /\ Part(56, 64) = <<0, 0, 0, 0, 0, 0, 0, 0>> /\ Part(64, 72) = <<0, 0, 0, 0, 0, 0, 46, 224>>
           /\ Part(72, 80) = <<0, 0, 0, 0, 0, 0, 0, 0>>
           /\ Part(80, 84) = <<0, 0, 0, 2>> /\ Part(84, 88) = <<0, 0, 0, 0>>
           /\ Part(88, 92) = Swapped(key) /\ Part(92, 96) = <<0, 0, 0, 50>> /\ Part(96, 98) = <<26, 225>>
<1>1. PICK t \in Tids : req_buf = Serialized([AnnounceRequest(t) EXCEPT !.connection_id = Swapped(Assigned)])
  BY DEF Announcing
<1>3. /\ Part(0, 12) = Slice(req_buf, 0, 12) /\ Part(12, 16) = Slice(req_buf, 12, 4)
      /\ Part(16, 36) = Slice(req_buf, 16, 20) /\ Part(36, 56) = Slice(req_buf, 36, 20)
      /\ Part(56, 64) = Slice(req_buf, 56, 8) /\ Part(64, 72) = Slice(req_buf, 64, 8)
      /\ Part(72, 80) = Slice(req_buf, 72, 8) /\ Part(80, 84) = Slice(req_buf, 80, 4)
      /\ Part(84, 88) = Slice(req_buf, 84, 4) /\ Part(88, 92) = Slice(req_buf, 88, 4)
      /\ Part(92, 96) = Slice(req_buf, 92, 4) /\ Part(96, 98) = Slice(req_buf, 96, 2)
  BY DEF Part, Slice
<1>4. Swapped(t) \in Seq(Byte) /\ Len(Swapped(t)) = 4
  BY SwappedBytes DEF Tids
<1>5. /\ Len(req_buf) = 98 /\ Slice(req_buf, 12, 4) = Swapped(t)
      /\ Slice(req_buf, 0, 12) = Assigned \o <<0, 0, 0, 1>>
      /\ Slice(req_buf, 16, 20) = metainfo.info_hash /\ Slice(req_buf, 36, 20) = peer_id
      /\ Slice(req_buf, 56, 8) = <<0, 0, 0, 0, 0, 0, 0, 0>>
      /\ Slice(req_buf, 64, 8) = <<0, 0, 0, 0, 0, 0, 46, 224>>
      /\ Slice(req_buf, 72, 8) = <<0, 0, 0, 0, 0, 0, 0, 0>>
      /\ Slice(req_buf, 80, 4) = <<0, 0, 0, 2>> /\ Slice(req_buf, 84, 4) = <<0, 0, 0, 0>>
      /\ Slice(req_buf, 88, 4) = Swapped(key) /\ Slice(req_buf, 92, 4) = <<0, 0, 0, 50>>
      /\ Slice(req_buf, 96, 2) = <<26, 225>>
  <2>1. Understood(req_buf, t)
    BY <1>1, AnnounceSent
  <2> QED
    BY <2>1 DEF Understood
<1>6. IsAnnounce
  BY <1>3, <1>5 DEF IsAnnounce
<1>7. ~IsConnect
  BY <1>5 DEF IsConnect
<1> QED
  BY <1>3, <1>4, <1>5, <1>6, <1>7

\* The listing is read: as many peers as leechers and seeders, or none when they overrun.
Listed(d, l, s, ps) ==
    /\ ~IsConnect /\ response.swarm \in Swarms /\ "message" \notin DOMAIN response.swarm
    /\ l = response.swarm.leechers /\ s = response.swarm.seeders /\ ps = response.swarm.peers
    /\ AsNat(Field(d, 0, 4)) = 1
    /\ PeersOverrun(d) <=> 20 + 6 * (l + s) > BufferSize
    /\ ~PeersOverrun(d) =>
         AddPeers(Peers(d)) = Foreign([i \in 1 .. l + s |-> IF i <= Len(ps) THEN ps[i] ELSE Phantom])

\* What the client reads of what it received: the connection id that was
\* assigned, the error, or the listing.
LEMMA ResponseRead ==
    ASSUME response \in Answers \/ response = Stale,
           Part(12, 16) \in Seq(Byte), Len(Part(12, 16)) = 4,
           NEW d, d = ResBuf(response.datagram)
    PROVE  \/ /\ response.swarm = None
              /\ AsNat(Field(d, 0, 4)) = 0 /\ Field(d, 8, 8) = Swapped(Assigned)
           \/ /\ ~IsConnect /\ response.swarm \in Swarms /\ "message" \in DOMAIN response.swarm
              /\ AsNat(Field(d, 0, 4)) = 3 /\ ErrorMessage(d) = response.swarm.message
           \/ \E l \in Nat, s \in Nat : \E ps : Listed(d, l, s, ps)
<1> DEFINE id == Part(12, 16)
<1>0. id \in Seq(Byte) /\ Len(id) = 4 /\ BufferSize \in Nat
  BY DEF BufferSize
<1> HIDE DEF id
<1>1. ASSUME NEW i \in Seq(Byte), Len(i) = 4, response.datagram = <<0, 0, 0, 0>> \o i \o Assigned
      PROVE  AsNat(Field(d, 0, 4)) = 0 /\ Field(d, 8, 8) = Swapped(Assigned)
  <2>1. 8 + Len(Assigned) <= BufferSize
    BY Constants DEF BufferSize
  <2>2. d = ResBuf(<<0, 0, 0, 0>> \o i \o Assigned)
    BY <1>1
  <2>3. AsNat(Field(d, 0, 4)) = 0 /\ Has(d, 8, Assigned)
    <3>1. Assigned \in Seq(Byte) /\ 0 \in {0, 1, 3}
      BY Constants
    <3> QED
      BY <1>1, <2>1, <2>2, <3>1, AnswerHeader
  <2> QED
    BY <2>3, Constants, FieldRead
<1>2. CASE response = Stale
  <2>1. <<0, 0, 0, 0>> \in Seq(Byte) /\ Len(<<0, 0, 0, 0>>) = 4
    BY Actions
  <2>2. response.datagram = <<0, 0, 0, 0>> \o <<0, 0, 0, 0>> \o Assigned /\ response.swarm = None
    BY <1>2 DEF Stale
  <2> QED
    BY <1>1, <2>1, <2>2
<1>3. CASE response \in Answers /\ IsConnect
  <2>1. response = [swarm |-> None, datagram |-> <<0, 0, 0, 0>> \o id \o Assigned]
    BY <1>3 DEF Answers, id
  <2>2. response.datagram = <<0, 0, 0, 0>> \o id \o Assigned /\ response.swarm = None
    BY <2>1
  <2> QED
    BY <1>0, <1>1, <2>2
<1>4. CASE response \in Answers /\ ~IsConnect
  <2>1. PICK s \in Swarms :
           \/ "message" \in DOMAIN s /\ response = [swarm |-> s, datagram |-> <<0, 0, 0, 3>> \o id \o s.message]
           \/ "message" \notin DOMAIN s /\ response = [swarm |-> s, datagram |-> Listing(s)]
    BY <1>4 DEF Answers, id
  <2>2. CASE "message" \in DOMAIN s
    <3>1. response.swarm = s /\ d = ResBuf(<<0, 0, 0, 3>> \o id \o s.message)
      <4>1. response = [swarm |-> s, datagram |-> <<0, 0, 0, 3>> \o id \o s.message]
        BY <2>1, <2>2
      <4> QED
        BY <4>1
    <3> DEFINE m == s.message
    <3>2. m \in Seq(1 .. 255) /\ 8 + Len(m) <= BufferSize
      <4>1. \/ s.message \in Seq(1 .. 255) /\ 8 + Len(s.message) <= BufferSize
            \/ DOMAIN s = {"peers", "leechers", "seeders"}
        BY StartupAssumption
      <4>2. "message" \notin {"peers", "leechers", "seeders"}
        OBVIOUS
      <4> QED
        BY <2>2, <4>1, <4>2
    <3>3. d = ResBuf(<<0, 0, 0, 3>> \o id \o m)
      BY <3>1
    <3> HIDE DEF m
    <3>4. m \in Seq(Byte)
      <4>1. Len(m) \in Nat /\ m = [j \in 1 .. Len(m) |-> m[j]]
        BY <3>2, LenProperties
      <4>2. \A j \in 1 .. Len(m) : m[j] \in Byte
        BY <3>2, ElementOfSeq DEF Byte
      <4>3. m \in [1 .. Len(m) -> Byte]
        BY <4>1, <4>2
      <4> QED
        BY <4>1, <4>3, Numbered
    <3>5. 3 \in {0, 1, 3}
      OBVIOUS
    <3>6. /\ d \in Seq(Byte) /\ Len(d) = BufferSize /\ AsNat(Field(d, 0, 4)) = 3
          /\ Has(d, 8, m) /\ \A i \in 9 + Len(m) .. BufferSize : d[i] = 0
      BY <1>0, <3>2, <3>3, <3>4, <3>5, AnswerHeader
    <3>7. ErrorMessage(d) = m
      BY <3>2, <3>6, ErrorRead
    <3> QED
      BY <1>4, <2>2, <3>1, <3>6, <3>7 DEF m
  <2>3. CASE "message" \notin DOMAIN s
    <3>1. response.swarm = s /\ d = ResBuf(Listing(s))
      BY <2>1, <2>3
    <3>2. PICK l, k, ps : l = s.leechers /\ k = s.seeders /\ ps = s.peers
      OBVIOUS
    <3>3. l \in Uint31 /\ k \in Uint31 /\ ps \in Seq(Endpoints) /\ 20 + 6 * Len(ps) <= BufferSize
      BY <2>3, <3>2, StartupAssumption, ZenonT(40) DEF Endpoints
    <3>4. l \in Nat /\ k \in Nat
      BY <3>3 DEF Uint31
    <3>5. PICK t : t = 1800 /\ t \in Uint31
      <4>1. 1800 \in Nat /\ 1800 \div 256 = 7 /\ 7 < 128 * (256 * 256)
        OBVIOUS
      <4> QED
        BY <4>1 DEF Uint31
    <3>6. Listing(s) = <<0, 0, 0, 1>> \o id \o Swapped(Number(4, t)) \o Swapped(Number(4, l))
                          \o Swapped(Number(4, k)) \o Block(ps)
      BY <3>2, <3>5 DEF Listing, Block, id
    <3>7. d = ResBuf(<<0, 0, 0, 1>> \o id \o Swapped(Number(4, t)) \o Swapped(Number(4, l))
                          \o Swapped(Number(4, k)) \o Block(ps))
      BY <3>1, <3>6
    <3>8. /\ Len(d) = BufferSize /\ AsNat(Field(d, 0, 4)) = 1 /\ NumPeers(d) = l + k
          /\ 20 + 6 * (l + k) <= BufferSize =>
               AddPeers(Peers(d)) = Foreign([i \in 1 .. l + k |-> IF i <= Len(ps) THEN ps[i] ELSE Phantom])
      BY <1>0, <3>3, <3>5, <3>7, ListingRead
    <3>9. /\ PeersOverrun(d) <=> 20 + 6 * (l + k) > BufferSize
          /\ ~PeersOverrun(d) => 20 + 6 * (l + k) <= BufferSize
      BY <1>0, <3>4, <3>8 DEF PeersOverrun
    <3> QED
      <4>1. /\ ~IsConnect /\ response.swarm \in Swarms /\ "message" \notin DOMAIN response.swarm
            /\ l = response.swarm.leechers /\ k = response.swarm.seeders /\ ps = response.swarm.peers
        BY <1>4, <2>3, <3>1, <3>2
      <4>2. Listed(d, l, k, ps)
        BY <3>8, <3>9, <4>1 DEF Listed
      <4> QED
        BY <3>4, <4>2
  <2> QED
    BY <2>1, <2>2, <2>3
<1> QED
  BY <1>2, <1>3, <1>4

\* The peer id is 20 bytes, whatever the process id and the random bytes.
LEMMA PeerIdBytes ==
    ASSUME NEW pid \in Pids, NEW random \in Random(10)
    PROVE  /\ PeerId(pid, random) \in Seq(Byte) /\ Len(PeerId(pid, random)) = 20
           /\ SubSeq(PeerId(pid, random), 1, 8) = ClientName
<1> DEFINE c == ClientName
           f == <<pid % 16, (pid \div 256) % 16>>
           cf == c \o f
<1>1. c \in Seq(Byte) /\ Len(c) = 8
  <2>1. c \in [1 .. 8 -> Byte]
    BY DEF ClientName, Byte
  <2> QED
    BY <2>1, Numbered
<1>2. f \in Seq(Byte) /\ Len(f) = 2
  <2>1. pid \in Nat
    BY StartupAssumption
  <2>2. pid % 16 \in 0 .. 255 /\ (pid \div 256) % 16 \in 0 .. 255
    BY <2>1
  <2>3. f \in [1 .. 2 -> Byte]
    BY <2>2 DEF Byte
  <2> QED
    BY <2>3, Numbered
<1>3. random \in Seq(Byte) /\ Len(random) = 10
  <2>1. random \in [1 .. 10 -> Byte]
    BY StartupAssumption DEF Byte
  <2> QED
    BY <2>1, Numbered
<1>4. PeerId(pid, random) = cf \o random
  BY DEF PeerId
<1> HIDE DEF c, f
<1>5. cf \in Seq(Byte) /\ Len(cf) = 10 /\ Has(cf, 0, c)
  <2>1. cf \in Seq(Byte) /\ Len(cf) = Len(c) + Len(f) /\ Has(cf, 0, c)
    BY <1>1, <1>2, HasJoined
  <2> QED
    BY <1>1, <1>2, <2>1
<1> HIDE DEF cf
<1>6. /\ cf \o random \in Seq(Byte) /\ Len(cf \o random) = Len(cf) + Len(random)
      /\ \A o \in Nat, x \in Seq(Byte) : Has(cf, o, x) => Has(cf \o random, o, x)
  BY <1>3, <1>5, HasJoined
<1>7. Has(cf \o random, 0, c)
  BY <1>1, <1>5, <1>6
<1>8. SubSeq(cf \o random, 1, 8) = c
  BY <1>1, <1>7, SMTT(30) DEF Has, Slice
<1> QED
  BY <1>3, <1>4, <1>5, <1>6, <1>8 DEF c

LEMMA TidBytes == Random(4) \subseteq Tids
<1> SUFFICES ASSUME NEW t \in Random(4) PROVE t \in Tids
  OBVIOUS
<1>1. t \in [1 .. 4 -> Byte]
  BY StartupAssumption DEF Byte
<1> QED
  BY <1>1, Numbered DEF Tids

\* Requests are made of what is known of the client.
LEMMA RequestSame ==
    ASSUME UNCHANGED <<metainfo, peer_id, key>>, NEW t
    PROVE  AnnounceRequest(t)' = AnnounceRequest(t)
  BY DEF AnnounceRequest

\* Nothing is asked or answered before the program runs.
LEMMA NothingYet ==
    ASSUME StartupInv, phase \notin Running,
           UNCHANGED <<contacted, complaint, asked, answered>>,
           phase' \notin {"sent", "answered", "asked", "failed"}, IdentityInv'
    PROVE  StartupInv'
<1>1. answered = None /\ contacted = <<>> /\ complaint = <<>> /\ asked = None
  BY DEF StartupInv, ExchangeInv, Running
<1>2. answered' = None /\ contacted' = <<>> /\ complaint' = <<>> /\ asked' = None
  BY <1>1
<1>3. ExchangeInv'
  BY <1>2 DEF ExchangeInv
<1>4. UnderstoodAsMeant' /\ HandledAsAnswered'
  BY <1>2 DEF UnderstoodAsMeant, HandledAsAnswered
<1> QED
  BY <1>3, <1>4 DEF StartupInv

LEMMA StartupInit == Init => StartupInv
<1> SUFFICES ASSUME Init PROVE StartupInv
  OBVIOUS
<1>1. phase = "decoding" /\ answered = None /\ asked = None /\ contacted = <<>> /\ complaint = <<>>
  BY DEF Init
<1>2. IdentityInv
  BY <1>1 DEF IdentityInv, Running
<1>3. ExchangeInv
  BY <1>1 DEF ExchangeInv
<1> QED
  BY <1>1, <1>2, <1>3 DEF StartupInv, UnderstoodAsMeant, HandledAsAnswered

LEMMA DecodeStep == ASSUME StartupInv, Decode PROVE StartupInv'
<1>1. /\ phase = "decoding" /\ phase' \in {"decoding", "refused", "decoded"}
      /\ UNCHANGED <<contacted, complaint, asked, answered>>
  BY DEF Decode, trackerVars
<1>2. IdentityInv'
  BY <1>1 DEF IdentityInv, Running
<1>3. phase \notin Running /\ phase' \notin {"sent", "answered", "asked", "failed"}
  BY <1>1 DEF Running
<1> QED
  BY <1>1, <1>2, <1>3, NothingYet

LEMMA ReadMetainfoStep == ASSUME DigestSize, StartupInv, ReadMetainfo PROVE StartupInv'
<1>1. /\ phase = "decoded" /\ UNCHANGED <<contacted, complaint, asked, answered>>
      /\ \/ phase' = "refused"
         \/ phase' = "read" /\ \E text : metainfo'.info_hash = Hash(Bytes(text))
  <2>1. phase = "decoded" /\ UNCHANGED <<contacted, complaint, asked, answered>>
    BY DEF ReadMetainfo, trackerVars
  <2>2. \/ phase' = "refused"
        \/ /\ phase' = "read"
           /\ \E a, b, c, e, text :
                metainfo' = [announce |-> a, piece_length |-> b, pieces |-> c, length |-> e,
                             info_hash |-> Hash(Bytes(text))]
    BY ZenonT(40) DEF ReadMetainfo
  <2> QED
    BY <2>1, <2>2
<1>2. \A text : Hash(Bytes(text)) \in Seq(Byte) /\ Len(Hash(Bytes(text))) = 20
  <2>1. ASSUME NEW text PROVE Hash(Bytes(text)) \in [1 .. 20 -> Byte]
    BY DEF DigestSize, Byte
  <2> QED
    BY <2>1, Numbered
<1>3. IdentityInv'
  BY <1>1, <1>2 DEF IdentityInv, Running
<1>4. phase \notin Running /\ phase' \notin {"sent", "answered", "asked", "failed"}
  BY <1>1 DEF Running
<1> QED
  BY <1>1, <1>3, <1>4, NothingYet

LEMMA InitTrackerStep == ASSUME StartupInv, InitTracker PROVE StartupInv'
<1>1. /\ phase = "read" /\ UNCHANGED <<metainfo, contacted, complaint, asked, answered>>
      /\ \E pid \in Pids, random \in Random(10) : peer_id' = PeerId(pid, random)
      /\ \/ phase' = "refused"
         \/ phase' = "made" /\ \E k \in Random(4) : key' = k
  BY DEF InitTracker, trackerVars
<1>2. peer_id' \in Seq(Byte) /\ Len(peer_id') = 20 /\ SubSeq(peer_id', 1, 8) = ClientName
  BY <1>1, PeerIdBytes
<1>3. phase' = "made" => key' \in Tids
  BY <1>1, TidBytes
<1>4. IdentityInv'
  BY <1>1, <1>2, <1>3 DEF IdentityInv, Identified, StartupInv, Running
<1>5. phase \notin Running /\ phase' \notin {"sent", "answered", "asked", "failed"}
  BY <1>1 DEF Running
<1> QED
  BY <1>1, <1>4, <1>5, NothingYet

LEMMA RunStep == ASSUME StartupInv, Run PROVE StartupInv'
<1>1. /\ phase = "made" /\ UNCHANGED <<metainfo, peer_id, key, contacted, complaint, asked, answered>>
      /\ \E s \in Random(4), t \in Random(4) : SendRequest(<<ConnectRequest(s), AnnounceRequest(t)>>, Magic)
  BY DEF Run
<1>2. PICK s \in Tids, t \in Tids : SendRequest(<<ConnectRequest(s), AnnounceRequest(t)>>, Magic)
  BY <1>1, TidBytes
<1>3. /\ queue' = <<ConnectRequest(s), AnnounceRequest(t)>> /\ connection_id' = Magic /\ phase' = "sent"
      /\ req_buf' = Serialized([ConnectRequest(s) EXCEPT !.connection_id = Magic])
  BY <1>2 DEF SendRequest
<1>4. AnnounceRequest(t)' = AnnounceRequest(t)
  BY <1>1, RequestSame
<1>5. Connecting'
  BY <1>3, <1>4 DEF Connecting, ConnectRequest
<1>6. answered' = None /\ contacted' = <<>> /\ complaint' = <<>> /\ asked' = None
  BY <1>1 DEF StartupInv, ExchangeInv, Running
<1>7. ExchangeInv'
  BY <1>3, <1>5, <1>6 DEF ExchangeInv
<1>8. IdentityInv'
  BY <1>1, <1>3 DEF StartupInv, IdentityInv, Identified, Running
<1> QED
  BY <1>6, <1>7, <1>8 DEF StartupInv, UnderstoodAsMeant, HandledAsAnswered

LEMMA TrackerAnswersStep == ASSUME StartupInv, TrackerAnswers PROVE StartupInv'
<1>1. /\ phase = "sent" /\ phase' = "answered" /\ (response' \in Answers \/ response' = Stale)
      /\ UNCHANGED <<metainfo, peer_id, key, queue, connection_id, req_buf, contacted, complaint, answered>>
  BY DEF TrackerAnswers, Stale
<1>2. Identified /\ SubSeq(peer_id, 1, 8) = ClientName /\ (Connecting \/ Announcing)
  BY <1>1 DEF StartupInv, IdentityInv, ExchangeInv, Running
<1>3. IdentityInv'
  BY <1>1 DEF StartupInv, IdentityInv, Identified, Running
<1>4. (Connecting \/ Announcing)'
  <2>1. \A t : AnnounceRequest(t)' = AnnounceRequest(t)
    BY <1>1, RequestSame
  <2> QED
    BY <1>1, <1>2, <2>1 DEF Connecting, Announcing
<1>5. Answers' = Answers
  BY <1>1 DEF Answers, IsConnect, Part, Listing
<1>6. answered' = None /\ contacted' = <<>> /\ complaint' = <<>>
  BY <1>1 DEF StartupInv, ExchangeInv
<1>7. Stale' = Stale
  BY DEF Stale
<1>8. ExchangeInv'
  BY <1>1, <1>4, <1>5, <1>6, <1>7 DEF ExchangeInv, Running
<1>9. UnderstoodAsMeant'
  <2>1. CASE Connecting
    <3>1. asked' = asked
      BY <2>1, ConnectingSeen DEF TrackerAnswers
    <3> QED
      BY <1>1, <3>1 DEF UnderstoodAsMeant, StartupInv
  <2>2. CASE Announcing
    <3>1. asked' = [info_hash |-> Part(16, 36), peer_id |-> Part(36, 56), downloaded |-> Part(56, 64),
                    left |-> Part(64, 72), uploaded |-> Part(72, 80), event |-> Part(80, 84),
                    ip |-> Part(84, 88), key |-> Part(88, 92), num_want |-> Part(92, 96), port |-> Part(96, 98)]
      BY <1>2, <2>2, AnnouncingSeen DEF TrackerAnswers
    <3>2. asked' = [info_hash |-> metainfo.info_hash, peer_id |-> peer_id,
                    downloaded |-> <<0, 0, 0, 0, 0, 0, 0, 0>>, left |-> <<0, 0, 0, 0, 0, 0, 46, 224>>,
                    uploaded |-> <<0, 0, 0, 0, 0, 0, 0, 0>>,
                    event |-> <<0, 0, 0, 2>>, ip |-> <<0, 0, 0, 0>>, key |-> Swapped(key),
                    num_want |-> <<0, 0, 0, 50>>, port |-> <<26, 225>>]
      BY <1>2, <2>2, <3>1, AnnouncingSeen, ZenonT(40)
    <3>3. SubSeq(peer_id, 1, 8) = ClientName /\ Len(peer_id) = 20
      BY <1>2 DEF Identified
    <3> QED
      BY <1>1, <3>2, <3>3 DEF UnderstoodAsMeant
  <2> QED
    BY <1>2, <2>1, <2>2
<1> QED
  BY <1>3, <1>6, <1>8, <1>9 DEF StartupInv, HandledAsAnswered

\* The end of the exchange: what was answered is settled by then.
LEMMA Ended ==
    ASSUME StartupInv, phase = "answered", phase' \in {"asked", "failed"},
           UNCHANGED <<metainfo, peer_id, key, asked>>, HandledAsAnswered'
    PROVE  StartupInv'
<1>1. IdentityInv'
  BY DEF StartupInv, IdentityInv, Identified, Running
<1>2. ExchangeInv'
  BY DEF ExchangeInv, Running
<1>3. UnderstoodAsMeant'
  BY DEF StartupInv, UnderstoodAsMeant
<1> QED
  BY <1>1, <1>2, <1>3 DEF StartupInv

LEMMA HandleResponseStep == ASSUME StartupInv, HandleResponse PROVE StartupInv'
<1> PICK d : d = ResBuf(response.datagram)
  OBVIOUS
<1> PICK action : action = AsNat(Field(d, 0, 4))
  OBVIOUS
<1>1. /\ phase = "answered" /\ UNCHANGED <<metainfo, peer_id, key, response, asked>>
      /\ \/ SendRequest(queue, connection_id) /\ UNCHANGED <<contacted, complaint, answered>>
         \/ /\ answered' = response.swarm
            /\ \/ action = 0 /\ SendRequest(Tail(queue), Field(d, 8, 8)) /\ UNCHANGED <<contacted, complaint>>
               \/ action = 1 /\ PeersOverrun(d) /\ phase' = "failed"
               \/ /\ action = 1 /\ ~PeersOverrun(d) /\ contacted' = AddPeers(Peers(d))
                  /\ SendRequest(Tail(queue), connection_id)
               \/ /\ action = 3 /\ complaint' = ErrorMessage(d)
                  /\ SendRequest(Tail(queue), connection_id) /\ UNCHANGED contacted
  BY DEF HandleResponse
<1>2. /\ Identified /\ (Connecting \/ Announcing)
      /\ response \in Answers \/ response = Stale
      /\ answered = None /\ contacted = <<>> /\ complaint = <<>>
  BY <1>1 DEF StartupInv, IdentityInv, ExchangeInv, Running
<1>3. \A t : AnnounceRequest(t)' = AnnounceRequest(t)
  BY <1>1, RequestSame
\* While a request is out nothing was answered yet.
<1>4. ASSUME phase' = "sent", Connecting' \/ Announcing', answered' = None, UNCHANGED <<contacted, complaint>>
      PROVE  StartupInv'
  <2>1. IdentityInv'
    BY <1>1, <1>4 DEF StartupInv, IdentityInv, Identified, Running
  <2>2. ExchangeInv'
    BY <1>2, <1>4 DEF ExchangeInv, Running
  <2>3. UnderstoodAsMeant'
    BY <1>1 DEF StartupInv, UnderstoodAsMeant
  <2> QED
    BY <1>4, <2>1, <2>2, <2>3 DEF StartupInv, HandledAsAnswered
<1>5. CASE SendRequest(queue, connection_id) /\ UNCHANGED <<contacted, complaint, answered>>
  <2>1. CASE Connecting
    <3>1. PICK s \in Tids, t \in Tids : queue = <<ConnectRequest(s), AnnounceRequest(t)>> /\ connection_id = Magic
      BY <2>1 DEF Connecting
    <3>2. /\ queue' = <<ConnectRequest(s), AnnounceRequest(t)>> /\ connection_id' = Magic /\ phase' = "sent"
          /\ req_buf' = Serialized([ConnectRequest(s) EXCEPT !.connection_id = Magic])
      BY <1>5, <3>1 DEF SendRequest
    <3>3. Connecting'
      BY <1>3, <3>2 DEF Connecting
    <3> QED
      BY <1>2, <1>4, <1>5, <3>2, <3>3
  <2>2. CASE Announcing
    <3>1. PICK t \in Tids : queue = <<AnnounceRequest(t)>> /\ connection_id = Swapped(Assigned)
      BY <2>2 DEF Announcing
    <3>2. /\ queue' = <<AnnounceRequest(t)>> /\ connection_id' = Swapped(Assigned) /\ phase' = "sent"
          /\ req_buf' = Serialized([AnnounceRequest(t) EXCEPT !.connection_id = Swapped(Assigned)])
      BY <1>5, <3>1 DEF SendRequest
    <3>3. Announcing'
      BY <1>3, <3>2 DEF Announcing
    <3> QED
      BY <1>2, <1>4, <1>5, <3>2, <3>3
  <2> QED
    BY <1>2, <2>1, <2>2
<1>6. Part(12, 16) \in Seq(Byte) /\ Len(Part(12, 16)) = 4
  BY <1>2, ConnectingSeen, AnnouncingSeen
\* Of the connect request's answer the announce follows; the announce's ends the exchange.
<1>7. CASE /\ action = 0 /\ SendRequest(Tail(queue), Field(d, 8, 8)) /\ UNCHANGED <<contacted, complaint>>
           /\ answered' = None /\ Field(d, 8, 8) = Swapped(Assigned)
  <2>1. CASE Connecting
    <3>1. PICK s \in Tids, t \in Tids : queue = <<ConnectRequest(s), AnnounceRequest(t)>>
      BY <2>1 DEF Connecting
    <3>2. Tail(queue) = <<AnnounceRequest(t)>>
      BY <3>1
    <3>3. /\ queue' = <<AnnounceRequest(t)>> /\ connection_id' = Swapped(Assigned) /\ phase' = "sent"
          /\ req_buf' = Serialized([AnnounceRequest(t) EXCEPT !.connection_id = Swapped(Assigned)])
      <4>1. SendRequest(<<AnnounceRequest(t)>>, Swapped(Assigned))
        BY <1>7, <3>2
      <4> QED
        BY <4>1 DEF SendRequest
    <3>4. Announcing'
      BY <1>3, <3>3 DEF Announcing
    <3> QED
      BY <1>4, <1>7, <3>3, <3>4
  <2>2. CASE Announcing
    <3>1. PICK t \in Tids : queue = <<AnnounceRequest(t)>>
      BY <2>2 DEF Announcing
    <3>2. Tail(queue) = <<>>
      BY <3>1
    <3>3. phase' = "asked"
      BY <1>7, <3>2 DEF SendRequest
    <3>4. HandledAsAnswered'
      BY <1>7 DEF HandledAsAnswered
    <3> QED
      BY <1>1, <3>3, <3>4, Ended
  <2> QED
    BY <1>2, <2>1, <2>2
<1>8. ~IsConnect => Tail(queue) = <<>>
  <2>1. ~IsConnect => Announcing
    BY <1>2, ConnectingSeen
  <2>2. ASSUME Announcing PROVE Tail(queue) = <<>>
    <3>1. PICK t \in Tids : queue = <<AnnounceRequest(t)>>
      BY <2>2 DEF Announcing
    <3> QED
      BY <3>1
  <2> QED
    BY <2>1, <2>2
<1>9. ~IsConnect => \A c : SendRequest(Tail(queue), c) => phase' = "asked"
  BY <1>8 DEF SendRequest
<1>10. CASE ~(SendRequest(queue, connection_id) /\ UNCHANGED <<contacted, complaint, answered>>)
  <2>1. CASE response.swarm = None /\ action = 0 /\ Field(d, 8, 8) = Swapped(Assigned)
    BY <1>1, <1>7, <1>10, <2>1
  <2>2. CASE /\ ~IsConnect /\ response.swarm \in Swarms /\ "message" \in DOMAIN response.swarm
             /\ action = 3 /\ ErrorMessage(d) = response.swarm.message
    <3>1. /\ answered' = response.swarm /\ complaint' = response.swarm.message /\ contacted' = <<>>
          /\ phase' = "asked"
      BY <1>1, <1>2, <1>9, <1>10, <2>2
    <3>2. HandledAsAnswered'
      BY <2>2, <3>1 DEF HandledAsAnswered
    <3> QED
      BY <1>1, <3>1, <3>2, Ended
  <2>3. ASSUME NEW l \in Nat, NEW s \in Nat, NEW ps, Listed(d, l, s, ps)
        PROVE  StartupInv'
    <3>1. /\ answered' = response.swarm /\ (phase' = "asked" \/ phase' = "failed")
          /\ PeersOverrun(d) => phase' = "failed"
          /\ ~PeersOverrun(d) => contacted' = AddPeers(Peers(d))
      <4>1. action = 1 /\ ~IsConnect
        BY <2>3 DEF Listed
      <4> QED
        BY <1>1, <1>9, <1>10, <4>1
    <3>2. /\ 20 + 6 * (answered'.leechers + answered'.seeders) > BufferSize => phase' = "failed"
          /\ ~(20 + 6 * (answered'.leechers + answered'.seeders) > BufferSize) =>
               contacted' = Foreign([i \in 1 .. answered'.leechers + answered'.seeders |->
                                        IF i <= Len(answered'.peers) THEN answered'.peers[i] ELSE Phantom])
      BY <2>3, <3>1 DEF Listed
    <3>3. HandledAsAnswered'
      <4>1. "message" \notin DOMAIN answered'
        BY <2>3, <3>1 DEF Listed
      <4> QED
        BY <3>2, <4>1 DEF HandledAsAnswered, Phantom
    <3> QED
      BY <1>1, <3>1, <3>3, Ended
  <2>4. \/ response.swarm = None /\ action = 0 /\ Field(d, 8, 8) = Swapped(Assigned)
        \/ /\ ~IsConnect /\ response.swarm \in Swarms /\ "message" \in DOMAIN response.swarm
           /\ action = 3 /\ ErrorMessage(d) = response.swarm.message
        \/ \E l \in Nat, s \in Nat : \E ps : Listed(d, l, s, ps)
    BY <1>2, <1>6, ResponseRead
  <2> QED
    BY <2>1, <2>2, <2>3, <2>4
<1> QED
  BY <1>5, <1>10

\* Whatever the metainfo file, the random bytes and the answers: the requests
\* the client sends (send_request) and what it makes of the answers
\* (handle_response, add_peer) are what each side meant.
THEOREM AnswersAlwaysAsSent ==
    ASSUME DigestSize
    PROVE  Spec => []AnswersAsSent
<1>1. StartupInv => AnswersAsSent
  <2> SUFFICES ASSUME StartupInv PROVE AnswersAsSent
    OBVIOUS
  <2>1. ASSUME phase = "sent" PROVE IsConnect \/ IsAnnounce
    <3>1. Identified /\ (Connecting \/ Announcing)
      BY <2>1 DEF StartupInv, IdentityInv, ExchangeInv, Running
    <3> QED
      BY <3>1, ConnectingSeen, AnnouncingSeen
  <2> QED
    BY <2>1 DEF AnswersAsSent, StartupInv
<1>2. StartupInv /\ [Next]_vars => StartupInv'
  <2> SUFFICES ASSUME StartupInv, [Next]_vars PROVE StartupInv'
    OBVIOUS
  <2>1. CASE Next
    BY <2>1, DecodeStep, ReadMetainfoStep, InitTrackerStep, RunStep, TrackerAnswersStep, HandleResponseStep
       DEF Next
  <2>2. CASE UNCHANGED vars
    <3>1. UNCHANGED <<phase, metainfo, peer_id, key, queue, connection_id, req_buf, response,
                      contacted, complaint, asked, answered>>
      BY <2>2 DEF vars, trackerVars
    <3>2. Answers' = Answers /\ Stale' = Stale
      BY <3>1 DEF Answers, IsConnect, Part, Listing, Stale
    <3>3. (Connecting \/ Announcing) => (Connecting \/ Announcing)'
      <4>1. \A t : AnnounceRequest(t)' = AnnounceRequest(t)
        BY <3>1, RequestSame
      <4> QED
        BY <3>1, <4>1 DEF Connecting, Announcing
    <3>4. ExchangeInv'
      BY <3>1, <3>2, <3>3 DEF StartupInv, ExchangeInv
    <3>5. IdentityInv'
      BY <3>1 DEF StartupInv, IdentityInv, Identified
    <3>6. UnderstoodAsMeant' /\ HandledAsAnswered'
      BY <3>1 DEF StartupInv, UnderstoodAsMeant, HandledAsAnswered
    <3> QED
      BY <3>4, <3>5, <3>6 DEF StartupInv
  <2> QED
    BY <2>1, <2>2
<1> QED
  BY <1>1, <1>2, StartupInit, PTL DEF Spec

=============================================================================
