--------------------------- MODULE TransferProofs ---------------------------
(***************************************************************************)
(* Wire, Layout and Transfer for every value of their constants: what a    *)
(* message is written as is read back as that message; pieces tile the     *)
(* file, blocks tile a piece, and every block is found and written at its  *)
(* own place; and along every behaviour of Transfer the reads cut the      *)
(* stream where the messages end, hand over what was sent, keep another    *)
(* torrent out and put the torrent's bytes where validation reads them.    *)
(***************************************************************************)
EXTENDS Transfer, SequenceTheorems, FiniteSetTheorems, TLAPS

-----------------------------------------------------------------------------
(* Words and bits.                                                          *)

\* The numbers of a uint32_t.
Word == {n \in Nat : n < 256 * (256 * (256 * 256))}

\* A number is its last byte and what is before it.
LEMMA LastByte ==
    ASSUME NEW n \in Nat
    PROVE  /\ n \div 256 \in Nat /\ n % 256 \in Byte
           /\ n = 256 * (n \div 256) + (n % 256)
           /\ \A x \in Nat : n < 256 * x => n \div 256 < x
<1>1. n \div 256 \in Nat /\ n % 256 \in 0 .. 255 /\ n = 256 * (n \div 256) + (n % 256)
  BY SMTT(30)
<1> QED
  BY <1>1 DEF Byte

\* A word is four bytes, of which it is the value.
LEMMA WordIsBytes ==
    ASSUME NEW n \in Word
    PROVE  /\ BigEndian(n) \in Seq(Byte) /\ Len(BigEndian(n)) = 4
           /\ FromBig(BigEndian(n)) = n
<1>0. n \in Nat /\ n < 256 * (256 * (256 * 256))
  BY DEF Word
<1> DEFINE a == n \div 256
<1>1. /\ a \in Nat /\ n % 256 \in Byte /\ n = 256 * a + (n % 256)
      /\ a < 256 * (256 * 256)
  BY <1>0, LastByte
<1> DEFINE b == a \div 256
<1> HIDE DEF a
<1>2. b \in Nat /\ a % 256 \in Byte /\ a = 256 * b + (a % 256) /\ b < 256 * 256
  BY <1>1, LastByte
<1> DEFINE c == b \div 256
<1> HIDE DEF b
<1>3. c \in Nat /\ b % 256 \in Byte /\ b = 256 * c + (b % 256) /\ c < 256
  BY <1>2, LastByte
<1> HIDE DEF c
<1>4. c \in Byte
  BY <1>3 DEF Byte
<1>5. BigEndian(n) = <<c, b % 256, a % 256, n % 256>>
  BY DEF BigEndian, a, b, c
<1>6. FromBig(BigEndian(n)) = n
  <2>1. FromBig(BigEndian(n)) = 256 * (256 * (256 * c + (b % 256)) + (a % 256)) + (n % 256)
    BY <1>5 DEF FromBig
  <2> QED
    BY <1>1, <1>2, <1>3, <2>1
<1> QED
  BY <1>1, <1>2, <1>3, <1>4, <1>5, <1>6

\* Deserializer::get returns the bytes at its offset.
LEMMA GetBytes ==
    ASSUME NEW d \in Seq(Byte), NEW o \in Nat, NEW n \in Nat, o + n <= Len(d)
    PROVE  /\ Get(d, o, n) \in Seq(Byte) /\ Len(Get(d, o, n)) = n
           /\ \A j \in 1 .. n : Get(d, o, n)[j] = d[o + j]
<1>1. \A i \in o + 1 .. o + n : d[i] \in Byte
  BY ElementOfSeq
<1>2. o + 1 \in Int /\ o + n \in Int
  OBVIOUS
<1>3. /\ Get(d, o, n) \in Seq(Byte)
      /\ Len(Get(d, o, n)) = IF o + 1 <= o + n THEN o + n - (o + 1) + 1 ELSE 0
      /\ \A i \in 1 .. o + n - (o + 1) + 1 : Get(d, o, n)[i] = d[o + 1 + i - 1]
  BY <1>1, <1>2, SubSeqProperties DEF Get
<1>4. o + n - (o + 1) + 1 = n /\ (\A i \in 1 .. n : o + 1 + i - 1 = o + i)
  OBVIOUS
<1> QED
  BY <1>3, <1>4

\* A word is read where it was written.
LEMMA WordIsRead ==
    ASSUME NEW d \in Seq(Byte), NEW o \in Nat, NEW n \in Word, o + 4 <= Len(d),
           \A j \in 1 .. 4 : d[o + j] = BigEndian(n)[j]
    PROVE  FromBig(Get(d, o, 4)) = n
<1>1. \A j \in 1 .. 4 : Get(d, o, 4)[j] = BigEndian(n)[j]
  BY SMTT(30), GetBytes
<1>2. FromBig(Get(d, o, 4)) = FromBig(BigEndian(n))
  BY <1>1 DEF FromBig
<1> QED
  BY <1>2, WordIsBytes

\* Words lie one after the other.
LEMMA WordsFollow ==
    ASSUME NEW words \in Seq(Word)
    PROVE  /\ WordBytes(words) \in Seq(Byte) /\ Len(WordBytes(words)) = 4 * Len(words)
           /\ \A i \in 1 .. Len(words), j \in 1 .. 4 :
                WordBytes(words)[4 * (i - 1) + j] = BigEndian(words[i])[j]
<1> DEFINE n == 4 * Len(words)
<1>1. Len(words) \in Nat /\ n \in Nat
  BY LenProperties
<1>3. ASSUME NEW k \in 1 .. n
      PROVE  CeilDiv(k, 4) \in 1 .. Len(words) /\ 1 + ((k - 1) % 4) \in 1 .. 4
  BY <1>1 DEF CeilDiv
<1>4. ASSUME NEW i \in 1 .. Len(words), NEW j \in 1 .. 4 PROVE BigEndian(words[i])[j] \in Byte
  <2>1. BigEndian(words[i]) \in Seq(Byte) /\ Len(BigEndian(words[i])) = 4
    BY ElementOfSeq, WordIsBytes
  <2> QED
    BY <2>1, ElementOfSeq
<1>5. WordBytes(words) \in [1 .. n -> Byte]
  BY <1>3, <1>4 DEF WordBytes
<1>6. WordBytes(words) \in Seq(Byte) /\ Len(WordBytes(words)) = n
  BY <1>1, <1>5
<1>7. ASSUME NEW i \in 1 .. Len(words), NEW j \in 1 .. 4
      PROVE  WordBytes(words)[4 * (i - 1) + j] = BigEndian(words[i])[j]
  <2> DEFINE k == 4 * (i - 1) + j
  <2>1. k \in 1 .. n /\ CeilDiv(k, 4) = i /\ 1 + ((k - 1) % 4) = j
    BY <1>1 DEF CeilDiv
  <2> HIDE DEF k
  <2>2. WordBytes(words)[k] = BigEndian(words[CeilDiv(k, 4)])[1 + ((k - 1) % 4)]
    BY <2>1 DEF WordBytes
  <2> QED
    BY <2>1, <2>2 DEF k
<1> QED
  BY <1>6, <1>7

\* A byte of a bitfield holds its eight bits, each at its place.
LEMMA PackedByte ==
    ASSUME NEW v \in Seq(BOOLEAN), NEW b \in 1 .. CeilDiv(Len(v), 8)
    PROVE  /\ PackBits(v)[b] \in Byte
           /\ \A j \in 1 .. 8 : (PackBits(v)[b] \div Places[j]) % 2 = Bit(v, 8 * (b - 1) + j)
<1> DEFINE n  == PackBits(v)[b]
           b1 == Bit(v, 8 * (b - 1) + 1)
           b2 == Bit(v, 8 * (b - 1) + 2)
           b3 == Bit(v, 8 * (b - 1) + 3)
           b4 == Bit(v, 8 * (b - 1) + 4)
           b5 == Bit(v, 8 * (b - 1) + 5)
           b6 == Bit(v, 8 * (b - 1) + 6)
           b7 == Bit(v, 8 * (b - 1) + 7)
           b8 == Bit(v, 8 * (b - 1) + 8)
<1>1. /\ b1 \in 0 .. 1 /\ b2 \in 0 .. 1 /\ b3 \in 0 .. 1 /\ b4 \in 0 .. 1
      /\ b5 \in 0 .. 1 /\ b6 \in 0 .. 1 /\ b7 \in 0 .. 1 /\ b8 \in 0 .. 1
  BY DEF Bit
<1>2. n = 128 * b1 + 64 * b2 + 32 * b3 + 16 * b4 + 8 * b5 + 4 * b6 + 2 * b7 + b8
  BY DEF PackBits
<1> HIDE DEF n, b1, b2, b3, b4, b5, b6, b7, b8
<1>3. n \in Byte
  BY <1>1, <1>2 DEF Byte
<1>4. (n \div 128) % 2 = b1 /\ (n \div 64) % 2 = b2 /\ (n \div 32) % 2 = b3 /\ (n \div 16) % 2 = b4
  BY <1>1, <1>2, SMTT(60)
<1>5. (n \div 8) % 2 = b5 /\ (n \div 4) % 2 = b6 /\ (n \div 2) % 2 = b7 /\ (n \div 1) % 2 = b8
  BY <1>1, <1>2, SMTT(60)
<1>6. /\ Places[1] = 128 /\ Places[2] = 64 /\ Places[3] = 32 /\ Places[4] = 16
      /\ Places[5] = 8 /\ Places[6] = 4 /\ Places[7] = 2 /\ Places[8] = 1
  BY DEF Places
<1>7. ASSUME NEW j \in 1 .. 8
      PROVE  (n \div Places[j]) % 2 = Bit(v, 8 * (b - 1) + j)
  <2>1. j \in {1, 2, 3, 4, 5, 6, 7, 8}
    OBVIOUS
  <2> QED
    BY SMTT(30), <1>4, <1>5, <1>6, <2>1 DEF b1, b2, b3, b4, b5, b6, b7, b8
<1> QED
  BY <1>3, <1>7 DEF n

\* A bitfield is filled up to whole bytes.
LEMMA Packed ==
    ASSUME NEW v \in Seq(BOOLEAN)
    PROVE  /\ PackBits(v) \in Seq(Byte) /\ Len(PackBits(v)) = CeilDiv(Len(v), 8)
           /\ CeilDiv(Len(v), 8) \in Nat
<1> DEFINE n == CeilDiv(Len(v), 8)
<1>1. n \in Nat
  <2>1. Len(v) \in Nat
    BY LenProperties
  <2> QED
    BY <2>1 DEF CeilDiv
<1> HIDE DEF n
<1>2. PackBits(v) = [b \in 1 .. n |-> PackBits(v)[b]]
  BY DEF PackBits, n
<1>3. \A b \in 1 .. n : PackBits(v)[b] \in Byte
  BY PackedByte DEF n
<1>4. PackBits(v) \in [1 .. n -> Byte]
  BY <1>2, <1>3
<1> QED
  BY <1>1, <1>4 DEF n

\* on_bitfield sees the bits that were packed, and FALSE beyond the last piece.
LEMMA UnpackedIsPadded ==
    ASSUME NEW v \in Seq(BOOLEAN)
    PROVE  UnpackBits(PackBits(v)) = Padded(v)
<1> DEFINE d == PackBits(v)
<1>1. d \in Seq(Byte) /\ Len(d) = CeilDiv(Len(v), 8) /\ Len(d) \in Nat
  BY Packed
<1>2. ASSUME NEW k \in 1 .. 8 * Len(d)
      PROVE  UnpackBits(d)[k] = Padded(v)[k]
  <2> DEFINE b == CeilDiv(k, 8)
             j == 1 + ((k - 1) % 8)
  <2>1. b \in 1 .. Len(d) /\ j \in 1 .. 8 /\ k = 8 * (b - 1) + j
    BY <1>1 DEF CeilDiv
  <2>2. UnpackBits(d)[k] = ((d[b] \div Places[j]) % 2 = 1)
    BY DEF UnpackBits
  <2> HIDE DEF b, j
  <2>3. (d[b] \div Places[j]) % 2 = Bit(v, k)
    BY <1>1, <2>1, PackedByte
  <2>4. Padded(v)[k] = (k <= Len(v) /\ v[k])
    BY <1>1 DEF Padded
  <2>5. UnpackBits(d)[k] = (Bit(v, k) = 1)
    BY <2>2, <2>3
  <2>6. (Bit(v, k) = 1) = (k <= Len(v) /\ v[k])
    BY DEF Bit
  <2> QED
    BY <2>4, <2>5, <2>6
<1>3. /\ UnpackBits(d) = [k \in 1 .. 8 * Len(d) |-> UnpackBits(d)[k]]
      /\ Padded(v) = [k \in 1 .. 8 * Len(d) |-> Padded(v)[k]]
  BY <1>1 DEF UnpackBits, Padded
<1> HIDE DEF d
<1>4. UnpackBits(d) = Padded(v)
  BY <1>2, <1>3
<1> QED
  BY <1>4 DEF d

-----------------------------------------------------------------------------
(* Messages as bytes.                                                       *)

\* What follows the words of a message.
Body(m) == IF m.id = BitField THEN PackBits(m.payload) ELSE m.payload

\* The messages a peer that keeps to the protocol sends, whose lengths fit in words.
IsMessage(m) ==
    /\ m = Message(m.id, m.words, m.payload)
    /\ m.words \in Seq(Word)
    /\ FrameLength(m) \in Word
    /\ \/ /\ m.id \in {Choke, Unchoke, Interested, NotInterested, KeepAlive}
          /\ m.words = <<>> /\ m.payload = <<>>
       \/ m.id = Have /\ Len(m.words) = 1 /\ m.payload = <<>>
       \/ m.id = BitField /\ m.words = <<>> /\ m.payload \in Seq(BOOLEAN)
       \/ m.id \in {Request, Cancel} /\ Len(m.words) = 3 /\ m.payload = <<>>
       \/ m.id = Piece /\ Len(m.words) = 2 /\ m.payload \in Seq(Byte)

\* Two sequences one after the other.
LEMMA Joined ==
    ASSUME NEW S, NEW s \in Seq(S), NEW t \in Seq(S)
    PROVE  /\ s \o t \in Seq(S) /\ Len(s \o t) = Len(s) + Len(t)
           /\ \A j \in 1 .. Len(s) : (s \o t)[j] = s[j]
           /\ \A j \in 1 .. Len(t) : (s \o t)[Len(s) + j] = t[j]
<1>1. Len(s) \in Nat /\ Len(t) \in Nat
  BY LenProperties
<1>2. /\ s \o t \in Seq(S) /\ Len(s \o t) = Len(s) + Len(t)
      /\ \A i \in 1 .. Len(s) + Len(t) : (s \o t)[i] = IF i <= Len(s) THEN s[i] ELSE t[i - Len(s)]
  BY ConcatProperties
<1>3. ASSUME NEW j \in 1 .. Len(t) PROVE (s \o t)[Len(s) + j] = t[j]
  <2>1. /\ Len(s) + j \in 1 .. Len(s) + Len(t) /\ ~(Len(s) + j <= Len(s))
        /\ Len(s) + j - Len(s) = j
    BY <1>1
  <2> QED
    BY <1>2, <2>1
<1>4. \A j \in 1 .. Len(s) : j \in 1 .. Len(s) + Len(t) /\ j <= Len(s)
  BY <1>1
<1> QED
  BY <1>2, <1>3, <1>4

\* Four of them.
LEMMA JoinedFour ==
    ASSUME NEW S, NEW a \in Seq(S), NEW b \in Seq(S), NEW c \in Seq(S), NEW d \in Seq(S),
           NEW s, s = a \o b \o c \o d
    PROVE  /\ s \in Seq(S) /\ Len(s) = Len(a) + Len(b) + Len(c) + Len(d)
           /\ \A j \in 1 .. Len(a) : s[j] = a[j]
           /\ \A j \in 1 .. Len(b) : s[Len(a) + j] = b[j]
           /\ \A j \in 1 .. Len(c) : s[Len(a) + Len(b) + j] = c[j]
           /\ \A j \in 1 .. Len(d) : s[Len(a) + Len(b) + Len(c) + j] = d[j]
<1>1. Len(a) \in Nat /\ Len(b) \in Nat /\ Len(c) \in Nat /\ Len(d) \in Nat
  BY LenProperties
<1> DEFINE ab  == a \o b
           abc == ab \o c
<1>2. /\ ab \in Seq(S) /\ Len(ab) = Len(a) + Len(b)
      /\ \A j \in 1 .. Len(a) : ab[j] = a[j]
      /\ \A j \in 1 .. Len(b) : ab[Len(a) + j] = b[j]
  BY Joined
<1> HIDE DEF ab
<1>3. /\ abc \in Seq(S) /\ Len(abc) = Len(ab) + Len(c)
      /\ \A j \in 1 .. Len(ab) : abc[j] = ab[j]
      /\ \A j \in 1 .. Len(c) : abc[Len(ab) + j] = c[j]
  <2>1. ab \in Seq(S)
    BY <1>2
  <2> QED
    BY <2>1, Joined
<1> HIDE DEF abc
<1>4. s = abc \o d
  BY DEF ab, abc
<1>5. /\ s \in Seq(S) /\ Len(s) = Len(abc) + Len(d)
      /\ \A j \in 1 .. Len(abc) : s[j] = abc[j]
      /\ \A j \in 1 .. Len(d) : s[Len(abc) + j] = d[j]
  <2>1. abc \in Seq(S)
    BY <1>3
  <2> QED
    BY <1>4, <2>1, Joined
<1>6. \A j \in 1 .. Len(a) : j \in 1 .. Len(ab) /\ j \in 1 .. Len(abc)
  BY <1>1, <1>2, <1>3
<1>7. \A j \in 1 .. Len(b) : Len(a) + j \in 1 .. Len(ab) /\ Len(a) + j \in 1 .. Len(abc)
  BY <1>1, <1>2, <1>3
<1>8. \A j \in 1 .. Len(c) : Len(ab) + j \in 1 .. Len(abc)
  BY <1>1, <1>2, <1>3
<1>9. \A j \in 1 .. Len(a) : s[j] = a[j]
  BY <1>2, <1>3, <1>5, <1>6
<1>10. \A j \in 1 .. Len(b) : s[Len(a) + j] = b[j]
  BY <1>2, <1>3, <1>5, <1>7
<1>11. \A j \in 1 .. Len(c) : s[Len(ab) + j] = c[j]
  BY <1>3, <1>5, <1>8
<1>12. Len(abc) = Len(a) + Len(b) + Len(c) /\ Len(s) = Len(a) + Len(b) + Len(c) + Len(d)
  BY <1>1, <1>2, <1>3, <1>5
<1> QED
  BY <1>2, <1>5, <1>9, <1>10, <1>11, <1>12

\* The numbers of the messages are different, and bytes.
LEMMA Ids ==
    /\ {Choke, Unchoke, Interested, NotInterested, Have, BitField, Request, Piece, Cancel, KeepAlive}
          \subseteq Byte
    /\ {Have, BitField, Request, Cancel, Piece} \cap
          {Choke, Unchoke, Interested, NotInterested, KeepAlive} = {}
    /\ KeepAlive \notin {Choke, Unchoke, Interested, NotInterested}
    /\ Have \notin {BitField, Request, Cancel, Piece}
    /\ BitField \notin {Request, Cancel, Piece}
    /\ Piece \notin {Request, Cancel}
  BY DEF Byte, Choke, Unchoke, Interested, NotInterested, Have, BitField, Request, Piece, Cancel, KeepAlive

\* The length a constructor gives is that of the bytes written after it.
LEMMA LengthsAgree ==
    ASSUME NEW m, IsMessage(m)
    PROVE  /\ Body(m) \in Seq(Byte)
           /\ FrameLength(m) = (IF m.id = KeepAlive THEN 0 ELSE 1) + 4 * Len(m.words) + Len(Body(m))
           /\ m.id # KeepAlive => m.id \in Byte
           /\ FrameLength(m) = 0 <=> m.id = KeepAlive
<1>1. <<>> \in Seq(Byte) /\ Len(<<>>) = 0
  OBVIOUS
<1>2. CASE m.id \in {Choke, Unchoke, Interested, NotInterested, KeepAlive} /\ m.words = <<>> /\ m.payload = <<>>
  <2>1. Body(m) = <<>>
    BY <1>2, Ids DEF Body
  <2>2. FrameLength(m) = IF m.id = KeepAlive THEN 0 ELSE 1
    BY <1>2, Ids DEF FrameLength
  <2>3. m.id \in Byte
    BY <1>2, Ids
  <2> QED
    BY <1>1, <1>2, <2>1, <2>2, <2>3
<1>3. CASE m.id = Have /\ Len(m.words) = 1 /\ m.payload = <<>>
  <2>1. Body(m) = <<>>
    BY <1>3, Ids DEF Body
  <2>2. FrameLength(m) = 5 /\ m.id # KeepAlive /\ m.id \in Byte
    BY <1>3, Ids DEF FrameLength
  <2> QED
    BY <1>1, <1>3, <2>1, <2>2
<1>4. CASE m.id = BitField /\ m.words = <<>> /\ m.payload \in Seq(BOOLEAN)
  <2>1. Body(m) \in Seq(Byte) /\ Len(Body(m)) = CeilDiv(Len(m.payload), 8) /\ Len(Body(m)) \in Nat
    BY <1>4, Packed DEF Body
  <2>2. Len(m.payload) \in Nat
    BY <1>4, LenProperties
  <2>3. FrameLength(m) = 1 + Len(m.payload) \div 8 + (IF Len(m.payload) % 8 > 0 THEN 1 ELSE 0)
        /\ m.id # KeepAlive /\ m.id \in Byte
    BY <1>4, Ids DEF FrameLength
  <2>4. \A n \in Nat : 1 + n \div 8 + (IF n % 8 > 0 THEN 1 ELSE 0) = 1 + CeilDiv(n, 8)
    BY DEF CeilDiv
  <2>5. FrameLength(m) = 1 + CeilDiv(Len(m.payload), 8)
    BY <2>2, <2>3, <2>4
  <2>6. Len(m.words) = 0 /\ m.id # KeepAlive /\ m.id \in Byte
    BY <1>1, <1>4, <2>3
  <2>7. FrameLength(m) = 1 + Len(Body(m)) /\ FrameLength(m) # 0
    BY <2>1, <2>5
  <2> QED
    BY <2>1, <2>6, <2>7
<1>5. CASE m.id \in {Request, Cancel} /\ Len(m.words) = 3 /\ m.payload = <<>>
  <2>1. Body(m) = <<>>
    BY <1>5, Ids DEF Body
  <2>2. FrameLength(m) = 13 /\ m.id # KeepAlive /\ m.id \in Byte
    BY <1>5, Ids DEF FrameLength
  <2> QED
    BY <1>1, <1>5, <2>1, <2>2
<1>6. CASE m.id = Piece /\ Len(m.words) = 2 /\ m.payload \in Seq(Byte)
  <2>1. Body(m) = m.payload /\ Len(m.payload) \in Nat
    BY <1>6, Ids, LenProperties DEF Body
  <2>2. FrameLength(m) = 9 + Len(m.payload) /\ m.id # KeepAlive /\ m.id \in Byte
    BY <1>6, Ids DEF FrameLength
  <2> QED
    BY <1>6, <2>1, <2>2
<1> QED
  BY <1>2, <1>3, <1>4, <1>5, <1>6 DEF IsMessage

\* What a frame looks like: its length, the id, the words, the rest.
LEMMA Serialized ==
    ASSUME NEW m, IsMessage(m)
    PROVE  /\ Serialize(m) \in Seq(Byte)
           /\ Len(Serialize(m)) = 4 + FrameLength(m)
           /\ \A j \in 1 .. 4 : Serialize(m)[j] = BigEndian(FrameLength(m))[j]
           /\ m.id # KeepAlive =>
                /\ Serialize(m)[5] = m.id
                /\ Len(Serialize(m)) = 5 + 4 * Len(m.words) + Len(Body(m))
                /\ \A i \in 1 .. Len(m.words), j \in 1 .. 4 :
                     Serialize(m)[5 + 4 * (i - 1) + j] = BigEndian(m.words[i])[j]
                /\ \A j \in 1 .. Len(Body(m)) :
                     Serialize(m)[5 + 4 * Len(m.words) + j] = Body(m)[j]
<1> DEFINE a == BigEndian(FrameLength(m))
           b == IF m.id = KeepAlive THEN <<>> ELSE <<m.id>>
           c == WordBytes(m.words)
           d == Body(m)
           s == Serialize(m)
<1>1. a \in Seq(Byte) /\ Len(a) = 4
  BY WordIsBytes DEF IsMessage
<1>2. b \in Seq(Byte) /\ Len(b) = (IF m.id = KeepAlive THEN 0 ELSE 1) /\ (m.id # KeepAlive => b[1] = m.id)
  <2>1. CASE m.id = KeepAlive
    BY <2>1
  <2>2. CASE m.id # KeepAlive
    <3>1. m.id \in Byte
      BY <2>2, LengthsAgree
    <3> QED
      BY <2>2, <3>1
  <2> QED
    BY <2>1, <2>2
<1>3. /\ m.words \in Seq(Word) /\ Len(m.words) \in Nat
      /\ c \in Seq(Byte) /\ Len(c) = 4 * Len(m.words)
      /\ \A i \in 1 .. Len(m.words), j \in 1 .. 4 : c[4 * (i - 1) + j] = BigEndian(m.words[i])[j]
  BY WordsFollow, LenProperties DEF IsMessage
<1>4. d \in Seq(Byte) /\ Len(d) \in Nat
  BY LengthsAgree, LenProperties
<1>5. s = a \o b \o c \o d
  BY DEF Serialize, Body
<1>6. FrameLength(m) = (IF m.id = KeepAlive THEN 0 ELSE 1) + 4 * Len(m.words) + Len(d)
  BY LengthsAgree
<1> HIDE DEF a, b, c, d, s
<1>7. /\ s \in Seq(Byte) /\ Len(s) = Len(a) + Len(b) + Len(c) + Len(d)
      /\ \A j \in 1 .. Len(a) : s[j] = a[j]
      /\ \A j \in 1 .. Len(b) : s[Len(a) + j] = b[j]
      /\ \A j \in 1 .. Len(c) : s[Len(a) + Len(b) + j] = c[j]
      /\ \A j \in 1 .. Len(d) : s[Len(a) + Len(b) + Len(c) + j] = d[j]
  <2>1. a \in Seq(Byte) /\ b \in Seq(Byte) /\ c \in Seq(Byte) /\ d \in Seq(Byte)
    BY <1>1, <1>2, <1>3, <1>4
  <2> QED
    BY <1>5, <2>1, JoinedFour
<1>8. Len(s) = 4 + FrameLength(m)
  <2> DEFINE lead == IF m.id = KeepAlive THEN 0 ELSE 1
  <2>1. Len(s) = Len(a) + Len(b) + Len(c) + Len(d) /\ Len(a) = 4 /\ Len(c) = 4 * Len(m.words)
    BY <1>1, <1>3, <1>7
  <2>2. Len(b) = lead /\ lead \in Nat /\ Len(m.words) \in Nat /\ Len(d) \in Nat
    BY <1>2, <1>3, <1>4
  <2>3. FrameLength(m) = lead + 4 * Len(m.words) + Len(d)
    BY <1>6
  <2>4. \A l, w, r \in Nat : 4 + l + 4 * w + r = 4 + (l + 4 * w + r)
    OBVIOUS
  <2>5. Len(s) = 4 + lead + 4 * Len(m.words) + Len(d)
    BY <2>1, <2>2
  <2> DEFINE len == FrameLength(m)
  <2>6. len = lead + 4 * Len(m.words) + Len(d)
    BY <2>3
  <2> HIDE DEF lead, len
  <2>7. Len(s) = 4 + len
    BY <2>2, <2>4, <2>5, <2>6
  <2> QED
    BY <2>7 DEF len
<1>9. \A j \in 1 .. 4 : s[j] = a[j]
  BY <1>1, <1>7
<1>10. ASSUME m.id # KeepAlive
       PROVE  /\ s[5] = m.id
              /\ Len(s) = 5 + 4 * Len(m.words) + Len(d)
              /\ \A i \in 1 .. Len(m.words), j \in 1 .. 4 :
                    s[5 + 4 * (i - 1) + j] = BigEndian(m.words[i])[j]
              /\ \A j \in 1 .. Len(d) : s[5 + 4 * Len(m.words) + j] = d[j]
  <2>1. Len(b) = 1 /\ b[1] = m.id /\ Len(a) = 4 /\ Len(a) + Len(b) = 5
    BY <1>1, <1>2, <1>10
  <2>2. s[5] = m.id
    <3>1. 1 \in 1 .. Len(b) /\ Len(a) + 1 = 5
      BY <2>1
    <3> QED
      BY <1>7, <2>1, <3>1
  <2>3. Len(s) = 5 + 4 * Len(m.words) + Len(d) /\ Len(a) + Len(b) + Len(c) = 5 + 4 * Len(m.words)
    BY <1>3, <1>4, <1>7, <2>1
  <2>4. ASSUME NEW i \in 1 .. Len(m.words), NEW j \in 1 .. 4
        PROVE  s[5 + 4 * (i - 1) + j] = BigEndian(m.words[i])[j]
    <3> DEFINE k == 4 * (i - 1) + j
    <3>1. k \in 1 .. Len(c) /\ 5 + k = 5 + 4 * (i - 1) + j
      BY <1>3
    <3>2. c[k] = BigEndian(m.words[i])[j]
      BY <1>3
    <3> HIDE DEF k
    <3>3. s[5 + k] = c[k]
      BY <1>7, <2>1, <3>1
    <3> QED
      BY <3>1, <3>2, <3>3
  <2>5. ASSUME NEW j \in 1 .. Len(d) PROVE s[5 + 4 * Len(m.words) + j] = d[j]
    BY <1>7, <2>3
  <2> QED
    BY <2>2, <2>3, <2>4, <2>5
<1> QED
  BY <1>7, <1>8, <1>9, <1>10 DEF a, d, s

\* Words are read back in their order.
LEMMA WordsAreRead ==
    ASSUME NEW d \in Seq(Byte), NEW words \in Seq(Word), 5 + 4 * Len(words) <= Len(d),
           \A i \in 1 .. Len(words), j \in 1 .. 4 : d[5 + 4 * (i - 1) + j] = BigEndian(words[i])[j]
    PROVE  Words(d, Len(words)) = words
<1>1. Len(words) \in Nat /\ words = [i \in 1 .. Len(words) |-> words[i]] /\ Len(d) \in Nat
  BY LenProperties
<1>2. ASSUME NEW i \in 1 .. Len(words)
      PROVE  FromBig(Get(d, 5 + 4 * (i - 1), 4)) = words[i]
  <2> DEFINE o == 5 + 4 * (i - 1)
  <2>1. o \in Nat /\ o + 4 <= Len(d)
    BY <1>1
  <2>2. words[i] \in Word
    BY ElementOfSeq
  <2>3. \A j \in 1 .. 4 : d[o + j] = BigEndian(words[i])[j]
    OBVIOUS
  <2> HIDE DEF o
  <2>4. FromBig(Get(d, o, 4)) = words[i]
    BY <2>1, <2>2, <2>3, WordIsRead
  <2> QED
    BY <2>4 DEF o
<1>3. Words(d, Len(words)) = [i \in 1 .. Len(words) |-> words[i]]
  BY <1>2 DEF Words
<1> QED
  BY <1>1, <1>3

\* The rest of a frame is read back.
LEMMA RestIsRead ==
    ASSUME NEW d \in Seq(Byte), NEW o \in Nat, NEW rest \in Seq(Byte), o + Len(rest) <= Len(d),
           \A j \in 1 .. Len(rest) : d[o + j] = rest[j]
    PROVE  Get(d, o, Len(rest)) = rest
<1>1. Len(rest) \in Nat
  BY LenProperties
<1>2. /\ Get(d, o, Len(rest)) \in Seq(Byte) /\ Len(Get(d, o, Len(rest))) = Len(rest)
      /\ \A j \in 1 .. Len(rest) : Get(d, o, Len(rest))[j] = d[o + j]
  BY <1>1, GetBytes
<1> QED
  BY <1>2, SeqEqual

\* Whatever message a peer that keeps to the protocol sends, what the reads make of its
\* bytes is that message, its bitfield filled up to whole bytes; the length in front of
\* it is that of the rest, and no read goes beyond the end.
THEOREM RoundTrip ==
    ASSUME NEW m, IsMessage(m), m.id # KeepAlive
    PROVE  /\ FromBig(Get(Serialize(m), 0, 4)) = Len(Serialize(m)) - 4
           /\ ~FrameOverruns(Serialize(m))
           /\ Deserialize(Serialize(m)) = Expected(m)
<1> DEFINE d == Serialize(m)
           len == FrameLength(m)
<1>1. /\ d \in Seq(Byte) /\ Len(d) = 4 + len /\ d[5] = m.id
      /\ \A j \in 1 .. 4 : d[j] = BigEndian(len)[j]
      /\ Len(d) = 5 + 4 * Len(m.words) + Len(Body(m))
      /\ \A i \in 1 .. Len(m.words), j \in 1 .. 4 : d[5 + 4 * (i - 1) + j] = BigEndian(m.words[i])[j]
      /\ \A j \in 1 .. Len(Body(m)) : d[5 + 4 * Len(m.words) + j] = Body(m)[j]
  BY Serialized
<1>2. len \in Word /\ len \in Nat /\ m.words \in Seq(Word) /\ Body(m) \in Seq(Byte)
  BY LengthsAgree DEF IsMessage, Word
<1>3. Len(m.words) \in Nat /\ Len(Body(m)) \in Nat
  BY <1>2, LenProperties
<1> HIDE DEF d, len
<1>4. FromBig(Get(d, 0, 4)) = len
  <2>1. 0 + 4 <= Len(d) /\ \A j \in 1 .. 4 : d[0 + j] = BigEndian(len)[j]
    BY <1>1, <1>2
  <2> QED
    BY <1>1, <1>2, <2>1, WordIsRead
<1>5. Words(d, Len(m.words)) = m.words
  <2>1. 5 + 4 * Len(m.words) <= Len(d)
    BY <1>1, <1>3
  <2> QED
    BY <1>1, <1>2, <2>1, WordsAreRead
<1>6. Get(d, 5 + 4 * Len(m.words), Len(Body(m))) = Body(m)
  <2>1. 5 + 4 * Len(m.words) + Len(Body(m)) <= Len(d) /\ 5 + 4 * Len(m.words) \in Nat
    BY <1>1, <1>3
  <2> QED
    BY <1>1, <1>2, <2>1, RestIsRead
<1>7. m = Message(m.id, m.words, m.payload)
  BY DEF IsMessage
<1>8. ~FrameOverruns(d) /\ Deserialize(d) = Expected(m)
  <2>1. CASE m.id \in {Choke, Unchoke, Interested, NotInterested} /\ m.words = <<>> /\ m.payload = <<>>
    <3>1. Expected(m) = m
      BY <2>1, Ids DEF Expected
    <3>2. Deserialize(d) = Message(m.id, <<>>, <<>>) /\ ~FrameOverruns(d)
      BY ZenonT(40), <1>1, <2>1, Ids DEF Deserialize, FrameOverruns
    <3> QED
      BY <1>7, <2>1, <3>1, <3>2
  <2>2. CASE m.id = Have /\ Len(m.words) = 1 /\ m.payload = <<>>
    <3>1. Expected(m) = m
      BY <2>2, Ids DEF Expected
    <3>2. Deserialize(d) = Message(Have, Words(d, 1), <<>>)
      BY <1>1, <2>2, Ids DEF Deserialize
    <3>3. ~(9 > Len(d))
      BY <1>1, <1>3, <2>2
    <3>4. ~FrameOverruns(d)
      BY <1>1, <2>2, <3>3, Ids DEF FrameOverruns
    <3> QED
      BY <1>5, <1>7, <2>2, <3>1, <3>2, <3>4
  <2>3. CASE m.id = BitField /\ m.words = <<>> /\ m.payload \in Seq(BOOLEAN)
    <3>1. Expected(m) = Message(BitField, <<>>, Padded(m.payload))
      BY <1>7, <2>3 DEF Expected, Message
    <3>2. Len(m.words) = 0 /\ len - 1 = Len(Body(m)) /\ Body(m) = PackBits(m.payload)
      BY <1>1, <1>2, <1>3, <2>3 DEF Body
    <3>3. Deserialize(d) = Message(BitField, <<>>, UnpackBits(Get(d, 5, len - 1)))
      BY <1>1, <1>4, <2>3, Ids DEF Deserialize
    <3>4. Get(d, 5, len - 1) = PackBits(m.payload)
      BY <1>6, <3>2
    <3>5. UnpackBits(PackBits(m.payload)) = Padded(m.payload)
      BY <2>3, UnpackedIsPadded
    <3>6. CeilDiv((len - 1) * 8, 8) = len - 1
      <4>1. \A n \in Nat : CeilDiv(n * 8, 8) = n
        BY DEF CeilDiv
      <4> QED
        BY <1>3, <3>2, <4>1
    <3>7. ~(5 + CeilDiv((len - 1) * 8, 8) > Len(d))
      BY <1>1, <1>2, <3>6
    <3>8. ~FrameOverruns(d)
      BY <1>1, <1>4, <2>3, <3>7, Ids DEF FrameOverruns
    <3> QED
      BY <3>1, <3>3, <3>4, <3>5, <3>8
  <2>4. CASE m.id \in {Request, Cancel} /\ Len(m.words) = 3 /\ m.payload = <<>>
    <3>1. Expected(m) = m
      BY <2>4, Ids DEF Expected
    <3>2. Deserialize(d) = Message(m.id, Words(d, 3), <<>>)
      BY <1>1, <2>4, Ids DEF Deserialize
    <3>3. ~(17 > Len(d))
      BY <1>1, <1>3, <2>4
    <3>4. ~FrameOverruns(d)
      BY <1>1, <2>4, <3>3, Ids DEF FrameOverruns
    <3> QED
      BY <1>5, <1>7, <2>4, <3>1, <3>2, <3>4
  <2>5. CASE m.id = Piece /\ Len(m.words) = 2 /\ m.payload \in Seq(Byte)
    <3>1. Expected(m) = m
      BY <2>5, Ids DEF Expected
    <3>2. Body(m) = m.payload /\ len - 9 = Len(Body(m)) /\ 5 + 4 * Len(m.words) = 13
      BY <1>1, <1>2, <1>3, <2>5, Ids DEF Body
    <3>3. Deserialize(d) = Message(Piece, Words(d, 2), Get(d, 13, len - 9))
      BY <1>1, <1>4, <2>5, Ids DEF Deserialize
    <3>4. Get(d, 13, len - 9) = m.payload
      BY <1>6, <3>2
    <3>5. ~(13 + (len - 9) > Len(d))
      BY <1>1, <1>2
    <3>6. ~FrameOverruns(d)
      BY <1>1, <1>4, <2>5, <3>5, Ids DEF FrameOverruns
    <3> QED
      BY <1>5, <1>7, <2>5, <3>1, <3>3, <3>4, <3>6
  <2>6. CASE m.id = KeepAlive
    BY <2>6
  <2> QED
    BY <2>1, <2>2, <2>3, <2>4, <2>5, <2>6 DEF IsMessage
<1> QED
  BY <1>1, <1>2, <1>4, <1>8 DEF d

-----------------------------------------------------------------------------
(* Layout: a whole cut into parts.                                          *)

\* How many parts of size b a whole of size a > 0 has, the last one shorter or not.
Parts(a, b)     == (a + b - 1) \div b

\* The size of part i of them.
PartSize(a, b, i) == IF i = Parts(a, b) - 1 THEN a - i * b ELSE b

-----------------------------------------------------------------------------
(* Rounded division.                                                        *)

\* All parts but the last are full, and the last one is not empty.
LEMMA Rounded ==
    ASSUME NEW a \in Nat \ {0}, NEW b \in Nat \ {0}
    PROVE  /\ Parts(a, b) \in Nat \ {0}
           /\ (Parts(a, b) - 1) * b < a
           /\ a <= Parts(a, b) * b
<1> DEFINE q == (a + b - 1) \div b
<1>1. a + b - 1 \in Nat
  OBVIOUS
<1>2. q \in Nat /\ q * b <= a + b - 1 /\ a + b - 1 < q * b + b
  <2>1. \A c \in Nat : c \div b \in Nat /\ (c \div b) * b <= c /\ c < (c \div b) * b + b
    BY SMTT(30)
  <2>. QED
    BY <1>1, <2>1
<1>3. q # 0
  BY <1>2
<1>4. (q - 1) * b = q * b - b
  BY <1>2
<1>. QED
  BY <1>2, <1>3, <1>4 DEF Parts

\* The parts before part i end where it begins.
LEMMA Products ==
    ASSUME NEW b \in Nat \ {0}, NEW i \in Nat, NEW j \in Nat, i < j
    PROVE  i * b + b <= j * b
<1>1. PICK d \in Nat : j = i + 1 + d
  <2>1. j - i - 1 \in Nat /\ j = i + 1 + (j - i - 1)
    OBVIOUS
  <2>. QED
    BY <2>1
<1>2. j * b = i * b + b + d * b /\ d * b \in Nat /\ i * b \in Nat
  BY <1>1, SMTT(30)
<1>. QED
  BY <1>2

\* No part is empty or too large, they follow each other without a gap, and the
\* last one ends where the whole does.
LEMMA PartsTile ==
    ASSUME NEW a \in Nat \ {0}, NEW b \in Nat \ {0}
    PROVE  /\ Parts(a, b) \in Nat \ {0}
           /\ \A i \in 0 .. Parts(a, b) - 1 :
                /\ PartSize(a, b, i) \in 1 .. b
                /\ i * b + PartSize(a, b, i) = (IF i = Parts(a, b) - 1 THEN a ELSE (i + 1) * b)
                /\ i * b + PartSize(a, b, i) <= a
           /\ \A i, j \in 0 .. Parts(a, b) - 1 : i < j => i * b + PartSize(a, b, i) <= j * b
           /\ \A o \in 0 .. a - 1 : \E i \in 0 .. Parts(a, b) - 1 :
                i * b <= o /\ o < i * b + PartSize(a, b, i)
<1> DEFINE n == Parts(a, b)
<1>1. n \in Nat \ {0} /\ (n - 1) * b < a /\ a <= n * b
  BY Rounded
<1> HIDE DEF n
<1>2. (n - 1) * b + b = n * b /\ (n - 1) * b \in Nat
  BY <1>1
<1>3. ASSUME NEW i \in 0 .. n - 1
      PROVE  /\ PartSize(a, b, i) \in 1 .. b
             /\ i * b + PartSize(a, b, i) = (IF i = n - 1 THEN a ELSE (i + 1) * b)
             /\ i * b + PartSize(a, b, i) <= a
  <2>1. i * b \in Nat /\ (i + 1) * b = i * b + b
    BY <1>1
  <2>2. CASE i = n - 1
    BY <1>1, <1>2, <2>1, <2>2 DEF PartSize, n
  <2>3. CASE i # n - 1
    <3>1. i < n - 1 /\ n - 1 \in Nat
      BY <1>1, <2>3
    <3>2. i * b + b <= (n - 1) * b
      BY <3>1, Products
    <3>3. PartSize(a, b, i) = b
      BY <2>3 DEF PartSize, n
    <3>. QED
      BY <1>1, <1>2, <2>1, <2>3, <3>2, <3>3
  <2>. QED
    BY <2>2, <2>3
<1>4. ASSUME NEW i \in 0 .. n - 1, NEW j \in 0 .. n - 1, i < j
      PROVE  i * b + PartSize(a, b, i) <= j * b
  <2>1. i * b + b <= j * b /\ i * b \in Nat /\ j * b \in Nat
    BY <1>1, <1>4, Products
  <2>2. PartSize(a, b, i) \in 1 .. b
    BY <1>3
  <2>. QED
    BY <2>1, <2>2
<1>5. ASSUME NEW o \in 0 .. a - 1
      PROVE  \E i \in 0 .. n - 1 : i * b <= o /\ o < i * b + PartSize(a, b, i)
  <2> DEFINE i == o \div b
  <2>1. i \in Nat /\ i * b <= o /\ o < i * b + b
    BY SMTT(30)
  <2> HIDE DEF i
  <2>2. i <= n - 1
    <3>1. CASE n - 1 < i
      <4>1. (n - 1) * b + b <= i * b
        BY <1>1, <2>1, <3>1, Products
      <4>. QED
        BY <1>1, <1>2, <2>1, <4>1
    <3>. QED
      BY <1>1, <2>1, <3>1
  <2>3. i \in 0 .. n - 1
    BY <1>1, <2>1, <2>2
  <2>4. o < i * b + PartSize(a, b, i)
    <3>1. CASE i = n - 1
      BY <1>3, <2>1, <2>3, <3>1
    <3>2. CASE i # n - 1
      BY <2>1, <3>2 DEF PartSize, n
    <3>. QED
      BY <3>1, <3>2
  <2>. QED
    BY <2>1, <2>3, <2>4
<1>. QED
  BY <1>1, <1>3, <1>4, <1>5 DEF n

-----------------------------------------------------------------------------
(* The code's two divisions are such.                                       *)

\* Pieces are the parts of a file.
LEMMA PiecesAreParts ==
    ASSUME NEW l \in Lengths
    PROVE  /\ NumPieces(l) = Parts(l.length, l.pieceLength)
           /\ NumPieces(l) \in Nat \ {0}
           /\ \A i \in PieceSet(l) : PieceSize(l, i) = PartSize(l.length, l.pieceLength, i)
<1>1. NumPieces(l) = Parts(l.length, l.pieceLength) /\ Parts(l.length, l.pieceLength) \in Nat \ {0}
  BY Rounded DEF Lengths, NumPieces, Parts
<1>. QED
  BY <1>1 DEF PieceSize, PartSize

\* Blocks are the parts of a piece, which is not empty.
LEMMA BlocksAreParts ==
    ASSUME NEW l \in Lengths, NEW i \in PieceSet(l)
    PROVE  /\ PieceSize(l, i) \in Nat \ {0} /\ NominalBlockSize \in Nat \ {0}
           /\ NumBlocks(l, i) = Parts(PieceSize(l, i), NominalBlockSize)
           /\ \A k \in BlockSet(l, i) :
                BlockSize(l, i, k) = PartSize(PieceSize(l, i), NominalBlockSize, k)
<1>0. l.length \in Nat \ {0} /\ l.pieceLength \in Nat \ {0}
  BY DEF Lengths
<1>1. PieceSize(l, i) \in 1 .. l.pieceLength
  <2>1. \A k \in 0 .. Parts(l.length, l.pieceLength) - 1 :
            PartSize(l.length, l.pieceLength, k) \in 1 .. l.pieceLength
    BY <1>0, PartsTile
  <2>2. i \in 0 .. Parts(l.length, l.pieceLength) - 1
        /\ PieceSize(l, i) = PartSize(l.length, l.pieceLength, i)
    BY PiecesAreParts DEF PieceSet
  <2>. QED
    BY <2>1, <2>2
<1>2. PieceSize(l, i) \in Nat \ {0}
  BY <1>0, <1>1
<1>3. NumBlocks(l, i) = Parts(PieceSize(l, i), NominalBlockSize)
  BY DEF NumBlocks, Parts
<1>. QED
  BY <1>2, <1>3, LayoutAssumption DEF BlockSize, PartSize

\* generate_pieces cuts every file so that each byte is in one piece: no piece is empty,
\* none begins before the one in front of it ends, and the last ends with the file.
THEOREM PiecesTileFile ==
    ASSUME NEW l \in Lengths
    PROVE  /\ \A i \in PieceSet(l) : /\ PieceSize(l, i) \in 1 .. l.pieceLength
                                     /\ PieceOffset(l, i) + PieceSize(l, i) <= l.length
           /\ \A i, j \in PieceSet(l) :
                i < j => PieceOffset(l, i) + PieceSize(l, i) <= PieceOffset(l, j)
           /\ \A o \in 0 .. l.length - 1 : \E i \in PieceSet(l) :
                PieceOffset(l, i) <= o /\ o < PieceOffset(l, i) + PieceSize(l, i)
<1>1. l.length \in Nat \ {0} /\ l.pieceLength \in Nat \ {0}
  BY DEF Lengths
<1> DEFINE n == Parts(l.length, l.pieceLength)
           size(i) == PartSize(l.length, l.pieceLength, i)
<1>2. /\ \A i \in 0 .. n - 1 : /\ size(i) \in 1 .. l.pieceLength
                              /\ i * l.pieceLength + size(i) <= l.length
      /\ \A i, j \in 0 .. n - 1 : i < j => i * l.pieceLength + size(i) <= j * l.pieceLength
      /\ \A o \in 0 .. l.length - 1 : \E i \in 0 .. n - 1 :
            i * l.pieceLength <= o /\ o < i * l.pieceLength + size(i)
  BY <1>1, PartsTile
<1>3. PieceSet(l) = 0 .. n - 1 /\ \A i \in 0 .. n - 1 : PieceSize(l, i) = size(i)
  BY PiecesAreParts DEF PieceSet
<1> HIDE DEF n, size
<1>. QED
  BY <1>2, <1>3 DEF PieceOffset

\* Piece's constructor does the same with the blocks of every piece.
THEOREM BlocksTilePiece ==
    ASSUME NEW l \in Lengths, NEW i \in PieceSet(l)
    PROVE  /\ \A k \in BlockSet(l, i) :
                /\ BlockSize(l, i, k) \in 1 .. NominalBlockSize
                /\ BlockOffset(k) + BlockSize(l, i, k) <= PieceSize(l, i)
           /\ \A k, m \in BlockSet(l, i) :
                k < m => BlockOffset(k) + BlockSize(l, i, k) <= BlockOffset(m)
           /\ \A o \in 0 .. PieceSize(l, i) - 1 : \E k \in BlockSet(l, i) :
                BlockOffset(k) <= o /\ o < BlockOffset(k) + BlockSize(l, i, k)
<1> DEFINE a == PieceSize(l, i)
           b == NominalBlockSize
           n == Parts(a, b)
           size(k) == PartSize(a, b, k)
<1>1. a \in Nat \ {0} /\ b \in Nat \ {0}
  BY BlocksAreParts
<1>2. /\ \A k \in 0 .. n - 1 : size(k) \in 1 .. b /\ k * b + size(k) <= a
      /\ \A k, m \in 0 .. n - 1 : k < m => k * b + size(k) <= m * b
      /\ \A o \in 0 .. a - 1 : \E k \in 0 .. n - 1 : k * b <= o /\ o < k * b + size(k)
  BY <1>1, PartsTile
<1>3. BlockSet(l, i) = 0 .. n - 1 /\ \A k \in 0 .. n - 1 : BlockSize(l, i, k) = size(k)
  BY BlocksAreParts DEF BlockSet
<1> HIDE DEF n, size
<1>. QED
  BY <1>2, <1>3 DEF BlockOffset

\* get_block_by_offset finds the block that the constructor made with that offset.
THEOREM BlockIsFound ==
    ASSUME NEW k \in Nat
    PROVE  BlockAt(BlockOffset(k)) = k
<1>1. NominalBlockSize \in Nat \ {0}
  BY LayoutAssumption
<1>2. \A b \in Nat \ {0} : (k * b) \div b = k
  <2>1. ASSUME NEW b \in Nat \ {0} PROVE (k * b) \div b = k
    BY SMTT(30)
  <2>. QED
    BY <2>1
<1>. QED
  BY <1>1, <1>2 DEF BlockAt, BlockOffset

\* In a file that a uint32_t can address, write_block puts a block where
\* validate_piece reads its piece, and no block reaches beyond its piece or the file.
LEMMA BlockInFile ==
    ASSUME NEW l \in Lengths, l.length <= OffsetModulus,
           NEW i \in PieceSet(l), NEW k \in BlockSet(l, i)
    PROVE  /\ PieceOffset(l, i) \in Nat /\ BlockOffset(k) \in Nat
           /\ BlockSize(l, i, k) \in Nat \ {0} /\ PieceSize(l, i) \in Nat
           /\ BlockOffset(k) + BlockSize(l, i, k) <= PieceSize(l, i)
           /\ PieceOffset(l, i) + PieceSize(l, i) <= l.length
           /\ WriteOffset(l, i, BlockOffset(k)) = PieceOffset(l, i) + BlockOffset(k)
<1>1. l.length \in Nat \ {0} /\ l.pieceLength \in Nat \ {0} /\ NominalBlockSize \in Nat \ {0}
      /\ OffsetModulus \in Nat \ {0}
  BY LayoutAssumption DEF Lengths
<1>2. i \in Nat /\ k \in Nat
  BY DEF PieceSet, BlockSet
<1>3. PieceOffset(l, i) \in Nat /\ BlockOffset(k) \in Nat
  BY <1>1, <1>2 DEF PieceOffset, BlockOffset
<1>4. BlockSize(l, i, k) \in 1 .. NominalBlockSize
      /\ BlockOffset(k) + BlockSize(l, i, k) <= PieceSize(l, i)
  BY BlocksTilePiece
<1>5. PieceSize(l, i) \in 1 .. l.pieceLength /\ PieceOffset(l, i) + PieceSize(l, i) <= l.length
  BY PiecesTileFile
<1> DEFINE o == PieceOffset(l, i) + BlockOffset(k)
<1>6. o \in Nat /\ o < OffsetModulus
  BY <1>1, <1>3, <1>4, <1>5
<1>7. o % OffsetModulus = o
  BY <1>1, <1>6
<1> QED
  BY <1>1, <1>3, <1>4, <1>5, <1>7 DEF WriteOffset, PieceOffset

\* The blocks of two places share no byte of such a file.
THEOREM BlocksApart ==
    ASSUME NEW l \in Lengths, l.length <= OffsetModulus,
           NEW i \in PieceSet(l), NEW j \in PieceSet(l),
           NEW k \in BlockSet(l, i), NEW m \in BlockSet(l, j),
           i < j \/ (i = j /\ k < m)
    PROVE  /\ WriteOffset(l, i, BlockOffset(k)) = PieceOffset(l, i) + BlockOffset(k)
           /\ WriteOffset(l, i, BlockOffset(k)) + BlockSize(l, i, k)
                <= WriteOffset(l, j, BlockOffset(m))
<1>2. ASSUME NEW p \in PieceSet(l), NEW b \in BlockSet(l, p)
      PROVE  /\ PieceOffset(l, p) \in Nat /\ BlockOffset(b) \in Nat
             /\ BlockSize(l, p, b) \in Nat \ {0} /\ PieceSize(l, p) \in Nat
             /\ BlockOffset(b) + BlockSize(l, p, b) <= PieceSize(l, p)
             /\ WriteOffset(l, p, BlockOffset(b)) = PieceOffset(l, p) + BlockOffset(b)
  BY BlockInFile
<1>3. CASE i < j
  <2>1. PieceOffset(l, i) + PieceSize(l, i) <= PieceOffset(l, j)
    BY <1>3, PiecesTileFile
  <2>. QED
    BY <1>2, <2>1
<1>4. CASE i = j /\ k < m
  <2>1. BlockOffset(k) + BlockSize(l, i, k) <= BlockOffset(m)
    BY <1>4, BlocksTilePiece
  <2>. QED
    BY <1>2, <1>4, <2>1
<1>. QED
  BY <1>3, <1>4

-----------------------------------------------------------------------------
(* The stream.                                                              *)

\* The bytes of s are those of the messages of msgs from n + 1 on, each of which
\* ends at its cut.
Framed(s, msgs, n, cut) ==
    /\ cut \in [n .. Len(msgs) -> Int]
    /\ Len(s) = cut[Len(msgs)]
    /\ \A i \in n .. Len(msgs), k \in n .. Len(msgs) : i <= k => cut[i] <= cut[k]
    /\ \A i \in n + 1 .. Len(msgs) :
         /\ cut[i] = cut[i - 1] + Len(Serialize(msgs[i]))
         /\ \A j \in 1 .. Len(Serialize(msgs[i])) : s[cut[i - 1] + j] = Serialize(msgs[i])[j]

\* t is what is left of s once k bytes were read.
Left(t, s, k) == Len(t) = Len(s) - k /\ \A i \in 1 .. Len(t) : t[i] = s[i + k]

\* What is read from the front moves every cut.
LEMMA FramedTaken ==
    ASSUME NEW s \in Seq(Byte), NEW t \in Seq(Byte), NEW msgs, Len(msgs) \in Nat,
           \A i \in 1 .. Len(msgs) : Serialize(msgs[i]) \in Seq(Byte),
           NEW n \in 0 .. Len(msgs), NEW cut, Framed(s, msgs, n, cut),
           NEW o \in n .. Len(msgs), NEW k \in Nat, k <= cut[o], Left(t, s, k)
    PROVE  \E after : Framed(t, msgs, o, after) /\ after[o] = cut[o] - k
<1>1. Len(s) \in Nat /\ Len(t) \in Nat /\ Len(t) = Len(s) - k
  BY LenProperties DEF Left
<1> DEFINE l == Len(msgs)
           after == [i \in o .. l |-> cut[i] - k]
<1>0. /\ cut \in [n .. l -> Int] /\ Len(s) = cut[l]
      /\ \A i \in n .. l, j \in n .. l : i <= j => cut[i] <= cut[j]
      /\ \A i \in n + 1 .. l :
           /\ cut[i] = cut[i - 1] + Len(Serialize(msgs[i]))
           /\ \A j \in 1 .. Len(Serialize(msgs[i])) : s[cut[i - 1] + j] = Serialize(msgs[i])[j]
  BY DEF Framed
<1>2. \A i \in o .. l : i \in n .. l /\ cut[i] \in Int /\ after[i] = cut[i] - k
  <2>1. \A i \in o .. l : i \in n .. l
    OBVIOUS
  <2> QED
    BY <1>0, <2>1
<1>3. after \in [o .. l -> Int]
  <2>1. \A i \in o .. l : cut[i] - k \in Int
    BY <1>2
  <2> QED
    BY <2>1
<1>4. Len(t) = after[l] /\ after[o] = cut[o] - k
  <2>1. l \in o .. l /\ o \in o .. l
    OBVIOUS
  <2> QED
    BY <1>0, <1>1, <1>2, <2>1
<1>5. ASSUME NEW i \in o .. l, NEW j \in o .. l, i <= j
      PROVE  after[i] <= after[j]
  <2>1. cut[i] <= cut[j] /\ cut[i] \in Int /\ cut[j] \in Int
    BY <1>0, <1>2, <1>5
  <2> QED
    BY <1>2, <2>1
<1>6. ASSUME NEW i \in o + 1 .. l
      PROVE  /\ after[i] = after[i - 1] + Len(Serialize(msgs[i]))
             /\ \A j \in 1 .. Len(Serialize(msgs[i])) : t[after[i - 1] + j] = Serialize(msgs[i])[j]
  <2> DEFINE m == Serialize(msgs[i])
  <2>1. i \in n + 1 .. l /\ i - 1 \in o .. l /\ i \in o .. l /\ l \in o .. l
    OBVIOUS
  <2>2. /\ cut[i] \in Int /\ after[i] = cut[i] - k
        /\ cut[i - 1] \in Int /\ after[i - 1] = cut[i - 1] - k
    BY <1>2, <2>1
  <2>3. cut[i] = cut[i - 1] + Len(m) /\ \A j \in 1 .. Len(m) : s[cut[i - 1] + j] = m[j]
    BY <1>0, <2>1
  <2>4. cut[o] <= cut[i - 1] /\ cut[i] <= cut[l] /\ cut[l] = Len(s) /\ cut[o] \in Int
    BY <1>0, <1>2, <2>1
  <2>5. Len(m) \in Nat
    <3>1. i \in 1 .. l
      OBVIOUS
    <3> QED
      BY <3>1, LenProperties
  <2> HIDE DEF m
  <2>6. after[i] = after[i - 1] + Len(m)
    BY SMTT(30), <2>2, <2>3, <2>5
  <2>7. ASSUME NEW j \in 1 .. Len(m) PROVE t[after[i - 1] + j] = m[j]
    <3> DEFINE p == after[i - 1] + j
    <3>1. cut[i] = cut[i - 1] + Len(m) /\ k <= cut[i - 1] /\ cut[i] <= Len(s)
      BY <2>2, <2>3, <2>4
    <3>2. p + k = cut[i - 1] + j /\ p \in 1 .. Len(t)
      <4> DEFINE c == cut[i - 1]
                 e == cut[i]
                 f == after[i - 1]
      <4>1. c \in Int /\ e \in Int /\ f = c - k /\ e = c + Len(m) /\ k <= c /\ e <= Len(s)
        BY <2>2, <3>1
      <4>2. j \in Int /\ 1 <= j /\ j <= Len(m)
        BY <2>5
      <4> HIDE DEF c, e, f
      <4>3. f + j + k = c + j /\ f + j \in 1 .. Len(t)
        BY <1>1, <2>5, <4>1, <4>2
      <4> QED
        BY <4>3 DEF c, f
    <3> HIDE DEF p
    <3>3. t[p] = s[cut[i - 1] + j]
      BY <3>2 DEF Left
    <3> QED
      BY <2>3, <3>3 DEF p
  <2> QED
    BY <2>6, <2>7 DEF m
<1> HIDE DEF after
<1>7. Framed(t, msgs, o, after)
  BY <1>3, <1>4, <1>5, <1>6 DEF Framed
<1> QED
  BY <1>4, <1>7

\* A message that is written is cut off at the end.
LEMMA FramedAdded ==
    ASSUME NEW s \in Seq(Byte), NEW M, NEW msgs \in Seq(M), NEW m \in M,
           \A i \in 1 .. Len(msgs) : Serialize(msgs[i]) \in Seq(Byte), Serialize(m) \in Seq(Byte),
           NEW n \in 0 .. Len(msgs), NEW cut, Framed(s, msgs, n, cut), 0 <= cut[n]
    PROVE  \E after : Framed(s \o Serialize(m), Append(msgs, m), n, after) /\ after[n] = cut[n]
<1> DEFINE t == s \o Serialize(m)
           e == Append(msgs, m)
           l == Len(msgs)
           after == [i \in n .. l + 1 |-> IF i <= l THEN cut[i] ELSE Len(s) + Len(Serialize(m))]
<1>1. l \in Nat /\ Len(s) \in Nat /\ Len(Serialize(m)) \in Nat
  BY LenProperties
<1>2. /\ e \in Seq(M) /\ Len(e) = l + 1 /\ e[l + 1] = m
      /\ \A i \in 1 .. l : e[i] = msgs[i]
  BY AppendProperties
<1>3. /\ t \in Seq(Byte) /\ Len(t) = Len(s) + Len(Serialize(m))
      /\ \A j \in 1 .. Len(s) : t[j] = s[j]
      /\ \A j \in 1 .. Len(Serialize(m)) : t[Len(s) + j] = Serialize(m)[j]
  BY Joined
<1>0. /\ cut \in [n .. l -> Int] /\ Len(s) = cut[l]
      /\ \A i \in n .. l, j \in n .. l : i <= j => cut[i] <= cut[j]
      /\ \A i \in n + 1 .. l :
           /\ cut[i] = cut[i - 1] + Len(Serialize(msgs[i]))
           /\ \A j \in 1 .. Len(Serialize(msgs[i])) : s[cut[i - 1] + j] = Serialize(msgs[i])[j]
  BY DEF Framed
<1>4. /\ \A i \in n .. l : cut[i] \in Int
      /\ Len(s) = cut[l] /\ l \in n .. l /\ n \in n .. l
  <2> HIDE DEF after, t, e
  <2>1. cut \in [n .. l -> Int] /\ Len(s) = cut[l]
    BY <1>0
  <2>2. l \in n .. l /\ n \in n .. l
    BY <1>1
  <2> QED
    BY <2>1, <2>2
<1>5. /\ \A i \in n .. l : after[i] = cut[i] /\ i \in n .. l + 1
      /\ after[l + 1] = Len(s) + Len(Serialize(m)) /\ l + 1 \in n .. l + 1
      /\ \A i \in n .. l + 1 : i \in n .. l \/ i = l + 1
  BY <1>1
<1>5a. after = [i \in n .. l + 1 |-> IF i <= l THEN cut[i] ELSE Len(s) + Len(Serialize(m))]
  OBVIOUS
<1> HIDE DEF t, e, after
<1>6. after \in [n .. Len(e) -> Int]
  BY <1>1, <1>2, <1>4, <1>5, <1>5a
<1>7. Len(t) = after[Len(e)]
  BY <1>2, <1>3, <1>5
<1>8. ASSUME NEW i \in n .. l + 1, NEW k \in n .. l + 1, i <= k PROVE after[i] <= after[k]
  <2>1. CASE k \in n .. l
    <3>1. i \in n .. l
      BY <1>8, <2>1
    <3> QED
      BY <1>0, <1>5, <1>8, <2>1, <3>1
  <2>2. CASE k = l + 1 /\ i \in n .. l
    <3>1. cut[i] <= cut[l]
      BY <1>0, <1>1, <1>4, <2>2
    <3> QED
      BY <1>1, <1>4, <1>5, <2>2, <3>1
  <2>3. CASE k = l + 1 /\ i = l + 1
    BY <1>1, <1>5, <2>3
  <2> QED
    BY <1>5, <2>1, <2>2, <2>3
<1>9. ASSUME NEW i \in n + 1 .. l + 1
      PROVE  /\ after[i] = after[i - 1] + Len(Serialize(e[i]))
             /\ \A j \in 1 .. Len(Serialize(e[i])) : t[after[i - 1] + j] = Serialize(e[i])[j]
  <2>1. CASE i \in n + 1 .. l
    <3>1. i \in n .. l /\ i - 1 \in n .. l /\ i \in 1 .. l
      BY <1>1, <2>1
    <3>2. e[i] = msgs[i] /\ Len(Serialize(msgs[i])) \in Nat
      BY <1>2, <3>1, LenProperties
    <3>3. /\ cut[i] = cut[i - 1] + Len(Serialize(msgs[i]))
          /\ \A j \in 1 .. Len(Serialize(msgs[i])) : s[cut[i - 1] + j] = Serialize(msgs[i])[j]
      BY <1>0, <2>1
    <3>4. after[i] = cut[i] /\ after[i - 1] = cut[i - 1]
      BY <1>5, <3>1
    <3>5. cut[n] <= cut[i - 1] /\ cut[i] <= Len(s) /\ cut[i - 1] \in Int /\ cut[i] \in Int
      BY <1>0, <1>1, <1>4, <3>1
    <3>6. ASSUME NEW j \in 1 .. Len(Serialize(msgs[i]))
          PROVE  t[after[i - 1] + j] = Serialize(msgs[i])[j]
      <4> DEFINE p == cut[i - 1] + j
      <4>1. p \in 1 .. Len(s)
        <5>1. cut[i] = cut[i - 1] + Len(Serialize(msgs[i])) /\ cut[n] \in Int
          BY <1>4, <3>3
        <5> QED
          BY SMTT(30), <1>1, <3>2, <3>5, <5>1
      <4> HIDE DEF p
      <4>2. t[p] = s[p]
        BY <1>3, <4>1
      <4> QED
        BY <3>3, <3>4, <4>2 DEF p
    <3> QED
      BY <3>2, <3>3, <3>4, <3>6
  <2>2. CASE i = l + 1
    <3>1. e[i] = m /\ i - 1 = l /\ after[i - 1] = Len(s)
      BY <1>1, <1>2, <1>4, <1>5, <2>2
    <3> QED
      BY <1>3, <1>5, <2>2, <3>1
  <2>3. i \in n + 1 .. l \/ i = l + 1
    BY <1>1
  <2> QED
    BY <2>1, <2>2, <2>3
<1>10. Framed(t, e, n, after)
  BY <1>2, <1>6, <1>7, <1>8, <1>9 DEF Framed
<1>11. after[n] = cut[n]
  BY <1>4, <1>5
<1> QED
  BY <1>10, <1>11 DEF t, e

-----------------------------------------------------------------------------
(* The messages of the remote.                                              *)

\* The lengths fit in the words of the messages: a uint32_t holds the number of bits of
\* a bitfield filled up to whole bytes, an offset in a piece, and the length of a PIECE.
WordsFit ==
    /\ NominalBlockSize + 9 \in Word
    /\ \A l \in Layouts : l.pieceLength \in Word /\ 8 * CeilDiv(NumPieces(l), 8) \in Word

\* What is smaller than a word is one.
LEMMA SmallerWord == \A n \in Nat, w \in Word : n <= w => n \in Word
<1>1. \A x \in Nat : \A n \in Nat, w \in Nat : w < x /\ n <= w => n < x
  OBVIOUS
<1>2. 256 * (256 * (256 * 256)) \in Nat
  OBVIOUS
<1> QED
  BY <1>1, <1>2 DEF Word

\* The numbers that messages carry.
LEMMA PieceNumber ==
    ASSUME WordsFit, NEW l \in Layouts, NEW i \in PieceSet(l)
    PROVE  i \in Word
<1>1. l \in Lengths /\ 8 * CeilDiv(NumPieces(l), 8) \in Word
  BY TransferAssumption DEF WordsFit
<1>2. NumPieces(l) \in Nat /\ i \in Nat /\ i < NumPieces(l)
  BY <1>1, PiecesAreParts DEF PieceSet
<1>3. \A n \in Nat : n <= 8 * CeilDiv(n, 8)
  BY DEF CeilDiv
<1>4. 8 * CeilDiv(NumPieces(l), 8) \in Nat
  BY <1>1 DEF Word
<1>5. i <= 8 * CeilDiv(NumPieces(l), 8)
  BY <1>2, <1>3, <1>4
<1> QED
  BY <1>1, <1>2, <1>5, SmallerWord

LEMMA BlockNumbers ==
    ASSUME WordsFit, NEW l \in Layouts, NEW i \in PieceSet(l), NEW k \in BlockSet(l, i)
    PROVE  /\ i \in Word /\ BlockOffset(k) \in Word /\ BlockSize(l, i, k) \in Word
           /\ BlockSize(l, i, k) \in Nat \ {0} /\ BlockSize(l, i, k) + 9 \in Word
<1>1. l \in Lengths /\ l.pieceLength \in Word /\ 8 * CeilDiv(NumPieces(l), 8) \in Word
  BY TransferAssumption DEF WordsFit
<1>2. i \in Word
  BY PieceNumber
<1>3. /\ BlockSize(l, i, k) \in 1 .. NominalBlockSize
      /\ BlockOffset(k) + BlockSize(l, i, k) <= PieceSize(l, i)
      /\ PieceSize(l, i) \in 1 .. l.pieceLength
  BY <1>1, BlocksTilePiece, PiecesTileFile
<1>4. NominalBlockSize \in Nat \ {0} /\ NominalBlockSize + 9 \in Word /\ l.pieceLength \in Nat
  BY <1>1, LayoutAssumption DEF WordsFit, Word
<1>5. BlockOffset(k) \in Nat
  BY <1>4 DEF BlockOffset, BlockSet
<1>6. BlockOffset(k) <= l.pieceLength
  BY <1>3, <1>4, <1>5
<1>7. /\ BlockSize(l, i, k) \in Nat \ {0} /\ BlockSize(l, i, k) + 9 \in Nat
      /\ BlockSize(l, i, k) <= NominalBlockSize + 9 /\ BlockSize(l, i, k) + 9 <= NominalBlockSize + 9
  BY <1>3, <1>4
<1> QED
  BY <1>1, <1>2, <1>4, <1>5, <1>6, <1>7, SmallerWord

\* The kinds of messages.
LEMMA SendableKinds ==
    ASSUME NEW m \in Sendable
    PROVE  \/ \E id \in {Choke, Unchoke, Interested, NotInterested, KeepAlive} : m = Message(id, <<>>, <<>>)
           \/ \E i \in Named(layout) : m = Message(Have, <<i>>, <<>>)
           \/ \E v \in BitFields(layout) : m = Message(BitField, <<>>, v)
           \/ \E id \in {Request, Cancel}, i \in Named(layout) : \E k \in BlockSet(layout, i) :
                m = Message(id, BlockWords(layout, i, k), <<>>)
           \/ \E i \in PieceSet(layout) : \E k \in BlockSet(layout, i) :
                m = Message(Piece, <<i, BlockOffset(k)>>, BlockBytes(layout, i, k))
<1>1. CASE m \in {Message(id, <<>>, <<>>) : id \in {Choke, Unchoke, Interested, NotInterested, KeepAlive}}
  BY <1>1
<1>2. CASE m \in {Message(Have, <<i>>, <<>>) : i \in Named(layout)}
  BY <1>2
<1>3. CASE m \in {Message(BitField, <<>>, v) : v \in BitFields(layout)}
  BY <1>3
<1>4. CASE m \in UNION {{Message(id, BlockWords(layout, i, k), <<>>) : k \in BlockSet(layout, i)} :
                           id \in {Request, Cancel}, i \in Named(layout)}
  <2>1. PICK id \in {Request, Cancel}, i \in Named(layout) :
            m \in {Message(id, BlockWords(layout, i, k), <<>>) : k \in BlockSet(layout, i)}
    BY <1>4
  <2> QED
    BY <2>1
<1>5. CASE m \in UNION {{Message(Piece, <<i, BlockOffset(k)>>, BlockBytes(layout, i, k)) :
                           k \in BlockSet(layout, i)} : i \in PieceSet(layout)}
  <2>1. PICK i \in PieceSet(layout) :
            m \in {Message(Piece, <<i, BlockOffset(k)>>, BlockBytes(layout, i, k)) : k \in BlockSet(layout, i)}
    BY <1>5
  <2> QED
    BY <2>1
<1> QED
  BY SMTT(30), <1>1, <1>2, <1>3, <1>4, <1>5 DEF Sendable, Messages

\* The bytes of a block are those of the torrent.
LEMMA BytesOfBlock ==
    ASSUME layout \in Lengths, NEW i \in PieceSet(layout), NEW k \in BlockSet(layout, i)
    PROVE  /\ BlockSize(layout, i, k) \in Nat \ {0} /\ PieceOffset(layout, i) + BlockOffset(k) \in Nat
           /\ BlockBytes(layout, i, k) \in Seq(Byte) /\ Len(BlockBytes(layout, i, k)) = BlockSize(layout, i, k)
           /\ \A q \in 1 .. BlockSize(layout, i, k) :
                BlockBytes(layout, i, k)[q] = Source(PieceOffset(layout, i) + BlockOffset(k) + q - 1)
<1> DEFINE at == PieceOffset(layout, i) + BlockOffset(k)
           n == BlockSize(layout, i, k)
<1>1. n \in Nat \ {0} /\ PieceOffset(layout, i) \in Nat /\ BlockOffset(k) \in Nat
  <2>1. n \in 1 .. NominalBlockSize /\ NominalBlockSize \in Nat \ {0}
    BY BlocksTilePiece, LayoutAssumption
  <2>2. i \in Nat /\ k \in Nat /\ layout.pieceLength \in Nat
    BY DEF PieceSet, BlockSet, Lengths
  <2> QED
    BY <2>1, <2>2 DEF PieceOffset, BlockOffset
<1>2. \A p \in Nat : Source(p) \in Byte
  BY DEF Source, Byte
<1>3. BlockBytes(layout, i, k) = [q \in 1 .. n |-> Source(at + q - 1)]
  BY DEF BlockBytes, PieceOffset
<1>4. \A q \in 1 .. n : at + q - 1 \in Nat
  BY <1>1
<1> HIDE DEF at, n
<1>5. BlockBytes(layout, i, k) \in [1 .. n -> Byte]
  BY <1>2, <1>3, <1>4
<1>6. BlockBytes(layout, i, k) \in Seq(Byte) /\ Len(BlockBytes(layout, i, k)) = n
  BY <1>1, <1>5
<1> QED
  BY <1>1, <1>3, <1>6 DEF at, n

\* All of them are such as RoundTrip speaks of.
LEMMA SendableIsMessage ==
    ASSUME WordsFit, layout \in Layouts, NEW m \in Sendable
    PROVE  IsMessage(m)
<1>0. layout \in Lengths /\ NumPieces(layout) \in Nat \ {0} /\ Named(layout) \subseteq PieceSet(layout)
  <2>1. layout \in Lengths /\ NumPieces(layout) \in Nat \ {0}
    BY TransferAssumption, PiecesAreParts
  <2> QED
    BY <2>1 DEF Named, PieceSet
<1>1. \A id, words, payload :
        /\ Message(id, words, payload).id = id
        /\ Message(id, words, payload).words = words
        /\ Message(id, words, payload).payload = payload
  BY DEF Message
<1>2. {0, 1, 5, 9, 13} \subseteq Word
  <2>1. 13 <= 256 * (256 * (256 * 256))
    OBVIOUS
  <2> QED
    BY <2>1 DEF Word
<1>3. <<>> \in Seq(Word)
  OBVIOUS
<1>4. \A i \in PieceSet(layout) : i \in Word
  BY PieceNumber
<1>5. CASE \E id \in {Choke, Unchoke, Interested, NotInterested, KeepAlive} : m = Message(id, <<>>, <<>>)
  <2>1. PICK id \in {Choke, Unchoke, Interested, NotInterested, KeepAlive} : m = Message(id, <<>>, <<>>)
    BY <1>5
  <2>2. m.id = id /\ m.words = <<>> /\ m.payload = <<>>
    BY <1>1, <2>1
  <2>3. FrameLength(m) \in {0, 1}
    BY <2>1, <2>2, Ids DEF FrameLength
  <2> QED
    BY <1>2, <1>3, <2>1, <2>2, <2>3 DEF IsMessage
<1>6. CASE \E i \in Named(layout) : m = Message(Have, <<i>>, <<>>)
  <2>1. PICK i \in Named(layout) : m = Message(Have, <<i>>, <<>>)
    BY <1>6
  <2>2. m.id = Have /\ m.words = <<i>> /\ m.payload = <<>>
    BY <1>1, <2>1
  <2>3. FrameLength(m) = 5
    BY <2>2, Ids DEF FrameLength
  <2>4. <<i>> \in Seq(Word) /\ Len(<<i>>) = 1
    BY <1>0, <1>4
  <2> QED
    BY <1>2, <2>1, <2>2, <2>3, <2>4 DEF IsMessage
<1>7. CASE \E v \in BitFields(layout) : m = Message(BitField, <<>>, v)
  <2>1. PICK v \in BitFields(layout) : m = Message(BitField, <<>>, v)
    BY <1>7
  <2>2. m.id = BitField /\ m.words = <<>> /\ m.payload = v
    BY <1>1, <2>1
  <2>3. v \in Seq(BOOLEAN) /\ Len(v) = NumPieces(layout)
    <3>1. PICK S \in {{0}, Named(layout), PieceSet(layout)} : v = [i \in 1 .. NumPieces(layout) |-> i - 1 \in S]
      BY <2>1 DEF BitFields
    <3>2. \A i \in 1 .. NumPieces(layout) : (i - 1 \in S) \in BOOLEAN
      OBVIOUS
    <3>3. v \in [1 .. NumPieces(layout) -> BOOLEAN]
      BY <3>1, <3>2, Zenon
    <3> QED
      BY <1>0, <3>3
  <2>4. FrameLength(m) = 1 + Len(v) \div 8 + (IF Len(v) % 8 > 0 THEN 1 ELSE 0)
    BY <2>2, Ids DEF FrameLength
  <2>5. \A n \in Nat \ {0} : LET f == 1 + n \div 8 + (IF n % 8 > 0 THEN 1 ELSE 0)
                             IN  f \in Nat /\ f <= 8 * CeilDiv(n, 8)
    BY DEF CeilDiv
  <2>6. 8 * CeilDiv(NumPieces(layout), 8) \in Word
    BY DEF WordsFit
  <2>7. FrameLength(m) \in Word
    BY <1>0, <2>3, <2>4, <2>5, <2>6, SmallerWord
  <2> QED
    BY <1>3, <2>1, <2>2, <2>3, <2>7 DEF IsMessage
<1>8. CASE \E id \in {Request, Cancel}, i \in Named(layout) : \E k \in BlockSet(layout, i) :
             m = Message(id, BlockWords(layout, i, k), <<>>)
  <2>1. PICK id \in {Request, Cancel}, i \in Named(layout) : \E k \in BlockSet(layout, i) :
             m = Message(id, BlockWords(layout, i, k), <<>>)
    BY <1>8
  <2>2. PICK k \in BlockSet(layout, i) : m = Message(id, BlockWords(layout, i, k), <<>>)
    BY <2>1
  <2>3. m.id = id /\ m.words = BlockWords(layout, i, k) /\ m.payload = <<>>
    BY <1>1, <2>2
  <2>4. FrameLength(m) = 13
    BY <2>1, <2>3, Ids DEF FrameLength
  <2>5. i \in Word /\ BlockOffset(k) \in Word /\ BlockSize(layout, i, k) \in Word
    BY <1>0, <2>1, <2>2, BlockNumbers
  <2>6. BlockWords(layout, i, k) \in Seq(Word) /\ Len(BlockWords(layout, i, k)) = 3
    BY <2>5 DEF BlockWords
  <2> QED
    BY <1>2, <2>1, <2>2, <2>3, <2>4, <2>6 DEF IsMessage
<1>9. CASE \E i \in PieceSet(layout) : \E k \in BlockSet(layout, i) :
             m = Message(Piece, <<i, BlockOffset(k)>>, BlockBytes(layout, i, k))
  <2>1. PICK i \in PieceSet(layout) : \E k \in BlockSet(layout, i) :
             m = Message(Piece, <<i, BlockOffset(k)>>, BlockBytes(layout, i, k))
    BY <1>9
  <2>2. PICK k \in BlockSet(layout, i) : m = Message(Piece, <<i, BlockOffset(k)>>, BlockBytes(layout, i, k))
    BY <2>1
  <2>3. m.id = Piece /\ m.words = <<i, BlockOffset(k)>> /\ m.payload = BlockBytes(layout, i, k)
    BY <1>1, <2>2
  <2>4. /\ i \in Word /\ BlockOffset(k) \in Word
        /\ BlockSize(layout, i, k) \in Nat \ {0} /\ BlockSize(layout, i, k) + 9 \in Word
    BY <1>0, <2>1, <2>2, BlockNumbers
  <2>5. BlockBytes(layout, i, k) \in Seq(Byte) /\ Len(BlockBytes(layout, i, k)) = BlockSize(layout, i, k)
    BY <1>0, <2>4, BytesOfBlock
  <2>6. FrameLength(m) = 9 + Len(BlockBytes(layout, i, k))
    BY <2>3, Ids DEF FrameLength
  <2>7. FrameLength(m) \in Word
    BY <2>4, <2>5, <2>6
  <2>8. <<i, BlockOffset(k)>> \in Seq(Word) /\ Len(<<i, BlockOffset(k)>>) = 2
    BY <2>4
  <2> QED
    BY <2>2, <2>3, <2>5, <2>7, <2>8 DEF IsMessage
<1> QED
  BY <1>5, <1>6, <1>7, <1>8, <1>9, SendableKinds

-----------------------------------------------------------------------------
(* What is read, and what was handed over.                                  *)

StreamType ==
    /\ layout \in Layouts /\ theirHash \in {InfoHash, OtherHash}
    /\ stream \in Seq(Byte) /\ prefix \in Seq(Byte)
    /\ sent \in Seq(Sendable) /\ Len(sent) <= MaxSent
    /\ received \in Seq({Expected(m) : m \in Sendable})
    /\ stage \in Stages \ {"overrun"}

\* The handshake of the remote.
Hello == SerializeHandshake(theirHash)

\* While the handshake is read its bytes lie in front of all others.
Greeting ==
    /\ stage = "pstrlen" =>
         Len(Hello) <= Len(stream) /\ \A j \in 1 .. Len(Hello) : stream[j] = Hello[j]
    /\ stage = "handshake" =>
         /\ prefix = <<Len(ProtocolName)>>
         /\ Len(Hello) - 1 <= Len(stream) /\ \A j \in 1 .. Len(Hello) - 1 : stream[j] = Hello[j + 1]
    /\ stage \in {"pstrlen", "handshake", "refused", "thrown"} => received = <<>>

\* The bytes from the beginning of the frame that is read, and how many of the
\* handshake lie before them.
Line    == IF stage = "body" THEN prefix \o stream ELSE stream
Opening == IF stage = "pstrlen" THEN Len(ProtocolName) + 49
           ELSE IF stage = "handshake" THEN Len(ProtocolName) + 48 ELSE 0

\* The first n messages were handed over, keep-alives left out.
HandedOver(n) ==
    /\ Len(received) = Cardinality({i \in Kept : i <= n})
    /\ \A i \in Kept : i <= n => received[Place(i)] = Expected(sent[i])

\* The reads stand behind message n, or behind the length of the next one.
Stands(n, cut) ==
    /\ Framed(Line, sent, n, cut) /\ cut[n] = Opening
    /\ stage \in {"pstrlen", "handshake"} => n = 0
    /\ stage = "body" =>
         /\ n < Len(sent) /\ sent[n + 1].id # KeepAlive
         /\ prefix = BigEndian(FrameLength(sent[n + 1]))
    /\ HandedOver(n)

Reading ==
    stage \in {"pstrlen", "handshake", "length", "body"} =>
        \E n \in 0 .. Len(sent) : \E cut : Stands(n, cut)

StreamInv == StreamType /\ Greeting /\ Reading

\* What a read does to the stream.
LEMMA ReadLeaves ==
    ASSUME stream \in Seq(Byte), NEW n \in Nat, Read(n)
    PROVE  /\ stream' \in Seq(Byte) /\ Left(stream', stream, n) /\ n <= Len(stream)
           /\ Taken(n) \in Seq(Byte) /\ Len(Taken(n)) = n
           /\ \A j \in 1 .. n : Taken(n)[j] = stream[j]
<1>1. Len(stream) \in Nat /\ n <= Len(stream) /\ stream' = SubSeq(stream, n + 1, Len(stream))
  BY LenProperties DEF Read
<1>2. \A i \in 1 .. Len(stream) : stream[i] \in Byte
  BY ElementOfSeq
<1>3. /\ stream' \in Seq(Byte) /\ Len(stream') = Len(stream) - n
      /\ \A i \in 1 .. Len(stream) - n : stream'[i] = stream[i + n]
  <2>1. n + 1 \in Int /\ Len(stream) \in Int /\ \A i \in n + 1 .. Len(stream) : stream[i] \in Byte
    BY <1>1, <1>2
  <2>2. /\ stream' \in Seq(Byte)
        /\ Len(stream') = IF n + 1 <= Len(stream) THEN Len(stream) - (n + 1) + 1 ELSE 0
        /\ \A i \in 1 .. Len(stream) - (n + 1) + 1 : stream'[i] = stream[n + 1 + i - 1]
    BY <1>1, <2>1, SubSeqProperties
  <2>3. Len(stream) - (n + 1) + 1 = Len(stream) - n
        /\ (~(n + 1 <= Len(stream)) => Len(stream) - n = 0)
    BY <1>1
  <2>4. ASSUME NEW i \in 1 .. Len(stream) - n PROVE stream'[i] = stream[i + n]
    <3>1. i \in 1 .. Len(stream) - (n + 1) + 1 /\ n + 1 + i - 1 = i + n
      BY <1>1
    <3> QED
      BY <2>2, <3>1
  <2>5. Len(stream') = Len(stream) - n
    BY <2>2, <2>3
  <2> QED
    BY <2>2, <2>4, <2>5
<1>4. /\ Taken(n) \in Seq(Byte) /\ Len(Taken(n)) = n
      /\ \A j \in 1 .. n : Taken(n)[j] = stream[j]
  <2>1. Taken(n) = Get(stream, 0, n)
    BY DEF Taken, Get
  <2>2. 0 + n <= Len(stream) /\ \A j \in 1 .. n : 0 + j = j
    BY <1>1
  <2> QED
    BY <2>1, <2>2, GetBytes
<1> QED
  BY <1>1, <1>3, <1>4 DEF Left

\* The handshake's bytes.
LEMMA HelloBytes ==
    ASSUME theirHash \in {InfoHash, OtherHash}
    PROVE  /\ Len(ProtocolName) \in Nat /\ Len(ProtocolName) \in Byte
           /\ Hello \in Seq(Byte) /\ Len(Hello) = Len(ProtocolName) + 49
           /\ Hello[1] = Len(ProtocolName)
           /\ \A j \in 1 .. 20 : Hello[Len(ProtocolName) + 9 + j] = theirHash[j]
<1> DEFINE l == Len(ProtocolName)
           a == <<l>>
           c == [i \in 1 .. 8 |-> 0]
           ab == a \o ProtocolName \o c \o theirHash
<1>1. l \in Nat /\ l \in Byte /\ ProtocolName \in Seq(Byte) /\ Len(PeerIdBytes) = 20 /\ PeerIdBytes \in Seq(Byte)
  <2>1. Len(ProtocolName) \in Nat /\ Len(ProtocolName) < 256
    BY WireAssumption, LenProperties
  <2>2. \A n \in Nat : n < 256 => n \in 0 .. 255
    OBVIOUS
  <2>3. l \in Byte
    BY <2>1, <2>2 DEF Byte
  <2> QED
    BY <2>1, <2>3, WireAssumption
<1>2. theirHash \in Seq(Byte) /\ Len(theirHash) = 20
  BY TransferAssumption
<1>3. a \in Seq(Byte) /\ Len(a) = 1 /\ a[1] = l
  BY <1>1
<1>4. c \in Seq(Byte) /\ Len(c) = 8
  <2>1. c \in [1 .. 8 -> Byte]
    BY DEF Byte
  <2> QED
    BY <2>1
<1> HIDE DEF a, c
<1>5. /\ ab \in Seq(Byte) /\ Len(ab) = Len(a) + Len(ProtocolName) + Len(c) + Len(theirHash)
      /\ \A j \in 1 .. Len(a) : ab[j] = a[j]
      /\ \A j \in 1 .. Len(theirHash) : ab[Len(a) + Len(ProtocolName) + Len(c) + j] = theirHash[j]
  <2>1. a \in Seq(Byte) /\ ProtocolName \in Seq(Byte) /\ c \in Seq(Byte) /\ theirHash \in Seq(Byte)
    BY <1>2, <1>3, <1>4, WireAssumption
  <2>2. ab = a \o ProtocolName \o c \o theirHash
    OBVIOUS
  <2> HIDE DEF ab
  <2> QED
    BY <2>1, <2>2, JoinedFour
<1>6. Hello = ab \o PeerIdBytes
  BY DEF Hello, SerializeHandshake, a, c
<1> HIDE DEF ab
<1>7. Len(ab) = l + 29 /\ Len(a) + Len(ProtocolName) + Len(c) = l + 9
  BY <1>1, <1>2, <1>3, <1>4, <1>5
<1>8. /\ Hello \in Seq(Byte) /\ Len(Hello) = Len(ab) + Len(PeerIdBytes)
      /\ \A j \in 1 .. Len(ab) : Hello[j] = ab[j]
  <2>1. ab \in Seq(Byte) /\ PeerIdBytes \in Seq(Byte)
    BY <1>1, <1>5
  <2> QED
    BY <1>6, <2>1, Joined
<1>9. Hello[1] = l
  BY <1>1, <1>3, <1>5, <1>7, <1>8
<1>10. ASSUME NEW j \in 1 .. 20 PROVE Hello[l + 9 + j] = theirHash[j]
  <2>1. l + 9 + j \in 1 .. Len(ab) /\ j \in 1 .. Len(theirHash)
    BY <1>1, <1>2, <1>7
  <2>2. ab[l + 9 + j] = theirHash[j]
    BY <1>5, <1>7, <2>1
  <2> QED
    BY <1>8, <2>1, <2>2
<1> QED
  BY <1>1, <1>7, <1>8, <1>9, <1>10

\* The messages of the remote are such as the lemmas above speak of.
LEMMA SentMessages ==
    ASSUME WordsFit, StreamType, NEW i \in 1 .. Len(sent)
    PROVE  /\ sent[i] \in Sendable /\ IsMessage(sent[i])
           /\ Serialize(sent[i]) \in Seq(Byte)
           /\ Len(Serialize(sent[i])) = 4 + FrameLength(sent[i]) /\ FrameLength(sent[i]) \in Nat
<1>1. sent[i] \in Sendable
  BY ElementOfSeq DEF StreamType
<1>2. IsMessage(sent[i])
  BY <1>1, SendableIsMessage DEF StreamType
<1> QED
  BY <1>1, <1>2, Serialized DEF IsMessage, Word

\* The messages that are no keep-alive among the first n.
Upto(n) == {j \in Kept : j <= n}

\* How many they are.
LEMMA Counting ==
    ASSUME NEW M, sent \in Seq(M)
    PROVE  /\ IsFiniteSet(Kept) /\ Cardinality(Kept) \in Nat
           /\ Upto(Len(sent)) = Kept /\ Cardinality(Upto(0)) = 0
           /\ \A n \in Nat : Cardinality(Upto(n)) \in Nat /\ Cardinality(Upto(n)) <= Cardinality(Kept)
           /\ \A n \in 1 .. Len(sent) :
                Cardinality(Upto(n)) =
                  Cardinality(Upto(n - 1)) + (IF sent[n].id = KeepAlive THEN 0 ELSE 1)
           /\ \A i \in Kept, n \in Nat :
                /\ Place(i) = Cardinality(Upto(i)) /\ Place(i) \in Nat \ {0} /\ i \in 1 .. Len(sent)
                /\ i <= n => Place(i) <= Cardinality(Upto(n))
                /\ n < i => Cardinality(Upto(n)) < Place(i)
<1>1. Len(sent) \in Nat /\ DOMAIN sent = 1 .. Len(sent)
  BY LenProperties
<1>2. Kept \subseteq 1 .. Len(sent)
  BY <1>1 DEF Kept
<1>3. IsFiniteSet(Kept) /\ Cardinality(Kept) \in Nat
  <2>1. 1 \in Int /\ Len(sent) \in Int
    BY <1>1
  <2>2. IsFiniteSet(1 .. Len(sent))
    BY <2>1, FS_Interval
  <2> QED
    BY <1>2, <2>2, FS_Subset, FS_CardinalityType
<1> DEFINE K == Kept
           l == Len(sent)
<1>a. l \in Nat /\ \A j \in K : j \in Int /\ 1 <= j /\ j <= l
  BY <1>1, <1>2
<1>b. \A n : Upto(n) = {j \in K : j <= n}
  BY DEF Upto
<1> HIDE DEF K, l
<1>4. \A n : IsFiniteSet(Upto(n)) /\ Cardinality(Upto(n)) \in Nat /\ Cardinality(Upto(n)) <= Cardinality(Kept)
  <2>1. \A n : Upto(n) \subseteq Kept
    BY DEF Upto
  <2> QED
    BY <1>3, <2>1, FS_Subset, FS_CardinalityType
<1>5. Upto(Len(sent)) = Kept
  <2>1. {j \in K : j <= l} = K
    BY <1>a
  <2> QED
    BY <1>b, <2>1 DEF K, l
<1>6. Cardinality(Upto(0)) = 0
  <2>1. Upto(0) = {}
    BY <1>a, <1>b
  <2> QED
    BY <2>1, FS_EmptySet
<1>7. ASSUME NEW i \in Nat, NEW n \in Nat, i <= n
      PROVE  Cardinality(Upto(i)) <= Cardinality(Upto(n))
  <2>1. Upto(i) \subseteq Upto(n)
    BY <1>a, <1>b, <1>7
  <2> QED
    BY <1>4, <2>1, FS_Subset
<1>8. ASSUME NEW n \in 1 .. Len(sent)
      PROVE  Cardinality(Upto(n)) =
               Cardinality(Upto(n - 1)) + (IF sent[n].id = KeepAlive THEN 0 ELSE 1)
  <2>1. CASE sent[n].id = KeepAlive
    <3>1. n \notin Kept
      BY <2>1 DEF Kept
    <3>2. Upto(n) = Upto(n - 1)
      <4>1. n \in Int /\ n \notin K
        BY <3>1 DEF K
      <4>2. {j \in K : j <= n} = {j \in K : j <= n - 1}
        BY <1>a, <4>1
      <4> QED
        BY <1>b, <4>2
    <3> QED
      BY <1>4, <2>1, <3>2
  <2>2. CASE sent[n].id # KeepAlive
    <3>1. n \in Kept
      BY <1>1, <2>2 DEF Kept
    <3>2. Upto(n) = Upto(n - 1) \cup {n} /\ n \notin Upto(n - 1)
      <4>1. n \in Int /\ n \in K
        BY <3>1 DEF K
      <4>2. \A j \in K : j <= n <=> (j <= n - 1 \/ j = n)
        BY <1>a, <4>1
      <4>3. ~(n <= n - 1)
        BY <4>1
      <4>4. {j \in K : j <= n} = {j \in K : j <= n - 1} \cup {n}
        BY <4>1, <4>2
      <4> QED
        BY <1>b, <4>3, <4>4
    <3>3. Cardinality(Upto(n)) = Cardinality(Upto(n - 1)) + 1
      BY <1>4, <3>2, FS_AddElement
    <3> QED
      BY <2>2, <3>3
  <2> QED
    BY <2>1, <2>2
<1>9. ASSUME NEW i \in Kept, NEW n \in Nat
      PROVE  /\ Place(i) = Cardinality(Upto(i)) /\ Place(i) \in Nat \ {0} /\ i \in 1 .. Len(sent)
             /\ i <= n => Place(i) <= Cardinality(Upto(n))
             /\ n < i => Cardinality(Upto(n)) < Place(i)
  <2>1. i \in 1 .. Len(sent) /\ sent[i].id # KeepAlive
    BY <1>2 DEF Kept
  <2>2. Place(i) = Cardinality(Upto(i))
    BY DEF Place, Upto
  <2>3. Cardinality(Upto(i)) = Cardinality(Upto(i - 1)) + 1
    BY <1>8, <2>1
  <2>4. Cardinality(Upto(i - 1)) \in Nat /\ Cardinality(Upto(i)) \in Nat
    BY <1>4
  <2>5. ASSUME n < i PROVE Cardinality(Upto(n)) < Place(i)
    <3>1. n <= i - 1 /\ i - 1 \in Nat /\ Cardinality(Upto(n)) \in Nat
      BY <1>4, <2>1, <2>5
    <3>2. Cardinality(Upto(n)) <= Cardinality(Upto(i - 1))
      BY <1>7, <3>1
    <3> QED
      BY <2>2, <2>3, <2>4, <3>1, <3>2
  <2>6. ASSUME i <= n PROVE Place(i) <= Cardinality(Upto(n))
    BY <1>7, <2>1, <2>2, <2>6
  <2>7. Place(i) \in Nat \ {0}
    BY <2>2, <2>3, <2>4
  <2> QED
    BY <2>1, <2>2, <2>5, <2>6, <2>7
<1> QED
  BY <1>3, <1>4, <1>5, <1>6, <1>8, <1>9

\* What HandedOver says, in these terms.
LEMMA HandedOverCounts ==
    \A n : HandedOver(n) <=> /\ Len(received) = Cardinality(Upto(n))
                             /\ \A i \in Kept : i <= n => received[Place(i)] = Expected(sent[i])
  BY Zenon DEF HandedOver, Upto

\* A message that is sent stands behind those handed over.
LEMMA HandedOverSend ==
    ASSUME sent \in Seq(Sendable), NEW m \in Sendable, sent' = Append(sent, m), received' = received,
           NEW n \in 0 .. Len(sent), HandedOver(n)
    PROVE  HandedOver(n)'
<1>1. Len(sent) \in Nat /\ DOMAIN sent = 1 .. Len(sent)
  BY LenProperties
<1>2. Len(sent') = Len(sent) + 1 /\ DOMAIN sent' = 1 .. Len(sent) + 1
      /\ \A i \in 1 .. Len(sent) : sent'[i] = sent[i]
  <2>1. sent' \in Seq(Sendable) /\ Len(sent') = Len(sent) + 1
    BY AppendProperties
  <2>2. DOMAIN sent' = 1 .. Len(sent')
    BY <2>1, LenProperties
  <2> QED
    BY <2>1, <2>2, AppendProperties
<1>3. \A i \in 1 .. Len(sent) : i \in Kept' <=> i \in Kept
  BY <1>1, <1>2 DEF Kept
<1>4. Kept' \subseteq 1 .. Len(sent) + 1 /\ Kept \subseteq 1 .. Len(sent)
  BY <1>1, <1>2 DEF Kept
<1>5. \A k \in 0 .. Len(sent) : Upto(k)' = Upto(k)
  <2>1. ASSUME NEW k \in 0 .. Len(sent) PROVE {j \in Kept' : j <= k} = {j \in Kept : j <= k}
    <3> DEFINE K == Kept
               N == Kept'
               l == Len(sent)
    <3>1. /\ l \in Nat /\ k \in Int /\ k <= l
          /\ \A j \in K : j \in Int /\ 1 <= j /\ j <= l /\ j \in N
          /\ \A j \in N : j \in Int /\ 1 <= j /\ (j <= l => j \in K)
      BY <1>1, <1>3, <1>4
    <3> HIDE DEF K, N, l
    <3>2. {j \in N : j <= k} = {j \in K : j <= k}
      BY <3>1
    <3> QED
      BY <3>2 DEF K, N
  <2> QED
    BY <2>1 DEF Upto
<1>6. \A i \in Kept' : i <= n => i \in Kept /\ i \in 1 .. Len(sent) /\ Place(i)' = Place(i)
  <2>1. ASSUME NEW i \in Kept', i <= n PROVE i \in Kept /\ i \in 1 .. Len(sent)
    BY <1>1, <1>3, <1>4, <2>1
  <2>2. ASSUME NEW i \in Kept', i <= n PROVE Place(i)' = Place(i)
    <3>1. i \in 0 .. Len(sent)
      BY <2>1, <2>2
    <3>2. Upto(i)' = Upto(i)
      BY <1>5, <3>1
    <3> QED
      BY <3>2 DEF Place, Upto
  <2> QED
    BY <2>1, <2>2
<1>7. Len(received') = Cardinality(Upto(n)')
  BY <1>5, HandedOverCounts
<1>8. ASSUME NEW i \in Kept', i <= n PROVE received'[Place(i)'] = Expected(sent'[i])
  BY <1>2, <1>6, <1>8, HandedOverCounts
<1>9. (HandedOver(n))' <=> /\ Len(received') = Cardinality(Upto(n)')
                           /\ \A i \in Kept' : i <= n => received'[Place(i)'] = Expected(sent'[i])
  BY Zenon DEF HandedOver, Upto
<1> QED
  BY <1>7, <1>8, <1>9

\* A keep-alive is passed over.
LEMMA HandedOverKeepAlive ==
    ASSUME sent \in Seq(Sendable), NEW n \in 0 .. Len(sent) - 1, sent[n + 1].id = KeepAlive,
           HandedOver(n)
    PROVE  HandedOver(n + 1)
<1>1. n + 1 \in 1 .. Len(sent) /\ Len(sent) \in Nat /\ n + 1 - 1 = n
  BY LenProperties
<1>2. Cardinality(Upto(n + 1)) = Cardinality(Upto(n))
  BY <1>1, Counting
<1>3. \A i \in Kept : i <= n + 1 => i <= n
  BY <1>1 DEF Kept
<1> QED
  BY <1>2, <1>3, HandedOverCounts

\* Any other message is given to message_handler.
LEMMA HandedOverMessage ==
    ASSUME sent \in Seq(Sendable), received \in Seq({Expected(m) : m \in Sendable}),
           NEW n \in 0 .. Len(sent) - 1, sent[n + 1].id # KeepAlive, HandedOver(n),
           sent' = sent, received' = Append(received, Expected(sent[n + 1])), Sendable' = Sendable
    PROVE  HandedOver(n + 1)' /\ received' \in Seq({Expected(m) : m \in Sendable})
<1>1. n + 1 \in 1 .. Len(sent) /\ Len(sent) \in Nat /\ n + 1 - 1 = n /\ n \in Nat
  BY LenProperties
<1>2. sent[n + 1] \in Sendable
  BY <1>1, ElementOfSeq
<1> DEFINE e == Expected(sent[n + 1])
           E == {Expected(m) : m \in Sendable}
<1>3. e \in E
  BY <1>2
<1> HIDE DEF e, E
<1>4. /\ received' \in Seq(E) /\ Len(received') = Len(received) + 1 /\ Len(received) \in Nat
      /\ received'[Len(received) + 1] = e
      /\ \A k \in 1 .. Len(received) : received'[k] = received[k]
  <2>1. received \in Seq(E) /\ received' = Append(received, e)
    BY DEF e, E
  <2> QED
    BY <1>3, <2>1, AppendProperties, LenProperties
<1>5. Cardinality(Upto(n + 1)) = Cardinality(Upto(n)) + 1 /\ Place(n + 1) = Cardinality(Upto(n + 1))
      /\ Len(received) = Cardinality(Upto(n))
  <2>1. n + 1 \in Kept
    BY <1>1 DEF Kept
  <2>2. Len(received) = Cardinality(Upto(n))
    BY HandedOverCounts
  <2>3. Cardinality(Upto(n + 1)) = Cardinality(Upto(n)) + 1
    <3> DEFINE o == n + 1
    <3>1. o \in 1 .. Len(sent) /\ sent[o].id # KeepAlive /\ o - 1 = n
      BY <1>1
    <3> HIDE DEF o
    <3>2. Cardinality(Upto(o)) = Cardinality(Upto(o - 1)) + (IF sent[o].id = KeepAlive THEN 0 ELSE 1)
      BY <3>1, Counting
    <3> QED
      BY <3>1, <3>2 DEF o
  <2>4. Place(n + 1) = Cardinality(Upto(n + 1))
    BY <1>1, <2>1, Counting
  <2> QED
    BY <1>1, <2>2, <2>3, <2>4
<1>6. ASSUME NEW i \in Kept, i <= n + 1 PROVE received'[Place(i)] = Expected(sent[i])
  <2>1. i \in 1 .. Len(sent) /\ Place(i) \in Nat \ {0} /\ (i <= n => Place(i) <= Cardinality(Upto(n)))
    BY <1>1, Counting
  <2>2. CASE i = n + 1
    BY <1>4, <1>5, <2>2 DEF e
  <2>3. CASE i <= n
    <3>1. Place(i) \in 1 .. Len(received)
      BY <1>4, <1>5, <2>1, <2>3
    <3>2. received[Place(i)] = Expected(sent[i])
      BY <2>3, HandedOverCounts
    <3> QED
      BY <1>4, <3>1, <3>2
  <2>4. i = n + 1 \/ i <= n
    BY <1>1, <1>6, <2>1
  <2> QED
    BY <2>2, <2>3, <2>4
<1>7. Kept' = Kept
  BY DEF Kept
<1>8. Upto(n + 1)' = Upto(n + 1) /\ \A i : Place(i)' = Place(i)
  BY <1>7 DEF Upto, Place
<1>9. (HandedOver(n + 1))' <=>
        /\ Len(received') = Cardinality(Upto(n + 1)')
        /\ \A i \in Kept' : i <= n + 1 => received'[Place(i)'] = Expected(sent'[i])
  BY Zenon DEF HandedOver, Upto
<1>10. Len(received') = Cardinality(Upto(n + 1)')
  BY <1>4, <1>5, <1>8
<1>11. \A i \in Kept' : i <= n + 1 => received'[Place(i)'] = Expected(sent'[i])
  BY <1>6, <1>7, <1>8
<1> QED
  BY <1>4, <1>9, <1>10, <1>11 DEF E

-----------------------------------------------------------------------------
(* The steps.                                                               *)

\* The remote names the same pieces and blocks as long as the layout is the same.
LEMMA SendableStable ==
    ASSUME layout' = layout
    PROVE  Sendable' = Sendable
  BY DEF Sendable

\* The frame in front, if there is one.
LEMMA FrontFrame ==
    ASSUME WordsFit, StreamType, NEW s \in Seq(Byte), NEW n \in 0 .. Len(sent), NEW cut,
           Framed(s, sent, n, cut), cut[n] = 0
    PROVE  /\ n = Len(sent) => s = <<>>
           /\ n < Len(sent) =>
                /\ cut[n + 1] = 4 + FrameLength(sent[n + 1]) /\ cut[n + 1] <= Len(s)
                /\ \A j \in 1 .. 4 + FrameLength(sent[n + 1]) : s[j] = Serialize(sent[n + 1])[j]
                /\ \A j \in 1 .. 4 : s[j] = BigEndian(FrameLength(sent[n + 1]))[j]
<1> DEFINE l == Len(sent)
<1>0. /\ cut \in [n .. l -> Int] /\ Len(s) = cut[l]
      /\ \A i \in n .. l, j \in n .. l : i <= j => cut[i] <= cut[j]
      /\ \A i \in n + 1 .. l :
           /\ cut[i] = cut[i - 1] + Len(Serialize(sent[i]))
           /\ \A j \in 1 .. Len(Serialize(sent[i])) : s[cut[i - 1] + j] = Serialize(sent[i])[j]
  BY DEF Framed
<1>1. l \in Nat
  BY LenProperties DEF StreamType
<1>2. ASSUME n = l PROVE s = <<>>
  <2>1. Len(s) = 0
    BY <1>0, <1>2
  <2> QED
    BY <2>1, EmptySeq
<1>3. ASSUME n < l
      PROVE  /\ cut[n + 1] = 4 + FrameLength(sent[n + 1]) /\ cut[n + 1] <= Len(s)
             /\ \A j \in 1 .. 4 + FrameLength(sent[n + 1]) : s[j] = Serialize(sent[n + 1])[j]
             /\ \A j \in 1 .. 4 : s[j] = BigEndian(FrameLength(sent[n + 1]))[j]
  <2> DEFINE o == n + 1
             m == sent[o]
  <2>1. o \in n + 1 .. l /\ o - 1 = n /\ o \in 1 .. l /\ o \in n .. l /\ l \in n .. l /\ o <= l
    BY <1>1, <1>3
  <2> HIDE DEF o
  <2>2. /\ Serialize(m) \in Seq(Byte) /\ Len(Serialize(m)) = 4 + FrameLength(m)
        /\ FrameLength(m) \in Nat /\ IsMessage(m)
    BY <2>1, SentMessages
  <2>3. \A j \in 1 .. 4 : Serialize(m)[j] = BigEndian(FrameLength(m))[j]
    BY <2>2, Serialized
  <2>4. cut[o] = cut[o - 1] + Len(Serialize(m)) /\ cut[o] <= Len(s)
        /\ \A j \in 1 .. Len(Serialize(m)) : s[cut[o - 1] + j] = Serialize(m)[j]
    BY <1>0, <2>1
  <2> HIDE DEF m
  <2>5. cut[o] = 4 + FrameLength(m) /\ \A j \in 1 .. 4 + FrameLength(m) : s[j] = Serialize(m)[j]
    <3>1. cut[o - 1] = 0 /\ \A j \in 1 .. 4 + FrameLength(m) : 0 + j = j
      BY <2>1, <2>2
    <3> QED
      BY <2>2, <2>4, <3>1
  <2>6. \A j \in 1 .. 4 : j \in 1 .. 4 + FrameLength(m)
    BY <2>2
  <2>7. \A j \in 1 .. 4 : s[j] = BigEndian(FrameLength(m))[j]
    BY <2>3, <2>5, <2>6
  <2> QED
    BY <2>4, <2>5, <2>7 DEF o, m
<1> QED
  BY <1>2, <1>3

\* The bytes from the frame that is read on.
LEMMA LineBytes ==
    ASSUME StreamType
    PROVE  Line \in Seq(Byte) /\ (stage # "body" => Line = stream)
<1>1. stream \in Seq(Byte) /\ prefix \in Seq(Byte)
  BY DEF StreamType
<1>2. prefix \o stream \in Seq(Byte)
  BY <1>1, Joined
<1> QED
  BY <1>1, <1>2 DEF Line

LEMMA StreamInit == ASSUME WordsFit, Init PROVE StreamInv
<1>0. /\ layout \in Layouts /\ theirHash \in {InfoHash, OtherHash} /\ stream = Hello
      /\ stage = "pstrlen" /\ prefix = <<>> /\ sent = <<>> /\ received = <<>>
  BY DEF Init, Hello
<1>1. Len(ProtocolName) \in Nat /\ Hello \in Seq(Byte) /\ Len(Hello) = Len(ProtocolName) + 49
  BY <1>0, HelloBytes
<1>2. StreamType
  <2>1. Len(sent) = 0 /\ sent \in Seq(Sendable) /\ MaxSent \in Nat
    BY <1>0, TransferAssumption
  <2>2. prefix \in Seq(Byte) /\ received \in Seq({Expected(m) : m \in Sendable})
    BY <1>0
  <2> QED
    BY <1>0, <1>1, <2>1, <2>2 DEF StreamType, Stages
<1>3. Greeting
  BY <1>0, <1>1 DEF Greeting
<1>4. Stands(0, [i \in 0 .. 0 |-> Len(Hello)])
  <2> DEFINE cut == [i \in 0 .. 0 |-> Len(Hello)]
  <2>1. Line = Hello /\ Opening = Len(Hello) /\ Len(sent) = 0
    BY <1>0, <1>1 DEF Line, Opening
  <2>2. cut \in [0 .. 0 -> Int] /\ cut[0] = Len(Hello)
    BY <1>1
  <2> HIDE DEF cut
  <2>3. Framed(Hello, sent, 0, cut)
    BY <1>1, <2>1, <2>2 DEF Framed
  <2>4. HandedOver(0)
    <3>1. Kept = {}
      BY <1>0 DEF Kept
    <3>2. {i \in Kept : i <= 0} = {}
      BY <3>1
    <3> QED
      BY <1>0, <3>1, <3>2, FS_EmptySet DEF HandedOver
  <2> QED
    BY <1>0, <2>1, <2>2, <2>3, <2>4 DEF Stands, cut
<1>5. 0 \in 0 .. Len(sent)
  BY <1>0
<1> QED
  BY <1>2, <1>3, <1>4, <1>5 DEF StreamInv, Reading

\* Send
LEMMA StreamSend ==
    ASSUME WordsFit, StreamInv, NEW m \in Sendable, Send(m)
    PROVE  StreamInv'
<1>0. /\ Len(sent) < MaxSent /\ stream' = stream \o Serialize(m) /\ sent' = Append(sent, m)
      /\ layout' = layout /\ theirHash' = theirHash /\ stage' = stage /\ prefix' = prefix
      /\ received' = received
  BY DEF Send
<1>1. StreamType /\ Greeting /\ Reading
  BY DEF StreamInv
<1>2. /\ stream \in Seq(Byte) /\ prefix \in Seq(Byte) /\ sent \in Seq(Sendable) /\ layout \in Layouts
      /\ Len(sent) \in Nat /\ Len(stream) \in Nat /\ theirHash \in {InfoHash, OtherHash}
  BY <1>1, LenProperties DEF StreamType
<1>3. Serialize(m) \in Seq(Byte)
  BY <1>2, SendableIsMessage, Serialized
<1>4. /\ stream' \in Seq(Byte) /\ Len(stream') >= Len(stream)
      /\ \A j \in 1 .. Len(stream) : stream'[j] = stream[j]
  <2>1. Len(Serialize(m)) \in Nat
    BY <1>3, LenProperties
  <2>2. /\ stream' \in Seq(Byte) /\ Len(stream') = Len(stream) + Len(Serialize(m))
        /\ \A j \in 1 .. Len(stream) : stream'[j] = stream[j]
    BY <1>0, <1>2, <1>3, Joined
  <2> QED
    BY <1>2, <2>1, <2>2
<1>5. Sendable' = Sendable
  BY <1>0, SendableStable
<1>6. sent' \in Seq(Sendable) /\ Len(sent') = Len(sent) + 1 /\ \A i \in 1 .. Len(sent) : sent'[i] = sent[i]
  BY <1>0, <1>2, AppendProperties
<1>7. StreamType'
  <2>1. {Expected(e) : e \in Sendable'} = {Expected(e) : e \in Sendable}
    BY <1>5
  <2>2. Len(sent') <= MaxSent
    BY <1>0, <1>2, <1>6, TransferAssumption
  <2>3. received' \in Seq({Expected(e) : e \in Sendable'})
    BY <1>0, <1>1, <2>1 DEF StreamType
  <2> QED
    BY <1>0, <1>1, <1>4, <1>5, <1>6, <2>2, <2>3 DEF StreamType
<1>8. Hello' = Hello /\ Len(Hello) \in Nat
  BY <1>0, <1>2, HelloBytes DEF Hello
<1>9. Greeting'
  <2>1. ASSUME stage' = "pstrlen"
        PROVE  Len(Hello) <= Len(stream') /\ \A j \in 1 .. Len(Hello) : stream'[j] = Hello[j]
    <3>1. Len(Hello) <= Len(stream) /\ \A j \in 1 .. Len(Hello) : stream[j] = Hello[j]
      BY <1>0, <1>1, <2>1 DEF Greeting
    <3> QED
      BY <1>2, <1>4, <1>8, <3>1, LenProperties
  <2>2. ASSUME stage' = "handshake"
        PROVE  /\ prefix' = <<Len(ProtocolName)>>
               /\ Len(Hello) - 1 <= Len(stream') /\ \A j \in 1 .. Len(Hello) - 1 : stream'[j] = Hello[j + 1]
    <3>1. /\ prefix = <<Len(ProtocolName)>>
          /\ Len(Hello) - 1 <= Len(stream) /\ \A j \in 1 .. Len(Hello) - 1 : stream[j] = Hello[j + 1]
      BY <1>0, <1>1, <2>2 DEF Greeting
    <3> QED
      BY <1>0, <1>2, <1>4, <1>8, <3>1, LenProperties
  <2> QED
    BY <1>0, <1>1, <1>8, <2>1, <2>2 DEF Greeting
<1>10. Reading'
  <2> SUFFICES ASSUME stage \in {"pstrlen", "handshake", "length", "body"}
               PROVE  \E n \in 0 .. Len(sent') : \E cut : Stands(n, cut)'
    BY <1>0 DEF Reading
  <2>1. PICK n \in 0 .. Len(sent) : \E cut : Stands(n, cut)
    BY <1>1 DEF Reading
  <2>2. PICK cut : Stands(n, cut)
    BY <2>1
  <2>3. /\ Framed(Line, sent, n, cut) /\ cut[n] = Opening /\ HandedOver(n)
        /\ stage \in {"pstrlen", "handshake"} => n = 0
        /\ stage = "body" =>
             /\ n < Len(sent) /\ sent[n + 1].id # KeepAlive
             /\ prefix = BigEndian(FrameLength(sent[n + 1]))
    BY <2>2 DEF Stands
  <2>4. Line \in Seq(Byte)
    BY <1>1, LineBytes
  <2>5. Line' = Line \o Serialize(m)
    <3>1. (prefix \o stream) \o Serialize(m) = prefix \o (stream \o Serialize(m))
      BY <1>2, <1>3, ConcatAssociative
    <3>2. CASE stage = "body"
      BY <1>0, <3>1, <3>2 DEF Line
    <3>3. CASE stage # "body"
      BY <1>0, <3>3 DEF Line
    <3> QED
      BY <3>2, <3>3
  <2>6. Opening \in Nat /\ Opening' = Opening
    BY <1>0, <1>2, HelloBytes DEF Opening
  <2>7. PICK after : Framed(Line \o Serialize(m), Append(sent, m), n, after) /\ after[n] = cut[n]
    <3>1. \A i \in 1 .. Len(sent) : Serialize(sent[i]) \in Seq(Byte)
      BY <1>1, SentMessages
    <3>2. 0 <= cut[n]
      BY <2>3, <2>6
    <3>3. /\ sent \in Seq(Sendable) /\ Line \in Seq(Byte) /\ Serialize(m) \in Seq(Byte)
          /\ Framed(Line, sent, n, cut)
      BY <1>2, <1>3, <2>3, <2>4
    <3> QED
      BY <3>1, <3>2, <3>3, FramedAdded
  <2>8. HandedOver(n)'
    BY <1>0, <1>2, <2>3, HandedOverSend
  <2>9. ASSUME stage = "body" PROVE n < Len(sent') /\ sent'[n + 1] = sent[n + 1]
    BY <1>2, <1>6, <2>3, <2>9
  <2>10. Stands(n, after)'
    <3>1. Framed(Line', sent', n, after) /\ after[n] = Opening'
      BY <1>0, <2>3, <2>5, <2>6, <2>7
    <3>2. stage' \in {"pstrlen", "handshake"} => n = 0
      BY <1>0, <2>3
    <3>3. stage' = "body" => /\ n < Len(sent') /\ sent'[n + 1].id # KeepAlive
                             /\ prefix' = BigEndian(FrameLength(sent'[n + 1]))
      BY <1>0, <2>3, <2>9
    <3> QED
      BY <2>8, <3>1, <3>2, <3>3 DEF Stands
  <2>11. n \in 0 .. Len(sent')
    BY <1>2, <1>6
  <2> QED
    BY <2>10, <2>11
<1> QED
  BY <1>7, <1>9, <1>10 DEF StreamInv

\* What a read leaves alone.
LEMMA StreamUnread ==
    ASSUME WordsFit, StreamInv, UNCHANGED <<layout, theirHash, sent>>
    PROVE  /\ StreamType /\ Greeting /\ Reading
           /\ stream \in Seq(Byte) /\ prefix \in Seq(Byte) /\ sent \in Seq(Sendable)
           /\ Len(sent) \in Nat /\ Len(stream) \in Nat
           /\ theirHash \in {InfoHash, OtherHash}
           /\ layout' = layout /\ theirHash' = theirHash /\ sent' = sent
           /\ Sendable' = Sendable /\ Hello' = Hello /\ Hello \in Seq(Byte)
           /\ Len(ProtocolName) \in Nat /\ Len(Hello) = Len(ProtocolName) + 49
           /\ layout' \in Layouts /\ theirHash' \in {InfoHash, OtherHash}
           /\ sent' \in Seq(Sendable') /\ Len(sent') <= MaxSent
<1>1. StreamType /\ Greeting /\ Reading /\ layout' = layout /\ theirHash' = theirHash /\ sent' = sent
  BY DEF StreamInv
<1>2. /\ stream \in Seq(Byte) /\ prefix \in Seq(Byte) /\ sent \in Seq(Sendable) /\ layout \in Layouts
      /\ theirHash \in {InfoHash, OtherHash} /\ Len(sent) <= MaxSent
  BY <1>1 DEF StreamType
<1>3. Sendable' = Sendable
  BY <1>1, SendableStable
<1>4. Hello' = Hello
  BY <1>1 DEF Hello
<1> QED
  BY <1>1, <1>2, <1>3, <1>4, HelloBytes, LenProperties

\* Nothing more was handed over, nothing more was sent.
LEMMA HandedOverSame ==
    ASSUME sent' = sent, received' = received, NEW n, HandedOver(n)
    PROVE  HandedOver(n)'
<1>1. Kept' = Kept
  BY DEF Kept
<1>2. \A i : Place(i)' = Place(i)
  BY <1>1 DEF Place
<1>3. Len(received') = Cardinality({i \in Kept' : i <= n})
  BY <1>1 DEF HandedOver
<1>4. \A i \in Kept' : i <= n => received'[Place(i)'] = Expected(sent'[i])
  BY <1>1, <1>2 DEF HandedOver
<1> QED
  BY <1>3, <1>4, Zenon DEF HandedOver

\* ReadPstrlen
LEMMA StreamPstrlen ==
    ASSUME WordsFit, StreamInv, ReadPstrlen
    PROVE  StreamInv'
<1>0. /\ stage = "pstrlen" /\ Read(1) /\ prefix' = Taken(1) /\ stage' = "handshake"
      /\ UNCHANGED <<layout, theirHash, sent>> /\ received' = received
  BY DEF ReadPstrlen
<1>1. /\ StreamType /\ Greeting /\ Reading
      /\ stream \in Seq(Byte) /\ sent \in Seq(Sendable) /\ Len(sent) \in Nat
      /\ Sendable' = Sendable /\ Hello' = Hello /\ Hello \in Seq(Byte)
      /\ Len(ProtocolName) \in Nat /\ Len(Hello) = Len(ProtocolName) + 49
      /\ layout' \in Layouts /\ theirHash' \in {InfoHash, OtherHash} /\ sent' = sent
      /\ sent' \in Seq(Sendable') /\ Len(sent') <= MaxSent
      /\ theirHash \in {InfoHash, OtherHash}
  BY <1>0, StreamUnread
<1>2. /\ stream' \in Seq(Byte) /\ Left(stream', stream, 1) /\ 1 <= Len(stream)
      /\ Taken(1) \in Seq(Byte) /\ Len(Taken(1)) = 1
      /\ \A j \in 1 .. 1 : Taken(1)[j] = stream[j]
  BY <1>0, <1>1, ReadLeaves
<1>3. /\ Len(Hello) <= Len(stream) /\ \A j \in 1 .. Len(Hello) : stream[j] = Hello[j]
      /\ received = <<>>
  BY <1>0, <1>1 DEF Greeting
<1>4. prefix' = <<Len(ProtocolName)>> /\ prefix' \in Seq(Byte)
  <2>1. Hello[1] = Len(ProtocolName) /\ 1 \in 1 .. Len(Hello) /\ Len(ProtocolName) \in Byte
    BY <1>1, HelloBytes
  <2>2. Taken(1)[1] = Len(ProtocolName)
    BY <1>2, <1>3, <2>1
  <2>3. <<Len(ProtocolName)>> \in Seq(Byte) /\ Len(<<Len(ProtocolName)>>) = 1
        /\ <<Len(ProtocolName)>>[1] = Len(ProtocolName)
    BY <2>1
  <2>4. Taken(1) = <<Len(ProtocolName)>>
    BY <1>2, <2>2, <2>3, SeqEqual
  <2> QED
    BY <1>0, <1>2, <2>4
<1>5. StreamType'
  <2>1. {Expected(e) : e \in Sendable'} = {Expected(e) : e \in Sendable}
    BY <1>1
  <2>2. received' \in Seq({Expected(e) : e \in Sendable'})
    BY <1>0, <1>1, <2>1 DEF StreamType
  <2> QED
    BY <1>0, <1>1, <1>2, <1>4, <2>2 DEF StreamType, Stages
<1>6. Greeting'
  <2>1. Len(stream') = Len(stream) - 1 /\ Len(stream) \in Nat
        /\ \A i \in 1 .. Len(stream') : stream'[i] = stream[i + 1]
    BY <1>1, <1>2, LenProperties DEF Left
  <2>2. Len(Hello) - 1 <= Len(stream')
    BY <1>1, <1>3, <2>1
  <2>3. ASSUME NEW j \in 1 .. Len(Hello) - 1 PROVE stream'[j] = Hello[j + 1]
    <3>1. j \in 1 .. Len(stream') /\ j + 1 \in 1 .. Len(Hello)
      BY <1>1, <1>3, <2>1
    <3> QED
      BY <1>3, <2>1, <3>1
  <2> QED
    BY <1>0, <1>1, <1>3, <1>4, <2>2, <2>3 DEF Greeting
<1>7. PICK n \in 0 .. Len(sent) : \E cut : Stands(n, cut)
  BY <1>0, <1>1 DEF Reading
<1>8. PICK cut : Stands(n, cut)
  BY <1>7
<1>9. Framed(stream, sent, n, cut) /\ cut[n] = Len(ProtocolName) + 49 /\ HandedOver(n) /\ n = 0
  BY <1>0, <1>8 DEF Stands, Line, Opening
<1>11. PICK after : Framed(stream', sent, n, after) /\ after[n] = cut[n] - 1
  <2>1. /\ \A i \in 1 .. Len(sent) : Serialize(sent[i]) \in Seq(Byte)
        /\ 1 \in Nat /\ 1 <= cut[n] /\ n \in n .. Len(sent)
    BY <1>1, <1>9, SentMessages
  <2>2. /\ stream \in Seq(Byte) /\ stream' \in Seq(Byte) /\ Len(sent) \in Nat
        /\ Left(stream', stream, 1) /\ Framed(stream, sent, n, cut)
    BY <1>1, <1>2, <1>9
  <2> QED
    BY <2>1, <2>2, FramedTaken
<1>12. Stands(n, after)'
  <2>1. Line' = stream' /\ Opening' = Len(ProtocolName) + 48
    BY <1>0 DEF Line, Opening
  <2>2. after[n] = Opening'
    BY <1>1, <1>9, <1>11, <2>1
  <2>3. Framed(Line', sent', n, after)
    BY <1>1, <1>11, <2>1
  <2>4. HandedOver(n)'
    BY <1>0, <1>1, <1>9, HandedOverSame
  <2> QED
    BY <1>0, <2>2, <2>3, <2>4, <1>9 DEF Stands
<1>13. Reading'
  <2>1. n \in 0 .. Len(sent')
    BY <1>1
  <2> QED
    BY <1>12, <2>1 DEF Reading
<1> QED
  BY <1>5, <1>6, <1>13 DEF StreamInv

\* ReadHandshake
LEMMA StreamHandshake ==
    ASSUME WordsFit, StreamInv, ReadHandshake
    PROVE  StreamInv'
<1> DEFINE k == Len(ProtocolName) + 48
<1>0. /\ stage = "handshake" /\ Read(prefix[1] + 48) /\ prefix' = <<>>
      /\ stage' \in {"thrown", "length", "refused"}
      /\ UNCHANGED <<layout, theirHash, sent>> /\ received' = received
  BY DEF ReadHandshake
<1>1. /\ StreamType /\ Greeting /\ Reading
      /\ stream \in Seq(Byte) /\ sent \in Seq(Sendable) /\ Len(sent) \in Nat
      /\ Sendable' = Sendable /\ Hello' = Hello
      /\ Len(ProtocolName) \in Nat
      /\ layout' \in Layouts /\ theirHash' \in {InfoHash, OtherHash} /\ sent' = sent
      /\ sent' \in Seq(Sendable') /\ Len(sent') <= MaxSent
  BY <1>0, StreamUnread
<1>2. prefix = <<Len(ProtocolName)>> /\ received = <<>>
  BY <1>0, <1>1 DEF Greeting
<1>3. stream' \in Seq(Byte) /\ Left(stream', stream, k) /\ k \in Nat
  <2>1. prefix[1] + 48 = k /\ k \in Nat
    BY <1>1, <1>2
  <2> QED
    BY <1>0, <1>1, <2>1, ReadLeaves
<1> HIDE DEF k
<1>4. StreamType'
  <2>1. {Expected(e) : e \in Sendable'} = {Expected(e) : e \in Sendable}
    BY <1>1
  <2>2. received' \in Seq({Expected(e) : e \in Sendable'}) /\ prefix' \in Seq(Byte)
    BY <1>0, <1>1, <2>1 DEF StreamType
  <2> QED
    BY <1>0, <1>1, <1>3, <2>2 DEF StreamType, Stages
<1>5. Greeting'
  BY <1>0, <1>2 DEF Greeting
<1>6. PICK n \in 0 .. Len(sent) : \E cut : Stands(n, cut)
  BY <1>0, <1>1 DEF Reading
<1>7. PICK cut : Stands(n, cut)
  BY <1>6
<1>8. Framed(stream, sent, n, cut) /\ cut[n] = k /\ HandedOver(n)
  BY <1>0, <1>7 DEF Stands, Line, Opening, k
<1>10. PICK after : Framed(stream', sent, n, after) /\ after[n] = cut[n] - k
  <2>1. /\ \A i \in 1 .. Len(sent) : Serialize(sent[i]) \in Seq(Byte)
        /\ k <= cut[n] /\ n \in n .. Len(sent)
    BY <1>1, <1>3, <1>8, SentMessages
  <2>2. /\ stream \in Seq(Byte) /\ stream' \in Seq(Byte) /\ Len(sent) \in Nat
        /\ Left(stream', stream, k) /\ k \in Nat /\ Framed(stream, sent, n, cut)
    BY <1>1, <1>3, <1>8
  <2> QED
    BY <2>1, <2>2, FramedTaken
<1>11. Stands(n, after)'
  <2>1. Line' = stream' /\ Opening' = 0
    BY <1>0 DEF Line, Opening
  <2>2. after[n] = Opening'
    BY <1>3, <1>8, <1>10, <2>1
  <2>3. Framed(Line', sent', n, after)
    BY <1>1, <1>10, <2>1
  <2>4. HandedOver(n)'
    BY <1>0, <1>1, <1>8, HandedOverSame
  <2> QED
    BY <1>0, <2>2, <2>3, <2>4 DEF Stands
<1>12. Reading'
  <2>1. n \in 0 .. Len(sent')
    BY <1>1
  <2> QED
    BY <1>11, <2>1 DEF Reading
<1> QED
  BY <1>4, <1>5, <1>12 DEF StreamInv

\* The reads go on behind the frame of message n + 1.
LEMMA FrameTaken ==
    ASSUME WordsFit, StreamType, NEW s \in Seq(Byte), NEW t \in Seq(Byte),
           NEW n \in 0 .. Len(sent) - 1, NEW cut, Framed(s, sent, n, cut), cut[n] = 0,
           Left(t, s, 4 + FrameLength(sent[n + 1]))
    PROVE  \E after : Framed(t, sent, n + 1, after) /\ after[n + 1] = 0
<1> DEFINE k == 4 + FrameLength(sent[n + 1])
           o == n + 1
<1>1. Len(sent) \in Nat /\ o \in n .. Len(sent) /\ o \in 1 .. Len(sent) /\ n \in 0 .. Len(sent) /\ n < Len(sent)
  BY LenProperties DEF StreamType
<1>2. k \in Nat
  BY <1>1, SentMessages
<1>3. cut[n + 1] = k
  BY <1>1, FrontFrame
<1>4. Left(t, s, k)
  OBVIOUS
<1> HIDE DEF k, o
<1>6. cut[o] = k
  BY <1>3 DEF o
<1>7. /\ \A i \in 1 .. Len(sent) : Serialize(sent[i]) \in Seq(Byte)
      /\ k <= cut[o]
  BY <1>2, <1>6, SentMessages
<1>8. PICK after : Framed(t, sent, o, after) /\ after[o] = cut[o] - k
  <2>1. Len(sent) \in Nat /\ n \in 0 .. Len(sent) /\ o \in n .. Len(sent)
    BY <1>1
  <2>2. /\ \A i \in 1 .. Len(sent) : Serialize(sent[i]) \in Seq(Byte)
        /\ k <= cut[o] /\ k \in Nat /\ Left(t, s, k) /\ Framed(s, sent, n, cut)
    BY <1>2, <1>4, <1>7
  <2> QED
    BY <2>1, <2>2, FramedTaken
<1>9. after[o] = 0
  BY <1>2, <1>6, <1>8
<1> QED
  BY <1>8, <1>9 DEF o

\* ReadLength
LEMMA StreamLength ==
    ASSUME WordsFit, StreamInv, ReadLength
    PROVE  StreamInv'
<1>0. /\ stage = "length" /\ Read(4)
      /\ IF FromBig(Taken(4)) = 0 THEN stage' = stage /\ prefix' = prefix
                                  ELSE stage' = "body" /\ prefix' = Taken(4)
      /\ UNCHANGED <<layout, theirHash, sent>> /\ received' = received
  BY DEF ReadLength
<1>1. /\ StreamType /\ Greeting /\ Reading
      /\ stream \in Seq(Byte) /\ prefix \in Seq(Byte) /\ sent \in Seq(Sendable) /\ Len(sent) \in Nat
      /\ Sendable' = Sendable
      /\ layout' \in Layouts /\ theirHash' \in {InfoHash, OtherHash} /\ sent' = sent
      /\ sent' \in Seq(Sendable') /\ Len(sent') <= MaxSent
  BY <1>0, StreamUnread
<1>2. /\ stream' \in Seq(Byte) /\ Left(stream', stream, 4) /\ 4 <= Len(stream)
      /\ Taken(4) \in Seq(Byte) /\ Len(Taken(4)) = 4
      /\ \A j \in 1 .. 4 : Taken(4)[j] = stream[j]
  BY <1>0, <1>1, ReadLeaves
<1>3. stage' \in {"length", "body"}
  BY <1>0
<1>4. StreamType'
  <2>1. {Expected(e) : e \in Sendable'} = {Expected(e) : e \in Sendable}
    BY <1>1
  <2>2. received' \in Seq({Expected(e) : e \in Sendable'})
    BY <1>0, <1>1, <2>1 DEF StreamType
  <2>3. prefix' \in Seq(Byte)
    BY <1>0, <1>1, <1>2
  <2> QED
    BY <1>1, <1>2, <1>3, <2>2, <2>3 DEF StreamType, Stages
<1>5. Greeting'
  BY <1>3 DEF Greeting
<1>6. PICK n \in 0 .. Len(sent) : \E cut : Stands(n, cut)
  BY <1>0, <1>1 DEF Reading
<1>7. PICK cut : Stands(n, cut)
  BY <1>6
<1>8. Framed(stream, sent, n, cut) /\ cut[n] = 0 /\ HandedOver(n)
  BY <1>0, <1>7 DEF Stands, Line, Opening
<1>9. n \in 0 .. Len(sent) - 1 /\ n < Len(sent)
  <2>1. n # Len(sent)
    <3>1. CASE n = Len(sent)
      <4>1. stream = <<>>
        BY <1>1, <1>8, <3>1, FrontFrame
      <4> QED
        BY <1>2, <4>1, EmptySeq
    <3> QED
      BY <3>1
  <2> QED
    BY <1>1, <2>1
<1> DEFINE m == sent[n + 1]
           len == FrameLength(m)
<1>10. n + 1 \in 1 .. Len(sent)
  BY <1>1, <1>9
<1>11. IsMessage(m) /\ len \in Nat /\ len \in Word /\ (len = 0 <=> m.id = KeepAlive)
  BY <1>1, <1>10, SentMessages, LengthsAgree DEF IsMessage
<1>12. /\ \A j \in 1 .. 4 : stream[j] = BigEndian(len)[j]
       /\ BigEndian(len) \in Seq(Byte) /\ Len(BigEndian(len)) = 4 /\ FromBig(BigEndian(len)) = len
  BY <1>1, <1>8, <1>9, <1>11, FrontFrame, WordIsBytes
<1> HIDE DEF m, len
<1>13. Taken(4) = BigEndian(len)
  <2>1. Taken(4) \in Seq(Byte) /\ BigEndian(len) \in Seq(Byte) /\ Len(Taken(4)) = Len(BigEndian(len))
    BY <1>2, <1>12
  <2>2. \A j \in 1 .. Len(Taken(4)) : Taken(4)[j] = BigEndian(len)[j]
    BY <1>2, <1>12
  <2> QED
    BY <2>1, <2>2, SeqEqual
<1>14. CASE len = 0
  <2>1. stage' = "length"
    BY <1>0, <1>12, <1>13, <1>14
  <2>2. Left(stream', stream, 4 + len)
    BY <1>2, <1>14
  <2>3. PICK after : Framed(stream', sent, n + 1, after) /\ after[n + 1] = 0
    BY <1>1, <1>2, <1>8, <1>9, <2>2, FrameTaken DEF m, len
  <2>4. HandedOver(n + 1)
    BY <1>1, <1>8, <1>9, <1>11, <1>14, HandedOverKeepAlive DEF m
  <2>5. Stands(n + 1, after)'
    <3>1. HandedOver(n + 1)'
      BY <1>0, <1>1, <2>4, HandedOverSame
    <3>2. Line' = stream' /\ Opening' = 0
      BY <2>1 DEF Line, Opening
    <3>3. Framed(Line', sent', n + 1, after) /\ after[n + 1] = Opening'
      BY <1>1, <2>3, <3>2
    <3> QED
      BY <2>1, <3>1, <3>3 DEF Stands
  <2>6. n + 1 \in 0 .. Len(sent')
    BY <1>1, <1>10
  <2>7. Reading'
    BY <2>5, <2>6 DEF Reading
  <2> QED
    BY <1>4, <1>5, <2>7 DEF StreamInv
<1>15. CASE len # 0
  <2>1. stage' = "body" /\ prefix' = BigEndian(len)
    BY <1>0, <1>12, <1>13, <1>15
  <2>2. Line' = stream
    <3>1. Line' = Taken(4) \o stream'
      BY <1>13, <2>1 DEF Line
    <3>2. /\ Line' \in Seq(Byte) /\ Len(Line') = Len(Taken(4)) + Len(stream')
          /\ \A j \in 1 .. Len(Taken(4)) : Line'[j] = Taken(4)[j]
          /\ \A j \in 1 .. Len(stream') : Line'[Len(Taken(4)) + j] = stream'[j]
      BY <1>2, <3>1, Joined
    <3>3. /\ Len(stream') = Len(stream) - 4 /\ Len(stream) \in Nat
          /\ \A i \in 1 .. Len(stream') : stream'[i] = stream[i + 4]
      BY <1>1, <1>2, LenProperties DEF Left
    <3>4. Len(Line') = Len(stream)
      <4>1. Len(Taken(4)) = 4 /\ Len(Line') = Len(Taken(4)) + Len(stream')
        BY <1>2, <3>2
      <4>2. Len(stream') = Len(stream) - 4 /\ Len(stream) \in Nat
        BY <3>3
      <4>3. \A x, y, z : x = 4 + y /\ y = z - 4 /\ z \in Nat => x = z
        OBVIOUS
      <4> QED
        BY <4>1, <4>2, <4>3
    <3>5. ASSUME NEW j \in 1 .. Len(stream) PROVE Line'[j] = stream[j]
      <4>1. CASE j <= 4
        <5>1. j \in 1 .. 4
          BY <4>1
        <5> QED
          BY <1>2, <3>2, <5>1
      <4>2. CASE ~(j <= 4)
        <5>1. j - 4 \in 1 .. Len(stream') /\ 4 + (j - 4) = j /\ (j - 4) + 4 = j
          BY <3>3, <4>2
        <5>2. Line'[4 + (j - 4)] = stream'[j - 4]
          BY <1>2, <3>2, <5>1
        <5>3. stream'[j - 4] = stream[(j - 4) + 4]
          BY <3>3, <5>1
        <5> QED
          BY <5>1, <5>2, <5>3
      <4> QED
        BY <4>1, <4>2
    <3> QED
      BY <1>1, <3>2, <3>4, <3>5, SeqEqual
  <2>3. Stands(n, cut)'
    <3>1. HandedOver(n)'
      BY <1>0, <1>1, <1>8, HandedOverSame
    <3>2. Opening' = 0
      BY <2>1 DEF Opening
    <3>3. Framed(Line', sent', n, cut) /\ cut[n] = Opening'
      BY <1>1, <1>8, <2>2, <3>2
    <3>4. n < Len(sent') /\ sent'[n + 1].id # KeepAlive /\ prefix' = BigEndian(FrameLength(sent'[n + 1]))
      BY <1>1, <1>9, <1>11, <1>15, <2>1 DEF m, len
    <3> QED
      BY <2>1, <3>1, <3>3, <3>4 DEF Stands
  <2>4. n \in 0 .. Len(sent')
    BY <1>1
  <2>5. Reading'
    BY <2>3, <2>4 DEF Reading
  <2> QED
    BY <1>4, <1>5, <2>5 DEF StreamInv
<1> QED
  BY <1>14, <1>15

\* What ReadBody reads is what the next message was written as.
LEMMA BodyIsRead ==
    ASSUME WordsFit, StreamInv, stage = "body", Read(FromBig(prefix)),
           NEW n \in 0 .. Len(sent), NEW cut, Stands(n, cut)
    PROVE  LET m == sent[n + 1] IN
           /\ n \in 0 .. Len(sent) - 1 /\ m \in Sendable /\ m.id # KeepAlive /\ IsMessage(m)
           /\ prefix \o Taken(FromBig(prefix)) = Serialize(m)
           /\ stream' \in Seq(Byte) /\ Left(stream', Line, 4 + FrameLength(m))
<1> DEFINE m == sent[n + 1]
           len == FrameLength(m)
<1>1. /\ StreamType /\ stream \in Seq(Byte) /\ prefix \in Seq(Byte) /\ sent \in Seq(Sendable)
      /\ Len(sent) \in Nat /\ Len(stream) \in Nat
  <2>1. StreamType
    BY DEF StreamInv
  <2> QED
    BY <2>1, LenProperties DEF StreamType
<1>2. /\ Framed(Line, sent, n, cut) /\ cut[n] = 0
      /\ n < Len(sent) /\ m.id # KeepAlive /\ prefix = BigEndian(len)
  BY DEF Stands, Opening
<1>3. n + 1 \in 1 .. Len(sent) /\ n \in 0 .. Len(sent) - 1
  BY <1>1, <1>2
<1>4. m \in Sendable /\ IsMessage(m) /\ Serialize(m) \in Seq(Byte) /\ Len(Serialize(m)) = 4 + len /\ len \in Nat
  BY <1>1, <1>3, SentMessages
<1>5. Line \in Seq(Byte)
  BY <1>1, LineBytes
<1>6. \A j \in 1 .. 4 + len : Line[j] = Serialize(m)[j]
  BY <1>1, <1>2, <1>5, FrontFrame
<1>7. Len(prefix) = 4 /\ FromBig(prefix) = len
  <2>1. len \in Word
    BY <1>4 DEF IsMessage
  <2> QED
    BY <1>2, <2>1, WordIsBytes
<1> HIDE DEF m, len
<1>8. /\ stream' \in Seq(Byte) /\ Left(stream', stream, len)
      /\ Taken(len) \in Seq(Byte) /\ Len(Taken(len)) = len
      /\ \A j \in 1 .. len : Taken(len)[j] = stream[j]
  <2>1. Read(len)
    BY <1>7
  <2> QED
    BY <1>1, <1>4, <2>1, ReadLeaves
<1>9. /\ Len(Line) = 4 + Len(stream)
      /\ \A j \in 1 .. 4 : Line[j] = prefix[j]
      /\ \A j \in 1 .. Len(stream) : Line[4 + j] = stream[j]
  <2>1. Line = prefix \o stream
    BY DEF Line
  <2> HIDE DEF Line
  <2>2. /\ Len(Line) = Len(prefix) + Len(stream)
        /\ \A j \in 1 .. Len(prefix) : Line[j] = prefix[j]
        /\ \A j \in 1 .. Len(stream) : Line[Len(prefix) + j] = stream[j]
    BY <1>1, <2>1, Joined
  <2> QED
    BY <1>7, <2>2
<1>10. len <= Len(stream) /\ Len(stream') = Len(stream) - len
       /\ \A i \in 1 .. Len(stream') : stream'[i] = stream[i + len]
  <2>1. Len(stream') \in Nat
    BY <1>8, LenProperties
  <2>2. Len(stream') = Len(stream) - len /\ \A i \in 1 .. Len(stream') : stream'[i] = stream[i + len]
    BY <1>8 DEF Left
  <2> QED
    BY <1>1, <1>4, <2>1, <2>2
<1> DEFINE d == prefix \o Taken(len)
<1>11. /\ d \in Seq(Byte) /\ Len(d) = 4 + len
       /\ \A j \in 1 .. 4 : d[j] = prefix[j]
       /\ \A j \in 1 .. len : d[4 + j] = Taken(len)[j]
  <2>1. /\ d \in Seq(Byte) /\ Len(d) = Len(prefix) + Len(Taken(len))
        /\ \A j \in 1 .. Len(prefix) : d[j] = prefix[j]
        /\ \A j \in 1 .. Len(Taken(len)) : d[Len(prefix) + j] = Taken(len)[j]
    <3>1. prefix \in Seq(Byte) /\ Taken(len) \in Seq(Byte)
      BY <1>1, <1>8
    <3> QED
      BY <3>1, Joined
  <2> HIDE DEF d
  <2> QED
    BY <1>7, <1>8, <2>1
<1> HIDE DEF d
<1>12. ASSUME NEW j \in 1 .. 4 + len PROVE d[j] = Serialize(m)[j]
  <2>1. CASE j \in 1 .. 4
    BY <1>6, <1>9, <1>11, <2>1
  <2>2. CASE j \notin 1 .. 4
    <3> DEFINE i == j - 4
    <3>1. i \in 1 .. len /\ i \in 1 .. Len(stream) /\ 4 + i = j
      BY <1>1, <1>4, <1>10, <2>2
    <3> HIDE DEF i
    <3>2. d[4 + i] = stream[i]
      BY <1>8, <1>11, <3>1
    <3>3. Line[4 + i] = stream[i]
      BY <1>9, <3>1
    <3>4. Line[j] = Serialize(m)[j]
      BY <1>6
    <3> QED
      BY <3>1, <3>2, <3>3, <3>4
  <2> QED
    BY <2>1, <2>2
<1>13. d = Serialize(m)
  <2>1. d \in Seq(Byte) /\ Serialize(m) \in Seq(Byte) /\ Len(d) = Len(Serialize(m))
    BY <1>4, <1>11
  <2>2. \A j \in 1 .. Len(d) : d[j] = Serialize(m)[j]
    BY <1>11, <1>12
  <2> QED
    BY <2>1, <2>2, SeqEqual
<1>14. Left(stream', Line, 4 + len)
  <2>1. Len(stream') = Len(Line) - (4 + len)
    <3>1. Len(stream') = Len(stream) - len /\ Len(Line) = 4 + Len(stream)
      BY <1>9, <1>10
    <3>2. \A x, y, z : x = z - len /\ y = 4 + z /\ z \in Nat => x = y - (4 + len)
      BY <1>4
    <3> QED
      BY <1>1, <3>1, <3>2
  <2>2. ASSUME NEW i \in 1 .. Len(stream') PROVE stream'[i] = Line[i + (4 + len)]
    <3> DEFINE k == i + len
    <3>1. k \in 1 .. Len(stream) /\ 4 + k = i + (4 + len)
      BY <1>1, <1>4, <1>10
    <3>2. stream'[i] = stream[k]
      BY <1>10
    <3> HIDE DEF k
    <3>3. Line[4 + k] = stream[k]
      BY <1>9, <3>1
    <3> QED
      BY <3>1, <3>2, <3>3
  <2> QED
    BY <2>1, <2>2 DEF Left
<1> QED
  BY <1>2, <1>3, <1>4, <1>7, <1>8, <1>13, <1>14 DEF m, len, d

\* ReadBody
LEMMA StreamBody ==
    ASSUME WordsFit, StreamInv, ReadBody
    PROVE  StreamInv'
<1> DEFINE frame == prefix \o Taken(FromBig(prefix))
<1>0. /\ stage = "body" /\ Read(FromBig(prefix)) /\ prefix' = <<>>
      /\ ~FrameOverruns(frame) => stage' = "length" /\ received' = Append(received, Deserialize(frame))
      /\ UNCHANGED <<layout, theirHash, sent>>
  BY DEF ReadBody
<1>1. /\ StreamType /\ Greeting /\ Reading
      /\ stream \in Seq(Byte) /\ sent \in Seq(Sendable) /\ Len(sent) \in Nat
      /\ Sendable' = Sendable
      /\ layout' \in Layouts /\ theirHash' \in {InfoHash, OtherHash} /\ sent' = sent
      /\ sent' \in Seq(Sendable') /\ Len(sent') <= MaxSent
  BY <1>0, StreamUnread
<1>2. PICK n \in 0 .. Len(sent) : \E cut : Stands(n, cut)
  BY <1>0, <1>1 DEF Reading
<1>3. PICK cut : Stands(n, cut)
  BY <1>2
<1> DEFINE m == sent[n + 1]
<1>4. /\ n \in 0 .. Len(sent) - 1 /\ m \in Sendable /\ m.id # KeepAlive /\ IsMessage(m)
      /\ frame = Serialize(m)
      /\ stream' \in Seq(Byte) /\ Left(stream', Line, 4 + FrameLength(m))
  BY <1>0, <1>3, BodyIsRead
<1>5. Framed(Line, sent, n, cut) /\ cut[n] = 0 /\ HandedOver(n) /\ Line \in Seq(Byte)
  BY <1>0, <1>1, <1>3, LineBytes DEF Stands, Opening
<1> HIDE DEF frame
<1>6. stage' = "length" /\ received' = Append(received, Expected(m))
  <2>1. ~FrameOverruns(frame) /\ Deserialize(frame) = Expected(m)
    BY <1>4, RoundTrip
  <2> QED
    BY <1>0, <2>1
<1>7. PICK after : Framed(stream', sent, n + 1, after) /\ after[n + 1] = 0
  BY <1>1, <1>4, <1>5, FrameTaken
<1>8. HandedOver(n + 1)' /\ received' \in Seq({Expected(e) : e \in Sendable})
  <2>1. received \in Seq({Expected(e) : e \in Sendable})
    BY <1>1 DEF StreamType
  <2> QED
    BY <1>1, <1>4, <1>5, <1>6, <2>1, HandedOverMessage
<1>9. StreamType'
  <2>1. {Expected(e) : e \in Sendable'} = {Expected(e) : e \in Sendable}
    BY <1>1
  <2>2. received' \in Seq({Expected(e) : e \in Sendable'}) /\ prefix' \in Seq(Byte)
    <3>1. <<>> \in Seq(Byte)
      OBVIOUS
    <3> QED
      BY <1>0, <1>8, <2>1, <3>1
  <2> QED
    BY <1>1, <1>4, <1>6, <2>2 DEF StreamType, Stages
<1>10. Greeting'
  BY <1>6 DEF Greeting
<1>11. Stands(n + 1, after)'
  <2>1. Line' = stream' /\ Opening' = 0
    BY <1>6 DEF Line, Opening
  <2>2. Framed(Line', sent', n + 1, after) /\ after[n + 1] = Opening'
    BY <1>1, <1>7, <2>1
  <2> QED
    BY <1>6, <1>8, <2>2 DEF Stands
<1>12. n + 1 \in 0 .. Len(sent')
  BY <1>1, <1>4
<1>13. Reading'
  BY <1>11, <1>12 DEF Reading
<1> QED
  BY <1>9, <1>10, <1>13 DEF StreamInv

\* Nothing happens.
LEMMA StreamStutter ==
    ASSUME WordsFit, StreamInv, UNCHANGED vars
    PROVE  StreamInv'
<1>0. /\ layout' = layout /\ theirHash' = theirHash /\ stream' = stream /\ stage' = stage
      /\ prefix' = prefix /\ sent' = sent /\ received' = received
  BY DEF vars
<1>1. Sendable' = Sendable /\ Hello' = Hello /\ Line' = Line /\ Opening' = Opening
  BY <1>0 DEF Sendable, Hello, Line, Opening
<1>2. StreamType' /\ Greeting'
  <2>1. {Expected(e) : e \in Sendable'} = {Expected(e) : e \in Sendable}
    BY <1>1
  <2> QED
    BY <1>0, <1>1, <2>1 DEF StreamInv, StreamType, Greeting
<1>3. ASSUME NEW n, NEW cut, Stands(n, cut) PROVE Stands(n, cut)'
  <2>1. HandedOver(n)'
    BY <1>0, <1>3, HandedOverSame DEF Stands
  <2>2. Framed(Line', sent', n, cut) /\ cut[n] = Opening'
    BY <1>0, <1>1, <1>3 DEF Stands
  <2> QED
    BY <1>0, <1>3, <2>1, <2>2 DEF Stands
<1>4. Reading'
  BY <1>0, <1>3 DEF StreamInv, Reading
<1> QED
  BY <1>2, <1>4 DEF StreamInv

\* The reads always stand at the beginning of a message or behind its length, with all
\* messages before handed over as they were sent.
THEOREM StreamHolds == ASSUME WordsFit PROVE Spec => []StreamInv
<1>1. Init => StreamInv
  BY StreamInit
<1>2. StreamInv /\ [Next]_vars => StreamInv'
  <2> SUFFICES ASSUME StreamInv, [Next]_vars PROVE StreamInv'
    OBVIOUS
  <2>1. ASSUME NEW m \in Sendable, Send(m) PROVE StreamInv'
    BY <2>1, StreamSend
  <2>2. CASE ReadPstrlen
    BY <2>2, StreamPstrlen
  <2>3. CASE ReadHandshake
    BY <2>3, StreamHandshake
  <2>4. CASE ReadLength
    BY <2>4, StreamLength
  <2>5. CASE ReadBody
    BY <2>5, StreamBody
  <2>6. CASE UNCHANGED vars
    BY <2>6, StreamStutter
  <2> QED
    BY <2>1, <2>2, <2>3, <2>4, <2>5, <2>6 DEF Next
<1> QED
  BY <1>1, <1>2, PTL DEF Spec

\* recieve_message hands over what the remote sent, in order, keep-alives left out.
THEOREM HandsOverAsSent == ASSUME WordsFit PROVE Spec => []ReceivedAsSent
<1>1. StreamInv => ReceivedAsSent
  <2> SUFFICES ASSUME StreamInv PROVE ReceivedAsSent
    OBVIOUS
  <2>1. sent \in Seq(Sendable) /\ Greeting /\ Reading /\ stage \in Stages \ {"overrun"}
    BY DEF StreamInv, StreamType
  <2>2. CASE stage \in {"refused", "thrown"}
    <3>1. Len(received) = 0
      BY <2>1, <2>2 DEF Greeting
    <3>2. \A i \in Kept : ~(Place(i) <= 0) /\ Cardinality(Kept) \in Nat
      BY <2>1, Counting
    <3>3. Cardinality(Kept) \in Nat
      BY <2>1, Counting
    <3> QED
      BY <3>1, <3>2, <3>3 DEF ReceivedAsSent
  <2>3. CASE stage \in {"pstrlen", "handshake", "length", "body"}
    <3>1. PICK n \in 0 .. Len(sent) : \E cut : Stands(n, cut)
      BY <2>1, <2>3 DEF Reading
    <3>2. HandedOver(n)
      BY <3>1 DEF Stands
    <3>3. /\ Len(received) = Cardinality(Upto(n))
          /\ \A i \in Kept : i <= n => received[Place(i)] = Expected(sent[i])
      BY <3>2, HandedOverCounts
    <3>4. n \in Nat /\ Cardinality(Upto(n)) \in Nat /\ Cardinality(Upto(n)) <= Cardinality(Kept)
      BY <2>1, Counting, LenProperties
    <3>5. ASSUME NEW i \in Kept, Place(i) <= Len(received) PROVE i <= n
      <4>1. i \in 1 .. Len(sent) /\ Place(i) \in Nat /\ (n < i => Cardinality(Upto(n)) < Place(i))
        BY <2>1, <3>4, Counting
      <4> QED
        BY <3>3, <3>4, <3>5, <4>1
    <3> QED
      BY <3>3, <3>4, <3>5 DEF ReceivedAsSent
  <2> QED
    BY <2>1, <2>2, <2>3 DEF Stages
<1> QED
  BY <1>1, StreamHolds, PTL

\* When the stream is empty the reads wait for a length, and every message was handed over.
THEOREM ReadsEndOnBoundary == ASSUME WordsFit PROVE Spec => []EndsOnBoundary
<1>1. StreamInv => EndsOnBoundary
  <2> SUFFICES ASSUME StreamInv PROVE EndsOnBoundary
    OBVIOUS
  <2>1. StreamType /\ sent \in Seq(Sendable) /\ Reading /\ stage # "overrun" /\ Len(sent) \in Nat
        /\ stream \in Seq(Byte) /\ prefix \in Seq(Byte) /\ Line \in Seq(Byte)
    BY LineBytes, LenProperties DEF StreamInv, StreamType
  <2> SUFFICES ASSUME stage \in {"length", "body"}, stream = <<>>
               PROVE  stage = "length" /\ Len(received) = Cardinality(Kept)
    BY <2>1 DEF EndsOnBoundary
  <2>2. PICK n \in 0 .. Len(sent) : \E cut : Stands(n, cut)
    BY <2>1 DEF Reading
  <2>3. PICK cut : Stands(n, cut)
    BY <2>2
  <2>4. /\ Framed(Line, sent, n, cut) /\ cut[n] = 0 /\ HandedOver(n)
        /\ stage = "body" => /\ n < Len(sent) /\ sent[n + 1].id # KeepAlive
                             /\ prefix = BigEndian(FrameLength(sent[n + 1]))
    BY <2>3 DEF Stands, Opening
  <2>5. n < Len(sent) => n + 1 \in 1 .. Len(sent)
    BY <2>1
  <2>6. ASSUME n < Len(sent)
        PROVE  /\ FrameLength(sent[n + 1]) \in Nat /\ FrameLength(sent[n + 1]) \in Word
               /\ FrameLength(sent[n + 1]) = 0 <=> sent[n + 1].id = KeepAlive
               /\ 4 + FrameLength(sent[n + 1]) <= Len(Line)
    <3>1. IsMessage(sent[n + 1]) /\ FrameLength(sent[n + 1]) \in Nat
      BY <2>1, <2>5, <2>6, SentMessages
    <3>2. cut[n + 1] = 4 + FrameLength(sent[n + 1]) /\ cut[n + 1] <= Len(Line)
      BY <2>1, <2>4, <2>6, FrontFrame
    <3>3. FrameLength(sent[n + 1]) = 0 <=> sent[n + 1].id = KeepAlive
      BY <3>1, LengthsAgree
    <3> QED
      BY <3>1, <3>2, <3>3 DEF IsMessage
  <2>7. stage # "body"
    <3> SUFFICES ASSUME stage = "body" PROVE FALSE
      OBVIOUS
    <3>1. Line = prefix
      BY <2>1, ConcatEmptySeq DEF Line
    <3>2. Len(prefix) = 4
      BY <2>4, <2>6, WordIsBytes
    <3>3. FrameLength(sent[n + 1]) = 0
      BY <2>4, <2>6, <3>1, <3>2
    <3> QED
      BY <2>4, <2>6, <3>3
  <2>8. n = Len(sent)
    <3>1. ASSUME n < Len(sent) PROVE FALSE
      <4>1. Len(Line) = 0
        BY <2>7 DEF Line
      <4> QED
        BY <2>6, <3>1, <4>1
    <3> QED
      BY <2>1, <3>1
  <2>9. Len(received) = Cardinality(Kept)
    <3>1. Len(received) = Cardinality(Upto(Len(sent)))
      BY <2>4, <2>8, HandedOverCounts
    <3> QED
      BY <2>1, <3>1, Counting
  <2> QED
    BY <2>7, <2>9
<1> QED
  BY <1>1, StreamHolds, PTL

-----------------------------------------------------------------------------
(* The handshake.                                                           *)

\* ReadHandshake: whatever pstrlen has become, the bytes compared are those of the
\* remote's handshake.
LEMMA HashCompared ==
    ASSUME WordsFit, Unmistakable, StreamInv, ReadHandshake, stage' = "length"
    PROVE  theirHash = InfoHash
<1> DEFINE l == Len(ProtocolName)
<1>1. /\ stage = "handshake" /\ Read(prefix[1] + 48)
      /\ \E v \in {prefix[1]} \cup StalePrefix :
            LET d == <<v>> \o Taken(prefix[1] + 48) IN
            ~HandshakeOverruns(d) /\ HandshakeHash(d) = InfoHash
  BY DEF ReadHandshake
<1>2. /\ theirHash \in {InfoHash, OtherHash} /\ stream \in Seq(Byte) /\ prefix = <<l>>
      /\ \A j \in 1 .. Len(Hello) - 1 : stream[j] = Hello[j + 1]
  BY <1>1 DEF StreamInv, StreamType, Greeting
<1>3. /\ l \in Nat /\ l \in Byte /\ Hello \in Seq(Byte) /\ Len(Hello) = l + 49
      /\ \A j \in 1 .. 20 : Hello[l + 9 + j] = theirHash[j]
  BY <1>2, HelloBytes
<1>4. prefix[1] = l /\ l + 48 \in Nat
  <2> HIDE DEF l
  <2>1. l \in Nat /\ prefix = <<l>>
    BY <1>2, <1>3
  <2> QED
    BY <2>1
<1> DEFINE t == Taken(l + 48)
<1>5. PICK v \in {l} \cup StalePrefix : ~HandshakeOverruns(<<v>> \o t) /\ HandshakeHash(<<v>> \o t) = InfoHash
  BY <1>1, <1>4
<1> HIDE DEF l
<1>6. t \in Seq(Byte) /\ Len(t) = l + 48 /\ \A j \in 1 .. l + 48 : t[j] = stream[j]
  BY <1>1, <1>2, <1>4, ReadLeaves
<1> HIDE DEF t
<1>7. v \in Byte /\ v \in Nat /\ <<v>> \in Seq(Byte) /\ Len(<<v>>) = 1 /\ <<v>>[1] = v
  <2>1. v \in Byte
    BY <1>3, TransferAssumption
  <2> QED
    BY <2>1 DEF Byte
<1> DEFINE d == <<v>> \o t
<1>8. /\ d \in Seq(Byte) /\ Len(d) = l + 49 /\ d[1] = v
      /\ \A j \in 1 .. l + 48 : d[1 + j] = t[j]
  <2>1. /\ d \in Seq(Byte) /\ Len(d) = Len(<<v>>) + Len(t)
        /\ \A j \in 1 .. Len(<<v>>) : d[j] = <<v>>[j]
        /\ \A j \in 1 .. Len(t) : d[Len(<<v>>) + j] = t[j]
    BY <1>6, <1>7, Joined
  <2> HIDE DEF d
  <2>2. Len(d) = l + 49
    BY <1>3, <1>6, <1>7, <2>1
  <2>3. 1 \in 1 .. Len(<<v>>)
    BY <1>7
  <2> QED
    BY <1>6, <1>7, <2>1, <2>2, <2>3
<1> HIDE DEF d
<1>9. ~HandshakeOverruns(d) /\ HandshakeHash(d) = InfoHash
  BY <1>5 DEF d
<1>10. v <= l
  <2>1. ~(1 + v + 48 > l + 49)
    BY <1>8, <1>9 DEF HandshakeOverruns
  <2> QED
    BY <1>3, <1>7, <2>1
<1>11. Get(d, v + 9, 20) = InfoHash
  <2>1. 1 + v + 8 = v + 9
    BY <1>7
  <2> QED
    BY <1>8, <1>9, <2>1 DEF HandshakeHash
<1>12. v + 9 \in Nat /\ 20 \in Nat /\ v + 9 + 20 <= Len(d) /\ v + 9 + 20 <= Len(Hello)
  BY <1>3, <1>7, <1>8, <1>10
<1>13. ASSUME NEW j \in 1 .. 20 PROVE d[v + 9 + j] = Hello[v + 9 + j]
  <2> DEFINE k == v + 8 + j
  <2>1. k \in 1 .. l + 48 /\ k \in 1 .. Len(Hello) - 1 /\ 1 + k = v + 9 + j /\ k + 1 = v + 9 + j
    <3>1. l \in Nat /\ Len(Hello) = l + 49 /\ v \in Nat /\ v <= l
      BY <1>3, <1>7, <1>10
    <3> QED
      BY <3>1
  <2> HIDE DEF k
  <2>2. d[1 + k] = t[k] /\ t[k] = stream[k] /\ stream[k] = Hello[k + 1]
    BY <1>2, <1>6, <1>8, <2>1
  <2> QED
    BY <2>1, <2>2
<1>14. /\ Get(d, v + 9, 20) \in Seq(Byte) /\ Len(Get(d, v + 9, 20)) = 20
       /\ \A j \in 1 .. 20 : Get(d, v + 9, 20)[j] = d[v + 9 + j]
  BY <1>8, <1>12, GetBytes
<1>15. /\ Get(Hello, v + 9, 20) \in Seq(Byte) /\ Len(Get(Hello, v + 9, 20)) = 20
       /\ \A j \in 1 .. 20 : Get(Hello, v + 9, 20)[j] = Hello[v + 9 + j]
  BY <1>3, <1>12, GetBytes
<1>16. Get(Hello, v + 9, 20) = InfoHash
  <2>1. \A j \in 1 .. 20 : Get(d, v + 9, 20)[j] = Get(Hello, v + 9, 20)[j]
    <3>1. ASSUME NEW j \in 1 .. 20 PROVE Get(d, v + 9, 20)[j] = Get(Hello, v + 9, 20)[j]
      <4>1. Get(d, v + 9, 20)[j] = d[v + 9 + j]
        BY <1>14
      <4>2. Get(Hello, v + 9, 20)[j] = Hello[v + 9 + j]
        BY <1>15
      <4> QED
        BY <1>13, <4>1, <4>2
    <3> QED
      BY <3>1
  <2>2. Get(d, v + 9, 20) = Get(Hello, v + 9, 20)
    BY <1>14, <1>15, <2>1, SeqEqual
  <2> QED
    BY <1>11, <2>2
<1>17. CASE v = l
  <2>1. theirHash \in Seq(Byte) /\ Len(theirHash) = 20
    BY <1>2, TransferAssumption
  <2>2. \A j \in 1 .. 20 : Get(Hello, v + 9, 20)[j] = theirHash[j]
    BY <1>3, <1>15, <1>17
  <2>3. Get(Hello, v + 9, 20) = theirHash
    BY <1>15, <2>1, <2>2, SeqEqual
  <2> QED
    BY <1>16, <2>3
<1>18. CASE v # l
  <2>1. v \in StalePrefix /\ v < l
    BY <1>3, <1>7, <1>10, <1>18
  <2>2. theirHash # OtherHash
    BY <1>16, <2>1 DEF Unmistakable, Hello, l
  <2> QED
    BY <1>2, <2>2
<1> QED
  BY <1>17, <1>18

\* Only a peer of this torrent gets past the handshake.
THEOREM OwnTorrent == ASSUME WordsFit, Unmistakable PROVE Spec => []OwnTorrentOnly
<1>1. Init => OwnTorrentOnly
  BY DEF Init, OwnTorrentOnly
<1>2. OwnTorrentOnly /\ StreamInv /\ [Next]_vars => OwnTorrentOnly'
  <2> SUFFICES ASSUME OwnTorrentOnly, StreamInv, [Next]_vars PROVE OwnTorrentOnly'
    OBVIOUS
  <2>1. ASSUME NEW m \in Sendable, Send(m) PROVE OwnTorrentOnly'
    BY <2>1 DEF Send, OwnTorrentOnly
  <2>2. CASE ReadPstrlen
    BY <2>2 DEF ReadPstrlen, OwnTorrentOnly
  <2>3. CASE ReadHandshake
    <3>1. /\ stage' \in {"thrown", "refused", "length"} /\ received' = received /\ theirHash' = theirHash
      BY <2>3 DEF ReadHandshake
    <3>2. stage' = "length" => theirHash = InfoHash
      BY <2>3, HashCompared
    <3> QED
      BY <3>1, <3>2 DEF OwnTorrentOnly
  <2>4. CASE ReadLength
    BY <2>4 DEF ReadLength, OwnTorrentOnly
  <2>5. CASE ReadBody
    <3>1. stage = "body" /\ theirHash' = theirHash
      BY <2>5 DEF ReadBody
    <3> QED
      BY <3>1 DEF OwnTorrentOnly
  <2>6. CASE UNCHANGED vars
    BY <2>6 DEF vars, OwnTorrentOnly
  <2> QED
    BY <2>1, <2>2, <2>3, <2>4, <2>5, <2>6 DEF Next
<1> QED
  BY <1>1, <1>2, StreamHolds, PTL DEF Spec

-----------------------------------------------------------------------------
(* The file.                                                                *)

\* Every byte of a block whose write is through is the torrent's.
Stored ==
    /\ layout \in Layouts
    /\ file \in [0 .. layout.length - 1 -> Byte]
    /\ \A b \in complete : \E i \in PieceSet(layout) : \E k \in BlockSet(layout, i) : b = <<i, k>>
    /\ layout.length <= OffsetModulus =>
         \A i \in PieceSet(layout) : \A k \in BlockSet(layout, i) : <<i, k>> \in complete =>
            \A q \in 1 .. BlockSize(layout, i, k) :
                LET p == PieceOffset(layout, i) + BlockOffset(k) + q - 1 IN
                p \in 0 .. layout.length - 1 /\ file[p] = Source(p)

\* The PIECE that ReadBody hands over is one of a block, with the block's bytes.
LEMMA PieceRead ==
    ASSUME WordsFit, StreamInv, ReadBody
    PROVE  \/ file' = file /\ complete' = complete
           \/ \E i \in PieceSet(layout) : \E k \in BlockSet(layout, i) :
                StoreBlock(i, BlockOffset(k), BlockBytes(layout, i, k))
<1> DEFINE frame == prefix \o Taken(FromBig(prefix))
           r == Deserialize(frame)
<1>0. /\ stage = "body" /\ Read(FromBig(prefix))
      /\ ~FrameOverruns(frame) =>
           IF r.id = Piece THEN StoreBlock(r.words[1], r.words[2], r.payload)
                           ELSE UNCHANGED <<file, complete>>
  BY DEF ReadBody
<1>1. PICK n \in 0 .. Len(sent) : \E cut : Stands(n, cut)
  BY <1>0 DEF StreamInv, Reading
<1>2. PICK cut : Stands(n, cut)
  BY <1>1
<1> DEFINE m == sent[n + 1]
<1>3. m \in Sendable /\ m.id # KeepAlive /\ IsMessage(m) /\ frame = Serialize(m)
  BY <1>0, <1>2, BodyIsRead
<1>4. ~FrameOverruns(frame) /\ r = Expected(m)
  BY <1>3, RoundTrip
<1> HIDE DEF frame, r, m
<1>5. CASE r.id # Piece
  BY <1>0, <1>4, <1>5
<1>6. CASE r.id = Piece
  <2>1. m.id = Piece /\ r = m
    <3>1. CASE m.id = BitField
      <4>1. r = [m EXCEPT !.payload = Padded(m.payload)] /\ m = Message(m.id, m.words, m.payload)
        BY <1>3, <1>4, <3>1 DEF Expected, IsMessage
      <4>2. r.id = m.id
        BY <4>1 DEF Message
      <4> QED
        BY <1>6, <3>1, <4>2, Ids
    <3>2. CASE m.id # BitField
      BY <1>4, <1>6, <3>2 DEF Expected
    <3> QED
      BY <3>1, <3>2
  <2>2. \A id, words, payload :
          /\ Message(id, words, payload).id = id
          /\ Message(id, words, payload).words = words
          /\ Message(id, words, payload).payload = payload
    BY DEF Message
  <2>3. PICK i \in PieceSet(layout) : \E k \in BlockSet(layout, i) :
              m = Message(Piece, <<i, BlockOffset(k)>>, BlockBytes(layout, i, k))
    <3>1. \/ m.id \in {Choke, Unchoke, Interested, NotInterested, KeepAlive}
          \/ m.id = Have \/ m.id = BitField \/ m.id \in {Request, Cancel}
          \/ \E i \in PieceSet(layout) : \E k \in BlockSet(layout, i) :
               m = Message(Piece, <<i, BlockOffset(k)>>, BlockBytes(layout, i, k))
      <4>1. ASSUME \E id \in {Choke, Unchoke, Interested, NotInterested, KeepAlive} :
                      m = Message(id, <<>>, <<>>)
            PROVE  m.id \in {Choke, Unchoke, Interested, NotInterested, KeepAlive}
        BY <2>2, <4>1
      <4>2. ASSUME \E i \in Named(layout) : m = Message(Have, <<i>>, <<>>)
            PROVE  m.id = Have
        BY <2>2, <4>2
      <4>3. ASSUME \E v \in BitFields(layout) : m = Message(BitField, <<>>, v)
            PROVE  m.id = BitField
        BY <2>2, <4>3
      <4>4. ASSUME \E id \in {Request, Cancel}, i \in Named(layout) : \E k \in BlockSet(layout, i) :
                      m = Message(id, BlockWords(layout, i, k), <<>>)
            PROVE  m.id \in {Request, Cancel}
        BY <2>2, <4>4
      <4> QED
        BY <1>3, <4>1, <4>2, <4>3, <4>4, SendableKinds
    <3>2. /\ Piece \notin {Choke, Unchoke, Interested, NotInterested, KeepAlive}
          /\ Piece # Have /\ Piece # BitField /\ Piece \notin {Request, Cancel}
      BY Ids
    <3> QED
      BY <2>1, <3>1, <3>2
  <2>4. PICK k \in BlockSet(layout, i) :
              m = Message(Piece, <<i, BlockOffset(k)>>, BlockBytes(layout, i, k))
    BY <2>3
  <2>5. r.words = <<i, BlockOffset(k)>> /\ r.payload = BlockBytes(layout, i, k)
    BY <2>1, <2>2, <2>4
  <2>6. r.words[1] = i /\ r.words[2] = BlockOffset(k)
    BY <2>5
  <2>7. StoreBlock(i, BlockOffset(k), BlockBytes(layout, i, k))
    BY <1>0, <1>4, <1>6, <2>5, <2>6
  <2> QED
    BY <2>7
<1> QED
  BY <1>5, <1>6

\* write_block
LEMMA BlockStored ==
    ASSUME Stored, layout' = layout, NEW i \in PieceSet(layout), NEW k \in BlockSet(layout, i),
           StoreBlock(i, BlockOffset(k), BlockBytes(layout, i, k))
    PROVE  Stored'
<1> DEFINE at == WriteOffset(layout, i, BlockOffset(k))
           from == PieceOffset(layout, i) + BlockOffset(k)
           bytes == BlockBytes(layout, i, k)
           size == BlockSize(layout, i, k)
           dom == 0 .. layout.length - 1
<1>0. /\ layout \in Layouts /\ layout \in Lengths /\ file \in [dom -> Byte]
      /\ \A b \in complete : \E j \in PieceSet(layout) : \E h \in BlockSet(layout, j) : b = <<j, h>>
  BY TransferAssumption DEF Stored
<1>1. /\ file' = [p \in dom |-> IF p \in at .. at + Len(bytes) - 1 THEN bytes[p - at + 1] ELSE file[p]]
      /\ complete' = complete \cup {<<i, BlockAt(BlockOffset(k))>>}
  BY <1>0 DEF StoreBlock
<1>2. /\ size \in Nat \ {0} /\ from \in Nat
      /\ bytes \in Seq(Byte) /\ Len(bytes) = size
      /\ \A q \in 1 .. size : bytes[q] = Source(from + q - 1)
  BY <1>0, BytesOfBlock
<1>3. complete' = complete \cup {<<i, k>>}
  <2>1. BlockAt(BlockOffset(k)) = k
    BY BlockIsFound DEF BlockSet
  <2> QED
    BY <1>1, <2>1
<1>4. at \in Nat
  <2>1. OffsetModulus \in Nat \ {0} /\ i * layout.pieceLength + BlockOffset(k) \in Nat
    BY <1>2, LayoutAssumption DEF PieceOffset
  <2> QED
    BY <2>1 DEF WriteOffset
<1> HIDE DEF at, from, bytes, size, dom
<1>5. file' \in [dom -> Byte]
  <2>1. ASSUME NEW p \in dom, p \in at .. at + Len(bytes) - 1
        PROVE  bytes[p - at + 1] \in Byte
    <3>1. p - at + 1 \in 1 .. Len(bytes)
      BY <1>2, <1>4, <2>1
    <3> QED
      BY <1>2, <3>1, ElementOfSeq
  <2> QED
    BY <1>0, <1>1, <2>1
<1>6. \A b \in complete' : \E j \in PieceSet(layout) : \E h \in BlockSet(layout, j) : b = <<j, h>>
  BY <1>0, <1>3
<1>7. ASSUME layout.length <= OffsetModulus
      PROVE  \A j \in PieceSet(layout) : \A h \in BlockSet(layout, j) : <<j, h>> \in complete' =>
               \A q \in 1 .. BlockSize(layout, j, h) :
                  LET p == PieceOffset(layout, j) + BlockOffset(h) + q - 1 IN
                  p \in dom /\ file'[p] = Source(p)
  <2>1. at = from /\ from + size <= layout.length /\ layout.length \in Nat
    <3>1. /\ PieceOffset(layout, i) \in Nat /\ BlockOffset(k) \in Nat
          /\ size \in Nat \ {0} /\ PieceSize(layout, i) \in Nat
          /\ BlockOffset(k) + size <= PieceSize(layout, i)
          /\ PieceOffset(layout, i) + PieceSize(layout, i) <= layout.length
          /\ at = from
      BY <1>0, <1>7, BlockInFile DEF at, from, size
    <3>2. layout.length \in Nat
      BY <1>0 DEF Lengths
    <3> QED
      BY <3>1, <3>2 DEF from
  <2>2. ASSUME NEW p \in dom PROVE file'[p] \in {file[p], Source(p)}
    <3>1. CASE p \in at .. at + Len(bytes) - 1
      <4>1. p - at + 1 \in 1 .. size /\ from + (p - at + 1) - 1 = p
        BY <1>2, <1>4, <2>1, <3>1
      <4>2. file'[p] = bytes[p - at + 1]
        BY <1>1, <3>1
      <4>3. bytes[p - at + 1] = Source(from + (p - at + 1) - 1)
        BY <1>2, <4>1
      <4> QED
        BY <4>1, <4>2, <4>3
    <3>2. CASE p \notin at .. at + Len(bytes) - 1
      BY <1>1, <3>2
    <3> QED
      BY <3>1, <3>2
  <2>3. ASSUME NEW q \in 1 .. size PROVE from + q - 1 \in dom /\ file'[from + q - 1] = Source(from + q - 1)
    <3> DEFINE p == from + q - 1
    <3>1. p \in dom /\ p \in at .. at + Len(bytes) - 1 /\ p - at + 1 = q
      BY <1>2, <2>1 DEF dom
    <3> HIDE DEF p
    <3>2. file'[p] = bytes[q]
      BY <1>1, <3>1
    <3>3. bytes[q] = Source(p)
      BY <1>2 DEF p
    <3> QED
      BY <3>1, <3>2, <3>3 DEF p
  <2>4. ASSUME NEW j \in PieceSet(layout), NEW h \in BlockSet(layout, j), <<j, h>> \in complete',
               NEW q \in 1 .. BlockSize(layout, j, h)
        PROVE  LET p == PieceOffset(layout, j) + BlockOffset(h) + q - 1 IN
               p \in dom /\ file'[p] = Source(p)
    <3> DEFINE p == PieceOffset(layout, j) + BlockOffset(h) + q - 1
    <3>1. CASE <<j, h>> \in complete
      <4>1. p \in dom /\ file[p] = Source(p)
        BY <1>7, <3>1 DEF Stored, dom
      <4> HIDE DEF p
      <4>2. file'[p] = Source(p)
        BY <2>2, <4>1
      <4> QED
        BY <4>1, <4>2 DEF p
    <3>2. CASE <<j, h>> \notin complete
      <4>1. <<j, h>> = <<i, k>>
        BY <1>3, <2>4, <3>2
      <4>2. j = i /\ h = k
        BY <4>1
      <4>3. q \in 1 .. size /\ p = from + q - 1
        BY <4>2 DEF size, from
      <4> HIDE DEF p
      <4>4. p \in dom /\ file'[p] = Source(p)
        BY <2>3, <4>3
      <4> QED
        BY <4>4 DEF p
    <3> QED
      BY <3>1, <3>2
  <2> QED
    BY <2>4
<1> QED
  BY <1>0, <1>5, <1>6, <1>7 DEF Stored, dom

\* What is written stays the torrent's.
THEOREM StoredHolds == ASSUME WordsFit PROVE Spec => []Stored
<1>1. Init => Stored
  <2> SUFFICES ASSUME Init PROVE Stored
    OBVIOUS
  <2>1. layout \in Layouts /\ file = [p \in 0 .. layout.length - 1 |-> 0] /\ complete = {}
    BY DEF Init
  <2>2. file \in [0 .. layout.length - 1 -> Byte]
    BY <2>1 DEF Byte
  <2> QED
    BY <2>1, <2>2 DEF Stored
<1>2. Stored /\ StreamInv /\ [Next]_vars => Stored'
  <2> SUFFICES ASSUME Stored, StreamInv, [Next]_vars PROVE Stored'
    OBVIOUS
  <2>1. ASSUME layout' = layout, file' = file, complete' = complete PROVE Stored'
    BY <2>1 DEF Stored
  <2>2. ASSUME NEW m \in Sendable, Send(m) PROVE Stored'
    BY <2>1, <2>2 DEF Send
  <2>3. CASE ReadPstrlen \/ ReadHandshake \/ ReadLength
    BY <2>1, <2>3 DEF ReadPstrlen, ReadHandshake, ReadLength
  <2>4. CASE ReadBody
    <3>1. layout' = layout
      BY <2>4 DEF ReadBody
    <3>2. CASE file' = file /\ complete' = complete
      BY <2>1, <3>1, <3>2
    <3>3. ASSUME NEW i \in PieceSet(layout), NEW k \in BlockSet(layout, i),
                 StoreBlock(i, BlockOffset(k), BlockBytes(layout, i, k))
          PROVE  Stored'
      BY <3>1, <3>3, BlockStored
    <3> QED
      BY <2>4, <3>2, <3>3, PieceRead
  <2>5. CASE UNCHANGED vars
    BY <2>1, <2>5 DEF vars
  <2> QED
    BY <2>2, <2>3, <2>4, <2>5 DEF Next
<1> QED
  BY <1>1, <1>2, StreamHolds, PTL DEF Spec

\* validate_piece reads the torrent's bytes of a piece whose blocks are all written.
THEOREM ValidationSound == ASSUME WordsFit PROVE Spec => []ValidationReadsSource
<1>1. Stored => ValidationReadsSource
  <2> SUFFICES ASSUME Stored, layout.length <= OffsetModulus
               PROVE  /\ \A i \in PieceSet(layout) : PieceWritten(i) =>
                           \A q \in PieceOffset(layout, i) .. PieceOffset(layout, i) + PieceSize(layout, i) - 1 :
                              q \in DOMAIN file /\ file[q] = Source(q)
                      /\ (\A i \in PieceSet(layout) : PieceWritten(i)) =>
                           \A p \in DOMAIN file : file[p] = Source(p)
    BY DEF ValidationReadsSource
  <2>1. layout \in Lengths /\ DOMAIN file = 0 .. layout.length - 1
    BY TransferAssumption DEF Stored
  <2>2. ASSUME NEW i \in PieceSet(layout), PieceWritten(i),
               NEW q \in PieceOffset(layout, i) .. PieceOffset(layout, i) + PieceSize(layout, i) - 1
        PROVE  q \in DOMAIN file /\ file[q] = Source(q)
    <3> DEFINE o == q - PieceOffset(layout, i)
    <3>1. PieceOffset(layout, i) \in Nat /\ PieceSize(layout, i) \in Nat
      <4>1. i \in Nat /\ layout.pieceLength \in Nat
        BY <2>1 DEF PieceSet, Lengths
      <4>2. PieceSize(layout, i) \in 1 .. layout.pieceLength
        BY <2>1, PiecesTileFile
      <4> QED
        BY <4>1, <4>2 DEF PieceOffset
    <3>2. o \in 0 .. PieceSize(layout, i) - 1 /\ q = PieceOffset(layout, i) + o
      BY <3>1
    <3> HIDE DEF o
    <3>3. PICK k \in BlockSet(layout, i) :
             BlockOffset(k) <= o /\ o < BlockOffset(k) + BlockSize(layout, i, k)
      BY <2>1, <3>2, BlocksTilePiece
    <3>4. BlockOffset(k) \in Nat /\ BlockSize(layout, i, k) \in Nat
      BY <2>1, BlockInFile
    <3> DEFINE r == o - BlockOffset(k) + 1
    <3>5. r \in 1 .. BlockSize(layout, i, k) /\ PieceOffset(layout, i) + BlockOffset(k) + r - 1 = q
      BY <3>1, <3>2, <3>3, <3>4
    <3> HIDE DEF r
    <3>6. <<i, k>> \in complete
      BY <2>2 DEF PieceWritten
    <3>7. LET p == PieceOffset(layout, i) + BlockOffset(k) + r - 1 IN
          p \in 0 .. layout.length - 1 /\ file[p] = Source(p)
      BY <3>5, <3>6 DEF Stored
    <3> QED
      BY <2>1, <3>5, <3>7
  <2>3. ASSUME \A i \in PieceSet(layout) : PieceWritten(i), NEW p \in DOMAIN file
        PROVE  file[p] = Source(p)
    <3>1. PICK i \in PieceSet(layout) :
             PieceOffset(layout, i) <= p /\ p < PieceOffset(layout, i) + PieceSize(layout, i)
      BY <2>1, PiecesTileFile
    <3>2. p \in Nat /\ PieceOffset(layout, i) \in Nat /\ PieceSize(layout, i) \in Nat
      <4>1. i \in Nat /\ layout.pieceLength \in Nat /\ layout.length \in Nat
        BY <2>1 DEF PieceSet, Lengths
      <4>2. PieceSize(layout, i) \in 1 .. layout.pieceLength
        BY <2>1, PiecesTileFile
      <4> QED
        BY <2>1, <4>1, <4>2 DEF PieceOffset
    <3>3. p \in PieceOffset(layout, i) .. PieceOffset(layout, i) + PieceSize(layout, i) - 1
      BY <3>1, <3>2
    <3> QED
      BY <2>2, <2>3, <3>3
  <2> QED
    BY <2>2, <2>3
<1> QED
  BY <1>1, StoredHolds, PTL

\* The types of the variables.
THEOREM TransferTypes == ASSUME WordsFit PROVE Spec => []TypeOK
<1>1. StreamInv /\ Stored /\ ReceivedAsSent => TypeOK
  <2> SUFFICES ASSUME StreamInv, Stored, ReceivedAsSent PROVE TypeOK
    OBVIOUS
  <2>1. /\ layout \in Layouts /\ theirHash \in {InfoHash, OtherHash}
        /\ stream \in Seq(Byte) /\ prefix \in Seq(Byte) /\ stage \in Stages
        /\ sent \in Seq(Sendable) /\ Len(sent) <= MaxSent
    BY DEF StreamInv, StreamType
  <2>2. /\ \A i \in DOMAIN stream : stream[i] \in Byte
        /\ \A i \in DOMAIN prefix : prefix[i] \in Byte
    BY <2>1
  <2>3. Len(received) <= Len(sent)
    <3>1. Kept \subseteq 1 .. Len(sent) /\ Len(sent) \in Nat
      BY <2>1, LenProperties DEF Kept
    <3>2. IsFiniteSet(1 .. Len(sent)) /\ Cardinality(1 .. Len(sent)) = IF 1 > Len(sent) THEN 0 ELSE Len(sent) - 1 + 1
      <4>1. 1 \in Int /\ Len(sent) \in Int
        BY <3>1
      <4> QED
        BY <4>1, FS_Interval
    <3>3. Cardinality(Kept) <= Cardinality(1 .. Len(sent)) /\ Cardinality(Kept) \in Nat
      BY <2>1, <3>1, <3>2, FS_Subset, Counting
    <3>4. Len(received) <= Cardinality(Kept)
      BY DEF ReceivedAsSent
    <3>5. received \in Seq({Expected(m) : m \in Sendable})
      BY DEF StreamInv, StreamType
    <3>6. Len(received) \in Nat
      BY <3>5, LenProperties
    <3> QED
      BY <3>1, <3>2, <3>3, <3>4, <3>6
  <2>4. /\ file \in [0 .. layout.length - 1 -> Byte]
        /\ \A b \in complete : b[1] \in PieceSet(layout) /\ b[2] \in BlockSet(layout, b[1])
    <3>1. ASSUME NEW b \in complete PROVE b[1] \in PieceSet(layout) /\ b[2] \in BlockSet(layout, b[1])
      <4>1. PICK i \in PieceSet(layout) : \E k \in BlockSet(layout, i) : b = <<i, k>>
        BY DEF Stored
      <4>2. PICK k \in BlockSet(layout, i) : b = <<i, k>>
        BY <4>1
      <4>3. b[1] = i /\ b[2] = k
        BY <4>2
      <4> QED
        BY <4>3
    <3> QED
      BY <3>1 DEF Stored
  <2> QED
    BY <2>1, <2>2, <2>3, <2>4 DEF TypeOK
<1> QED
  BY <1>1, StreamHolds, StoredHolds, HandsOverAsSent, PTL

=============================================================================
