-------------------------------- MODULE Wire --------------------------------
(***************************************************************************)
(* The messages of the peer protocol as bytes (messages.h, messages.cpp,   *)
(* serialization.cpp): operators only, used by Transfer.                   *)
(*                                                                         *)
(* A message is a record of its id, its uint32_t fields in the order they  *)
(* are written, and its payload: bits for a BITFIELD, bytes for a PIECE.   *)
(* The text of the protocol's name and the peer id are left to constants.  *)
(* Bytes and words have their real width; a word is at most 2^31-1 here.   *)
(***************************************************************************)
EXTENDS Integers, Sequences

CONSTANTS
    ProtocolName,  \* bytes of "BitTorrent protocol"
    PeerIdBytes    \* the 20 bytes of the sender's peer id

Byte == 0 .. 255

ASSUME WireAssumption ==
    /\ ProtocolName \in Seq(Byte) /\ Len(ProtocolName) < 256
    /\ PeerIdBytes \in Seq(Byte) /\ Len(PeerIdBytes) = 20

\* EMessageId, named after the messages
Choke          == 0
Unchoke        == 1
Interested     == 2
NotInterested  == 3
Have           == 4
BitField       == 5
Request        == 6
Piece          == 7
Cancel         == 8
KeepAlive      == 11

Message(id, words, payload) == [id |-> id, words |-> words, payload |-> payload]

CeilDiv(a, b) == (a + b - 1) \div b

-----------------------------------------------------------------------------
(* Words.  serialize() writes the low byte first, of a number whose bytes   *)
(* native_to_big has reversed on a little-endian machine; deserialize() and *)
(* big_to_native undo both.                                                 *)

BigEndian(n) ==
    LET a == n \div 256
        b == a \div 256
    IN  <<b \div 256, b % 256, a % 256, n % 256>>

FromBig(d) == 256 * (256 * (256 * d[1] + d[2]) + d[3]) + d[4]

\* Words one after the other.
WordBytes(words) ==
    [j \in 1 .. 4 * Len(words) |-> BigEndian(words[CeilDiv(j, 4)])[1 + ((j - 1) % 4)]]

(* vector<bool>: eight bits to a byte, the first one in the highest place,  *)
(* the last byte filled up with zeroes.                                     *)

Places    == <<128, 64, 32, 16, 8, 4, 2, 1>>
Bit(v, k) == IF k <= Len(v) /\ v[k] THEN 1 ELSE 0

\* A slip of the packing: the first bit in the lowest place.
PackBitsLow(v) ==
    [b \in 1 .. CeilDiv(Len(v), 8) |->
        LET bit(j) == Bit(v, 8 * (b - 1) + j)
        IN  bit(1) + 2 * bit(2) + 4 * bit(3) + 8 * bit(4)
              + 16 * bit(5) + 32 * bit(6) + 64 * bit(7) + 128 * bit(8)]

PackBits(v) ==
    [b \in 1 .. CeilDiv(Len(v), 8) |->
        LET bit(j) == Bit(v, 8 * (b - 1) + j)
        IN  128 * bit(1) + 64 * bit(2) + 32 * bit(3) + 16 * bit(4)
              + 8 * bit(5) + 4 * bit(6) + 2 * bit(7) + bit(8)]

UnpackBits(d) ==
    [k \in 1 .. 8 * Len(d) |-> (d[CeilDiv(k, 8)] \div Places[1 + ((k - 1) % 8)]) % 2 = 1]

-----------------------------------------------------------------------------
(* Writing.                                                                 *)

\* A slip of Have's constructor: the byte of the id is not counted.
FrameLengthNoId(m) ==
    CASE m.id = KeepAlive              -> 0
      [] m.id = Have                   -> 4
      [] m.id = BitField               -> 1 + CeilDiv(Len(m.payload), 8)
      [] m.id \in {Request, Cancel}    -> 13
      [] m.id = Piece                  -> 9 + Len(m.payload)
      [] OTHER                         -> 1

\* The len each constructor gives to Message.
FrameLength(m) ==
    CASE m.id = KeepAlive              -> 0
      [] m.id = Have                   -> 5
      [] m.id = BitField               -> 1 + Len(m.payload) \div 8
                                         + (IF Len(m.payload) % 8 > 0 THEN 1 ELSE 0)
      [] m.id \in {Request, Cancel}    -> 13
      [] m.id = Piece                  -> 9 + Len(m.payload)
      [] OTHER                         -> 1

\* A keep-alive is the only message that is no IdMessage.
Serialize(m) ==
    BigEndian(FrameLength(m))
        \o (IF m.id = KeepAlive THEN <<>> ELSE <<m.id>>)
        \o WordBytes(m.words)
        \o (IF m.id = BitField THEN PackBits(m.payload) ELSE m.payload)

SerializeHandshake(hash) ==
    <<Len(ProtocolName)>> \o ProtocolName \o [i \in 1 .. 8 |-> 0] \o hash \o PeerIdBytes

-----------------------------------------------------------------------------
(* Reading.  Deserializer::get throws when it is asked for more bytes than  *)
(* there are; the operators named Overruns say when.                        *)

Get(d, offset, n) == SubSeq(d, offset + 1, offset + n)

Words(d, n) == [i \in 1 .. n |-> FromBig(Get(d, 5 + 4 * (i - 1), 4))]

\* d is a whole frame, the four bytes of the length included.
FrameOverruns(d) ==
    LET len == FromBig(Get(d, 0, 4)) IN
    CASE d[5] = Have                   -> 9 > Len(d)
      [] d[5] = BitField               -> 5 + CeilDiv((len - 1) * 8, 8) > Len(d)
      [] d[5] \in {Request, Cancel}    -> 17 > Len(d)
      [] d[5] = Piece                  -> 13 + (len - 9) > Len(d)
      [] OTHER                         -> FALSE

\* The simple messages are made without looking at the bytes.
Deserialize(d) ==
    LET len == FromBig(Get(d, 0, 4)) IN
    CASE d[5] = Have                   -> Message(Have, Words(d, 1), <<>>)
      [] d[5] = BitField               -> Message(BitField, <<>>, UnpackBits(Get(d, 5, len - 1)))
      [] d[5] \in {Request, Cancel}    -> Message(d[5], Words(d, 3), <<>>)
      [] d[5] = Piece                  -> Message(Piece, Words(d, 2), Get(d, 13, len - 9))
      [] OTHER                         -> Message(d[5], <<>>, <<>>)

HandshakeOverruns(d) == 1 + d[1] + 48 > Len(d)
HandshakeHash(d)     == Get(d, 1 + d[1] + 8, 20)

=============================================================================
