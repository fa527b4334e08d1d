------------------------------ MODULE Transfer ------------------------------
(***************************************************************************)
(* The bytes of one connection, from the remote peer's messages to the     *)
(* file: a stream of frames, the reads of recieve_handshake and            *)
(* recieve_message that cut it up again (peer_connection.cpp), and         *)
(* write_block, which puts the blocks where validate_piece looks for them  *)
(* (torrent.cpp).  The remote is a peer that keeps to the protocol and     *)
(* writes its messages as this program does; it may serve another torrent. *)
(*                                                                         *)
(* async_read completes with exactly the bytes asked for, so a read is one *)
(* step that waits until they are there.  Writes of whole messages reach   *)
(* the stream in order; PeerConnection models how they get there.          *)
(***************************************************************************)
EXTENDS Wire, Layout, FiniteSets

CONSTANTS
    Layouts,      \* the layouts to choose from: [length, pieceLength]
    InfoHash,     \* the 20 bytes of the torrent this program downloads
    OtherHash,    \* those of another torrent
    StalePrefix,  \* values pstrlen may have once its frame is gone
    MaxSent       \* bound: messages the remote sends after the handshake

ASSUME TransferAssumption ==
    /\ Layouts \subseteq Lengths
    /\ \A h \in {InfoHash, OtherHash} : h \in Seq(Byte) /\ Len(h) = 20
    /\ InfoHash # OtherHash
    /\ StalePrefix \subseteq Byte
    /\ MaxSent \in Nat

VARIABLES
    layout,    \* the metainfo file's lengths
    theirHash, \* the torrent the remote serves
    stream,    \* the bytes written by the remote and not yet read
    stage,     \* what is being read, or how reading ended
    prefix,    \* what the first read of the handshake or the frame returned
    sent,      \* history: the messages of the remote, in order
    received,  \* the messages given to message_handler, in order
    file,      \* out_file, a byte for every place
    complete   \* the blocks whose write is through, as <<piece, block>>

vars == <<layout, theirHash, stream, stage, prefix, sent, received, file, complete>>

Stages == {"pstrlen", "handshake", "length", "body", "refused", "thrown", "overrun"}

TypeOK ==
    /\ layout \in Layouts
    /\ theirHash \in {InfoHash, OtherHash}
    /\ stage \in Stages
    /\ \A i \in DOMAIN stream : stream[i] \in Byte
    /\ \A i \in DOMAIN prefix : prefix[i] \in Byte
    /\ Len(sent) <= MaxSent /\ Len(received) <= Len(sent)
    /\ file \in [0 .. layout.length - 1 -> Byte]
    /\ \A b \in complete : b[1] \in PieceSet(layout) /\ b[2] \in BlockSet(layout, b[1])

\* The right contents of the file; no byte of it is the 0 of an empty file.
Source(p) == 1 + (p % 251)

Init ==
    /\ layout \in Layouts
    /\ theirHash \in {InfoHash, OtherHash}
    /\ stream = SerializeHandshake(theirHash)
    /\ stage = "pstrlen" /\ prefix = <<>>
    /\ sent = <<>> /\ received = <<>>
    /\ file = [p \in 0 .. layout.length - 1 |-> 0]
    /\ complete = {}

-----------------------------------------------------------------------------
(* The remote.                                                              *)

\* The pieces that HAVE, REQUEST and CANCEL speak of: the first and the last.
Named(l) == {0, NumPieces(l) - 1}

BitFields(l) ==
    {[i \in 1 .. NumPieces(l) |-> i - 1 \in S] : S \in {{0}, Named(l), PieceSet(l)}}

\* The block of a layout, as REQUEST and CANCEL name it.
BlockWords(l, i, k) == <<i, BlockOffset(k), BlockSize(l, i, k)>>

BlockBytes(l, i, k) ==
    [q \in 1 .. BlockSize(l, i, k) |-> Source(PieceOffset(l, i) + BlockOffset(k) + q - 1)]

Messages(l) ==
    {Message(id, <<>>, <<>>) : id \in {Choke, Unchoke, Interested, NotInterested, KeepAlive}}
    \cup {Message(Have, <<i>>, <<>>) : i \in Named(l)}
    \cup {Message(BitField, <<>>, v) : v \in BitFields(l)}
    \cup (UNION {{Message(id, BlockWords(l, i, k), <<>>) : k \in BlockSet(l, i)} :
                    id \in {Request, Cancel}, i \in Named(l)})
    \cup (UNION {{Message(Piece, <<i, BlockOffset(k)>>, BlockBytes(l, i, k)) :
                    k \in BlockSet(l, i)} : i \in PieceSet(l)})

Sendable == Messages(layout)

Send(m) ==
    /\ Len(sent) < MaxSent
    /\ stream' = stream \o Serialize(m)
    /\ sent' = Append(sent, m)
    /\ UNCHANGED <<layout, theirHash, stage, prefix, received, file, complete>>

-----------------------------------------------------------------------------
(* The reads.  Read(n) is recieve(n, ...): the handler runs with n bytes.   *)

Read(n) ==
    /\ Len(stream) >= n
    /\ stream' = SubSeq(stream, n + 1, Len(stream))

Taken(n) == SubSeq(stream, 1, n)

ReadPstrlen ==
    /\ stage = "pstrlen" /\ Read(1)
    /\ prefix' = Taken(1) /\ stage' = "handshake"
    /\ UNCHANGED <<layout, theirHash, sent, received, file, complete>>

\* A slip of recieve_handshake: the info hash is not compared.
ReadHandshakeUnchecked ==
    /\ stage = "handshake" /\ Read(prefix[1] + 48)
    /\ \E v \in {prefix[1]} \cup StalePrefix :
         LET d == <<v>> \o Taken(prefix[1] + 48) IN
         stage' = IF HandshakeOverruns(d) THEN "thrown" ELSE "length"
    /\ prefix' = <<>>
    /\ UNCHANGED <<layout, theirHash, sent, received, file, complete>>

\* The lambda holds a reference to the pstrlen of a handler that has returned:
\* the byte it puts before the rest of the handshake may be any.
ReadHandshake ==
    /\ stage = "handshake" /\ Read(prefix[1] + 48)
    /\ \E v \in {prefix[1]} \cup StalePrefix :
         LET d == <<v>> \o Taken(prefix[1] + 48) IN
         stage' = IF HandshakeOverruns(d) THEN "thrown"
                  ELSE IF HandshakeHash(d) = InfoHash THEN "length" ELSE "refused"
    /\ prefix' = <<>>
    /\ UNCHANGED <<layout, theirHash, sent, received, file, complete>>

ReadLength ==
    /\ stage = "length" /\ Read(4)
    /\ IF FromBig(Taken(4)) = 0
         THEN UNCHANGED <<stage, prefix>>
         ELSE stage' = "body" /\ prefix' = Taken(4)
    /\ UNCHANGED <<layout, theirHash, sent, received, file, complete>>

\* write_block for a PIECE, up to the completion of its write.
StoreBlock(i, begin, bytes) ==
    LET at == WriteOffset(layout, i, begin) IN
    /\ file' = [p \in DOMAIN file |->
                  IF p \in at .. at + Len(bytes) - 1 THEN bytes[p - at + 1] ELSE file[p]]
    /\ complete' = complete \cup {<<i, BlockAt(begin)>>}

ReadBody ==
    /\ stage = "body" /\ Read(FromBig(prefix))
    /\ LET d == prefix \o Taken(FromBig(prefix))
           m == Deserialize(d)
       IN IF FrameOverruns(d)
            THEN stage' = "overrun" /\ UNCHANGED <<received, file, complete>>
            ELSE /\ stage' = "length"
                 /\ received' = Append(received, m)
                 /\ IF m.id = Piece THEN StoreBlock(m.words[1], m.words[2], m.payload)
                                    ELSE UNCHANGED <<file, complete>>
    /\ prefix' = <<>>
    /\ UNCHANGED <<layout, theirHash, sent>>

Next ==
    \/ \E m \in Sendable : Send(m)
    \/ ReadPstrlen \/ ReadHandshake
    \/ ReadLength \/ ReadBody

Spec == Init /\ [][Next]_vars

-----------------------------------------------------------------------------
(* What message_handler should see of a message: a BITFIELD filled up to    *)
(* whole bytes with pieces nobody has.                                      *)

Padded(v) == [k \in 1 .. 8 * CeilDiv(Len(v), 8) |-> k <= Len(v) /\ v[k]]

Expected(m) == IF m.id = BitField THEN [m EXCEPT !.payload = Padded(m.payload)] ELSE m

\* The messages that are no keep-alive, and the place of each among them.
Kept     == {i \in DOMAIN sent : sent[i].id # KeepAlive}
Place(i) == Cardinality({j \in Kept : j <= i})

\* recieve_message hands over the messages of the remote, in order, each with
\* the index, offset and bytes it was sent with; keep-alives are swallowed and
\* the bits a BITFIELD is filled up with are FALSE, so that on_bitfield looks
\* for no piece beyond the last.
ReceivedAsSent ==
    /\ Len(received) <= Cardinality(Kept)
    /\ \A i \in Kept : Place(i) <= Len(received) => received[Place(i)] = Expected(sent[i])

\* The length each constructor puts into a frame is the number of bytes its
\* serialize writes, and what the reads take: once the stream is empty after an
\* accepted handshake, recieve_message waits for the next length with nothing of
\* the remote's messages left out, and Deserializer::get never throws on a frame.
EndsOnBoundary ==
    /\ stage # "overrun"
    /\ stage \in {"length", "body"} /\ stream = <<>> =>
         stage = "length" /\ Len(received) = Cardinality(Kept)

\* Whatever has become of pstrlen, only a peer of this torrent gets past the
\* handshake and has its messages handled.
OwnTorrentOnly ==
    stage \in {"length", "body"} \/ received # <<>> => theirHash = InfoHash

\* What it rests on: wherever a stale pstrlen makes recieve_handshake look for it, the
\* handshake of a peer of the other torrent does not hold this torrent's info hash.
Unmistakable ==
    \A v \in StalePrefix :
        v < Len(ProtocolName) => Get(SerializeHandshake(OtherHash), v + 9, 20) # InfoHash

\* The bytes validate_piece reads for a piece whose blocks are all written are
\* those of the torrent, and when every piece is written so is the whole file:
\* the offsets of write_block, generate_pieces and Piece's constructor agree.
\* Files that reach beyond the uint32_t of write_block are excepted.
PieceWritten(i) == \A k \in BlockSet(layout, i) : <<i, k>> \in complete

ValidationReadsSource ==
    layout.length <= OffsetModulus =>
        /\ \A i \in PieceSet(layout) : PieceWritten(i) =>
             \A q \in PieceOffset(layout, i) .. PieceOffset(layout, i) + PieceSize(layout, i) - 1 :
                q \in DOMAIN file /\ file[q] = Source(q)
        /\ (\A i \in PieceSet(layout) : PieceWritten(i)) =>
             \A p \in DOMAIN file : file[p] = Source(p)

=============================================================================
