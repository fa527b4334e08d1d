----------------------------- MODULE Download -----------------------------
(***************************************************************************)
(* The download half of Peer (peer.cpp) and the RarestFirstPicker all      *)
(* peers share, on top of Storage.                                         *)
(*                                                                         *)
(* A connection delivers one message at a time: recieve_message is called  *)
(* again only when message_handler has returned.  Handlers of different    *)
(* peers run on NumThreads threads, together with the strand of the        *)
(* storage, and interleave at every access to the blocks' flags, to the    *)
(* availability counters and to the storage.  With one thread every        *)
(* handler is one uninterrupted sequence of steps.                         *)
(*                                                                         *)
(* The remote end of a connection is a peer that keeps to the protocol: it *)
(* may send its bitfield first and a HAVE for any piece later, may choke   *)
(* and unchoke, answers requests in order while it does not choke, and     *)
(* discards them while it does.  Its connection may break: the read that   *)
(* fails, and every write, then just return, and nobody is told.           *)
(***************************************************************************)
EXTENDS Storage, SequencesExt

CONSTANTS
    Peers,
    BlockList,      \* BlockList[i]: Piece::blocks of piece i, in order
    PipelineSize,   \* Peer::block_pipeline_size
    NumThreads,     \* Manager::num_threads
    Modulus,        \* 2^32, the range of blocks_in_queue
    MaxChokes,      \* bound on the CHOKEs of a peer
    MaxBreaks,      \* bound on the connections that break
    MaxDuplicates   \* bound on the superfluous PIECEs of a piece

\* The pieces are numbered as in the metainfo file, and there is one at least.
ASSUME PiecesAssumption == /\ IsFiniteSet(Pieces) /\ Pieces # {}
                           /\ Pieces = 0 .. Cardinality(Pieces) - 1
                           /\ PieceOf \in [Blocks -> Pieces]
                           /\ IsFiniteSet(Peers)
ASSUME BlockListAssumption ==
    \A i \in Pieces : /\ BlockList[i] \in Seq(BlocksOf(i))
                      /\ ToSet(BlockList[i]) = BlocksOf(i)
                      /\ Len(BlockList[i]) = Cardinality(BlocksOf(i))
ASSUME BoundsAssumption == /\ PipelineSize \in Nat \ {0}
                           /\ NumThreads \in Nat \ {0}
                           /\ Modulus \in Nat \ {0}
                           /\ {MaxChokes, MaxBreaks, MaxDuplicates} \subseteq Nat

MaxBlocks == CHOOSE n \in {Len(BlockList[i]) : i \in Pieces} :
                 \A i \in Pieces : Len(BlockList[i]) <= n

\* The requests request_blocks can have under way do not exhaust an unsigned counter:
\* a piece has far less than 2^32 blocks of 16 KiB.
ASSUME CounterAssumption == PipelineSize + MaxBlocks <= Modulus

VARIABLES
    requested_,       \* Block::requested_
    piece_present,    \* Peer::piece_present, the pieces that are true
    choked,           \* Peer::download.choked
    interested,       \* Peer::download.interested
    blocks_in_queue,  \* Peer::blocks_in_queue
    pc,               \* where the handler of the peer is, "idle" if it is not running
    todo,             \* pieces whose availability the handler has still to increment
    seen,             \* the availability it has read
    attempt,          \* the variable of request_blocks
    scan,             \* the blocks the handler has still to look at
    availability,     \* Piece::availability
    pieces,           \* PiecePicker::pieces, the vector that is sorted
    buckets,          \* availability_buckets, one after the other
    dirty,            \* RarestFirstPicker::dirty
    inbox,            \* messages on their way from the remote
    outbox,           \* requests on their way to the remote or waiting there
    remote_choking,   \* the remote chokes us
    offered,          \* the pieces the remote has told us it has
    greeted,          \* the remote has sent its first message
    chokes,           \* CHOKEs sent
    broken,           \* connections that are broken
    dropped,          \* history: how many requests were discarded by a choking remote
                      \* or lost with its connection, and for which blocks
    unchoked          \* history: the remote has unchoked us at least once

peerVars   == <<piece_present, choked, interested, blocks_in_queue>>
handlerVars == <<pc, todo, seen, attempt, scan>>
pickerVars == <<availability, pieces, buckets, dirty>>
remoteVars == <<remote_choking, offered, greeted, chokes, unchoked, broken>>
vars == <<storageVars, requested_, peerVars, handlerVars, pickerVars,
          inbox, outbox, remoteVars, dropped>>

\* The orders std::sort and random_shuffle can leave the pieces in.
SortedBy(a) == {s \in [1 .. Cardinality(Pieces) -> Pieces] :
                   /\ IsInjective(s)
                   /\ \A k, l \in DOMAIN s : k < l => a[s[k]] <= a[s[l]]}

Init ==
    /\ StorageInit
    /\ requested_ = [b \in Blocks |-> FALSE]
    /\ piece_present = [p \in Peers |-> {}]
    /\ choked = [p \in Peers |-> TRUE]
    /\ interested = [p \in Peers |-> FALSE]
    /\ blocks_in_queue = [p \in Peers |-> 0]
    /\ pc = [p \in Peers |-> "idle"]
    /\ todo = [p \in Peers |-> {}]
    /\ seen = [p \in Peers |-> 0]
    /\ attempt = [p \in Peers |-> 0]
    /\ scan = [p \in Peers |-> <<>>]
    /\ availability = [i \in Pieces |-> 0]
    /\ pieces = [k \in 1 .. Cardinality(Pieces) |-> k - 1]
    /\ buckets = <<>>
    /\ dirty = TRUE
    /\ inbox = [p \in Peers |-> <<>>]
    /\ outbox = [p \in Peers |-> <<>>]
    /\ remote_choking = [p \in Peers |-> TRUE]
    /\ offered = [p \in Peers |-> {}]
    /\ greeted = [p \in Peers |-> FALSE]
    /\ chokes = [p \in Peers |-> 0]
    /\ broken = {}
    /\ dropped = [p \in Peers |-> [number |-> 0, blocks |-> {}]]
    /\ unchoked = [p \in Peers |-> FALSE]

Running == {p \in Peers : pc[p] # "idle"}
FreeThread == ~terminated /\ Cardinality(Running) < NumThreads

\* The handler of p goes on at step s, with blocks to look at.
Goto(p, s, blocks) ==
    /\ pc' = [pc EXCEPT ![p] = s]
    /\ scan' = [scan EXCEPT ![p] = blocks]

\* request_blocks() starts with attempt = 0.
StartRequests(p) ==
    /\ Goto(p, "pick", <<>>)
    /\ attempt' = [attempt EXCEPT ![p] = 0]
    /\ UNCHANGED <<todo, seen>>

Return(p) == Goto(p, "idle", <<>>) /\ UNCHANGED <<todo, seen, attempt>>

-----------------------------------------------------------------------------
(***************************************************************************)
(* Peer::message_handler.                                                  *)
(***************************************************************************)
Receive(p, type) ==
    /\ FreeThread
    /\ pc[p] = "idle"
    /\ inbox[p] # <<>>
    /\ Head(inbox[p]).type = type
    /\ inbox' = [inbox EXCEPT ![p] = Tail(@)]

\* case CHOKE: the requests under way are neither cancelled nor forgotten.
ReceiveChoke(p) ==
    /\ Receive(p, "choke")
    /\ choked' = [choked EXCEPT ![p] = TRUE]
    /\ UNCHANGED <<storageVars, requested_, piece_present, interested, blocks_in_queue,
                   handlerVars, pickerVars, outbox, remoteVars, dropped>>

\* case UNCHOKE
ReceiveUnchoke(p) ==
    /\ Receive(p, "unchoke")
    /\ choked' = [choked EXCEPT ![p] = FALSE]
    /\ StartRequests(p)
    /\ UNCHANGED <<storageVars, requested_, piece_present, interested, blocks_in_queue,
                   pickerVars, outbox, remoteVars, dropped>>

\* Mutant of ReceiveHave: on_have does not count a peer that was not empty.
ReceiveHaveUncounted(p) ==
    /\ Receive(p, "have")
    /\ LET i == Head(inbox[p]).piece IN
       /\ piece_present' = [piece_present EXCEPT ![p] = @ \cup {i}]
       /\ todo' = [todo EXCEPT ![p] = IF piece_present[p] = {} THEN {i} ELSE {}]
    /\ Goto(p, "have", <<>>)
    /\ UNCHANGED <<storageVars, requested_, choked, interested, blocks_in_queue,
                   seen, attempt, pickerVars, outbox, remoteVars, dropped>>

\* case HAVE: piece_present first, then on_have.
ReceiveHave(p) ==
    /\ Receive(p, "have")
    /\ LET i == Head(inbox[p]).piece IN
       /\ piece_present' = [piece_present EXCEPT ![p] = @ \cup {i}]
       /\ todo' = [todo EXCEPT ![p] = {i}]
    /\ Goto(p, "have", <<>>)
    /\ UNCHANGED <<storageVars, requested_, choked, interested, blocks_in_queue,
                   seen, attempt, pickerVars, outbox, remoteVars, dropped>>

\* No piece is ever verified in PiecePicker::piece_bitfield: the pieces are new
\* when it is built, and piece_verified has no caller.
HaveBitfield == {}

\* refresh_download_interest
Interesting(present) == present \ HaveBitfield # {}

\* case BITFIELD: piece_present and the interest, then on_bitfield.
ReceiveBitfield(p) ==
    /\ Receive(p, "bitfield")
    /\ LET S == Head(inbox[p]).pieces IN
       /\ piece_present' = [piece_present EXCEPT ![p] = @ \cup S]
       /\ todo' = [todo EXCEPT ![p] = S]
       /\ interested' = [interested EXCEPT ![p] = Interesting(piece_present[p] \cup S)]
    /\ Goto(p, "bitfield", <<>>)
    /\ UNCHANGED <<storageVars, requested_, choked, blocks_in_queue,
                   seen, attempt, pickerVars, outbox, remoteVars, dropped>>

\* on_bitfield goes over the pieces in their order.
Counts(p) == CHOOSE i \in todo[p] : \A j \in todo[p] : i <= j

\* increment_piece_availability, unsynchronised: read ...
ReadAvailability(p) ==
    /\ ~terminated
    /\ pc[p] \in {"have", "bitfield"}
    /\ todo[p] # {}
    /\ seen' = [seen EXCEPT ![p] = availability[Counts(p)]]
    /\ pc' = [pc EXCEPT ![p] = IF @ = "have" THEN "have+" ELSE "bitfield+"]
    /\ UNCHANGED <<storageVars, requested_, peerVars, todo, attempt, scan, pickerVars,
                   inbox, outbox, remoteVars, dropped>>

\* ... and write.
WriteAvailability(p) ==
    /\ ~terminated
    /\ pc[p] \in {"have+", "bitfield+"}
    /\ availability' = [availability EXCEPT ![Counts(p)] = seen[p] + 1]
    /\ todo' = [todo EXCEPT ![p] = @ \ {Counts(p)}]
    /\ seen' = [seen EXCEPT ![p] = 0]
    /\ pc' = [pc EXCEPT ![p] = IF @ = "have+" THEN "have" ELSE "bitfield"]
    /\ UNCHANGED <<storageVars, requested_, peerVars, attempt, scan, pieces, buckets, dirty,
                   inbox, outbox, remoteVars, dropped>>

\* End of on_bitfield and of the case.
FinishBitfield(p) ==
    /\ ~terminated
    /\ pc[p] = "bitfield"
    /\ todo[p] = {}
    /\ dirty' = TRUE
    /\ Return(p)
    /\ UNCHANGED <<storageVars, requested_, peerVars, availability, pieces, buckets,
                   inbox, outbox, remoteVars, dropped>>

\* Mutant of FinishHave: request_blocks whether choked or not.
FinishHaveEager(p) ==
    /\ ~terminated
    /\ pc[p] = "have"
    /\ todo[p] = {}
    /\ dirty' = TRUE
    /\ interested' = [interested EXCEPT ![p] = Interesting(piece_present[p])]
    /\ StartRequests(p)
    /\ UNCHANGED <<storageVars, requested_, piece_present, choked, blocks_in_queue,
                   availability, pieces, buckets, inbox, outbox, remoteVars, dropped>>

\* Mutant of FinishHave: an interest that is new sends INTERESTED and no more.
FinishHaveQuietly(p) ==
    /\ ~terminated
    /\ pc[p] = "have"
    /\ todo[p] = {}
    /\ dirty' = TRUE
    /\ interested' = [interested EXCEPT ![p] = Interesting(piece_present[p])]
    /\ IF interested[p] /\ ~choked[p] THEN StartRequests(p) ELSE Return(p)
    /\ UNCHANGED <<storageVars, requested_, piece_present, choked, blocks_in_queue,
                   availability, pieces, buckets, inbox, outbox, remoteVars, dropped>>

\* End of on_have, then refresh_download_interest and perhaps request_blocks.
FinishHave(p) ==
    /\ ~terminated
    /\ pc[p] = "have"
    /\ todo[p] = {}
    /\ dirty' = TRUE
    /\ interested' = [interested EXCEPT ![p] = Interesting(piece_present[p])]
    /\ IF interested'[p] /\ ~choked[p] THEN StartRequests(p) ELSE Return(p)
    /\ UNCHANGED <<storageVars, requested_, piece_present, choked, blocks_in_queue,
                   availability, pieces, buckets, inbox, outbox, remoteVars, dropped>>

Position(b) == CHOOSE k \in DOMAIN BlockList[PieceOf[b]] : BlockList[PieceOf[b]][k] = b

\* Mutant of ReceivePiece: a block that is complete already is not counted off.
ReceivePieceOnce(p) ==
    /\ Receive(p, "piece")
    /\ LET b == Head(inbox[p]).block
           there == BlockList[pieces[PieceOf[b] + 1]]
       IN  /\ Position(b) <= Len(there)
           /\ requested_' = [requested_ EXCEPT ![there[Position(b)]] = FALSE]
           /\ blocks_in_queue' = [blocks_in_queue EXCEPT ![p] =
                                     IF complete_[b] THEN @ ELSE (@ - 1) % Modulus]
           /\ Goto(p, "store", <<b>>)
    /\ UNCHANGED <<storageVars, piece_present, choked, interested, todo, seen, attempt,
                   pickerVars, outbox, remoteVars, dropped>>

\* Mutant of ReceivePiece: set_requested(false) is forgotten.
ReceivePieceKept(p) ==
    /\ Receive(p, "piece")
    /\ blocks_in_queue' = [blocks_in_queue EXCEPT ![p] = (@ - 1) % Modulus]
    /\ Goto(p, "store", <<Head(inbox[p]).block>>)
    /\ UNCHANGED <<storageVars, requested_, piece_present, choked, interested, todo, seen,
                   attempt, pickerVars, outbox, remoteVars, dropped>>

\* case PIECE: get_piece indexes the vector the picker sorts, so the flag that is
\* cleared belongs to the piece that stands there now.  The offset may lie
\* outside of a shorter piece: the access to its blocks is then out of bounds.
ReceivePiece(p) ==
    /\ Receive(p, "piece")
    /\ LET b == Head(inbox[p]).block
           there == BlockList[pieces[PieceOf[b] + 1]]
       IN  IF Position(b) <= Len(there)
           THEN /\ requested_' = [requested_ EXCEPT ![there[Position(b)]] = FALSE]
                /\ blocks_in_queue' = [blocks_in_queue EXCEPT ![p] = (@ - 1) % Modulus]
                /\ Goto(p, "store", <<b>>)
                /\ UNCHANGED storageVars
           ELSE /\ terminated' = TRUE
                /\ blocks_in_queue' = [blocks_in_queue EXCEPT ![p] = (@ - 1) % Modulus]
                /\ UNCHANGED <<requested_, pc, scan, complete_, complete_blocks,
                               pending, validating>>
    /\ UNCHANGED <<piece_present, choked, interested, todo, seen, attempt, pickerVars,
                   outbox, remoteVars, dropped>>

\* block_recieved: Torrent::write_block, then request_blocks, choked or not.
StorePiece(p) ==
    /\ pc[p] = "store"
    /\ Write(Head(scan[p]))
    /\ StartRequests(p)
    /\ UNCHANGED <<requested_, peerVars, pickerVars, inbox, outbox, remoteVars, dropped>>

-----------------------------------------------------------------------------
(***************************************************************************)
(* Peer::request_blocks and RarestFirstPicker::next.                       *)
(***************************************************************************)

\* next() does not skip piece i.
Candidate(p, i) ==
    /\ availability[i] # 0
    /\ ~PieceComplete(i, complete_blocks[i])
    /\ i \in piece_present[p]

\* Where next() finds a piece after it has passed over "attempt" others: at one
\* place or, for nullptr, at none.
Found(p, order) ==
    {k \in DOMAIN order :
        /\ Candidate(p, order[k])
        /\ Cardinality({j \in 1 .. k - 1 : Candidate(p, order[j])}) = attempt[p]}

\* Mutant of HasRoom: off by one.
HasRoomForOneMore(p) == blocks_in_queue[p] <= PipelineSize

\* while(blocks_in_queue < block_pipeline_size)
HasRoom(p) == blocks_in_queue[p] < PipelineSize

\* next(): sort_pieces if dirty, then the candidate found or nullptr.
Pick(p) ==
    /\ ~terminated
    /\ pc[p] = "pick"
    /\ IF HasRoom(p)
       THEN /\ IF dirty
               THEN pieces' \in SortedBy(availability) /\ buckets' \in SortedBy(availability)
               ELSE UNCHANGED <<pieces, buckets>>
            /\ dirty' = FALSE
            /\ IF Found(p, buckets') # {}
               THEN /\ \E k \in Found(p, buckets') : Goto(p, "scan", BlockList[buckets'[k]])
                    /\ UNCHANGED <<todo, seen, attempt>>
               ELSE Return(p)
       ELSE Return(p) /\ UNCHANGED <<pieces, buckets, dirty>>
    /\ UNCHANGED <<storageVars, requested_, peerVars, availability,
                   inbox, outbox, remoteVars, dropped>>

\* for(auto block : piece->blocks) if(!requested() && !complete())
Scan(p) ==
    /\ ~terminated
    /\ pc[p] = "scan"
    /\ scan[p] # <<>>
    /\ IF ~requested_[Head(scan[p])] /\ ~complete_[Head(scan[p])]
       THEN pc' = [pc EXCEPT ![p] = "claim"] /\ UNCHANGED scan
       ELSE scan' = [scan EXCEPT ![p] = Tail(@)] /\ UNCHANGED pc
    /\ UNCHANGED <<storageVars, requested_, peerVars, todo, seen, attempt, pickerVars,
                   inbox, outbox, remoteVars, dropped>>

\* Mutant of Claim: set_requested(true) is forgotten.
ClaimSilently(p) ==
    /\ ~terminated
    /\ pc[p] = "claim"
    /\ outbox' = [outbox EXCEPT ![p] = Append(@, Head(scan[p]))]
    /\ blocks_in_queue' = [blocks_in_queue EXCEPT ![p] = (@ + 1) % Modulus]
    /\ scan' = [scan EXCEPT ![p] = Tail(@)]
    /\ pc' = [pc EXCEPT ![p] = "scan"]
    /\ UNCHANGED <<storageVars, requested_, piece_present, choked, interested, todo, seen,
                   attempt, pickerVars, inbox, remoteVars, dropped>>

\* if(try_lock()): nothing is tested again under the lock.
Claim(p) ==
    /\ ~terminated
    /\ pc[p] = "claim"
    /\ LET b == Head(scan[p]) IN
       /\ requested_' = [requested_ EXCEPT ![b] = TRUE]
       /\ outbox' = [outbox EXCEPT ![p] = Append(@, b)]
    /\ blocks_in_queue' = [blocks_in_queue EXCEPT ![p] = (@ + 1) % Modulus]
    /\ scan' = [scan EXCEPT ![p] = Tail(@)]
    /\ pc' = [pc EXCEPT ![p] = "scan"]
    /\ UNCHANGED <<storageVars, piece_present, choked, interested, todo, seen, attempt,
                   pickerVars, inbox, remoteVars, dropped>>

\* What else may be holding the lock of b when p tries it.
MayBeLocked(p, b) ==
    \/ \E q \in Peers \ {p} : pc[q] \in {"claim", "store"} /\ Head(scan[q]) = b
    \/ NumThreads > 1 /\ (pending[b] > 0 \/ validating[PieceOf[b]] > 0)

\* try_lock fails: another handler or the strand is holding the block.
SkipLocked(p) ==
    /\ ~terminated
    /\ pc[p] = "claim"
    /\ MayBeLocked(p, Head(scan[p]))
    /\ scan' = [scan EXCEPT ![p] = Tail(@)]
    /\ pc' = [pc EXCEPT ![p] = "scan"]
    /\ UNCHANGED <<storageVars, requested_, peerVars, todo, seen, attempt, pickerVars,
                   inbox, outbox, remoteVars, dropped>>

\* Mutant of NextAttempt: attempt is not incremented.
SameAttempt(p) ==
    /\ ~terminated
    /\ pc[p] = "scan"
    /\ scan[p] = <<>>
    /\ Goto(p, "pick", <<>>)
    /\ UNCHANGED <<storageVars, requested_, peerVars, todo, seen, attempt, pickerVars,
                   inbox, outbox, remoteVars, dropped>>

\* attempt++
NextAttempt(p) ==
    /\ ~terminated
    /\ pc[p] = "scan"
    /\ scan[p] = <<>>
    /\ Goto(p, "pick", <<>>)
    /\ attempt' = [attempt EXCEPT ![p] = @ + 1]
    /\ UNCHANGED <<storageVars, requested_, peerVars, todo, seen, pickerVars,
                   inbox, outbox, remoteVars, dropped>>

\* Two threads inside the picker while its vectors are rebuilt: a data race on
\* their storage, of which a crash is the outcome that matters.
PickerRace ==
    /\ ~terminated
    /\ dirty
    /\ \E p, q \in Peers : p # q /\ pc[p] = "pick" /\ pc[q] \in {"pick", "have", "bitfield"}
    /\ terminated' = TRUE
    /\ UNCHANGED <<complete_, complete_blocks, pending, validating, requested_, peerVars,
                   handlerVars, pickerVars, inbox, outbox, remoteVars, dropped>>

-----------------------------------------------------------------------------
(***************************************************************************)
(* The strand of the storage.                                              *)
(***************************************************************************)
BlockWritten(b) ==
    /\ FreeThread
    /\ Written(b)
    /\ UNCHANGED <<requested_, peerVars, handlerVars, pickerVars, inbox, outbox,
                   remoteVars, dropped>>

\* PeerHandler::piece_complete: send_have and refresh_download_interest of all.
PieceVerified(i) ==
    /\ FreeThread
    /\ Accept(i)
    /\ interested' = [p \in Peers |-> Interesting(piece_present[p])]
    /\ UNCHANGED <<requested_, piece_present, choked, blocks_in_queue, handlerVars,
                   pickerVars, inbox, outbox, remoteVars, dropped>>

\* Piece::reset: requested_ stays as it is, and nobody is told to request again.
PieceFailed(i) ==
    /\ FreeThread
    /\ Reset(i)
    /\ UNCHANGED <<requested_, peerVars, handlerVars, pickerVars, inbox, outbox,
                   remoteVars, dropped>>

StorageFails ==
    /\ FreeThread
    /\ WriteError
    /\ UNCHANGED <<requested_, peerVars, handlerVars, pickerVars, inbox, outbox,
                   remoteVars, dropped>>

-----------------------------------------------------------------------------
(***************************************************************************)
(* The remote peer.                                                        *)
(***************************************************************************)
Send(p, m) ==
    /\ ~terminated /\ p \notin broken
    /\ inbox' = [inbox EXCEPT ![p] = Append(@, m)]
    /\ greeted' = [greeted EXCEPT ![p] = TRUE]

ourVars == <<storageVars, requested_, peerVars, handlerVars, pickerVars>>

RemoteBitfield(p, S) ==
    /\ ~greeted[p]
    /\ Send(p, [type |-> "bitfield", pieces |-> S])
    /\ offered' = [offered EXCEPT ![p] = S]
    /\ UNCHANGED <<ourVars, outbox, remote_choking, chokes, unchoked, broken, dropped>>

RemoteHave(p, i) ==
    /\ i \notin offered[p]
    /\ Send(p, [type |-> "have", piece |-> i])
    /\ offered' = [offered EXCEPT ![p] = @ \cup {i}]
    /\ UNCHANGED <<ourVars, outbox, remote_choking, chokes, unchoked, broken, dropped>>

RemoteUnchoke(p) ==
    /\ remote_choking[p]
    /\ Send(p, [type |-> "unchoke"])
    /\ remote_choking' = [remote_choking EXCEPT ![p] = FALSE]
    /\ unchoked' = [unchoked EXCEPT ![p] = TRUE]
    /\ UNCHANGED <<ourVars, outbox, offered, chokes, broken, dropped>>

RemoteChoke(p) ==
    /\ ~remote_choking[p]
    /\ chokes[p] < MaxChokes
    /\ Send(p, [type |-> "choke"])
    /\ remote_choking' = [remote_choking EXCEPT ![p] = TRUE]
    /\ chokes' = [chokes EXCEPT ![p] = @ + 1]
    /\ UNCHANGED <<ourVars, outbox, offered, unchoked, broken, dropped>>

IsPiece(m) == m.type = "piece"

\* The answers on their way from the remote, and those that carry block b.
Answers(p) == {k \in DOMAIN inbox[p] : IsPiece(inbox[p][k])}
AnswersWith(p, b) == {k \in Answers(p) : inbox[p][k].block = b}

\* Writes of piece i that are counted, under way or on the wire.
Calls(i) ==
    complete_blocks[i] + MapThenSumSet(LAMBDA b : pending[b], BlocksOf(i))
      + Cardinality({p \in Peers : pc[p] = "store" /\ Head(scan[p]) \in BlocksOf(i)})
      + MapThenSumSet(LAMBDA p : Cardinality(UNION {AnswersWith(p, b) : b \in BlocksOf(i)}),
                      Peers)

RemoteAnswer(p) ==
    /\ outbox[p] # <<>>
    /\ ~remote_choking[p]
    /\ LET b == Head(outbox[p]) IN
       /\ Calls(PieceOf[b]) < Cardinality(BlocksOf(PieceOf[b])) + MaxDuplicates
       /\ Send(p, [type |-> "piece", block |-> b])
    /\ outbox' = [outbox EXCEPT ![p] = Tail(@)]
    /\ UNCHANGED <<ourVars, remote_choking, offered, chokes, unchoked, broken, dropped>>

\* n requests for these blocks will not be answered.
Drop(p, n, blocks) ==
    dropped' = [dropped EXCEPT ![p] = [number |-> @.number + n, blocks |-> @.blocks \cup blocks]]

\* A request that reaches a choking peer is discarded, one on a broken connection
\* is lost.
RemoteDrop(p) ==
    /\ ~terminated
    /\ outbox[p] # <<>>
    /\ remote_choking[p] \/ p \in broken
    /\ outbox' = [outbox EXCEPT ![p] = Tail(@)]
    /\ Drop(p, 1, {Head(outbox[p])})
    /\ UNCHANGED <<ourVars, inbox, remoteVars>>

\* What was sent and not read is lost with the connection.
Break(p) ==
    /\ ~terminated
    /\ p \notin broken
    /\ Cardinality(broken) < MaxBreaks
    /\ broken' = broken \cup {p}
    /\ inbox' = [inbox EXCEPT ![p] = <<>>]
    /\ Drop(p, Cardinality(Answers(p)), {inbox[p][k].block : k \in Answers(p)})
    /\ UNCHANGED <<ourVars, outbox, remote_choking, offered, greeted, chokes, unchoked>>

-----------------------------------------------------------------------------
Handler(p) ==
    \/ ReceiveChoke(p) \/ ReceiveUnchoke(p) \/ ReceiveHave(p)
    \/ ReceiveBitfield(p) \/ ReceivePiece(p)
HandlerStep(p) ==
    \/ ReadAvailability(p) \/ WriteAvailability(p) \/ FinishBitfield(p) \/ FinishHave(p)
    \/ StorePiece(p) \/ Pick(p) \/ Scan(p) \/ Claim(p) \/ SkipLocked(p) \/ NextAttempt(p)
Remote(p) ==
    \/ \E S \in SUBSET Pieces : RemoteBitfield(p, S)
    \/ \E i \in Pieces : RemoteHave(p, i)
    \/ RemoteUnchoke(p) \/ RemoteChoke(p) \/ RemoteAnswer(p) \/ RemoteDrop(p)
    \/ Break(p)
Strand ==
    \/ \E b \in Blocks : BlockWritten(b)
    \/ \E i \in Pieces : PieceVerified(i) \/ PieceFailed(i)
    \/ StorageFails

Next == \/ \E p \in Peers : Handler(p) \/ HandlerStep(p) \/ Remote(p)
        \/ PickerRace
        \/ Strand

\* A running handler goes on.
Spec == Init /\ [][Next]_vars
FairSpec == Spec /\ \A p \in Peers : WF_vars(HandlerStep(p))

-----------------------------------------------------------------------------
(***************************************************************************)
(* Properties.                                                             *)
(***************************************************************************)
\* Types, and the two bounds request_blocks keeps: it fills the pipeline by whole
\* pieces and overshoots block_pipeline_size by less than the blocks of one piece,
\* and tries no more pieces than there are whatever others do to the picker.
TypeOK ==
    /\ requested_ \in [Blocks -> BOOLEAN]
    /\ piece_present \in [Peers -> SUBSET Pieces]
    /\ choked \in [Peers -> BOOLEAN] /\ interested \in [Peers -> BOOLEAN]
    /\ blocks_in_queue \in [Peers -> 0 .. PipelineSize + MaxBlocks - 1]
    /\ attempt \in [Peers -> 0 .. Cardinality(Pieces)]
    /\ availability \in [Pieces -> 0 .. Cardinality(Peers)]
    /\ outbox \in [Peers -> Seq(Blocks)]

\* blocks_in_queue counts exactly the requests that are on the wire, being
\* answered, or were discarded or lost: a PIECE is never counted
\* twice and the unsigned counter does not wrap below zero.
PipelineAccount ==
    \A p \in Peers :
        blocks_in_queue[p] = Len(outbox[p]) + Cardinality(Answers(p)) + dropped[p].number

\* A REQUEST goes out only to a peer that has offered the piece, was told of our
\* interest and has unchoked us before, although UNCHOKE, HAVE, PIECE and BITFIELD
\* come in any order: another one would be discarded and never repeated.
RequestsWelcome ==
    \A p \in Peers :
        /\ \A k \in DOMAIN outbox[p] : PieceOf[outbox[p][k]] \in offered[p] /\ interested[p]
        /\ blocks_in_queue[p] > 0 => unchoked[p]

\* A piece some peer is known to have is never skipped by next() as unavailable,
\* whatever increments of its availability are lost to races.
AvailabilityKnown ==
    \A p \in Peers : \A i \in piece_present[p] :
        \/ availability[i] > 0
        \/ pc[p] \in {"have", "have+", "bitfield", "bitfield+"} /\ i \in todo[p]

\* The requests for block b on their way to p, and the requests for it and its
\* answers that are on the wire, over all peers.
RequestsFor(p, b) == {k \in DOMAIN outbox[p] : outbox[p][k] = b}
Outstanding(b) ==
    UNION {{<<p, "asked", k>> : k \in RequestsFor(p, b)}
             \cup {<<p, "answered", k>> : k \in AnswersWith(p, b)} : p \in Peers}

\* The vector the picker sorts still stands in the order of the indexes, and
\* get_piece returns the piece it is asked for; so it is if there is one piece.
InOrder == \A i \in Pieces : pieces[i + 1] = i

\* On one thread, and while the pieces stand in order, requested_ keeps two peers
\* from fetching the same block at the same time.
FetchedOnce == \A b \in Blocks : Cardinality(Outstanding(b)) <= 1

\* While the pieces stand in order, a block marked requested is being fetched from
\* some peer, unless a choking remote has discarded the request or a broken
\* connection has lost it: only then does the mark keep the other peers from the
\* block for good.
RequestedIsAsked ==
    \A b \in Blocks : requested_[b] =>
        Outstanding(b) # {} \/ \E p \in Peers : b \in dropped[p].blocks

\* p, which has block b, does not choke us and has room in its pipeline, will not
\* ask for it before another message arrives from it, although the piece is not
\* counted full.
Forgotten(p, b) ==
    /\ ~terminated /\ p \notin broken /\ pc[p] = "idle"
    /\ inbox[p] = <<>> /\ ~choked[p] /\ HasRoom(p) /\ PieceOf[b] \in piece_present[p]
    /\ ~requested_[b] /\ ~complete_[b] /\ pending[b] = 0
    /\ complete_blocks[PieceOf[b]] < Cardinality(BlocksOf(PieceOf[b]))
    /\ \A q \in Peers : pc[q] = "store" => Head(scan[q]) # b

\* On one thread, and while the pieces stand in order, a free block is forgotten by
\* the failure of a validation and by nothing else: UNCHOKE, HAVE and PIECE make a peer look for blocks, Piece::reset
\* does not.
NothingForgotten ==
    [][\A p \in Peers, b \in Blocks :
          Forgotten(p, b)' => Forgotten(p, b) \/ complete_blocks'[PieceOf[b]] < complete_blocks[PieceOf[b]]]_vars

\* request_blocks terminates: every handler returns to its connection, which then
\* receives the next message.
HandlerReturns == \A p \in Peers : pc[p] # "idle" ~> (pc[p] = "idle" \/ terminated)

=============================================================================
