# A verification project for ftorrent

ftorrent is a BitTorrent client (a leecher) in C++20 on top of Boost.Asio. This
directory holds TLA+ modules that model its core, the TLC configurations that
check them on small instances, and proofs checked by TLAPS. File names such as
`torrent.cpp` refer to `src/service/src/` and headers to
`src/service/include/service/`.

## 1. The system

`client/main.cpp` builds one `Manager`, which owns everything else and runs one
`io_context` on `nthreads` threads. There is no other thread and no lock except
`Block::mut` and `Torrent::read_mutex`: every other piece of shared state is
protected only by strands, where the code uses them, or not at all.

| Component | State | Operations | Used by |
|---|---|---|---|
| `Torrent`, `Piece`, `Block` (storage) | `complete_`, `requested_`, `write_buf` per block; `complete_blocks`, `validation_buf` per piece; `validated`; `read_buffers`; the output file | `write_block`, `block_written`, `validate_piece`, `reset`, `read_block` | `Peer` (writes), `Manager` (upload reads) |
| `Peer`, download | `pieces_`, `am_choked`, `am_interested`, `blocks_in_queue`, `choked`/`interested` | one branch of `message_handler` per message, `request_blocks` | `PeerConnection` (messages), `PeerHandler` |
| `Peer`, upload | `upload.choked` | the REQUEST branch, `send_block`, `send_have`, `choke_upload`, `unchoke_upload` | `Manager`, `PeerHandler`, the choker |
| `RarestFirstPicker` | the sorted and shuffled `pieces` vector, availability, `dirty` | `next`, `on_have`, `on_bitfield`, `sort_pieces` | every `Peer` |
| `PeerConnection` | socket, `handshake_state`, `pending_send_msgs`, keep-alive timer | `start`, `send`, `recieve`, `recieve_handshake`, `recieve_message`, `handshake_complete` | `Peer` |
| `PeerHandler` | the list of peers, the acceptor | `add_peer`, `accept_peer`, `remove_peer`, `piece_complete` broadcast | `Manager`, `UdpTracker` |
| `LeechChoker`, `RateMeasure` | peers, active set, timers; transfer counters | periodic choke/unchoke, optimistic unchoke | `Manager` |
| `UdpTracker` | request queue, current request, retry timer, `connection_id`, one request and one response buffer | `connect`, `announce`, receive handler, retry | `Manager` |
| `serialization`, `messages`, the tracker's datagrams | none | wire formats | `PeerConnection`, `UdpTracker` |
| `bencode.h`, `Metainfo` | locals of `basic_decode`; then the metainfo | `decode`, `encode`, the constructor | `main`, `Manager` |
| `Piece` constructor, `generate_pieces` | none after construction | layout of pieces and blocks | `Manager` |
| `digestpp`, `sha1.h` | a provider's chaining value, buffer and counters | `absorb`, `digest`, `squeeze`, `reset`, the parameters | `Torrent` (pieces), `Metainfo` (info hash) |

Interactions. Accepted or connected sockets become `PeerConnection`s. Once both
handshakes are through, `Peer::message_handler` runs for each message, on
whatever thread completed the receive. PIECE messages reach
`Torrent::write_block`, whose file I/O completes on the strand of the storage;
a full piece is read back and hashed there; a verified piece is announced
through `Manager` and `PeerHandler` as a HAVE to every peer. The choker runs
from a timer, the tracker from a UDP socket.

The hard behaviours are the interleavings of peers' handlers with each other
and with completion handlers, duplicated and late blocks, failing I/O, the
retransmission of tracker requests over UDP, and callbacks of two halves of a
handshake. `PROJECT.json` lists each hazard at its line.

What makes each component correct:

* storage: a piece is validated exactly once per fill, verified pieces stay
  verified and right on disk, and no piece gets stuck between full and verified;
* peer and picker: requests go out only for blocks the peer has and while it
  does not choke us, the pipeline counter matches what is outstanding, and
  different peers fetch different blocks;
* connection: the handshake completes exactly once and no message is lost or
  sent before it;
* choker: at most four peers are unchoked, and each selected peer gets unchoked;
* tracker: there is always a request queued or a timer armed, replies are
  matched to requests, and a fair-lossy network cannot stop the announces;
* upload: the buffer of a read lives as long as the read, every peer hears of
  every piece once, every REQUEST is answered;
* wire formats and layout: encode/decode agree, blocks tile the file;
* startup: the client takes from a metainfo file what its publisher put there,
  or refuses it, and tracker and client understand each other's bytes;
* hashes: a digest does not depend on how the message was cut or on what the
  hasher did before.

## 2. Plan

1. `PieceStore` (abstract), `Torrent`, the proofs `TorrentProofs`. **Done.**
2. `Storage` (the view of the peers, implemented by `Torrent`), and on top of it
   `Download`: `Peer` and `RarestFirstPicker`, connections that break. **Done.**
3. `PeerConnection`: handshake, send queue, keep-alive, framing of reads. **Done.**
4. `LeechChoker` and the proofs `LeechChokerProofs`. **Done.**
5. `UdpTracker`. **Done.**
6. `Upload`: the list of peers, the broadcast of finished pieces, REQUEST,
   `read_block` and `send_block`. **Done.**
7. `Wire` (the messages as bytes) and `Layout` (sizes and places of pieces and
   blocks), and `Transfer`, which composes them: a stream of messages, the reads
   that cut it up, the file. **Done.**
8. `Startup`, over `Bencode` and `Datagrams`: the metainfo file, the info hash, the
   peer id, the exchange with the tracker as bytes. **Done.**
9. `Hasher` over the providers of `digestpp`. **Done** for the families named in
   section 11.
10. Proofs: `TransferProofs`, `UdpTrackerProofs`, `PeerConnectionProofs`, `UploadProofs`,
    `DownloadProofs` and `StartupProofs`. **Done.** Left, and why: section 13.

Which module uses which: `Torrent` instantiates `PieceStore` and `Storage` under
refinement mappings; `Download` EXTENDS `Storage`, so what is checked about peers
rests on a storage `Torrent` is proved to implement; `Transfer` EXTENDS `Wire` and
`Layout`; `Startup` EXTENDS `Bencode` and `Datagrams`, with the hash of the info dict a
constant for which `MCStartup` takes the SHA-1 of `MerkleDamgard`.
`Hasher` EXTENDS `AbsorbData`, which EXTENDS `Words`, and takes its provider as constant
operators, as the template takes it; `Providers` has the providers, from `Blake`
(which EXTENDS `MerkleDamgard`), `Keccak` and `Skein`. The `MC...` modules give the
constants their values; each `.cfg` names one question.

| Run | Module | Threads | Instance | States |
|---|---|---|---|---|
| `Torrent` | `MCTorrent` | 2 peers + strand + kernel | a piece of 2 blocks beside a piece of 1, 3 writes at a time; fair | 172 000 |
| `DownloadRaces` | `MCDownload` | 2 | 2 peers, 2 pieces, 1 block each | 2 450 000 |
| `DownloadOneThread` | `MCDownload` | 1 | 2 peers, 1 piece, 2 blocks, each may choke once, one connection may break; fair | 604 000 |
| `ConnOneThread` | `MCPeerConnection` | 1 | 2 messages, 1 keep-alive, handshake and one message split; fair | 174 000 |
| `ConnTwoThreads` | `MCPeerConnection` | 2 | 1 message, 1 keep-alive | 1 210 000 |
| `Choker` | `MCLeechChoker` | select() beside its callers | 3 peers, 2 slots; fair | 119 000 |
| `Tracker` | `MCUdpTracker` | 1 | 4 ids, 1 datagram under way; fair | 318 000 |
| `TrackerEmptyQueue` | `MCUdpTracker` | 1 | the counterexample of the finding | |
| `Transfer` | `MCTransfer` | 1 | 4 layouts, 3 messages of any kind | 475 000 |
| `Upload` | `MCUpload` | 2 | one peer we connect to and one that connects to us, 2 pieces, a request of each peer, 2 changes of choking each; fair | 151 000 |
| `Startup` | `MCStartup` | 1 | 23 metainfo files, whole and cut off at every byte; 15 answers of the tracker | 16 000 |
| `Digest` | `MCHasher` | 1 | 17 published vectors, pieces of 64 bytes, iterators of 40, one reset | 1 600 |

Every property of a passing run has a mutant in `PROJECT.json`: a change of one
definition, as a slip in the code would make it, under which the run fails.
`CHECK_DEADLOCK FALSE` is set throughout because the program may stop: an
exception ends it (`terminated`, `crashed`, `failure`), a download with no
peers left to speak, or whose bounds are used up, has nothing to do, and
`Startup` and `Digest` come to an end.

Threads. Where a module has `NumThreads`, a handler that is not bound to a strand
needs a free thread, and with one thread each handler is an uninterrupted run of
its steps. `client/main.cpp` uses 16 threads. What needs one thread to hold is
checked with one thread and said to need it; what happens with two is described
under "observed" below.

## 3. Torrent, PieceStore, Storage

`Torrent` has one action per step of `write_block` (`StoreBlock`: lock, copy into
`write_buf`, unlock; `SubmitWrite`: `async_write_at` on the buffer as it is by
then), per event of the kernel (`PerformWrite`, `PerformDanglingWrite`,
`WriteFails`, `ReadForValidation`, `ValidationReadFails`) and per completion handler
on the strand (`BlockWritten` = `Piece::block_written` and, if the piece is full, the
start of `validate_piece`; `ValidatePiece` = its handler with `piece_complete`,
`validated++` or `Piece::reset`). Bytes are abstracted to "good" or "bad" per block;
the hash is right exactly when all blocks of the buffer are good. A write whose
buffer was freed by the swap in `block_written` is `dangling` and may write
anything. `late` and `announced` are history variables.

Checked: `SingleValidation`, `NoStrandedPiece`, `VerifiedIsGood`, `VerifiedNeverReset`,
`CountedOnce`, and that `Torrent` implements `PieceStore`
(filling, checking, verified; with fairness, so a full piece is decided in the end)
and `Storage` (what peers see). The
reason they hold although `complete_blocks` counts duplicates is the `==` of
`Piece::complete`: between two resets the count passes `blocks.size()` once.

Bounds. `MaxWrites` limits the `write_block` calls, over all pieces, that no reset has
undone (in flight or counted): three of them let both pieces fill, or leave one
superfluous write of the piece of two blocks or two of the other, before, during and
after the validation, and two writes of a block at once. The proofs do not depend on it being small.
Fairness: a thread inside `write_block` goes on, submitted I/O ends, queued handlers
run; nothing obliges a peer to send a block.

Proved in `TorrentProofs`, for any finite sets of pieces, blocks and peers (the
named assumptions in `Torrent`; no piece is empty, which `Piece`'s constructor
ensures for a positive size):

* `TypeCorrect`. `TypeOK` alone is not inductive: a write in flight copies
  `write_buf` to the file and must not meet an emptied one. `LiveBuffer` says that a
  write counted in `writing` has a filled buffer.
* `SingleValidationHolds`, `CountedOnceHolds`, `NoStrandedPieceHolds`,
  `VerifiedNeverResetHolds` from `PieceInv`. `CheckingInv`, `AnnouncedInv` and
  `FullInv` say that a piece below `blocks.size()` is being filled and that from
  there on it is in its only validation or verified; `FlagsInv` bounds the complete
  flags by the count, so all flags set means the count got there; `CountInv` is the
  meaning of `validated`.
* `VerifiedIsGoodHolds` from `ContentInv`: while a piece that no late write touches
  is validated or verified, nothing is writing it and the file agrees with what the
  validation has read.
* `StorageImplementsPieceStore` and `StorageImplementsView`: the safety parts of the
  two refinements. The fairness of `PieceStore` is liveness and remains with TLC.

Observed. A write that is late (a duplicate under way during or after the
validation) can corrupt a verified piece; `VerifiedIsGood` states the condition
under which it cannot. `message_handler` makes duplicates by itself: it clears
`requested_` before the write completes and then calls `request_blocks`, which may
ask for the block just received again.

## 4. Download

One message of a peer is handled at a time (`recieve_message` is called again after
`message_handler`), different peers' handlers interleave at each access to shared
state: `Receive...` start a handler, `ReadAvailability`/`WriteAvailability` are the two
halves of `increment_piece_availability`, `StorePiece` calls `write_block`, and
`Pick`, `Scan`, `Claim`/`SkipLocked`, `NextAttempt` are the loop of `request_blocks`.
`PickerRace` is the crash two threads inside the picker can cause while it is rebuilt. The
remote is a peer that keeps to the protocol and is external. Its connection may
break at any moment (`Break`), of which the code tells nobody: what is unread is lost,
and so is every later REQUEST; both join the requests a choking remote discards in
the history variable `dropped`. `blocks_in_queue` is modulo `Modulus`, standing for 2^32.

Checked on two threads (`DownloadRaces`): `RequestsWelcome`, `AvailabilityKnown`, and in
`TypeOK` two bounds: the pipeline overshoots `block_pipeline_size` by less than a piece,
and `attempt` never exceeds the number of pieces, which bounds the loop of
`request_blocks` whatever other threads do to the picker.

Checked on one thread (`DownloadOneThread`): `FetchedOnce`; `PipelineAccount`, which says
exactly what the counter counts; `RequestedIsAsked`, that a block marked requested is
being fetched unless a choke or a broken connection lost the request, which nobody
makes up for; `NothingForgotten`, that a free block is forgotten by a failed validation
and by nothing else; and `HandlerReturns` under weak fairness of a running handler.

Bounds. Two peers are what a race needs; two pieces make `attempt` and the sorted
order matter, two blocks make the inner loop of `request_blocks` matter. In
`DownloadRaces` pieces have one block, so a pipeline of one never overshoots there; the
overshoot by the rest of a piece happens in `DownloadOneThread`. `MaxChokes`, `MaxBreaks`
and `MaxDuplicates` bound what the remote does beyond serving a block.

Proved in `DownloadProofs`, for any number of threads, peers and pieces (`BlockListAssumption`: a
piece lists its blocks once each), along these invariants:

* `PeerInv` gives `AvailabilityIsKnown` and `RequestsAreWelcome`. `Counted` says that what a
  handler has read of a counter is a number, so that even an update which undoes others
  writes at least 1, and that a piece the peer has is counted or about to be. `Welcomed`
  is needed since `RequestsWelcome` speaks of the remote's state, and between it and the
  request lie the message on the wire and the handler that holds it: `Told`, `Unchoked` and
  `Interest` say that what is on the wire and what `message_handler` has stored agree with
  what the remote did, `Scanned`, `Claiming` and `Asked` that the blocks a handler is about
  to ask for are of pieces it was told of. `OthersKept` shows that no step of another
  peer's handler touches any of it, which makes the number of threads irrelevant.
* `PipeInv` gives `PipelineAccountHolds`. `Account` is the equation itself with the answer that
  a handler holds; `Room` bounds what a handler may still claim, so the counter never
  exceeds the pipeline by a piece and never wraps; `Tried` bounds `attempt`. The account
  counts entries of queues, as cardinalities of sets of positions.
* `CountInv` bounds an availability by the peers whose message about the piece has been
  counted (`Counters`): each counts it once, and an update that undoes others only lowers
  it. With the other two it gives `TypesAndBounds`, which is `TypeOK`.
* `MarkedIsAsked`, which is `RequestedIsAsked`, and, with `NumThreads = 1`, `BlocksFetchedOnce`
  (`FetchedOnce`) and `NothingIsForgotten` (`NothingForgotten`). All three assume
  `[]InOrder`, that `get_piece(i)` finds piece `i`: the vector is permuted by
  `sort_pieces`, and where that moves a piece they are false, as told below.
  `OnePieceInOrder` shows that the hypothesis always holds for a torrent of one piece; for
  more, it holds while the sort leaves the pieces where they are. `OnceInv` says that a
  block is in one place of one peer's way only (`On`), and `OneAlone` that a handler's test
  of `requested()` is still true when it claims, which is what two threads break.
  `VisitInv` says what a handler has left behind at each point of `request_blocks`: `Ahead`
  are the pieces the picker returns before a given one, `Passed` says that none with fewer
  than `attempt` of them ahead has a free block, `Looking` the same of the blocks already
  scanned, and `Sorted` that the sorted vector holds every piece. That a handler which
  runs out of attempts has passed all of them is a counting argument on the first piece
  it missed (`SmallestElement`), in place of an induction the provers cannot do.

Observed. `FetchedOnce` fails with two threads (test of `requested()` before
`try_lock`), and on one thread with two pieces of different availability: `get_piece(i)`
reads the vector that `sort_pieces` has permuted, so the flag of another piece's
block is cleared. `get_have_bitfield` is never updated (`piece_verified` has no
caller), so `refresh_download_interest` never sends NOT_INTERESTED. After
`Piece::reset` nobody calls `request_blocks`: the blocks wait for the next UNCHOKE, HAVE
or PIECE, and if none is to come the download stops.

## 5. PeerConnection

`send` tests the handshake (`MustWait`) and then writes or pushes to
`pending_send_msgs` (`Push`); `Start` is `start()`; `WriteDone`, `WritePart`,
`ContinueWrite` are the composed write on the socket, which `async_write` may take in
two bites; `SendHandler` runs on `send_strand`, `RecvHandshake` beside it; both end in
`TestComplete`, whose winner runs `handshake_complete` (`Flush`, one message per turn,
then the first read). The keep-alive timer, the framing reads and an unknown id
follow. Unsynchronised plain flags read a moment after another thread set its own
may give either value (`racing`).

Checked on one thread: `SentOnce`, `SendOrder`, `KeepAliveNotForgotten`, `OneReader`,
`Delivered`; on two: `HandshakeFirst`. Fairness: handlers run and the open socket
takes writes. Two messages beside BITFIELD and the keep-alive are enough for one
before, one during and one after the flush; the read side is cut after `MaxFrames`
frames, which touch nothing the properties speak of.

Proved in `PeerConnectionProofs`, for any number of threads, callers and messages:
`ConnTypeCorrect`, and `NothingOvertakes`, which is `HandshakeFirst`. The invariant
`FirstInv` has four parts: the flags are honest (`sent` is set after the last byte of our
handshake, `recieved` after the remote's was accepted), the stages of the two halves
agree with them, whoever has begun `handshake_complete` saw both flags set, and until
then only the handshake is written. None of it depends on how often
`handshake_complete` runs, which is why it survives the races that the runs on one
thread exclude. `HandshakeOnce` (`HandshakeInv`): `start()` is called once, by whichever side
of the connection we are, so at most one handshake is in the writes and on the strand,
none once `sent` is set, and each half of the handshake completes once.

For one thread (`ASSUME NumThreads = 1`), `OneReaderHolds` and `KeepAliveHolds`. `ReaderInv`: one
handler is under way at a time, so the half that ends second tests alone and, by
`HandshakeInv`, finds nothing completed before; a message is held back only while the
handshake is not complete. `KeepInv`: the BITFIELD that Peer's constructor sends is
always among the held-back messages, so the flush begins a write, whose completion
arms the timer, whatever the timer did while the handshake was under way. Without
that BITFIELD a keep-alive timer that expires before the handshake could be the last.

Also for one thread, `EachIsSentOnce`, which is `SentOnce`, and `NoneOvertakes`, which is
`SendOrder`. `PlaceInv` says that a message is at one place: a caller about to push or to
write it, the queue, or the writes that were begun. The flush cannot reach a message twice, as
the handshake is complete once only, and a message that waits while nothing has
completed yet has a handler about to test. `OrderInv` says where the line of the accepted
messages is cut (`Line`, `Starts`): before the flush none has begun and the queue holds all
of them in order, during the flush those before the cursor have begun, and after it all of
them (`Flushing`, `Standing`); the k-th to begin is then the k-th that was given to `send`
(`Ordered`). It needs one thread twice: nobody may push once the flush has read the queue,
and the two halves of the handshake may not both find it complete.

Observed. With two threads the handshake completes once, twice or never; a message
pushed after the flush is lost; a keep-alive can be forgotten; BITFIELD may not be the
first message. On any number of threads, messages written while another is in its
second bite lie between its bytes on the wire: `SendOrder` speaks of where messages
begin. `ConnectFails`: an unreachable peer ends the program, since `start()` runs
after the error and `remote_endpoint()` throws. An unknown message id does too.

## 6. LeechChoker

`TimerFires`, `Collect` (sort, sample, regular slots), `ChokeOne`, `Activate`,
`UnchokeOne`, `Rearm` are `timer_handler` and `select()`; `AddPeer`, `RemovePeer`, `Stop` and
`SetInterested` may come between. Rates change at any time, so the order of the sort
is any order. `next` is the place in the loops over `active`.

Checked: `UnchokedBound`, `UnchokedAreActive`, `SlotsUsed`, and `NobodyStarves` under weak
fairness of the timer and its handler and strong fairness of `std::sample` for each
peer. Two slots for three peers are the smallest instance in which a slot is
contended and the optimistic choice may double a regular one.

Proved in `LeechChokerProofs` for any finite set of peers and any number of slots:
`TypeCorrect`, `UnchokedBoundHolds`, `UnchokedAreActiveHolds`, `SlotsUsedHolds`. `SlotInv` is the inductive
invariant: neither selection is longer than the slots, the first loop of `select()`
has choked a prefix of the old selection, the second has unchoked a prefix of the
new one. The bound alone is not inductive, as it does not know which peers the loops
have still to visit. `SlotsUsed` follows from `UnchokedAreActive` and `FillInv`, which
carries what a selection fills from `Collect` to the next round: the regular slots are a
prefix of an ordering of the interested peers, so they go to as many peers as they are,
and the optimistic choice is one of the interested and takes at most one slot, in its
round. `NobodyStarves` is model-checked only.

Observed. The comparison with `active.end()` of an iterator into `result` makes the
first loop choke every active peer, the kept ones only to be unchoked again in the
same round. `DownloadRateCmp` sorts the slowest peers first. The optimistic choice
may be a peer that has a regular slot too, which wastes a slot (`SlotsUsed` allows
exactly that). Nobody calls `remove_peer` or `stop`; they are modelled because they are
there.

## 7. UdpTracker

`SendHandler`, `RetryStart`, `RetryHandler`, `TimerHandler`, `TimerSends` run on the strand;
`Receive` (the completion of the receive, with `retry_timer.stop()`), `HandleResponse`,
`Clear`, `SendNext` are `get_response`'s handler, which is not bound to it. A handler
is cut where the other side could see or change what it uses. A datagram is its
kind, transaction id and kind of connection id. Time is abstracted: an armed timer
may expire at any moment, so nothing depends on 15, 60 or more seconds.

Checked (`Tracker`, one thread): `ChainUnbroken` (a request of each kind is queued or
its timer will queue it, and an outstanding request is watched over),
`AnnounceIdentified`, `ResponseBufferOwned`, `FailsOnlyWhenCrossed`, and under fairness
`ConnectAnswered`. Fairness: handlers run, timers expire, and a connect request sent
again and again is answered and its answer received in the end; over a network that
loses everything nothing could be promised. Announces are left out of it: whether an
announce is answered before the connection is renewed depends on delays that are
abstracted. Bounds: the handler of a timer waits while `MaxSending` sends are under
way, and at most `MaxNet` datagrams exist. One datagram is enough for a stale answer,
since it may stay while further requests go out, and for a duplicate, since an
answer that is received may also stay; four ids let it be told apart.

Proved in `UdpTrackerProofs`, for any number of threads, handlers, ids and datagrams:
`TypeCorrect`, and `BufferOwned`, which is `ResponseBufferOwned`. `BufferInv`: a receive is
posted only where `req_sent` is clear, and from there until the handler of that receive
is done either it stays set or the send handler is about to set it; so a second
receive cannot be posted beside the first, although nothing binds the handler that
reads `res_buf` to the strand. `IdsBelong` (`IdInv`): a transaction id belongs to one
request, so whatever datagram bears the id of a queued request, or that of `cur_req`, is
of its kind, however late it comes; ids being fresh is all it rests on. From it follow
`LinkedHolds`, the first half of `ChainUnbroken` (an answer removes a request only
together with arming the timer of its kind), and, with `Assigned` (once no connect is
queued an id is assigned or was refused), `AnnounceIdentifiedHolds`. These hold for the
steps into which the handlers are cut here; a word torn inside a step is not modelled.

For one thread (`ASSUME NumThreads = 1`), `ChainUnbrokenHolds` and
`FailsOnlyWhenCrossedHolds`. The invariant has three parts: `ThreadInv`, what one handler
leaves to the next; `WatchInv`, that `req_sent` stands for a posted receive and a retry
timer that is armed or due, and that without it a queue that is not empty has a send
whose handler is to come; `OwedInv`, that a posted receive has a request to wait for
unless an answer overtook a retransmission. `ChainUnbroken` alone is not inductive: it
does not say what holds while a handler runs, nor that `stopped` goes with `req_sent`.

Finding (`TrackerEmptyQueue`). `RequestQueue::top` throws "top on empty queue" and
nobody catches it. When the answer to the last queued request is handled after a
retransmission went out and before the handler of that send runs, the handler finds
`req_sent` false, posts a receive and restarts the retry timer with an empty queue;
its next expiry calls `top()`. `FailsOnlyWhenCrossed` shows that on one thread this
crossing is the only way to that exception and to a response that meets `cur_req` null.

Observed. On two threads an answer handled between `get_response()` and
`req_sent = true` leaves `req_sent` set with no receive posted, and the tracker is silent
from then on. A duplicated answer costs an additional send. After an error answer
to connect the queued announce goes out with the magic id.

## 8. Wire, Layout, Transfer

`Wire` has the formats: `Serialize` and `Deserialize` are the virtual `serialize` and the
`deserialize` of each message, `FrameLength` the length its constructor puts into the
frame, which the code computes apart from the bytes; words are written the low byte
first after `native_to_big`, so `BigEndian` is both together (on a little-endian
machine); `PackBits` is `vector<bool>`. `FrameOverruns` says when `Deserializer::get` would
throw. `Layout` has `generate_pieces` (`PieceSize`), `Piece`'s constructor (`NumBlocks`,
`BlockSize`, `BlockOffset`), `get_block_by_offset` (`BlockAt`), and the two places at
which a block is written (`WriteOffset`, in a `uint32_t`) and a piece is read
(`PieceOffset`).

`Transfer` runs them: the remote, a peer that keeps to the protocol, appends whole
messages to `stream`; `ReadPstrlen`, `ReadHandshake`, `ReadLength`, `ReadBody` are the four
nested lambdas of `recieve_handshake` and `recieve_message`; a PIECE goes to the file
(`StoreBlock`). `pstrlen` is captured by reference and gone when its lambda runs, so
`ReadHandshake` prepends any of `StalePrefix` or the right value.

Checked: `ReceivedAsSent`, `EndsOnBoundary`, `OwnTorrentOnly`, `ValidationReadsSource`.
Bounds: bytes, words and the handshake have their real sizes; blocks have 256 bytes
in place of 16 kB, so that lengths and offsets need two bytes. The layouts have a
last piece that is full, one of one byte, one with more pieces than bits in a byte,
and one whose file reaches beyond `OffsetModulus` (2^32), for which
`ValidationReadsSource` claims nothing: it would be false. Three messages put every
kind before and after every other, and write a whole file of three blocks. HAVE,
REQUEST and CANCEL speak of the first and the last piece only.

Proved in `TransferProofs`, for every layout, every number of messages and every content
of the file:

* `PiecesTileFile` and `BlocksTilePiece` (no gap, no overlap, nothing empty, the last ends
  where the whole ends), `BlockIsFound` (`get_block_by_offset` finds the block made with
  that offset), and `BlocksApart`: in a file a `uint32_t` can address, blocks are written
  where validation reads them and no two share a byte. That nothing is left out is
  stated as every byte lying in some piece or block, which needs no induction.
* `RoundTrip`: every message that may be sent is read back as itself, and its constructor
  put the length of its bytes into the frame. Words are followed byte by byte (`WordBytes`), bitfields
  bit by bit (`Bit`, `Places`).
* `StreamHolds`: the inductive invariant `StreamInv`. The bytes not yet read are those of the
  messages from some number on, in order (`Framed`); the read stands at the beginning
  of a message or behind its length (`Stands`), never elsewhere; the messages before it
  that the code keeps are what was handed over, at the places they had among those sent
  (`HandedOver`); and before the first of them stand the two parts of the
  handshake (`Greeting`). `ReceivedAsSent` and `EndsOnBoundary` say nothing of the bytes still
  in the stream, so neither is inductive; both follow from this (`HandsOverAsSent`,
  `ReadsEndOnBoundary`).
* `OwnTorrent`: only a peer of this torrent gets past the handshake, though `pstrlen` may
  hold anything when its lambda runs.
* `ValidationSound`, from the invariant `Stored`: each byte of a block that was written is the
  torrent's, at the place validation reads it.
* `TransferTypes`: the type invariant.

Those about behaviours assume `WordsFit`: the length of a PIECE, the offsets in a piece and
the bits of a bitfield fit in the `uint32_t` the formats have for them, which holds for
every torrent whose messages can be written at all. `OwnTorrent` also assumes
`Unmistakable`: read where a stale `pstrlen` has it look, the handshake of a peer of the
other torrent does not contain this torrent's hash by accident. TLC evaluates that on
the instance (`MCTransfer`); a stale value beyond the length of the name ends in the
exception of `Deserializer::get`.

Not covered: frames a peer that breaks the protocol may send (a length below 9 for
a PIECE, filler bits that are set, an unknown id), on which the code does not check
anything.

## 9. Upload

`AddPeer`, `AcceptPeer`, `PushPeer`, `Connected`, `ConnectFails`, `Break` are the list of peers;
`PieceComplete`, `Tell`, `Told` the broadcast; `SetChoked` is `choke_upload` and
`unchoke_upload`; `ReceiveRequest` to `AnswerRequest` follow a REQUEST through
`handle_block_request`, `read_block` and `send_block`, and `EraseBuffer` frees its buffer on
the strand. Every activity that holds a thread has a place; `read_buffers` is accessed
in two steps, look and write, under `read_mutex`. The remote asks while unchoked, for
pieces it was told of.

Checked (`Upload`, two threads): `BuffersOwned`; `EveryPeerTold`; `RequestsAnswered` under
fairness: handlers that have begun go on, those that are queued get a thread, reads
end. A peer of each origin is what a race on the list needs, two pieces let a peer
come before, between and after two broadcasts, two requests let two buffers be under
way; `MaxChokes` lets the choker unchoke and choke again while they are.

Proved in `UploadProofs` for any number of threads, peers, pieces and requests:
`BuffersAreOwned`, `EraseFinds` and `EveryPeerIsTold`. `BufferInv`: whoever stands between
lock and unlock holds the mutex (`MutexHeld`), a request is at one place of its way at
a time (`OnePlace`), and `read_buffers` is exactly what the requests on their way use,
the answered one included until it is erased. `ListInv`: a peer is put in the list
once (`PushedOnce`), the walk covers exactly the peers that came before the piece was
verified (`Walking`), and each place of the list has been told of what was verified
since it was filled, up to where the walk is (`Tellings`).

Observed. `PushRace`: `add_peer`, `accept_peer` and `piece_complete` use `peers` without a
lock, and two of them at once may end the program. A peer that comes late gets an
all-zero BITFIELD and no HAVE of what we have, and so never asks for it. A REQUEST is
answered whether its peer is choked, and whether the piece is there, or not. The
PIECE may carry any index and offset, as both are captured by reference. An error of
the read is ignored and zeroes are sent. The first error of `async_accept` ends
accepting for good.

## 10. Startup

`Decode` is one turn of the loop of `basic_decode`; `ReadMetainfo` the constructor of
`Metainfo`, with the info dict encoded again and hashed (`Hash`, a constant: on the
instance `ComputeHash` of `MerkleDamgard`, the real SHA-1);
`InitTracker` the peer id and the announce URL; `Run`, `HandleResponse` the requests and
answers as bytes, by `Datagrams`; `AddPeers` the endpoints. Retransmissions are in
`UdpTracker`. The tracker is external.

Checked (`Startup`): `MetainfoAsPublished`, `AnswersAsSent`. The reference for a file is what
its publisher knows of it, written beside it in `MCStartup` (`info_hash` is the SHA-1 of
the bytes of the info dict in the file). Every prefix of every file is tried: each is
refused. `MaxInteger` 40000 and `Digits10` 4 stand for the limits of `long long`, so
that numbers at the limit, one beyond it and with one digit more all occur. Bytes are
those of a little-endian machine. Counts of peers end just below and just above what
the buffer holds.

Proved in `StartupProofs`, for every set of metainfo files, process ids, random bytes,
local endpoints and answers of the tracker: `AnswersAlwaysAsSent`, which is
`AnswersAsSent`. It is not inductive: it compares what was understood with what was
meant only when both are over, and says nothing of the bytes between. `StartupInv` adds
`IdentityInv`, that the parts an announce is made of have their sizes from the moment
they exist (the hash 20 bytes, the peer id 20 with `ClientName` first, the key and the
transaction ids 4), and `ExchangeInv`: first the connect request waits for its answer
with the announce behind it (`Connecting`), then the announce with the id the tracker
assigned (`Announcing`); `req_buf` holds the bytes of the first one, and an answer under
way is one of `Answers` to it or a stale one. Below it, the formats are followed byte by
byte: `AnnounceBytes` finds each of the fields of the 98 bytes at its offset, `ListingRead`
finds in the buffer behind the datagram the counts and each endpoint that was listed,
and zeroes where more are counted, `ErrorRead` the text up to its end.

Assumed: `DigestSize`, that the hash of any text has 20 bytes; and `StartupAssumption`,
that a tracker counts fewer than 2^31 leechers and 2^31 seeders, so that their sum is
still a `uint32_t`, and that its listing or its error text fits the 1020 bytes of the
buffer. `MetainfoAsPublished` is model-checked only.

Observed. `operator[]` inserts the integer 0 for a key that is missing: a torrent of
several files gets length 0, and the hash of a changed dict. Integers with leading
zeroes are encoded without them, to another hash. Negative lengths wrap. An announce
URL with a path is refused, as the path stays in the name of the service. Peers the
tracker counts but does not list are connected to as 0.0.0.0:0, and more than 166
counted peers end the program. `generate_peer_id` takes the bytes of the process id
modulo 16.

## 11. Hasher

`Hasher` is `hasher.hpp` with `absorb_data.hpp`: `Absorb`, `AbsorbIterated`, `Finish`, `Squeeze`,
`Restart`, over a provider given as the constant operators `init`, `update`, `final`,
`squeeze`, as the template parameter is. `Providers` has the modelled ones: SHA-1,
SHA-2, MD5, SM3 (`MerkleDamgard`), BLAKE, BLAKE2 with its extendable forms (`Blake`), SHA-3,
SHAKE, cSHAKE and KMAC (`Keccak`), Skein (`Skein`). `Words` has their arithmetic: a word
is the set of the places of its ones, since TLC's integers are narrower than 64 bits.

Checked (`Digest`): `DigestAsPublished`. The vectors are those of
`src/digestpp/test/testvectors`; each message is absorbed in pieces of 64 bytes, of 40
between iterators, or all that is left, in every order, squeezed in parts where the
provider can, digested before its end, and again after a `reset`. So calls end
before, on and after the end of the buffer.

Observed. `std::find` returns an iterator that is never null, so `validate_hash_size` for
a set of sizes accepts every size but 0, though the comment at `hasher.hpp:62` says it
throws. A first `squeeze` of 0 bytes makes the next ones start inside a block. The
prefix of cSHAKE adds a block of zeroes when it is aligned already.

## 12. What is not modelled

`PROJECT.json` lists every component. Left out: of `digestpp`, Kupyna, Groestl, JH,
Streebog, Whirlpool, ECHO, Esch and KangarooTwelve, which the service does not use and
most of whose lines are tables; `RateMeasure` (floating point; its order is any order
in `LeechChoker`); the walk over the network interfaces in `PeerHandler`'s constructor
and the options of `main` (I/O); the views and the `boost` variants of `bencode.h`, the
unused helpers of `util`; the simulation scripts under `test/` (the repository has no
unit tests). Time is abstracted wherever a timer is: an armed timer may expire at
any moment.

## 13. Out of the provers' reach

Liveness (`HandlerReturns`, `Delivered`, `NobodyStarves`, `ConnectAnswered`,
`RequestsAnswered`, the fairness part of `PieceStore`) is model-checked only. So are two
invariants, both about what a recursion over data computes. `MetainfoAsPublished` says
that decoding a text and encoding it again are inverse, for a reference that only
exists file by file. `DigestAsPublished` compares digests with published vectors, and
rests on `Words`, whose operators are RECURSIVE. Every other property of the passing runs
is a theorem; of `ImplementsPieceStore` the part without fairness is.
