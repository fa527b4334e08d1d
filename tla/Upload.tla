------------------------------- MODULE Upload -------------------------------
(***************************************************************************)
(* The list of peers and what is sent to them: PeerHandler                 *)
(* (peer_handler.cpp), the upload half of Peer (peer.cpp), the requests    *)
(* for blocks through Manager::handle_block_request (manager.cpp) and      *)
(* Torrent::read_block (torrent.cpp).                                      *)
(*                                                                         *)
(* Handlers run on NumThreads threads.  An activity that holds a thread    *)
(* stands at a place at[a]: "adder" hands the tracker's peers to add_peer, *)
(* "acceptor" runs accept_peer, "strand" runs the handlers bound to the    *)
(* strand of the storage, and every peer has a message_handler.  The list  *)
(* peers has no lock; read_buffers has read_mutex, and an access to it is  *)
(* modelled as a look at the vector and a write of the changed one, so     *)
(* that accesses that overlap would show.                                  *)
(*                                                                         *)
(* A request stands for one REQUEST of its peer and for the buffer made    *)
(* for it.  The remote asks for pieces it was told of, while unchoked.     *)
(* Queues whose order nothing depends on are sets.                         *)
(***************************************************************************)
EXTENDS Naturals, Sequences, FiniteSets

CONSTANTS
    Outgoing,    \* peers the tracker names: we connect to them
    Incoming,    \* peers that connect to us
    Pieces,
    Requests,
    Asker,       \* Asker[r]: the peer that sends request r
    Asked,       \* Asked[r]: the piece it asks for
    NumThreads,  \* Manager::num_threads
    MaxChokes,   \* bound on the changes of upload.choked of a peer
    Nothing      \* no peer, piece or request

Peers == Outgoing \cup Incoming
Activities == Peers \cup {"adder", "acceptor", "strand"}

ASSUME UploadAssumption ==
    /\ Outgoing \cap Incoming = {}
    /\ Peers \cap {"adder", "acceptor", "strand"} = {}
    /\ Asker \in [Requests -> Peers]
    /\ Asked \in [Requests -> Pieces]
    /\ Nothing \notin Peers \cup Pieces \cup Requests \cup Activities
    /\ NumThreads \in Nat \ {0}
    /\ MaxChokes \in Nat

VARIABLES
    peers,         \* PeerHandler::peers
    link,          \* the peer's connection: "none", "connecting", "open", "broken"
    accepting,     \* an async_accept is waiting
    at, hand,      \* per activity: its place, and the peer, request or piece in hand
    walk,          \* the iterators of the loop in piece_complete
    verified,      \* pieces piece_complete was called for
    haves,         \* haves[p][i]: HAVEs of piece i sent to p
    choked,        \* Peer::upload.choked
    chokes,        \* its changes so far
    inbox,         \* requests on their way from the remote
    read_mutex,    \* the activity that holds it
    read_buffers,  \* Torrent::read_buffers
    seen,          \* read_buffers as the holder of the mutex found it
    reading,       \* reads under way
    read,          \* reads that are done, whose handlers wait for the strand
    answers,       \* answers[r]: the pieces its answers are labelled with
    crashed,       \* an exception or a use of freed memory has ended the program
    asked,         \* history: requests sent
    since          \* history: verified as it was when the peer was put in the list

listVars   == <<peers, link, accepting, since>>
tellVars   == <<walk, verified, haves>>
chokeVars  == <<choked, chokes>>
bufferVars == <<read_mutex, read_buffers, seen>>
readVars   == <<reading, read, answers>>
vars == <<listVars, at, hand, tellVars, chokeVars, inbox, bufferVars, readVars,
          crashed, asked>>

TypeOK ==
    /\ peers \in Seq(Peers)
    /\ link \in [Peers -> {"none", "connecting", "open", "broken"}]
    /\ at \in [Activities -> {"idle", "push", "lock", "change", "submit", "tell"}]
    /\ hand \in [Activities -> Peers \cup Pieces \cup Requests \cup {Nothing}]
    /\ walk \in [next : Nat, end : Nat]
    /\ verified \in SUBSET Pieces
    /\ haves \in [Peers -> [Pieces -> Nat]]
    /\ choked \in [Peers -> BOOLEAN] /\ chokes \in [Peers -> 0 .. MaxChokes]
    /\ inbox \in [Peers -> SUBSET Requests]
    /\ read_mutex \in Activities \cup {Nothing}
    /\ {read_buffers, seen, reading, read, asked} \subseteq SUBSET Requests
    /\ answers \in [Requests -> Seq(Pieces)]
    /\ {crashed, accepting} \subseteq BOOLEAN
    /\ since \in [Peers -> SUBSET Pieces]

Init ==
    /\ peers = <<>>
    /\ link = [p \in Peers |-> "none"]
    /\ accepting = TRUE
    /\ at = [a \in Activities |-> "idle"]
    /\ hand = [a \in Activities |-> Nothing]
    /\ walk = [next |-> 1, end |-> 0]
    /\ verified = {}
    /\ haves = [p \in Peers |-> [i \in Pieces |-> 0]]
    /\ choked = [p \in Peers |-> TRUE] /\ chokes = [p \in Peers |-> 0]
    /\ inbox = [p \in Peers |-> {}]
    /\ read_mutex = Nothing /\ read_buffers = {} /\ seen = {}
    /\ reading = {} /\ read = {}
    /\ answers = [r \in Requests |-> <<>>]
    /\ crashed = FALSE
    /\ asked = {}
    /\ since = [p \in Peers |-> {}]

Busy      == {a \in Activities : at[a] # "idle"}
MayRun(a) == ~crashed /\ at[a] = "idle" /\ Cardinality(Busy) < NumThreads

Goto(a, place, x) ==
    /\ at' = [at EXCEPT ![a] = place]
    /\ hand' = [hand EXCEPT ![a] = x]

Crash ==
    /\ crashed' = TRUE
    /\ UNCHANGED <<listVars, at, hand, tellVars, chokeVars, inbox, bufferVars, readVars, asked>>

-----------------------------------------------------------------------------
(* The list of peers.                                                       *)

\* add_peer, for an endpoint that is not our own: Peer's constructor, which begins to
\* connect and sends the BITFIELD.
AddPeer(p) ==
    /\ MayRun("adder")
    /\ p \in Outgoing /\ link[p] = "none"
    /\ link' = [link EXCEPT ![p] = "connecting"]
    /\ Goto("adder", "push", p)
    /\ UNCHANGED <<peers, accepting, since, tellVars, chokeVars, inbox, bufferVars,
                   readVars, crashed, asked>>

\* accept_peer: the constructor for a socket that is connected.
AcceptPeer(p) ==
    /\ MayRun("acceptor") /\ accepting
    /\ p \in Incoming /\ link[p] = "none"
    /\ link' = [link EXCEPT ![p] = "open"]
    /\ accepting' = FALSE
    /\ Goto("acceptor", "push", p)
    /\ UNCHANGED <<peers, since, tellVars, chokeVars, inbox, bufferVars, readVars, crashed, asked>>

\* An error ends accept_peer before it waits for the next peer.
AcceptFails ==
    /\ MayRun("acceptor") /\ accepting
    /\ accepting' = FALSE
    /\ UNCHANGED <<peers, link, since, at, hand, tellVars, chokeVars, inbox, bufferVars,
                   readVars, crashed, asked>>

\* remote_endpoint() of a socket whose peer has gone already.
AcceptThrows == MayRun("acceptor") /\ accepting /\ Crash

\* peers.push_back and choker->add_peer; accept_peer then waits for the next one.
PushPeer(a) ==
    /\ ~crashed
    /\ a \in {"adder", "acceptor"} /\ at[a] = "push"
    /\ peers' = Append(peers, hand[a])
    /\ since' = [since EXCEPT ![hand[a]] = verified]
    /\ accepting' = (accepting \/ a = "acceptor")
    /\ Goto(a, "idle", Nothing)
    /\ UNCHANGED <<link, tellVars, chokeVars, inbox, bufferVars, readVars, crashed, asked>>

\* Another thread pushes, or walks over the vector, at the same time: its storage
\* may be freed under it.
PushRace(a) ==
    /\ ~crashed
    /\ a \in {"adder", "acceptor"} /\ at[a] = "push"
    /\ \E b \in Activities \ {a} : at[b] \in {"push", "tell"}
    /\ Crash

Connected(p) ==
    /\ ~crashed /\ link[p] = "connecting" /\ Cardinality(Busy) < NumThreads
    /\ link' = [link EXCEPT ![p] = "open"]
    /\ UNCHANGED <<peers, accepting, since, at, hand, tellVars, chokeVars, inbox, bufferVars,
                   readVars, crashed, asked>>

\* remove_peer takes the peer from the list if it is there already, then start()
\* throws.
ConnectFails(p) ==
    /\ ~crashed /\ link[p] = "connecting" /\ Cardinality(Busy) < NumThreads
    /\ \/ \E k \in DOMAIN peers :
            /\ peers[k] = p
            /\ peers' = SubSeq(peers, 1, k - 1) \o SubSeq(peers, k + 1, Len(peers))
       \/ (\A k \in DOMAIN peers : peers[k] # p) /\ UNCHANGED peers
    /\ crashed' = TRUE
    /\ UNCHANGED <<link, accepting, since, at, hand, tellVars, chokeVars, inbox, bufferVars,
                   readVars, asked>>

\* A connection that breaks is told to nobody; the peer stays in the list.
Break(p) ==
    /\ ~crashed /\ link[p] = "open"
    /\ link' = [link EXCEPT ![p] = "broken"]
    /\ inbox' = [inbox EXCEPT ![p] = {}]
    /\ UNCHANGED <<peers, accepting, since, at, hand, tellVars, chokeVars, bufferVars,
                   readVars, crashed, asked>>

-----------------------------------------------------------------------------
(* piece_complete, called by the handler of validate_piece on the strand.   *)

\* A slip: the loop begins at the second peer.
PieceCompleteLate(i) ==
    /\ MayRun("strand")
    /\ i \notin verified
    /\ verified' = verified \cup {i}
    /\ walk' = [next |-> 2, end |-> Len(peers)]
    /\ Goto("strand", "tell", i)
    /\ UNCHANGED <<listVars, haves, chokeVars, inbox, bufferVars, readVars, crashed, asked>>

\* The range of the loop is fixed when it begins.
PieceComplete(i) ==
    /\ MayRun("strand")
    /\ i \notin verified
    /\ verified' = verified \cup {i}
    /\ walk' = [next |-> 1, end |-> Len(peers)]
    /\ Goto("strand", "tell", i)
    /\ UNCHANGED <<listVars, haves, chokeVars, inbox, bufferVars, readVars, crashed, asked>>

\* send_have; refresh_download_interest finds nothing new, as it looks at what the
\* peer has and at a bitfield of ours that nobody changes (Download).
Tell ==
    /\ ~crashed
    /\ at["strand"] = "tell" /\ walk.next <= walk.end
    /\ haves' = [haves EXCEPT ![peers[walk.next]][hand["strand"]] = @ + 1]
    /\ walk' = [walk EXCEPT !.next = @ + 1]
    /\ UNCHANGED <<listVars, at, hand, verified, chokeVars, inbox, bufferVars, readVars,
                   crashed, asked>>

Told ==
    /\ ~crashed
    /\ at["strand"] = "tell" /\ walk.next > walk.end
    /\ Goto("strand", "idle", Nothing)
    /\ UNCHANGED <<listVars, tellVars, chokeVars, inbox, bufferVars, readVars, crashed, asked>>

-----------------------------------------------------------------------------
(* choke_upload and unchoke_upload, called by LeechChoker on any thread for *)
(* the peers of its list; the message follows the change of the flag.       *)

SetChoked(p) ==
    /\ ~crashed /\ Cardinality(Busy) < NumThreads
    /\ (\E k \in DOMAIN peers : peers[k] = p) /\ chokes[p] < MaxChokes
    /\ choked' = [choked EXCEPT ![p] = ~@]
    /\ chokes' = [chokes EXCEPT ![p] = @ + 1]
    /\ UNCHANGED <<listVars, at, hand, tellVars, inbox, bufferVars, readVars, crashed, asked>>

-----------------------------------------------------------------------------
(* The remote, and the requests it sends.                                   *)

Ask(r) ==
    LET p == Asker[r] IN
    /\ ~crashed /\ link[p] = "open" /\ r \notin asked
    /\ ~choked[p] /\ haves[p][Asked[r]] > 0
    /\ asked' = asked \cup {r}
    /\ inbox' = [inbox EXCEPT ![p] = @ \cup {r}]
    /\ UNCHANGED <<listVars, at, hand, tellVars, chokeVars, bufferVars, readVars, crashed>>

\* A slip: requests of a peer that is choked by now are dropped.
ReceiveRequestUnchoked(r) ==
    LET p == Asker[r] IN
    /\ MayRun(p) /\ r \in inbox[p]
    /\ inbox' = [inbox EXCEPT ![p] = @ \ {r}]
    /\ IF choked[p] THEN UNCHANGED <<at, hand>> ELSE Goto(p, "lock", r)
    /\ UNCHANGED <<listVars, tellVars, chokeVars, bufferVars, readVars, crashed, asked>>

\* case REQUEST, handle_block_request and read_block up to the lock: whether the
\* peer is choked and the piece is there is not asked.
ReceiveRequest(r) ==
    LET p == Asker[r] IN
    /\ MayRun(p) /\ r \in inbox[p]
    /\ inbox' = [inbox EXCEPT ![p] = @ \ {r}]
    /\ Goto(p, "lock", r)
    /\ UNCHANGED <<listVars, tellVars, chokeVars, bufferVars, readVars, crashed, asked>>

-----------------------------------------------------------------------------
(* read_mutex and read_buffers.                                             *)

\* A slip: the mutex is not taken.
LockBuffersNot(a) ==
    /\ ~crashed /\ at[a] = "lock"
    /\ read_mutex' = a
    /\ seen' = read_buffers
    /\ Goto(a, "change", hand[a])
    /\ UNCHANGED <<listVars, tellVars, chokeVars, inbox, read_buffers, readVars, crashed, asked>>

LockBuffers(a) ==
    /\ ~crashed /\ at[a] = "lock"
    /\ read_mutex = Nothing
    /\ read_mutex' = a
    /\ seen' = read_buffers
    /\ Goto(a, "change", hand[a])
    /\ UNCHANGED <<listVars, tellVars, chokeVars, inbox, read_buffers, readVars, crashed, asked>>

\* push_back and unlock
PushBuffer(p) ==
    /\ ~crashed
    /\ p \in Peers /\ at[p] = "change"
    /\ read_buffers' = seen \cup {hand[p]}
    /\ read_mutex' = Nothing /\ seen' = {}
    /\ Goto(p, "submit", hand[p])
    /\ UNCHANGED <<listVars, tellVars, chokeVars, inbox, readVars, crashed, asked>>

\* find, erase and unlock, on the strand.  erase(end()) would be undefined.
EraseBuffer ==
    /\ ~crashed
    /\ at["strand"] = "change"
    /\ read_buffers' = seen \ {hand["strand"]}
    /\ crashed' = (hand["strand"] \notin seen)
    /\ read_mutex' = Nothing /\ seen' = {}
    /\ Goto("strand", "idle", Nothing)
    /\ UNCHANGED <<listVars, tellVars, chokeVars, inbox, readVars, asked>>

-----------------------------------------------------------------------------
(* The read, and the answer.                                                *)

\* async_read_at; message_handler returns.
SubmitRead(p) ==
    /\ ~crashed
    /\ p \in Peers /\ at[p] = "submit"
    /\ reading' = reading \cup {hand[p]}
    /\ Goto(p, "idle", Nothing)
    /\ UNCHANGED <<listVars, tellVars, chokeVars, inbox, bufferVars, read, answers, crashed, asked>>

\* An error leaves the zeroes of the new vector in the buffer and is ignored.
ReadDone(r) ==
    /\ ~crashed
    /\ r \in reading
    /\ reading' = reading \ {r}
    /\ read' = read \cup {r}
    /\ UNCHANGED <<listVars, at, hand, tellVars, chokeVars, inbox, bufferVars, answers,
                   crashed, asked>>

\* The handler on the strand, up to the lock: send_block.  piece_index and
\* block_offset were captured by reference and are gone: any label may be read.
AnswerRequest(r) ==
    /\ MayRun("strand") /\ r \in read
    /\ \E i \in Pieces : answers' = [answers EXCEPT ![r] = Append(@, i)]
    /\ read' = read \ {r}
    /\ Goto("strand", "lock", r)
    /\ UNCHANGED <<listVars, tellVars, chokeVars, inbox, bufferVars, reading, crashed, asked>>

-----------------------------------------------------------------------------
Running ==
    \/ \E a \in Activities : PushPeer(a) \/ PushRace(a) \/ LockBuffers(a)
    \/ \E p \in Peers : PushBuffer(p) \/ SubmitRead(p)
    \/ \E r \in Requests : ReceiveRequest(r) \/ AnswerRequest(r)
    \/ Tell \/ Told \/ EraseBuffer

Kernel == \E r \in Requests : ReadDone(r)

Environment ==
    \/ \E p \in Peers : AddPeer(p) \/ AcceptPeer(p) \/ Connected(p) \/ ConnectFails(p)
                          \/ Break(p) \/ SetChoked(p)
    \/ AcceptFails \/ AcceptThrows
    \/ \E i \in Pieces : PieceComplete(i)
    \/ \E r \in Requests : Ask(r)

Next == Running \/ Kernel \/ Environment

Spec == Init /\ [][Next]_vars

\* A handler that has begun goes on, one that is queued gets a thread, a read ends.
FairSpec ==
    /\ Spec
    /\ \A a \in Activities :
         WF_vars(PushPeer(a) \/ LockBuffers(a) \/ PushBuffer(a) \/ SubmitRead(a))
    /\ \A r \in Requests : WF_vars(ReceiveRequest(r)) /\ WF_vars(AnswerRequest(r))
    /\ WF_vars(Tell \/ Told \/ EraseBuffer)
    /\ WF_vars(Kernel)

-----------------------------------------------------------------------------
(* Properties.                                                              *)

\* The requests a handler or a read is using the buffer of.
InUse == reading \cup read
         \cup {r \in Requests : \/ \E p \in Peers : at[p] = "submit" /\ hand[p] = r
                                \/ at["strand"] = "lock" /\ hand["strand"] = r}

\* read_buffers keeps the buffer of every read, and nothing else, from before the
\* read is submitted until its handler is through, on any number of threads; erase
\* never meets a buffer that is not there.
BuffersOwned == read_mutex = Nothing => read_buffers = InUse

\* Once piece_complete is through, every peer that was in the list when it began
\* has got exactly one HAVE of the piece; one that came later gets none.
EveryPeerTold ==
    \A k \in DOMAIN peers : \A i \in Pieces :
        (at["strand"] = "tell" => hand["strand"] # i) =>
            haves[peers[k]][i] = (IF i \in verified \ since[peers[k]] THEN 1 ELSE 0)

\* A REQUEST is answered with one PIECE in the end, whatever the choker does
\* meanwhile, unless its connection breaks or the program ends.
RequestsAnswered ==
    \A r \in Requests :
        r \in asked ~> [](Len(answers[r]) = 1 \/ crashed \/ link[Asker[r]] = "broken")

=============================================================================
