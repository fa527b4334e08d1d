--------------------------- MODULE PeerConnection ---------------------------
(***************************************************************************)
(* One connection to a peer (peer_connection.cpp): the handshake, the      *)
(* messages held back until it is through, the writes on the socket, the   *)
(* chain of reads and the keep-alive timer.                                *)
(*                                                                         *)
(* The handlers run on the NumThreads threads of the io_context.  Only the *)
(* completion handlers of the writes are serialised with each other, by    *)
(* send_strand; those of the reads, of the timer and the handlers of other *)
(* components that call send() run beside them.  A process of the model is *)
(* one of these activities; at[p] is the place inside the handler where    *)
(* other threads can come between.                                         *)
(*                                                                         *)
(* The bytes of a message are not modelled.  A message the socket buffer   *)
(* takes in two bites is written as a "part" and a "rest".                 *)
(***************************************************************************)
EXTENDS Naturals, Sequences, FiniteSets, SequencesExt

CONSTANTS
    Handshake,    \* the handshake
    Bitfield,     \* the BITFIELD that Peer's constructor sends
    Msgs,         \* other messages, sent by other handlers at any time
    KeepAlives,   \* the keep-alives: their number bounds the timer's firings
    Splittable,   \* the messages the socket may take in two bites
    Callers,      \* activities outside the connection that call send()
    NumThreads,   \* threads that run the io_context
    MaxFrames     \* bound: messages received from the remote peer

Messages == {Handshake, Bitfield} \cup Msgs \cup KeepAlives
Procs    == {"ctor", "strand", "reader", "timer"} \cup Callers

ASSUME ConnectionAssumption ==
    /\ Handshake \notin {Bitfield} \cup Msgs \cup KeepAlives
    /\ Bitfield \notin Msgs \cup KeepAlives
    /\ Msgs \cap KeepAlives = {}
    /\ Splittable \subseteq Messages
    /\ Callers \cap {"ctor", "strand", "reader", "timer"} = {}
    /\ NumThreads \in Nat \ {0}
    /\ MaxFrames \in Nat

VARIABLES
    outgoing,     \* which constructor: we connect, or we were connected to
    socket,       \* "connecting", "open" or "broken"
    crashed,      \* an exception or a null pointer ended the program
    sent,         \* handshake_state.sent
    recieved,     \* handshake_state.recieved
    pending,      \* pending_send_msgs
    writes,       \* the writes under way on the socket, in order
    strand,       \* completed writes whose handler waits for send_strand
    wire,         \* what the socket took, in order
    handshakeRead,\* the read of the handshake: "none", "waiting", "done", "failed"
    readers,      \* reads of a message under way, one per chain of recieve_message
    frames,       \* messages received
    armed,        \* keep_alive_timer waits
    due,          \* it expired and its handler is queued
    at, msg, cursor, \* per activity: place, message in hand, place in pending
    accepted,     \* history: the messages given to send(), in order
    completions   \* history: calls of handshake_complete

vars == <<outgoing, socket, crashed, sent, recieved, pending, writes, strand, wire,
          handshakeRead, readers, frames, armed, due, at, msg, cursor, accepted, completions>>

Chunks == [m : Messages, bite : {"whole", "part", "rest"}]
Whole(m) == [m |-> m, bite |-> "whole"]

TypeOK ==
    /\ outgoing \in BOOLEAN
    /\ socket \in {"connecting", "open", "broken"}
    /\ {crashed, sent, recieved, armed, due} \subseteq BOOLEAN
    /\ pending \in Seq(Messages \ {Handshake})
    /\ {writes, strand, wire} \subseteq Seq(Chunks)
    /\ handshakeRead \in {"none", "waiting", "done", "failed"}
    /\ readers \in 0 .. 2 /\ frames \in 0 .. MaxFrames
    /\ at \in [Procs -> {"idle", "construct", "start", "push", "test", "racing", "flush"}]
    /\ msg \in [Procs -> Messages]
    /\ cursor \in [Procs -> [next : Nat, end : Nat]]
    /\ accepted \in Seq(Messages \ {Handshake})
    /\ completions \in 0 .. 2

Busy        == {p \in Procs : at[p] # "idle"}
MayRun(p)   == ~crashed /\ at[p] = "idle" /\ Cardinality(Busy) < NumThreads
Goto(p, l)  == at' = [at EXCEPT ![p] = l]
Complete    == sent /\ recieved              \* HandshakeState::complete

Init ==
    /\ outgoing \in BOOLEAN
    /\ socket = (IF outgoing THEN "connecting" ELSE "open")
    /\ crashed = FALSE /\ sent = FALSE /\ recieved = FALSE
    /\ pending = <<>> /\ writes = <<>> /\ strand = <<>> /\ wire = <<>>
    /\ handshakeRead = "none" /\ readers = 0 /\ frames = 0
    /\ armed = TRUE /\ due = FALSE
    /\ at = [p \in Procs |-> IF p = "ctor" THEN "construct" ELSE "idle"]
    /\ msg = [p \in Procs |-> Bitfield]
    /\ cursor = [p \in Procs |-> [next |-> 1, end |-> 0]]
    /\ accepted = <<>> /\ completions = 0

Crash ==
    /\ crashed' = TRUE
    /\ UNCHANGED <<outgoing, socket, sent, recieved, pending, writes, strand, wire,
                   handshakeRead, readers, frames, armed, due, at, msg, cursor,
                   accepted, completions>>

-----------------------------------------------------------------------------
(* send().  The test of the handshake and the push_back are two steps.      *)

\* Where the activity goes once its message is sent or held back: Peer's
\* constructor returns to add_peer, or to accept_peer, which starts the peer.
AfterSend(p) == IF p = "ctor" /\ ~outgoing THEN "start" ELSE "idle"

MustWaitUnsent == ~sent
MustWait == ~Complete

Send(p, m) ==
    /\ accepted' = Append(accepted, m)
    /\ IF MustWait
       THEN /\ Goto(p, "push")
            /\ msg' = [msg EXCEPT ![p] = m]
            /\ UNCHANGED writes
       ELSE /\ writes' = Append(writes, Whole(m))
            /\ Goto(p, AfterSend(p))
            /\ UNCHANGED msg

PushFront(p) ==
    /\ ~crashed /\ at[p] = "push"
    /\ pending' = <<msg[p]>> \o pending
    /\ Goto(p, AfterSend(p))
    /\ UNCHANGED <<outgoing, socket, crashed, sent, recieved, writes, strand, wire, handshakeRead,
                   readers, frames, armed, due, msg, cursor, accepted, completions>>

Push(p) ==
    /\ ~crashed /\ at[p] = "push"
    /\ pending' = Append(pending, msg[p])
    /\ Goto(p, AfterSend(p))
    /\ UNCHANGED <<outgoing, socket, crashed, sent, recieved, writes, strand, wire, handshakeRead,
                   readers, frames, armed, due, msg, cursor, accepted, completions>>

\* push_back while another thread pushes or walks over the vector: besides
\* the outcome of Push the message may be lost, or a freed buffer be used.
PushRace(p) ==
    /\ ~crashed /\ at[p] = "push"
    /\ \E q \in Procs \ {p} : at[q] \in {"push", "flush"}
    /\ \/ Crash
       \/ /\ Goto(p, AfterSend(p))
          /\ UNCHANGED <<outgoing, socket, crashed, sent, recieved, pending, writes, strand,
                         wire, handshakeRead, readers, frames, armed, due, msg, cursor,
                         accepted, completions>>

\* Peer's constructor sends the BITFIELD; an outgoing connection was begun
\* just before, in PeerConnection's constructor.
Construct ==
    /\ ~crashed /\ at["ctor"] = "construct"
    /\ Send("ctor", Bitfield)
    /\ UNCHANGED <<outgoing, socket, crashed, sent, recieved, pending, strand, wire, handshakeRead,
                   readers, frames, armed, due, cursor, completions>>

\* HAVE, CHOKE, UNCHOKE, REQUEST, PIECE... from handlers of other components,
\* once the peer is in PeerHandler::peers.
CallerSends(p, m) ==
    /\ MayRun(p)
    /\ at["ctor"] \in {"idle", "start"}
    /\ m \in Msgs \ ToSet(accepted)
    /\ Send(p, m)
    /\ UNCHANGED <<outgoing, socket, crashed, sent, recieved, pending, strand, wire, handshakeRead,
                   readers, frames, armed, due, cursor, completions>>

-----------------------------------------------------------------------------
(* start(): send the handshake, which is never held back, and read one.     *)

Start ==
    /\ writes' = Append(writes, Whole(Handshake))
    /\ handshakeRead' = "waiting"
    /\ UNCHANGED <<outgoing, crashed, sent, recieved, pending, strand, wire,
                   readers, frames, armed, due, msg, cursor, accepted, completions>>

StartAccepted ==
    /\ ~crashed /\ at["ctor"] = "start"
    /\ Start
    /\ Goto("ctor", "idle")
    /\ UNCHANGED socket

\* The handler of async_connect runs on any free thread.
Connected ==
    /\ ~crashed /\ socket = "connecting" /\ Cardinality(Busy) < NumThreads
    /\ socket' = "open"
    /\ Start
    /\ UNCHANGED at

\* After connection_closed_handler the error path falls through to start(),
\* whose remote_endpoint() throws on a socket that is not connected.
ConnectFails ==
    /\ ~crashed /\ socket = "connecting" /\ Cardinality(Busy) < NumThreads
    /\ Crash

-----------------------------------------------------------------------------
(* The socket, and the completion handlers of the writes.                   *)

WriteDone ==
    /\ ~crashed /\ socket = "open" /\ writes # <<>>
    /\ wire' = Append(wire, Head(writes))
    /\ strand' = Append(strand, Head(writes))
    /\ writes' = Tail(writes)
    /\ UNCHANGED <<outgoing, socket, crashed, sent, recieved, pending, handshakeRead,
                   readers, frames, armed, due, at, msg, cursor, accepted, completions>>

\* async_write writes what the socket takes and continues from send_strand.
WritePart ==
    /\ ~crashed /\ socket = "open" /\ writes # <<>>
    /\ Head(writes).m \in Splittable /\ Head(writes).bite = "whole"
    /\ LET part == [m |-> Head(writes).m, bite |-> "part"]
       IN  /\ wire' = Append(wire, part)
           /\ strand' = Append(strand, part)
    /\ writes' = Tail(writes)
    /\ UNCHANGED <<outgoing, socket, crashed, sent, recieved, pending, handshakeRead,
                   readers, frames, armed, due, at, msg, cursor, accepted, completions>>

\* An unfinished write goes on behind those begun meanwhile.
ContinueWrite ==
    /\ MayRun("strand") /\ strand # <<>> /\ Head(strand).bite = "part"
    /\ writes' = Append(writes, [Head(strand) EXCEPT !.bite = "rest"])
    /\ strand' = Tail(strand)
    /\ UNCHANGED <<outgoing, socket, crashed, sent, recieved, pending, wire, handshakeRead,
                   readers, frames, armed, due, at, msg, cursor, accepted, completions>>

\* Both flags are plain bools: when the two handlers have each set theirs and
\* neither has tested yet, each may still read the other's old value.
GotoTest(p, q) ==
    at' = IF at[q] \in {"test", "racing"}
          THEN [at EXCEPT ![p] = "racing", ![q] = "racing"]
          ELSE [at EXCEPT ![p] = "test"]

SendHandlerUnarmed ==
    /\ MayRun("strand") /\ strand # <<>> /\ Head(strand).bite # "part"
    /\ strand' = Tail(strand)
    /\ armed' = (IF Head(strand).m = Handshake THEN TRUE ELSE armed)
    /\ IF Head(strand).m = Handshake
       THEN /\ sent' = TRUE
            /\ GotoTest("strand", "reader")
       ELSE UNCHANGED <<sent, at>>
    /\ UNCHANGED <<outgoing, socket, crashed, recieved, pending, writes, wire, handshakeRead,
                   readers, frames, due, msg, cursor, accepted, completions>>

SendHandler ==
    /\ MayRun("strand") /\ strand # <<>> /\ Head(strand).bite # "part"
    /\ strand' = Tail(strand)
    /\ armed' = TRUE                                  \* keep_alive_timer.reset
    /\ IF Head(strand).m = Handshake
       THEN /\ sent' = TRUE
            /\ GotoTest("strand", "reader")
       ELSE UNCHANGED <<sent, at>>
    /\ UNCHANGED <<outgoing, socket, crashed, recieved, pending, writes, wire, handshakeRead,
                   readers, frames, due, msg, cursor, accepted, completions>>

-----------------------------------------------------------------------------
(* The handshake of the remote peer, and handshake_complete.                *)

RecvHandshake ==
    /\ MayRun("reader") /\ socket = "open" /\ handshakeRead = "waiting"
    /\ handshakeRead' = "done"
    /\ recieved' = TRUE
    /\ GotoTest("reader", "strand")
    /\ UNCHANGED <<outgoing, socket, crashed, sent, pending, writes, strand, wire,
                   readers, frames, armed, due, msg, cursor, accepted, completions>>

\* Another info hash; or the length prefix, captured by reference from a
\* handler that has returned, no longer reads as it was.
RejectHandshake ==
    /\ MayRun("reader") /\ socket = "open" /\ handshakeRead = "waiting"
    /\ handshakeRead' = "failed"
    /\ UNCHANGED <<outgoing, socket, crashed, sent, recieved, pending, writes, strand, wire,
                   readers, frames, armed, due, at, msg, cursor, accepted, completions>>

TestedHalf(p)   == {p = "reader" \/ Complete}
TestedRarely(p) == {p = "strand" /\ Complete}

Tested(p) == IF at[p] = "racing" THEN BOOLEAN ELSE {Complete}

TestComplete(p) ==
    /\ ~crashed /\ at[p] \in {"test", "racing"}
    /\ \E complete \in Tested(p) :
         IF complete
         THEN /\ completions' = completions + 1
              /\ Goto(p, "flush")
              /\ cursor' = [cursor EXCEPT ![p] = [next |-> 1, end |-> Len(pending)]]
         ELSE /\ Goto(p, "idle")
              /\ UNCHANGED <<completions, cursor>>
    /\ UNCHANGED <<outgoing, socket, crashed, sent, recieved, pending, writes, strand, wire,
                   handshakeRead, readers, frames, armed, due, msg, accepted>>

\* One turn of the loop over pending_send_msgs, which is never cleared.
Flush(p) ==
    /\ ~crashed /\ at[p] = "flush" /\ cursor[p].next <= cursor[p].end
    /\ writes' = Append(writes, Whole(pending[cursor[p].next]))
    /\ cursor' = [cursor EXCEPT ![p].next = @ + 1]
    /\ UNCHANGED <<outgoing, socket, crashed, sent, recieved, pending, strand, wire, handshakeRead,
                   readers, frames, armed, due, at, msg, accepted, completions>>

BeginReading(p) ==
    /\ ~crashed /\ at[p] = "flush" /\ cursor[p].next > cursor[p].end
    /\ readers' = readers + 1
    /\ Goto(p, "idle")
    /\ UNCHANGED <<outgoing, socket, crashed, sent, recieved, pending, writes, strand, wire,
                   handshakeRead, frames, armed, due, msg, cursor, accepted, completions>>

-----------------------------------------------------------------------------
(* Messages of the remote peer.                                             *)

\* message_handler, which may answer, and the next recieve_message.
RecvMessage ==
    /\ MayRun("reader") /\ socket = "open" /\ readers = 1 /\ frames < MaxFrames
    /\ frames' = frames + 1
    /\ \/ UNCHANGED <<writes, accepted>>
       \/ \E m \in Msgs \ ToSet(accepted) :
            /\ writes' = Append(writes, Whole(m))
            /\ accepted' = Append(accepted, m)
    /\ UNCHANGED <<outgoing, socket, crashed, sent, recieved, pending, strand, wire, handshakeRead,
                   readers, armed, due, at, msg, cursor, completions>>

\* An id of no known message leaves a null pointer for message_handler.
RecvUnknown ==
    /\ MayRun("reader") /\ socket = "open" /\ readers >= 1 /\ frames < MaxFrames
    /\ Crash

\* Two chains of reads share the socket and recv_buffer: a frame is torn
\* apart, and its pieces read as a length or an id.
RecvTorn ==
    /\ MayRun("reader") /\ socket = "open" /\ readers = 2
    /\ \/ Crash
       \/ /\ readers' = readers - 1
          /\ UNCHANGED <<outgoing, socket, crashed, sent, recieved, pending, writes, strand, wire,
                         handshakeRead, frames, armed, due, at, msg, cursor, accepted, completions>>

-----------------------------------------------------------------------------
(* Failure of the connection: every handler just returns.                   *)

Break ==
    /\ ~crashed /\ socket = "open"
    /\ socket' = "broken"
    /\ UNCHANGED <<outgoing, crashed, sent, recieved, pending, writes, strand, wire, handshakeRead,
                   readers, frames, armed, due, at, msg, cursor, accepted, completions>>

WriteFails ==
    /\ MayRun("strand") /\ socket = "broken" /\ writes # <<>>
    /\ writes' = Tail(writes)
    /\ UNCHANGED <<outgoing, socket, crashed, sent, recieved, pending, strand, wire, handshakeRead,
                   readers, frames, armed, due, at, msg, cursor, accepted, completions>>

ReadFails ==
    /\ MayRun("reader") /\ socket = "broken"
    /\ \/ /\ handshakeRead = "waiting" /\ handshakeRead' = "failed" /\ UNCHANGED readers
       \/ /\ readers > 0 /\ readers' = readers - 1 /\ UNCHANGED handshakeRead
    /\ UNCHANGED <<outgoing, socket, crashed, sent, recieved, pending, writes, strand, wire,
                   frames, armed, due, at, msg, cursor, accepted, completions>>

-----------------------------------------------------------------------------
(* The keep-alive timer, armed again only by a successful write.            *)

TimerExpires ==
    /\ ~crashed /\ armed /\ KeepAlives \ ToSet(accepted) # {}
    /\ armed' = FALSE /\ due' = TRUE
    /\ UNCHANGED <<outgoing, socket, crashed, sent, recieved, pending, writes, strand, wire,
                   handshakeRead, readers, frames, at, msg, cursor, accepted, completions>>

KeepAlive ==
    /\ MayRun("timer") /\ due
    /\ due' = FALSE
    /\ \E m \in KeepAlives \ ToSet(accepted) : Send("timer", m)
    /\ UNCHANGED <<outgoing, socket, crashed, sent, recieved, pending, strand, wire, handshakeRead,
                   readers, frames, armed, cursor, completions>>

-----------------------------------------------------------------------------
Handlers ==
    \/ Construct \/ StartAccepted \/ Connected
    \/ ContinueWrite \/ SendHandler \/ WriteFails
    \/ \E p \in Procs : Push(p) \/ PushRace(p) \/ TestComplete(p) \/ Flush(p) \/ BeginReading(p)
    \/ ReadFails \/ KeepAlive

Environment ==
    \/ ConnectFails \/ WritePart \/ Break
    \/ RecvHandshake \/ RejectHandshake \/ RecvMessage \/ RecvUnknown \/ RecvTorn
    \/ TimerExpires
    \/ \E p \in Callers, m \in Msgs : CallerSends(p, m)

Next == Handlers \/ WriteDone \/ Environment

Spec == Init /\ [][Next]_vars

\* Queued handlers run, and an open socket takes what is written to it.
FairSpec == Spec /\ WF_vars(Handlers) /\ WF_vars(WriteDone)

-----------------------------------------------------------------------------
(* Properties.                                                              *)

Written(m) == \E i \in DOMAIN wire : wire[i].m = m /\ wire[i].bite # "part"

\* Nothing but the handshake is on its way before ours is written to the last
\* byte and the remote's is checked (HandshakeState::complete guards send()),
\* whatever the threads do.
HandshakeFirst ==
    /\ \A c \in ToSet(writes) : c.m # Handshake => recieved /\ Written(Handshake)
    /\ \A i \in DOMAIN wire : wire[i].m # Handshake =>
         recieved /\ \E j \in 1 .. i - 1 : wire[j].m = Handshake /\ wire[j].bite # "part"

\* On one thread, once the connection is up its keep-alive is never forgotten
\* although only the completion of a write arms the timer: unless a handler or
\* a write is under way, the timer runs.
KeepAliveNotForgotten ==
    socket = "open" /\ ~crashed /\ completions > 0 =>
        armed \/ due \/ Busy # {} \/ writes # <<>> \/ strand # <<>>

\* Where message m is: held back and not yet flushed, being written, continued
\* from the strand, or written.
HeldBack(m) ==
    Cardinality({i \in DOMAIN pending :
        /\ pending[i] = m
        /\ \/ completions = 0
           \/ \E p \in Procs : at[p] = "flush" /\ i \in cursor[p].next .. cursor[p].end})
OnItsWay(m) == Cardinality({i \in DOMAIN writes : writes[i].m = m})
             + Cardinality({i \in DOMAIN strand : strand[i].m = m /\ strand[i].bite = "part"})
             + Cardinality({i \in DOMAIN wire   : wire[i].m = m /\ wire[i].bite # "part"})
InHand(m)   == Cardinality({p \in Procs : at[p] = "push" /\ msg[p] = m})

\* On one thread every message given to send() is in exactly one place: the
\* held-back queue and its flush lose none and send none twice.
SentOnce ==
    socket # "broken" =>
        \A m \in ToSet(accepted) : HeldBack(m) + InHand(m) + OnItsWay(m) = 1

\* On one thread messages start out in the order of the calls of send(), so
\* the BITFIELD comes before anything else although later messages overtake
\* no earlier one that was held back.
SendOrder ==
    LET line == wire \o (IF socket = "broken" THEN <<>> ELSE writes)
        begun == {i \in DOMAIN line : line[i].bite # "rest" /\ line[i].m # Handshake}
    IN  \A i \in begun :
            LET n == Cardinality({j \in begun : j <= i})
            IN  n <= Len(accepted) /\ line[i].m = accepted[n]

\* On one thread a single chain of reads owns recv_buffer, and the handshake
\* completes once.
OneReader == readers <= 1 /\ completions <= 1

\* On one thread, once the remote's handshake was accepted everything given to
\* send() is written, unless the connection or the program fails: neither
\* order of the two halves of the handshake leaves the queue unflushed.
Delivered ==
    \A m \in Messages \ {Handshake} :
        (recieved /\ m \in ToSet(accepted)) ~> (Written(m) \/ socket = "broken" \/ crashed)

=============================================================================
