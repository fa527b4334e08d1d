----------------------------- MODULE UdpTracker -----------------------------
(***************************************************************************)
(* UdpTracker with its RequestQueue and RetryTimer (udp_tracker.cpp,       *)
(* udp_tracker.h): connect and announce requests to the tracker over UDP,  *)
(* one outstanding at a time, retransmitted until an answer comes.         *)
(*                                                                         *)
(* The handlers of the sends and of the timers run on the strand, one at a *)
(* time; the handler of the receive is not bound to it and runs beside     *)
(* them when there is another thread.  Time is abstracted: a timer that    *)
(* waits may expire at any moment.                                         *)
(***************************************************************************)
EXTENDS Naturals, FiniteSets

CONSTANTS
    Tids,         \* transaction ids
    None,         \* no request
    Receivers,    \* activations of the receive handler
    NumThreads,   \* threads that run the io_context
    MaxSending,   \* bound: with so many sends under way no timer's handler runs
    MaxNet        \* bound: datagrams under way

Kinds  == {"connect", "announce"}
Timers == Kinds \cup {"retry"}

ASSUME TrackerAssumption ==
    /\ None \notin Tids
    /\ \E s, t \in Tids : s # t
    /\ NumThreads \in Nat \ {0} /\ MaxSending \in Nat \ {0} /\ MaxNet \in Nat \ {0}

VARIABLES
    queue,        \* req_queue: per kind the id of its request, or None
    cur,          \* cur_req
    reqSent,      \* req_sent
    connection,   \* connection_id: the "magic" one or one "assigned"
    stopped,      \* RetryTimer::stopped
    armed, due,   \* the timers that wait; those whose handler is queued
    sending,      \* async_send_to whose handler has not run
    receiving,    \* an async_receive_from is posted
    net,          \* datagrams under way, in both directions
    strand,       \* place in the handler on the strand
    rx, got,      \* per activation of the receive handler: place, reply
    failure,      \* what ended the program: "none", "empty queue", "null request"
    refused,      \* history: the last connect answered was answered with an error
    crossed       \* history: an answer overtook the handler of a retransmission

vars == <<queue, cur, reqSent, connection, stopped, armed, due, sending, receiving, net,
          strand, rx, got, failure, refused, crossed>>

Requests == [kind : Kinds, tid : Tids, connection : {"magic", "assigned"}]
Replies  == [answer : Kinds \cup {"error"}, tid : Tids]
NoReply   == [answer |-> "error", tid |-> None]
NoRequest == [kind |-> "connect", tid |-> None]
IsReply(d) == "answer" \in DOMAIN d

TypeOK ==
    /\ queue \in [Kinds -> Tids \cup {None}]
    /\ cur \in [kind : Kinds, tid : Tids] \cup {NoRequest}
    /\ {reqSent, stopped, receiving, refused, crossed} \subseteq BOOLEAN
    /\ connection \in {"magic", "assigned"}
    /\ armed \subseteq Timers /\ due \subseteq Timers
    /\ sending \in Nat
    /\ net \subseteq Requests \cup Replies
    /\ strand \in {"idle", "posted", "inserted"}
    /\ rx \in [Receivers -> {"idle", "reading", "handled", "cleared"}]
    /\ failure \in {"none", "empty queue", "null request"}
    /\ got \in [Receivers -> Replies \cup {NoReply}]

Busy   == {r \in Receivers : rx[r] # "idle"}
Running    == failure = "none"
FreeThread == Running /\ Cardinality(Busy) + (IF strand = "idle" THEN 0 ELSE 1) < NumThreads
OnStrand == FreeThread /\ strand = "idle"
MayExpire == OnStrand /\ sending < MaxSending

\* The network with one more datagram: when it is full an older one is lost.
Carried(d) ==
    IF d \in net \/ Cardinality(net) < MaxNet
    THEN {net \cup {d}}
    ELSE {(net \ {e}) \cup {d} : e \in net}

-----------------------------------------------------------------------------
(* RequestQueue and send_request.                                           *)

Empty == \A k \in Kinds : queue[k] = None

TopAnnounceFirst == IF queue["announce"] # None THEN "announce" ELSE "connect"

Top == IF queue["connect"] # None THEN "connect" ELSE "announce"

\* top() throws on an empty queue.
SendRequest ==
    IF Empty
    THEN failure' = "empty queue" /\ UNCHANGED <<cur, sending, net>>
    ELSE /\ cur' = [kind |-> Top, tid |-> queue[Top]]
         /\ net' \in Carried([kind |-> Top, tid |-> queue[Top], connection |-> connection])
         /\ sending' = sending + 1
         /\ UNCHANGED failure

\* Random ids do not collide with those still in use.
InUse == {queue[k] : k \in Kinds} \cup {cur.tid} \cup {d.tid : d \in net} \cup {got[r].tid : r \in Busy}

\* run() has inserted both requests and sent the connect.
Init ==
    \E s, t \in Tids :
        /\ s # t
        /\ queue = [k \in Kinds |-> IF k = "connect" THEN s ELSE t]
        /\ cur = [kind |-> "connect", tid |-> s]
        /\ net = {[kind |-> "connect", tid |-> s, connection |-> "magic"]}
        /\ sending = 1
        /\ reqSent = FALSE /\ connection = "magic" /\ stopped = TRUE
        /\ armed = {} /\ due = {}
        /\ receiving = FALSE
        /\ strand = "idle"
        /\ rx = [r \in Receivers |-> "idle"]
        /\ got = [r \in Receivers |-> NoReply]
        /\ failure = "none" /\ refused = FALSE /\ crossed = FALSE

-----------------------------------------------------------------------------
(* Handlers on the strand.                                                  *)

MayPost == ~reqSent

\* The handler of a send: the first one posts the receive, and then sets
\* req_sent and starts the retry timer.
SendHandler ==
    /\ OnStrand /\ sending > 0
    /\ sending' = sending - 1
    /\ IF MayPost
       THEN receiving' = TRUE /\ strand' = "posted" /\ crossed' = (crossed \/ cur.tid = None)
       ELSE UNCHANGED <<receiving, strand, crossed>>
    /\ UNCHANGED <<queue, cur, reqSent, connection, stopped, armed, due, net, rx, got, failure, refused>>

RetryStart ==
    /\ Running /\ strand = "posted"
    /\ reqSent' = TRUE
    /\ stopped' = FALSE /\ armed' = armed \cup {"retry"}
    /\ strand' = "idle"
    /\ UNCHANGED <<queue, cur, connection, due, sending, receiving, net, rx, got, failure, refused, crossed>>

Expire(t) ==
    /\ Running /\ t \in armed
    /\ armed' = armed \ {t} /\ due' = due \cup {t}
    /\ UNCHANGED <<queue, cur, reqSent, connection, stopped, sending, receiving, net,
                   strand, rx, got, failure, refused, crossed>>

RetryHandlerUnchecked ==
    /\ MayExpire /\ "retry" \in due
    /\ due' = due \ {"retry"}
    /\ SendRequest /\ armed' = armed \cup {"retry"}
    /\ UNCHANGED <<queue, reqSent, connection, stopped, receiving, strand, rx, got, refused, crossed>>

RetryHandlerOnce ==
    /\ MayExpire /\ "retry" \in due
    /\ due' = due \ {"retry"}
    /\ IF stopped
       THEN UNCHANGED <<cur, sending, net, failure>>
       ELSE SendRequest
    /\ UNCHANGED <<queue, reqSent, connection, stopped, armed, receiving, strand, rx, got, refused, crossed>>

\* RetryTimer::wait_handler: send again and wait again.
RetryHandler ==
    /\ MayExpire /\ "retry" \in due
    /\ due' = due \ {"retry"}
    /\ IF stopped
       THEN UNCHANGED <<cur, sending, net, failure, armed>>
       ELSE SendRequest /\ armed' = armed \cup {"retry"}
    /\ UNCHANGED <<queue, reqSent, connection, stopped, receiving, strand, rx, got, refused, crossed>>

\* schedule_request: a request is made and queued, and sent if none is
\* outstanding.  Making a connect request resets connection_id.
TimerHandler(k) ==
    /\ MayExpire /\ k \in due
    /\ due' = due \ {k}
    /\ \E t \in Tids \ InUse : queue' = [queue EXCEPT ![k] = t]
    /\ connection' = (IF k = "connect" THEN "magic" ELSE connection)
    /\ strand' = "inserted"
    /\ UNCHANGED <<cur, reqSent, stopped, armed, sending, receiving, net, rx, got, failure, refused, crossed>>

TimerSends ==
    /\ Running /\ strand = "inserted"
    /\ strand' = "idle"
    /\ IF reqSent
       THEN UNCHANGED <<cur, sending, net, failure>>
       ELSE SendRequest
    /\ UNCHANGED <<queue, reqSent, connection, stopped, armed, due, receiving, rx, got, refused, crossed>>

-----------------------------------------------------------------------------
(* The receive handler.                                                     *)

ReceiveTwice(r, d) ==
    /\ FreeThread /\ rx[r] = "idle"
    /\ receiving /\ UNCHANGED receiving
    /\ d \in net /\ IsReply(d)
    /\ net' \in {net, net \ {d}}
    /\ got' = [got EXCEPT ![r] = d]
    /\ rx' = [rx EXCEPT ![r] = "reading"]
    /\ stopped' = TRUE /\ armed' = armed \ {"retry"}
    /\ UNCHANGED <<queue, cur, reqSent, connection, due, sending, strand, failure, refused, crossed>>

Receive(r, d) ==
    /\ FreeThread /\ rx[r] = "idle"
    /\ receiving /\ receiving' = FALSE
    /\ d \in net /\ IsReply(d)
    /\ net' \in {net, net \ {d}}                 \* it may come again
    /\ got' = [got EXCEPT ![r] = d]
    /\ rx' = [rx EXCEPT ![r] = "reading"]
    /\ stopped' = TRUE /\ armed' = armed \ {"retry"}
    /\ UNCHANGED <<queue, cur, reqSent, connection, due, sending, strand, failure, refused, crossed>>

\* RequestQueue::remove finds cur_req unless a later request replaced it.
Removed == [k \in Kinds |-> IF queue[k] = cur.tid THEN None ELSE queue[k]]

ScheduledAnnounceOnly(answer) == IF answer = "error" THEN {"announce"} ELSE {answer}

Scheduled(answer) == IF answer = "error" THEN Kinds ELSE {answer}

\* handle_response: after the stale ones are told by their id, remove the
\* request and schedule the next one of its kind, after an error both kinds.
HandleResponse(r) ==
    /\ Running /\ rx[r] = "reading"
    /\ LET d == got[r] IN
       IF cur.tid = None
       THEN failure' = "null request" /\ UNCHANGED <<queue, connection, armed, refused>>
       ELSE /\ UNCHANGED failure
            /\ IF d.tid # cur.tid
               THEN UNCHANGED <<queue, connection, armed, refused>>
               ELSE /\ queue' = Removed
                    /\ connection' = (IF d.answer = "connect" THEN "assigned" ELSE connection)
                    /\ armed' = armed \cup Scheduled(d.answer)
                    /\ refused' = IF cur.kind = "connect" THEN d.answer = "error" ELSE refused
    /\ rx' = [rx EXCEPT ![r] = "handled"]
    /\ UNCHANGED <<cur, reqSent, stopped, due, sending, receiving, net, strand, got, crossed>>

Clear(r) ==
    /\ Running /\ rx[r] = "handled"
    /\ reqSent' = FALSE /\ cur' = NoRequest
    /\ rx' = [rx EXCEPT ![r] = "cleared"]
    /\ UNCHANGED <<queue, connection, stopped, armed, due, sending, receiving, net, strand, got, failure, refused, crossed>>

SendNext(r) ==
    /\ Running /\ rx[r] = "cleared"
    /\ rx' = [rx EXCEPT ![r] = "idle"]
    /\ got' = [got EXCEPT ![r] = NoReply]
    /\ IF Empty
       THEN UNCHANGED <<cur, sending, net, failure>>
       ELSE SendRequest
    /\ UNCHANGED <<queue, reqSent, connection, stopped, armed, due, receiving, strand, refused, crossed>>

-----------------------------------------------------------------------------
(* The network and the tracker.                                             *)

\* An announce needs a connection id the tracker gave out.
Answers(d) ==
    IF d.connection = "assigned" \/ d.kind = "connect"
    THEN {d.kind, "error"} ELSE {"error"}

Answer(d) ==
    /\ Running /\ d \in net /\ ~IsReply(d)
    /\ \E a \in Answers(d) : net' = (net \ {d}) \cup {[answer |-> a, tid |-> d.tid]}
    /\ UNCHANGED <<queue, cur, reqSent, connection, stopped, armed, due, sending, receiving,
                   strand, rx, got, failure, refused, crossed>>

Lose(d) ==
    /\ Running /\ d \in net
    /\ net' = net \ {d}
    /\ UNCHANGED <<queue, cur, reqSent, connection, stopped, armed, due, sending, receiving,
                   strand, rx, got, failure, refused, crossed>>

-----------------------------------------------------------------------------
Handlers ==
    \/ SendHandler \/ RetryStart \/ RetryHandler \/ TimerSends
    \/ \E k \in Kinds : TimerHandler(k)
    \/ \E r \in Receivers : HandleResponse(r) \/ Clear(r) \/ SendNext(r)

Next ==
    \/ Handlers
    \/ \E t \in Timers : Expire(t)
    \/ \E r \in Receivers, d \in net : Receive(r, d)
    \/ \E d \in net : Answer(d) \/ Lose(d)

Spec == Init /\ [][Next]_vars

\* Handlers run and timers expire; a connect request sent again and again is
\* answered in the end, and an answer to it that arrives again and again is
\* received.
FairSpec ==
    /\ Spec
    /\ WF_vars(Handlers)
    /\ \A t \in Timers : WF_vars(Expire(t))
    /\ SF_vars(\E d \in net : d.tid = cur.tid /\ ~IsReply(d) /\ d.kind = "connect" /\ Answer(d))
    /\ SF_vars(\E r \in Receivers, d \in net :
                 d.tid = cur.tid /\ cur.kind = "connect" /\ Receive(r, d))

-----------------------------------------------------------------------------
(* Properties.                                                              *)

\* RequestQueue::top throws "top on empty queue", which nobody catches:
\* send_request must be called with a request in the queue.
TopNotOnEmpty == failure # "empty queue"

\* On one thread that and a response that meets cur_req cleared have one cause
\* only: an answer handled between a retransmission and its send handler, which
\* then waits for a response nobody owes.  The retry timer, stopped while its
\* handler is queued, is none.
FailsOnlyWhenCrossed == ~Running => crossed

\* On one thread the chain of requests of each kind never breaks: one is
\* queued or its timer will queue it; and while requests are queued a handler
\* runs, a send is about to complete, or the retry timer and a posted receive
\* watch over the outstanding one.
ChainUnbroken ==
    /\ \A k \in Kinds :
         queue[k] # None \/ k \in armed \cup due
    /\ Running /\ ~Empty /\ strand = "idle" /\ Busy = {} =>
         \/ sending > 0
         \/ reqSent /\ receiving /\ "retry" \in armed \cup due

\* An announce carries an id the tracker assigned, although connection_id is
\* reset while other requests are outstanding; unless the tracker refused the
\* connect, after which the queued announce goes out with the magic id.
AnnounceIdentified ==
    [][\A d \in net' \ net :
         ~IsReply(d) /\ d.kind = "announce" => d.connection = "assigned" \/ refused]_vars

\* The response buffer has one user: no receive is posted into it while a
\* handler reads it, and no two handlers read it, on any number of threads.
ResponseBufferOwned ==
    LET readers == {r \in Receivers : rx[r] = "reading"}
    IN  Cardinality(readers) + (IF receiving THEN 1 ELSE 0) <= 1

\* On one thread every connect request is answered in the end, unless the
\* program fails: losses, duplicates and stale answers delay it, no more.
ConnectAnswered ==
    \A t \in Tids : queue["connect"] = t ~> queue["connect"] # t \/ ~Running

=============================================================================
