-------------------------- MODULE UdpTrackerProofs --------------------------
(***************************************************************************)
(* UdpTracker for any number of receive handlers, transaction ids and      *)
(* datagrams.  On any number of threads: its types, the one user of the    *)
(* response buffer, what a transaction id belongs to, the chain of         *)
(* requests and the connection id of an announce.  On one thread: who      *)
(* watches over the queue, and what alone can end the program.             *)
(***************************************************************************)
EXTENDS UdpTracker, FiniteSetTheorems, TLAPS

\* A request that the queue holds is made of its kind and a transaction id.
LEMMA TopRequest ==
    ASSUME queue \in [Kinds -> Tids \cup {None}], ~Empty, connection \in {"magic", "assigned"}
    PROVE  /\ Top \in Kinds /\ queue[Top] \in Tids
           /\ [kind |-> Top, tid |-> queue[Top]] \in [kind : Kinds, tid : Tids]
           /\ [kind |-> Top, tid |-> queue[Top], connection |-> connection] \in Requests
<1>1. Top \in Kinds /\ queue[Top] # None
  BY DEF Top, Kinds, Empty
<1>2. queue[Top] \in Tids
  BY <1>1
<1>. QED
  BY <1>1, <1>2 DEF Requests

\* send_request keeps the types, whether or not the queue is empty.
LEMMA SendRequestType ==
    ASSUME TypeOK, SendRequest
    PROVE  /\ cur' \in [kind : Kinds, tid : Tids] \cup {NoRequest}
           /\ sending' \in Nat
           /\ net' \subseteq Requests \cup Replies
           /\ failure' \in {"none", "empty queue", "null request"}
<1>1. CASE Empty
  BY <1>1 DEF SendRequest, TypeOK
<1>2. CASE ~Empty
  <2> DEFINE d == [kind |-> Top, tid |-> queue[Top], connection |-> connection]
  <2>1. d \in Requests /\ [kind |-> Top, tid |-> queue[Top]] \in [kind : Kinds, tid : Tids]
    BY <1>2, TopRequest DEF TypeOK
  <2>2. net' \in Carried(d) /\ sending' = sending + 1 /\ UNCHANGED failure
        /\ cur' = [kind |-> Top, tid |-> queue[Top]]
    BY <1>2 DEF SendRequest
  <2>3. net' \subseteq net \cup {d}
    <3>1. CASE d \in net \/ Cardinality(net) < MaxNet
      BY <2>2, <3>1 DEF Carried
    <3>2. CASE ~(d \in net \/ Cardinality(net) < MaxNet)
      BY <2>2, <3>2 DEF Carried
    <3>. QED
      BY <3>1, <3>2
  <2>4. d \in Requests \cup Replies
    BY <2>1
  <2>5. net' \subseteq Requests \cup Replies
    BY <2>3, <2>4 DEF TypeOK
  <2>6. failure' \in {"none", "empty queue", "null request"}
    BY <2>2 DEF TypeOK
  <2>8. sending' \in Nat
    <3>1. sending \in Nat
      BY DEF TypeOK
    <3>. QED
      BY <2>2, <3>1
  <2>7. cur' \in [kind : Kinds, tid : Tids]
    BY <2>1, <2>2
  <2>. QED
    BY <2>5, <2>6, <2>7, <2>8
<1>. QED
  BY <1>1, <1>2

\* The members of UdpTracker, its queue, its timers and the activations of its
\* handlers only ever hold what they are meant for: a cur_req is a request that
\* was queued or none, and a buffer holds a datagram of the tracker.
THEOREM TypeCorrect == Spec => []TypeOK
<1>1. Init => TypeOK
  <2> SUFFICES ASSUME Init PROVE TypeOK
    OBVIOUS
  <2>1. PICK s \in Tids, t \in Tids :
          /\ queue = [k \in Kinds |-> IF k = "connect" THEN s ELSE t]
          /\ cur = [kind |-> "connect", tid |-> s]
          /\ net = {[kind |-> "connect", tid |-> s, connection |-> "magic"]}
    BY DEF Init
  <2>2. queue \in [Kinds -> Tids \cup {None}] /\ cur \in [kind : Kinds, tid : Tids]
        /\ net \subseteq Requests
    BY <2>1 DEF Kinds, Requests
  <2>3. rx \in [Receivers -> {"idle", "reading", "handled", "cleared"}]
        /\ got \in [Receivers -> Replies \cup {NoReply}]
    BY DEF Init
  <2>4. {reqSent, stopped, receiving, refused, crossed} \subseteq BOOLEAN /\ armed \subseteq Timers /\ due \subseteq Timers
    BY DEF Init
  <2>5. connection \in {"magic", "assigned"} /\ sending \in Nat /\ strand \in {"idle", "posted", "inserted"}
        /\ failure \in {"none", "empty queue", "null request"}
    BY DEF Init
  <2>. QED
    BY <2>2, <2>3, <2>4, <2>5 DEF TypeOK
<1>2. TypeOK /\ [Next]_vars => TypeOK'
  <2> SUFFICES ASSUME TypeOK, [Next]_vars PROVE TypeOK'
    OBVIOUS
  <2>1. CASE SendHandler
    <3>1. sending' \in Nat /\ strand' \in {"idle", "posted", "inserted"}
      <4>1. sending > 0 /\ sending' = sending - 1 /\ sending \in Nat
        BY <2>1 DEF SendHandler, TypeOK
      <4>2. sending' \in Nat
        BY <4>1
      <4>3. strand' \in {"idle", "posted", "inserted"}
        BY <2>1 DEF SendHandler, TypeOK
      <4>. QED
        BY <4>2, <4>3
    <3>2. receiving' \in BOOLEAN
      <4>1. receiving' = TRUE \/ receiving' = receiving
        BY <2>1 DEF SendHandler
      <4>. QED
        BY <4>1 DEF TypeOK
    <3>3. crossed' \in BOOLEAN
      <4>1. crossed \in BOOLEAN
        BY DEF TypeOK
      <4>2. crossed' = crossed \/ crossed' = (crossed \/ cur.tid = None)
        BY <2>1 DEF SendHandler
      <4>. QED
        BY <4>1, <4>2
    <3>4. {reqSent, stopped, receiving, refused, crossed}' \subseteq BOOLEAN
      BY <2>1, <3>2, <3>3 DEF SendHandler, TypeOK
    <3>. QED
      BY <2>1, <3>1, <3>4 DEF SendHandler, TypeOK
  <2>2. CASE RetryStart
    BY <2>2 DEF RetryStart, TypeOK, Timers
  <2>3. CASE RetryHandler
    <3>1. due' \subseteq Timers /\ armed' \subseteq Timers
      BY <2>3 DEF RetryHandler, TypeOK, Timers
    <3>2. CASE stopped
      BY <2>3, <3>1, <3>2 DEF RetryHandler, TypeOK
    <3>3. CASE ~stopped
      <4>1. SendRequest
        BY <2>3, <3>3 DEF RetryHandler
      <4>. QED
        BY <2>3, <3>1, <4>1, SendRequestType DEF RetryHandler, TypeOK
    <3>. QED
      BY <3>2, <3>3
  <2>4. CASE TimerSends
    <3>1. CASE reqSent
      BY <2>4, <3>1 DEF TimerSends, TypeOK
    <3>2. CASE ~reqSent
      <4>1. SendRequest
        BY <2>4, <3>2 DEF TimerSends
      <4>. QED
        BY <2>4, <4>1, SendRequestType DEF TimerSends, TypeOK
    <3>. QED
      BY <3>1, <3>2
  <2>5. ASSUME NEW k \in Kinds, TimerHandler(k) PROVE TypeOK'
    <3>1. PICK t \in Tids : queue' = [queue EXCEPT ![k] = t]
      BY <2>5 DEF TimerHandler
    <3>2. queue' \in [Kinds -> Tids \cup {None}]
      BY <3>1 DEF TypeOK
    <3>. QED
      BY <2>5, <3>2 DEF TimerHandler, TypeOK
  <2>6. ASSUME NEW r \in Receivers, HandleResponse(r) PROVE TypeOK'
    <3>1. queue' \in [Kinds -> Tids \cup {None}]
      BY <2>6 DEF HandleResponse, TypeOK, Removed
    <3>2. got[r] \in Replies \cup {NoReply}
      BY DEF TypeOK
    <3>3. Scheduled(got[r].answer) \subseteq Timers
      BY <3>2 DEF Scheduled, Timers, Replies, NoReply
    <3>4. armed' \subseteq Timers
      BY <2>6, <3>3 DEF HandleResponse, TypeOK
    <3>5. connection' \in {"magic", "assigned"} /\ refused' \in BOOLEAN
          /\ failure' \in {"none", "empty queue", "null request"}
      BY <2>6 DEF HandleResponse, TypeOK
    <3>6. rx' \in [Receivers -> {"idle", "reading", "handled", "cleared"}]
      BY <2>6 DEF HandleResponse, TypeOK
    <3>. QED
      BY <2>6, <3>1, <3>4, <3>5, <3>6 DEF HandleResponse, TypeOK
  <2>7. ASSUME NEW r \in Receivers, Clear(r) PROVE TypeOK'
    BY <2>7 DEF Clear, TypeOK
  <2>8. ASSUME NEW r \in Receivers, SendNext(r) PROVE TypeOK'
    <3>1. rx' \in [Receivers -> {"idle", "reading", "handled", "cleared"}]
          /\ got' \in [Receivers -> Replies \cup {NoReply}]
      BY <2>8 DEF SendNext, TypeOK
    <3>2. CASE Empty
      BY <2>8, <3>1, <3>2 DEF SendNext, TypeOK
    <3>3. CASE ~Empty
      <4>1. SendRequest
        BY <2>8, <3>3 DEF SendNext
      <4>. QED
        BY <2>8, <3>1, <4>1, SendRequestType DEF SendNext, TypeOK
    <3>. QED
      BY <3>2, <3>3
  <2>9. ASSUME NEW t \in Timers, Expire(t) PROVE TypeOK'
    BY <2>9 DEF Expire, TypeOK
  <2>10. ASSUME NEW r \in Receivers, NEW d \in net, Receive(r, d) PROVE TypeOK'
    <3>1. d \in Replies
      <4>1. d \in Requests => DOMAIN d = {"kind", "tid", "connection"}
        BY DEF Requests
      <4>2. d \in Requests \cup Replies
        BY DEF TypeOK
      <4>3. "answer" \in DOMAIN d
        BY <2>10 DEF Receive, IsReply
      <4>. QED
        BY <4>1, <4>2, <4>3
    <3>2. net' \subseteq net
      BY <2>10 DEF Receive
    <3>. QED
      BY <2>10, <3>1, <3>2 DEF Receive, TypeOK
  <2>11. ASSUME NEW d \in net, Answer(d) PROVE TypeOK'
    <3>1. d \in Requests
      BY <2>11 DEF Answer, TypeOK, Replies, IsReply
    <3>2. PICK a \in Answers(d) : net' = (net \ {d}) \cup {[answer |-> a, tid |-> d.tid]}
      BY <2>11 DEF Answer
    <3>3. a \in Kinds \cup {"error"} /\ d.tid \in Tids
      BY <3>1 DEF Answers, Requests
    <3>4. [answer |-> a, tid |-> d.tid] \in Replies
      BY <3>3 DEF Replies
    <3>5. net' \subseteq Requests \cup Replies
      BY <3>2, <3>4 DEF TypeOK
    <3>. QED
      BY <2>11, <3>5 DEF Answer, TypeOK
  <2>12. ASSUME NEW d \in net, Lose(d) PROVE TypeOK'
    BY <2>12 DEF Lose, TypeOK
  <2>13. CASE UNCHANGED vars
    BY <2>13 DEF vars, TypeOK
  <2>. QED
    BY <2>1, <2>2, <2>3, <2>4, <2>5, <2>6, <2>7, <2>8, <2>9, <2>10, <2>11, <2>12, <2>13
       DEF Next, Handlers
<1>. QED
  BY <1>1, <1>2, PTL DEF Spec

-----------------------------------------------------------------------------
(* The response buffer.                                                     *)

\* rx[r] from the arrival of a response to the moment req_sent is cleared
Reading(r) == rx[r] \in {"reading", "handled"}

\* What keeps ResponseBufferOwned: a receive is posted only when req_sent is
\* clear, and until the handler of the receive clears it again it is set, or
\* about to be set on the strand.  That handler may run on another thread.
BufferInv ==
    /\ rx \in [Receivers -> {"idle", "reading", "handled", "cleared"}]
    /\ strand \in {"idle", "posted", "inserted"}
    /\ receiving => \A r \in Receivers : ~Reading(r)
    /\ \A r, s \in Receivers : Reading(r) /\ Reading(s) => r = s
    /\ receiving \/ (\E r \in Receivers : Reading(r)) => reqSent \/ strand = "posted"

\* At most one handler reads, and none while a receive is posted.
LEMMA BufferInvOwned == BufferInv => ResponseBufferOwned
<1>. SUFFICES ASSUME BufferInv PROVE ResponseBufferOwned
  OBVIOUS
<1>. DEFINE readers == {r \in Receivers : rx[r] = "reading"}
<1>1. CASE readers = {}
  <2>1. Cardinality(readers) = 0
    BY <1>1, FS_EmptySet
  <2>. QED
    BY <2>1 DEF ResponseBufferOwned
<1>2. CASE readers # {}
  <2>1. PICK r \in Receivers : rx[r] = "reading"
    BY <1>2
  <2>2. readers = {r}
    BY <2>1 DEF BufferInv, Reading
  <2>3. Cardinality(readers) = 1
    BY <2>2, FS_Singleton
  <2>4. ~receiving
    BY <2>1 DEF BufferInv, Reading
  <2>. QED
    BY <2>3, <2>4 DEF ResponseBufferOwned
<1>. QED
  BY <1>1, <1>2

\* On any number of threads, no receive is posted into the response buffer
\* while a handler reads it, and no two handlers read it at once.
THEOREM BufferOwned == Spec => []ResponseBufferOwned
<1>1. Init => BufferInv
  BY DEF Init, BufferInv, Reading
<1>2. BufferInv /\ [Next]_vars => BufferInv'
  <2> SUFFICES ASSUME BufferInv, [Next]_vars PROVE BufferInv'
    OBVIOUS
  <2>. USE DEF Reading
  <2>1. CASE SendHandler
    <3>1. CASE MayPost
      BY <2>1, <3>1 DEF SendHandler, MayPost, OnStrand, BufferInv
    <3>2. CASE ~MayPost
      BY <2>1, <3>2 DEF SendHandler, BufferInv
    <3>. QED
      BY <3>1, <3>2
  <2>2. CASE RetryStart
    BY <2>2 DEF RetryStart, BufferInv
  <2>3. CASE RetryHandler
    BY <2>3 DEF RetryHandler, BufferInv
  <2>4. CASE TimerSends
    BY <2>4 DEF TimerSends, BufferInv
  <2>5. ASSUME NEW k \in Kinds, TimerHandler(k) PROVE BufferInv'
    BY <2>5 DEF TimerHandler, MayExpire, OnStrand, BufferInv
  <2>6. ASSUME NEW r \in Receivers, HandleResponse(r) PROVE BufferInv'
    BY <2>6 DEF HandleResponse, BufferInv
  <2>7. ASSUME NEW r \in Receivers, Clear(r) PROVE BufferInv'
    BY <2>7 DEF Clear, BufferInv
  <2>8. ASSUME NEW r \in Receivers, SendNext(r) PROVE BufferInv'
    BY <2>8 DEF SendNext, BufferInv
  <2>9. ASSUME NEW t \in Timers, Expire(t) PROVE BufferInv'
    BY <2>9 DEF Expire, BufferInv
  <2>10. ASSUME NEW r \in Receivers, NEW d \in net, Receive(r, d) PROVE BufferInv'
    BY <2>10 DEF Receive, BufferInv
  <2>11. ASSUME NEW d \in net, Answer(d) PROVE BufferInv'
    BY <2>11 DEF Answer, BufferInv
  <2>12. ASSUME NEW d \in net, Lose(d) PROVE BufferInv'
    BY <2>12 DEF Lose, BufferInv
  <2>13. CASE UNCHANGED vars
    BY <2>13 DEF vars, BufferInv
  <2>. QED
    BY <2>1, <2>2, <2>3, <2>4, <2>5, <2>6, <2>7, <2>8, <2>9, <2>10, <2>11, <2>12, <2>13
       DEF Next, Handlers
<1>. QED
  BY <1>1, <1>2, BufferInvOwned, PTL DEF Spec

-----------------------------------------------------------------------------
(* Transaction ids.                                                         *)

\* A datagram is a request of kind k, or an answer a request of kind k may get.
Fits(d, k) == IF IsReply(d) THEN d.answer \in {k, "error"} ELSE d.kind = k

\* A transaction id belongs to one request: whatever bears the id of a queued
\* request, or that of cur_req, is of its kind.
IdInv ==
    /\ queue["connect"] = queue["announce"] => queue["connect"] = None
    /\ \A r \in Receivers : rx[r] = "idle" => got[r] = NoReply
    /\ \A k \in Kinds : cur.tid = queue[k] /\ cur.tid # None => cur.kind = k
    /\ \A k \in Kinds, d \in net : d.tid = queue[k] => Fits(d, k)
    /\ \A k \in Kinds, r \in Receivers : got[r].tid = queue[k] => Fits(got[r], k)
    /\ cur.tid # None => \A d \in net : d.tid = cur.tid => Fits(d, cur.kind)
    /\ cur.tid # None => \A r \in Receivers : got[r].tid = cur.tid => Fits(got[r], cur.kind)

\* Requests and answers are told apart by their fields.
LEMMA DatagramFits ==
    ASSUME NEW k \in Kinds
    PROVE  /\ \A d \in Requests : ~IsReply(d) /\ (Fits(d, k) <=> d.kind = k)
           /\ \A d \in Replies \cup {NoReply} :
                 IsReply(d) /\ (Fits(d, k) <=> d.answer \in {k, "error"})
<1>1. ASSUME NEW d \in Requests PROVE ~IsReply(d)
  <2>1. DOMAIN d = {"kind", "tid", "connection"}
    BY DEF Requests
  <2> QED
    BY <2>1 DEF IsReply
<1>2. ASSUME NEW d \in Replies \cup {NoReply} PROVE IsReply(d)
  <2>1. DOMAIN d = {"answer", "tid"}
    BY DEF Replies, NoReply
  <2> QED
    BY <2>1 DEF IsReply
<1> QED
  BY <1>1, <1>2 DEF Fits

\* The network holds what it held and the datagram just sent, at most.
LEMMA CarriedDatagrams ==
    ASSUME NEW d, NEW S \in Carried(d)
    PROVE  S \subseteq net \cup {d}
<1>1. CASE d \in net \/ Cardinality(net) < MaxNet
  BY <1>1 DEF Carried
<1>2. CASE ~(d \in net \/ Cardinality(net) < MaxNet)
  BY <1>2 DEF Carried
<1> QED
  BY <1>1, <1>2

\* What send_request puts into cur_req and on the network is the first
\* request of the queue.
LEMMA SentRequest ==
    ASSUME TypeOK, SendRequest, ~Empty
    PROVE  /\ Top \in Kinds /\ queue[Top] \in Tids
           /\ cur' = [kind |-> Top, tid |-> queue[Top]]
           /\ \A d \in net' : d \in net \/
                 d = [kind |-> Top, tid |-> queue[Top], connection |-> connection]
           /\ sending' = sending + 1 /\ UNCHANGED failure
<1>1. Top \in Kinds /\ queue[Top] \in Tids
  BY TopRequest DEF TypeOK
<1> DEFINE m == [kind |-> Top, tid |-> queue[Top], connection |-> connection]
<1>2. /\ cur' = [kind |-> Top, tid |-> queue[Top]] /\ net' \in Carried(m)
      /\ sending' = sending + 1 /\ UNCHANGED failure
  BY DEF SendRequest
<1>3. net' \subseteq net \cup {m}
  BY <1>2, CarriedDatagrams
<1> QED
  BY <1>1, <1>2, <1>3

\* send_request keeps the ids apart: its request bears an id and a kind that
\* belong together in the queue.
LEMMA SendKeepsIds ==
    ASSUME TypeOK, IdInv, SendRequest
    PROVE  /\ \A k \in Kinds : cur'.tid = queue[k] /\ cur'.tid # None => cur'.kind = k
           /\ \A k \in Kinds, d \in net' : d.tid = queue[k] => Fits(d, k)
           /\ cur'.tid # None => \A d \in net' : d.tid = cur'.tid => Fits(d, cur'.kind)
           /\ cur'.tid # None =>
                 \A r \in Receivers : got[r].tid = cur'.tid => Fits(got[r], cur'.kind)
<1>1. CASE Empty
  <2>1. UNCHANGED <<cur, net>>
    BY <1>1 DEF SendRequest
  <2> QED
    BY <2>1 DEF IdInv
<1>2. CASE ~Empty
  <2> DEFINE m == [kind |-> Top, tid |-> queue[Top], connection |-> connection]
  <2>1. /\ Top \in Kinds /\ queue[Top] \in Tids
        /\ cur' = [kind |-> Top, tid |-> queue[Top]]
        /\ \A d \in net' : d \in net \/ d = m
    BY <1>2, SentRequest
  <2>2. queue[Top] # None
    BY <2>1, TrackerAssumption
  <2>3. \A k \in Kinds : queue[k] = queue[Top] => k = Top
    BY <2>1, <2>2 DEF IdInv, Kinds
  <2>4. m \in Requests
    BY <2>1 DEF Requests, TypeOK
  <2>5. Fits(m, Top) /\ m.tid = queue[Top]
    BY <2>1, <2>4, DatagramFits
  <2> HIDE DEF m
  <2>6. \A k \in Kinds, d \in net' : d.tid = queue[k] => Fits(d, k)
    BY <2>1, <2>3, <2>5 DEF IdInv
  <2>7. cur'.tid = queue[Top] /\ cur'.kind = Top
    BY <2>1
  <2> QED
    BY <2>1, <2>3, <2>6, <2>7 DEF IdInv
<1> QED
  BY <1>1, <1>2

\* What every step but a send keeps of IdInv when it neither renews an id nor
\* brings a datagram.
LEMMA IdsKept ==
    ASSUME TypeOK, IdInv, UNCHANGED got,
           \A k \in Kinds : queue'[k] \in {queue[k], None},
           cur' \in {cur, NoRequest}, net' \subseteq net,
           \A r \in Receivers : rx'[r] = "idle" => rx[r] = "idle"
    PROVE  IdInv'
<1>1. \A d \in net : d.tid # None
  BY TrackerAssumption DEF TypeOK, Requests, Replies
<1>2. \A k \in Kinds, r \in Receivers : got[r].tid = None => Fits(got[r], k)
  <2>1. \A r \in Receivers : got[r].tid = None => got[r] = NoReply
    BY TrackerAssumption DEF TypeOK, Replies
  <2>2. \A k \in Kinds : Fits(NoReply, k)
    BY DatagramFits DEF NoReply
  <2> QED
    BY <2>1, <2>2
<1>3. \A r \in Receivers : rx'[r] = "idle" => got'[r] = NoReply
  BY DEF IdInv
<1>4. queue'["connect"] = queue'["announce"] => queue'["connect"] = None
  BY DEF IdInv, Kinds
<1>5. cur' = cur \/ cur'.tid = None
  BY DEF NoRequest
<1>6. \A k \in Kinds : cur'.tid = queue'[k] /\ cur'.tid # None => cur'.kind = k
  BY <1>5 DEF IdInv
<1>7. \A k \in Kinds, d \in net' : d.tid = queue'[k] => Fits(d, k)
  BY <1>1 DEF IdInv
<1>8. \A k \in Kinds, r \in Receivers : got'[r].tid = queue'[k] => Fits(got'[r], k)
  BY <1>2 DEF IdInv
<1>9. cur'.tid # None => \A d \in net' : d.tid = cur'.tid => Fits(d, cur'.kind)
  BY <1>5 DEF IdInv
<1>10. cur'.tid # None => \A r \in Receivers : got'[r].tid = cur'.tid => Fits(got'[r], cur'.kind)
  BY <1>5 DEF IdInv
<1> QED
  BY <1>3, <1>4, <1>6, <1>7, <1>8, <1>9, <1>10 DEF IdInv

\* Ids belong to one request throughout, on any number of threads.
THEOREM IdsBelong == Spec => []IdInv
<1>1. Init => IdInv
  <2> SUFFICES ASSUME Init PROVE IdInv
    OBVIOUS
  <2>1. PICK s \in Tids, t \in Tids :
          /\ s # t
          /\ queue = [k \in Kinds |-> IF k = "connect" THEN s ELSE t]
          /\ cur = [kind |-> "connect", tid |-> s]
          /\ net = {[kind |-> "connect", tid |-> s, connection |-> "magic"]}
    BY DEF Init
  <2>2. queue["connect"] = s /\ queue["announce"] = t /\ s # None /\ t # None
    BY <2>1, TrackerAssumption DEF Kinds
  <2>3. \A r \in Receivers : got[r] = NoReply /\ got[r].tid = None
    BY DEF Init, NoReply
  <2>4. ASSUME NEW d \in net PROVE d.tid = s /\ Fits(d, "connect")
    <3>1. d = [kind |-> "connect", tid |-> s, connection |-> "magic"]
      BY <2>1
    <3>2. d \in Requests /\ d.kind = "connect" /\ d.tid = s
      BY <3>1 DEF Requests, Kinds
    <3> QED
      BY <3>2, DatagramFits DEF Kinds
  <2>5. \A k \in Kinds : queue[k] = s => k = "connect"
    BY <2>1, <2>2 DEF Kinds
  <2>6. \A k \in Kinds : queue[k] # None
    BY <2>2 DEF Kinds
  <2>7. cur.tid = s /\ cur.kind = "connect"
    BY <2>1
  <2> QED
    BY <2>1, <2>2, <2>3, <2>4, <2>5, <2>6, <2>7 DEF IdInv
<1>2. TypeOK /\ IdInv /\ [Next]_vars => IdInv'
  <2> SUFFICES ASSUME TypeOK, IdInv, [Next]_vars PROVE IdInv'
    OBVIOUS
  <2>1. CASE SendHandler
    BY <2>1, IdsKept DEF SendHandler
  <2>2. CASE RetryStart
    BY <2>2, IdsKept DEF RetryStart
  <2>3. CASE RetryHandler
    <3>1. UNCHANGED <<queue, got, rx>>
      BY <2>3 DEF RetryHandler
    <3>2. CASE stopped
      BY <2>3, <3>1, <3>2, IdsKept DEF RetryHandler
    <3>3. CASE SendRequest
      BY <3>1, <3>3, SendKeepsIds DEF IdInv
    <3> QED
      BY <2>3, <3>2, <3>3 DEF RetryHandler
  <2>4. CASE TimerSends
    <3>1. UNCHANGED <<queue, got, rx>>
      BY <2>4 DEF TimerSends
    <3>2. CASE reqSent
      BY <2>4, <3>1, <3>2, IdsKept DEF TimerSends
    <3>3. CASE SendRequest
      BY <3>1, <3>3, SendKeepsIds DEF IdInv
    <3> QED
      BY <2>4, <3>2, <3>3 DEF TimerSends
  <2>5. ASSUME NEW k \in Kinds, TimerHandler(k) PROVE IdInv'
    <3>1. PICK t \in Tids \ InUse : queue' = [queue EXCEPT ![k] = t]
      BY <2>5 DEF TimerHandler
    <3>2. /\ UNCHANGED <<cur, net, got, rx>>
          /\ queue'[k] = t /\ \A j \in Kinds : j # k => queue'[j] = queue[j]
      BY <2>5, <3>1 DEF TimerHandler, TypeOK
    <3>3. t # None /\ t # cur.tid /\ \A j \in Kinds : t # queue[j]
      BY <3>1, TrackerAssumption DEF InUse
    <3>4. \A d \in net : d.tid # t
      BY <3>1 DEF InUse
    <3>5. \A r \in Receivers : got[r].tid # t
      <4>1. \A r \in Busy : got[r].tid # t
        BY <3>1 DEF InUse
      <4>2. \A r \in Receivers : r \notin Busy => got[r].tid = None
        BY DEF Busy, IdInv, NoReply
      <4> QED
        BY <3>3, <4>1, <4>2
    <3>6. queue'["connect"] = queue'["announce"] => queue'["connect"] = None
      BY <3>2, <3>3 DEF IdInv, Kinds
    <3> QED
      BY <3>2, <3>3, <3>4, <3>5, <3>6 DEF IdInv
  <2>6. ASSUME NEW r \in Receivers, HandleResponse(r) PROVE IdInv'
    <3>1. UNCHANGED <<cur, net, got>> /\ queue' \in {queue, Removed}
      BY <2>6 DEF HandleResponse
    <3>2. \A k \in Kinds : queue'[k] \in {queue[k], None}
      BY <3>1 DEF Removed
    <3>3. \A s \in Receivers : rx'[s] = "idle" => rx[s] = "idle"
      BY <2>6 DEF HandleResponse, TypeOK
    <3> QED
      BY <3>1, <3>2, <3>3, IdsKept
  <2>7. ASSUME NEW r \in Receivers, Clear(r) PROVE IdInv'
    <3>1. UNCHANGED <<queue, net, got>> /\ cur' = NoRequest
      BY <2>7 DEF Clear
    <3>2. \A s \in Receivers : rx'[s] = "idle" => rx[s] = "idle"
      BY <2>7 DEF Clear, TypeOK
    <3> QED
      BY <3>1, <3>2, IdsKept
  <2>8. ASSUME NEW r \in Receivers, SendNext(r) PROVE IdInv'
    <3>1. /\ UNCHANGED queue
          /\ \A s \in Receivers : got'[s] = NoReply \/ (got'[s] = got[s] /\ rx'[s] = rx[s])
      <4>1. /\ UNCHANGED queue
            /\ rx' = [rx EXCEPT ![r] = "idle"] /\ got' = [got EXCEPT ![r] = NoReply]
        BY <2>8 DEF SendNext
      <4> QED
        BY <4>1 DEF TypeOK
    <3>2. \A k \in Kinds : Fits(NoReply, k)
      BY DatagramFits DEF NoReply
    <3>3. \A s \in Receivers : rx'[s] = "idle" => got'[s] = NoReply
      BY <3>1 DEF IdInv
    <3>4. \A k \in Kinds, s \in Receivers : got'[s].tid = queue'[k] => Fits(got'[s], k)
      BY <3>1, <3>2 DEF IdInv
    <3>5. /\ \A k \in Kinds : cur'.tid = queue[k] /\ cur'.tid # None => cur'.kind = k
          /\ \A k \in Kinds, d \in net' : d.tid = queue[k] => Fits(d, k)
          /\ cur'.tid # None => \A d \in net' : d.tid = cur'.tid => Fits(d, cur'.kind)
          /\ cur'.tid # None =>
                \A s \in Receivers : got[s].tid = cur'.tid => Fits(got[s], cur'.kind)
      <4>1. CASE Empty
        <5>1. UNCHANGED <<cur, net>>
          BY <2>8, <4>1 DEF SendNext
        <5> QED
          BY <5>1 DEF IdInv
      <4>2. CASE SendRequest
        BY <4>2, SendKeepsIds
      <4> QED
        BY <2>8, <4>1, <4>2 DEF SendNext
    <3>6. NoReply.tid = None
      BY DEF NoReply
    <3>7. cur'.tid # None => \A s \in Receivers : got'[s].tid = cur'.tid => Fits(got'[s], cur'.kind)
      BY <3>1, <3>5, <3>6
    <3> QED
      BY <3>1, <3>3, <3>4, <3>5, <3>7 DEF IdInv
  <2>9. ASSUME NEW t \in Timers, Expire(t) PROVE IdInv'
    BY <2>9, IdsKept DEF Expire
  <2>10. ASSUME NEW r \in Receivers, NEW d \in net, Receive(r, d) PROVE IdInv'
    <3>1. /\ UNCHANGED <<queue, cur>> /\ net' \subseteq net
          /\ rx'[r] = "reading" /\ got'[r] = d
          /\ \A s \in Receivers : s # r => got'[s] = got[s] /\ rx'[s] = rx[s]
      BY <2>10 DEF Receive, TypeOK
    <3> QED
      BY <3>1 DEF IdInv
  <2>11. ASSUME NEW d \in net, Answer(d) PROVE IdInv'
    <3>1. PICK a \in Answers(d) : net' = (net \ {d}) \cup {[answer |-> a, tid |-> d.tid]}
      BY <2>11 DEF Answer
    <3>2. UNCHANGED <<queue, cur, got, rx>>
      BY <2>11 DEF Answer
    <3>3. d \in Requests
      BY <2>11 DEF Answer, TypeOK, Replies, IsReply
    <3>4. a \in {d.kind, "error"} /\ d.kind \in Kinds /\ d.tid \in Tids
      BY <3>1, <3>3 DEF Answers, Requests
    <3> DEFINE e == [answer |-> a, tid |-> d.tid]
    <3>5. e \in Replies /\ e.tid = d.tid /\ e.answer \in {d.kind, "error"}
      BY <3>4 DEF Replies
    <3>6. ASSUME NEW k \in Kinds, Fits(d, k) PROVE Fits(e, k)
      BY <3>3, <3>5, <3>6, DatagramFits
    <3>7. cur.kind \in Kinds
      <4>1. CASE cur = NoRequest
        BY <4>1 DEF NoRequest, Kinds
      <4>2. CASE cur # NoRequest
        BY <4>2 DEF TypeOK
      <4> QED
        BY <4>1, <4>2
    <3>8. \A f \in net' : f \in net \/ f = e
      BY <3>1
    <3> HIDE DEF e
    <3>9. \A k \in Kinds, f \in net' : f.tid = queue'[k] => Fits(f, k)
      BY <3>2, <3>5, <3>6, <3>8 DEF IdInv
    <3>10. cur'.tid # None => \A f \in net' : f.tid = cur'.tid => Fits(f, cur'.kind)
      BY <3>2, <3>5, <3>6, <3>7, <3>8 DEF IdInv
    <3> QED
      BY <3>2, <3>9, <3>10 DEF IdInv
  <2>12. ASSUME NEW d \in net, Lose(d) PROVE IdInv'
    BY <2>12, IdsKept DEF Lose
  <2>13. CASE UNCHANGED vars
    BY <2>13, IdsKept DEF vars
  <2> QED
    BY <2>1, <2>2, <2>3, <2>4, <2>5, <2>6, <2>7, <2>8, <2>9, <2>10, <2>11, <2>12, <2>13
       DEF Next, Handlers
<1> QED
  BY <1>1, <1>2, TypeCorrect, PTL DEF Spec

-----------------------------------------------------------------------------
(* The chain of requests.                                                   *)

\* On any number of threads a request of each kind is queued or its timer
\* will queue it: an answer takes a request from the queue only together with
\* arming the timer of its kind.
Linked == \A k \in Kinds : queue[k] # None \/ k \in armed \cup due

\* An answer that removes the request of a kind schedules one of that kind.
LEMMA RemovedIsScheduled ==
    ASSUME TypeOK, IdInv, NEW r \in Receivers, got[r].tid = cur.tid,
           NEW k \in Kinds, queue[k] # None, Removed[k] = None
    PROVE  queue[k] = cur.tid /\ k \in Scheduled(got[r].answer)
<1>1. queue[k] = cur.tid
  BY DEF Removed
<1>2. Fits(got[r], k)
  BY <1>1 DEF IdInv
<1>3. got[r].answer \in {k, "error"}
  BY <1>2, DatagramFits DEF TypeOK
<1> QED
  BY <1>1, <1>3 DEF Scheduled

\* No step of the tracker drops the chain of requests of either kind.
THEOREM LinkedHolds == Spec => []Linked
<1>1. Init => Linked
  <2> SUFFICES ASSUME Init PROVE Linked
    OBVIOUS
  <2>1. PICK s \in Tids, t \in Tids :
          queue = [k \in Kinds |-> IF k = "connect" THEN s ELSE t]
    BY DEF Init
  <2> QED
    BY <2>1, TrackerAssumption DEF Linked
<1>2. TypeOK /\ IdInv /\ Linked /\ [Next]_vars => Linked'
  <2> SUFFICES ASSUME TypeOK, IdInv, Linked, [Next]_vars PROVE Linked'
    OBVIOUS
  <2> USE DEF Linked
  <2>0. \A k \in Kinds : k # "retry"
    BY DEF Kinds
  <2>1. CASE SendHandler
    BY <2>1 DEF SendHandler
  <2>2. CASE RetryStart
    BY <2>2 DEF RetryStart
  <2>3. CASE RetryHandler
    BY <2>0, <2>3 DEF RetryHandler
  <2>4. CASE TimerSends
    BY <2>4 DEF TimerSends
  <2>5. ASSUME NEW k \in Kinds, TimerHandler(k) PROVE Linked'
    <3>1. PICK t \in Tids : queue' = [queue EXCEPT ![k] = t]
      BY <2>5 DEF TimerHandler
    <3>2. queue'[k] # None /\ \A j \in Kinds : j # k => queue'[j] = queue[j]
      BY <3>1, TrackerAssumption DEF TypeOK
    <3> QED
      BY <2>5, <3>2 DEF TimerHandler
  <2>6. ASSUME NEW r \in Receivers, HandleResponse(r) PROVE Linked'
    <3>1. UNCHANGED due
      BY <2>6 DEF HandleResponse
    <3>2. CASE UNCHANGED <<queue, armed>>
      BY <3>1, <3>2
    <3>3. CASE /\ got[r].tid = cur.tid /\ queue' = Removed
               /\ armed' = armed \cup Scheduled(got[r].answer)
      <4>1. \A k \in Kinds : queue[k] # None /\ Removed[k] = None
                               => k \in Scheduled(got[r].answer)
        BY <3>3, RemovedIsScheduled
      <4> QED
        BY <3>1, <3>3, <4>1
    <3> QED
      BY <2>6, <3>2, <3>3 DEF HandleResponse
  <2>7. ASSUME NEW r \in Receivers, Clear(r) PROVE Linked'
    BY <2>7 DEF Clear
  <2>8. ASSUME NEW r \in Receivers, SendNext(r) PROVE Linked'
    BY <2>8 DEF SendNext
  <2>9. ASSUME NEW t \in Timers, Expire(t) PROVE Linked'
    BY <2>9 DEF Expire
  <2>10. ASSUME NEW r \in Receivers, NEW d \in net, Receive(r, d) PROVE Linked'
    BY <2>0, <2>10 DEF Receive
  <2>11. ASSUME NEW d \in net, Answer(d) PROVE Linked'
    BY <2>11 DEF Answer
  <2>12. ASSUME NEW d \in net, Lose(d) PROVE Linked'
    BY <2>12 DEF Lose
  <2>13. CASE UNCHANGED vars
    BY <2>13 DEF vars
  <2> QED
    BY <2>1, <2>2, <2>3, <2>4, <2>5, <2>6, <2>7, <2>8, <2>9, <2>10, <2>11, <2>12, <2>13
       DEF Next, Handlers
<1> QED
  BY <1>1, <1>2, TypeCorrect, IdsBelong, PTL DEF Spec

-----------------------------------------------------------------------------
(* The connection id.                                                       *)

\* Once no connect is queued the tracker has assigned an id, or refused to.
Assigned == queue["connect"] = None => connection = "assigned" \/ refused

\* An announce is sent only when no connect is queued.
LEMMA SentAnnounce ==
    ASSUME TypeOK, Assigned, SendRequest,
           NEW d \in net' \ net, ~IsReply(d), d.kind = "announce"
    PROVE  d.connection = "assigned" \/ refused
<1>1. ~Empty
  BY DEF SendRequest
<1>2. d = [kind |-> Top, tid |-> queue[Top], connection |-> connection]
  BY <1>1, SentRequest
<1>3. Top = "announce" /\ d.connection = connection
  BY <1>2
<1>4. queue["connect"] = None
  BY <1>3 DEF Top
<1> QED
  BY <1>3, <1>4 DEF Assigned

\* The timer of the connect resets the id but queues a connect; an answer that
\* removes the connect assigns an id or is an error.
LEMMA AssignedStep ==
    ASSUME TypeOK, IdInv, Assigned, [Next]_vars
    PROVE  Assigned'
<1>1. CASE UNCHANGED <<queue, connection, refused>>
  BY <1>1 DEF Assigned
<1>2. ASSUME NEW k \in Kinds, TimerHandler(k) PROVE Assigned'
  <2>1. PICK t \in Tids : queue' = [queue EXCEPT ![k] = t]
    BY <1>2 DEF TimerHandler
  <2>2. CASE k = "connect"
    <3>1. queue'["connect"] # None
      BY <2>1, <2>2, TrackerAssumption DEF TypeOK
    <3> QED
      BY <3>1 DEF Assigned
  <2>3. CASE k # "connect"
    <3>1. queue'["connect"] = queue["connect"] /\ UNCHANGED <<connection, refused>>
      BY <1>2, <2>1, <2>3 DEF TimerHandler, TypeOK, Kinds
    <3> QED
      BY <3>1 DEF Assigned
  <2> QED
    BY <2>2, <2>3
<1>3. ASSUME NEW r \in Receivers, HandleResponse(r) PROVE Assigned'
  <2>1. CASE UNCHANGED <<queue, connection, refused>>
    BY <1>1, <2>1
  <2>2. CASE /\ cur.tid # None /\ got[r].tid = cur.tid /\ queue' = Removed
             /\ connection' = (IF got[r].answer = "connect" THEN "assigned" ELSE connection)
             /\ refused' = IF cur.kind = "connect" THEN got[r].answer = "error" ELSE refused
    <3>1. cur.kind \in Kinds /\ Fits(got[r], cur.kind)
      <4>1. CASE cur = NoRequest
        BY <2>2, <4>1 DEF NoRequest
      <4>2. CASE cur # NoRequest
        BY <2>2, <4>2 DEF TypeOK, IdInv
      <4> QED
        BY <4>1, <4>2
    <3>2. got[r].answer \in {cur.kind, "error"}
      BY <3>1, DatagramFits DEF TypeOK
    <3>3. CASE cur.kind = "connect"
      BY <2>2, <3>2, <3>3 DEF Assigned
    <3>4. CASE cur.kind # "connect"
      <4>1. queue["connect"] # cur.tid
        BY <2>2, <3>4 DEF IdInv, Kinds
      <4>2. queue'["connect"] = queue["connect"]
        BY <2>2, <4>1 DEF Removed, Kinds
      <4> QED
        BY <2>2, <3>4, <4>2 DEF Assigned
    <3> QED
      BY <3>3, <3>4
  <2> QED
    BY <1>3, <2>1, <2>2 DEF HandleResponse
<1> QED
  BY <1>1, <1>2, <1>3
     DEF Next, Handlers, SendHandler, RetryStart, RetryHandler, TimerSends, Clear, SendNext,
         Expire, Receive, Answer, Lose, vars

\* On any number of threads, an announce goes out with the id the tracker
\* assigned, unless the tracker refused the last connect it answered.
THEOREM AnnounceIdentifiedHolds == Spec => AnnounceIdentified
<1> DEFINE Identified ==
        \A d \in net' \ net :
          ~IsReply(d) /\ d.kind = "announce" => d.connection = "assigned" \/ refused
<1>1. Init => Assigned
  <2> SUFFICES ASSUME Init PROVE Assigned
    OBVIOUS
  <2>1. PICK s \in Tids, t \in Tids :
          queue = [k \in Kinds |-> IF k = "connect" THEN s ELSE t]
    BY DEF Init
  <2> QED
    BY <2>1, TrackerAssumption DEF Assigned, Kinds
<1>2. TypeOK /\ IdInv /\ Assigned /\ [Next]_vars => Assigned'
  BY AssignedStep
<1>3. TypeOK /\ Assigned /\ [Next]_vars => [Identified]_vars
  <2> SUFFICES ASSUME TypeOK, Assigned, [Next]_vars PROVE Identified
    OBVIOUS
  <2>1. CASE SendRequest
    BY <2>1, SentAnnounce
  <2>2. CASE net' \subseteq net
    BY <2>2
  <2>3. ASSUME NEW d \in net, Answer(d) PROVE Identified
    <3>1. PICK a \in Answers(d) : net' = (net \ {d}) \cup {[answer |-> a, tid |-> d.tid]}
      BY <2>3 DEF Answer
    <3>2. IsReply([answer |-> a, tid |-> d.tid])
      BY DEF IsReply
    <3> QED
      BY <3>1, <3>2
  <2>4. SendRequest \/ net' \subseteq net \/ \E d \in net : Answer(d)
    BY DEF Next, Handlers, SendHandler, RetryStart, RetryHandler, TimerSends, TimerHandler,
           HandleResponse, Clear, SendNext, Expire, Receive, Lose, vars
  <2> QED
    BY <2>1, <2>2, <2>3, <2>4
<1> QED
  BY <1>1, <1>2, <1>3, TypeCorrect, IdsBelong, PTL DEF Spec, AnnounceIdentified

-----------------------------------------------------------------------------
(* On one thread.                                                           *)

\* One handler runs at a time; what it leaves to the next.
ThreadInv ==
    /\ \A r, s \in Busy : r = s
    /\ strand # "idle" \/ receiving \/ ~stopped => Busy = {}
    /\ strand = "inserted" => ~Empty
    /\ \A r \in Receivers : rx[r] = "cleared" => ~reqSent /\ cur.tid = None

\* Who watches over the queue when no handler runs.
WatchInv ==
    /\ strand = "posted" \/ ~stopped => receiving
    /\ reqSent /\ Busy = {} => ~stopped /\ "retry" \in armed \cup due
    /\ Running /\ ~reqSent /\ Busy = {} /\ strand = "idle" /\ ~Empty => sending > 0

\* A posted receive waits for the answer to a request, unless an answer
\* overtook the handler of a retransmission.
OwedInv ==
    /\ cur.tid # None /\ Busy = {} => ~Empty
    /\ ~crossed /\ receiving => cur.tid # None
    /\ ~crossed => \A r \in Receivers : rx[r] = "reading" => cur.tid # None
    /\ Running \/ crossed

OneThreadInv == ThreadInv /\ WatchInv /\ OwedInv

\* A thread is free only when no handler runs.
LEMMA OneThreadFree ==
    ASSUME NumThreads = 1, \A r, s \in Busy : r = s, FreeThread
    PROVE  Busy = {} /\ strand = "idle" /\ Running
<1>1. (Busy = {} /\ Cardinality(Busy) = 0) \/ \E r \in Busy : Cardinality(Busy) = 1
  <2>1. CASE Busy = {}
    BY <2>1, FS_EmptySet
  <2>2. ASSUME NEW r \in Busy PROVE Cardinality(Busy) = 1
    <3>1. Busy = {r}
      OBVIOUS
    <3> QED
      BY <3>1, FS_Singleton
  <2> QED
    BY <2>1, <2>2
<1> QED
  BY <1>1 DEF FreeThread

\* A send leaves a request outstanding and its handler to come, or fails on an
\* empty queue.
LEMMA SendOutcome ==
    ASSUME TypeOK, SendRequest
    PROVE  /\ Empty => failure' = "empty queue" /\ UNCHANGED <<cur, sending>>
           /\ ~Empty => cur'.tid # None /\ sending' > 0 /\ UNCHANGED failure
<1>1. CASE Empty
  BY <1>1 DEF SendRequest
<1>2. CASE ~Empty
  <2>1. cur'.tid \in Tids /\ sending' = sending + 1 /\ UNCHANGED failure
    BY <1>2, SentRequest
  <2>2. sending \in Nat
    BY DEF TypeOK
  <2>3. sending' > 0
    BY <2>1, <2>2
  <2>4. cur'.tid # None
    BY <2>1, TrackerAssumption
  <2> QED
    BY <1>2, <2>1, <2>3, <2>4
<1> QED
  BY <1>1, <1>2

\* On one thread, one handler at a time runs to its end, and each leaves
\* somebody to watch over the queue.
LEMMA OneThreadStep ==
    ASSUME NumThreads = 1, TypeOK, OneThreadInv, [Next]_vars
    PROVE  OneThreadInv'
<1> USE DEF OneThreadInv
<1>0. \A r \in Receivers : r \in Busy <=> rx[r] # "idle"
  BY DEF Busy
<1>1. CASE SendHandler
  <2>1. Busy = {} /\ strand = "idle" /\ Running
    BY <1>1, OneThreadFree DEF SendHandler, OnStrand, ThreadInv
  <2>2. UNCHANGED <<Busy, Empty, Running>>
    BY <1>1 DEF SendHandler, Busy, Empty, Running
  <2>3. CASE MayPost
    <3>1. /\ receiving' = TRUE /\ strand' = "posted" /\ crossed' = (crossed \/ cur.tid = None)
          /\ UNCHANGED <<cur, reqSent, stopped, armed, due, rx>> /\ ~reqSent
      BY <1>1, <2>3 DEF SendHandler, MayPost
    <3>2. ThreadInv'
      BY <2>1, <2>2, <3>1 DEF ThreadInv
    <3>3. WatchInv'
      BY <2>1, <2>2, <3>1 DEF WatchInv
    <3>4. OwedInv'
      BY <2>1, <2>2, <3>1 DEF OwedInv
    <3> QED
      BY <3>2, <3>3, <3>4
  <2>4. CASE ~MayPost
    <3>1. UNCHANGED <<cur, reqSent, stopped, armed, due, rx, receiving, strand, crossed>> /\ reqSent
      BY <1>1, <2>4 DEF SendHandler, MayPost
    <3>2. ThreadInv'
      BY <2>2, <3>1 DEF ThreadInv
    <3>3. WatchInv'
      BY <2>2, <3>1 DEF WatchInv
    <3>4. OwedInv'
      BY <2>2, <3>1 DEF OwedInv
    <3> QED
      BY <3>2, <3>3, <3>4
  <2> QED
    BY <2>3, <2>4
<1>2. CASE RetryStart
  <2>1. /\ strand = "posted" /\ strand' = "idle" /\ reqSent' = TRUE /\ stopped' = FALSE
        /\ "retry" \in armed'
        /\ UNCHANGED <<cur, receiving, rx, crossed, Busy, Empty, Running>>
    BY <1>2 DEF RetryStart, Busy, Empty, Running
  <2>2. ThreadInv'
    BY <1>0, <2>1 DEF ThreadInv
  <2>3. WatchInv'
    BY <2>1 DEF WatchInv
  <2>4. OwedInv'
    BY <2>1 DEF OwedInv
  <2> QED
    BY <2>2, <2>3, <2>4
<1>3. CASE RetryHandler
  <2>1. Busy = {} /\ strand = "idle" /\ Running
    BY <1>3, OneThreadFree DEF RetryHandler, MayExpire, OnStrand, ThreadInv
  <2>2. UNCHANGED <<reqSent, stopped, receiving, strand, rx, crossed, Busy, Empty>>
    BY <1>3 DEF RetryHandler, Busy, Empty
  <2>3. CASE stopped
    <3>1. UNCHANGED <<cur, sending, armed, Running>> /\ ~reqSent
      BY <1>3, <2>1, <2>3 DEF RetryHandler, WatchInv, Running
    <3>2. ThreadInv'
      BY <2>2, <3>1 DEF ThreadInv
    <3>3. WatchInv'
      BY <2>2, <3>1 DEF WatchInv
    <3>4. OwedInv'
      BY <2>2, <3>1 DEF OwedInv
    <3> QED
      BY <3>2, <3>3, <3>4
  <2>4. CASE ~stopped
    <3>1. SendRequest /\ "retry" \in armed' /\ receiving
      BY <1>3, <2>4 DEF RetryHandler, WatchInv
    <3>2. ~Empty \/ crossed
      BY <2>1, <3>1 DEF OwedInv
    <3>3. /\ Empty => UNCHANGED cur
          /\ ~Empty => cur'.tid # None /\ sending' > 0 /\ UNCHANGED Running
      BY <3>1, SendOutcome DEF Running
    <3>4. ThreadInv'
      BY <1>0, <2>1, <2>2 DEF ThreadInv
    <3>5. WatchInv'
      BY <2>1, <2>2, <2>4, <3>1, <3>3 DEF WatchInv
    <3>6. OwedInv'
      BY <1>0, <2>1, <2>2, <3>2, <3>3 DEF OwedInv
    <3> QED
      BY <3>4, <3>5, <3>6
  <2> QED
    BY <2>3, <2>4
<1>4. CASE TimerSends
  <2>1. Busy = {} /\ strand = "inserted" /\ ~Empty /\ strand' = "idle"
    BY <1>4 DEF TimerSends, ThreadInv
  <2>2. UNCHANGED <<reqSent, stopped, armed, due, receiving, rx, crossed, Busy, Empty>>
    BY <1>4 DEF TimerSends, Busy, Empty
  <2>3. CASE reqSent
    <3>1. UNCHANGED <<cur, sending, Running>>
      BY <1>4, <2>3 DEF TimerSends, Running
    <3>2. ThreadInv'
      BY <2>1, <2>2, <3>1 DEF ThreadInv
    <3>3. WatchInv'
      BY <2>1, <2>2, <2>3, <3>1 DEF WatchInv
    <3>4. OwedInv'
      BY <2>2, <3>1 DEF OwedInv
    <3> QED
      BY <3>2, <3>3, <3>4
  <2>4. CASE ~reqSent
    <3>1. cur'.tid # None /\ sending' > 0 /\ UNCHANGED Running
      BY <1>4, <2>1, <2>4, SendOutcome DEF TimerSends, Running
    <3>2. ThreadInv'
      BY <1>0, <2>1, <2>2 DEF ThreadInv
    <3>3. WatchInv'
      BY <2>1, <2>2, <3>1 DEF WatchInv
    <3>4. OwedInv'
      BY <2>1, <2>2, <3>1 DEF OwedInv
    <3> QED
      BY <3>2, <3>3, <3>4
  <2> QED
    BY <2>3, <2>4
<1>5. ASSUME NEW k \in Kinds, TimerHandler(k) PROVE OneThreadInv'
  <2>1. Busy = {} /\ strand = "idle" /\ Running
    BY <1>5, OneThreadFree DEF TimerHandler, MayExpire, OnStrand, ThreadInv
  <2>2. PICK t \in Tids : queue' = [queue EXCEPT ![k] = t]
    BY <1>5 DEF TimerHandler
  <2>3. ~Empty'
    BY <2>2, TrackerAssumption DEF Empty, TypeOK
  <2>4. "retry" \in armed \cup due => "retry" \in armed' \cup due'
    BY <1>5 DEF TimerHandler, Kinds
  <2>5. /\ strand' = "inserted"
        /\ UNCHANGED <<cur, reqSent, stopped, sending, receiving, rx, crossed, Busy, Running>>
    BY <1>5 DEF TimerHandler, Busy, Running
  <2>6. ThreadInv'
    BY <1>0, <2>1, <2>3, <2>5 DEF ThreadInv
  <2>7. WatchInv'
    BY <2>1, <2>4, <2>5 DEF WatchInv
  <2>8. OwedInv'
    BY <2>3, <2>5 DEF OwedInv
  <2> QED
    BY <2>6, <2>7, <2>8
<1>6. ASSUME NEW r \in Receivers, HandleResponse(r) PROVE OneThreadInv'
  <2>1. /\ rx[r] = "reading" /\ rx' = [rx EXCEPT ![r] = "handled"]
        /\ UNCHANGED <<cur, reqSent, stopped, receiving, strand, crossed>>
    BY <1>6 DEF HandleResponse
  <2>2. r \in Busy /\ Busy' = Busy
    BY <2>1 DEF Busy, TypeOK
  <2>3. strand = "idle" /\ ~receiving /\ stopped
    BY <2>2 DEF ThreadInv, TypeOK
  <2>4. Running' \/ crossed'
    <3>1. CASE cur.tid = None
      BY <2>1, <3>1 DEF OwedInv
    <3>2. CASE cur.tid # None
      BY <1>6, <3>2 DEF HandleResponse, Running
    <3> QED
      BY <3>1, <3>2
  <2>5. \A s \in Receivers : rx'[s] = rx[s] \/ rx'[s] = "handled"
    BY <2>1 DEF TypeOK
  <2>6. ThreadInv'
    BY <2>1, <2>2, <2>3, <2>5 DEF ThreadInv
  <2>7. WatchInv'
    BY <2>1, <2>2, <2>3 DEF WatchInv
  <2>8. OwedInv'
    BY <2>1, <2>2, <2>3, <2>4, <2>5 DEF OwedInv
  <2> QED
    BY <2>6, <2>7, <2>8
<1>7. ASSUME NEW r \in Receivers, Clear(r) PROVE OneThreadInv'
  <2>1. /\ rx[r] = "handled" /\ rx' = [rx EXCEPT ![r] = "cleared"]
        /\ reqSent' = FALSE /\ cur' = NoRequest
        /\ UNCHANGED <<stopped, receiving, strand, crossed, Running>>
    BY <1>7 DEF Clear, Running
  <2>2. r \in Busy /\ Busy' = Busy
    BY <2>1 DEF Busy, TypeOK
  <2>3. strand = "idle" /\ ~receiving /\ stopped
    BY <2>2 DEF ThreadInv, TypeOK
  <2>4. \A s \in Receivers : (rx'[s] = rx[s] /\ rx[s] # "reading") \/ rx'[s] = "cleared"
    BY <1>0, <2>1, <2>2 DEF TypeOK, ThreadInv
  <2>5. cur'.tid = None
    BY <2>1 DEF NoRequest
  <2>6. ThreadInv'
    BY <2>1, <2>2, <2>3, <2>5 DEF ThreadInv
  <2>7. WatchInv'
    BY <2>1, <2>2, <2>3 DEF WatchInv
  <2>8. OwedInv'
    BY <2>1, <2>2, <2>3, <2>4 DEF OwedInv
  <2> QED
    BY <2>6, <2>7, <2>8
<1>8. ASSUME NEW r \in Receivers, SendNext(r) PROVE OneThreadInv'
  <2>1. /\ rx[r] = "cleared" /\ rx' = [rx EXCEPT ![r] = "idle"] /\ Running
        /\ UNCHANGED <<reqSent, stopped, armed, due, receiving, strand, crossed, Empty>>
    BY <1>8 DEF SendNext, Empty
  <2>2. r \in Busy
    BY <2>1 DEF Busy
  <2>3. strand = "idle" /\ ~receiving /\ stopped /\ ~reqSent /\ cur.tid = None
    BY <2>1, <2>2 DEF ThreadInv, TypeOK
  <2>4. Busy' = {} /\ \A s \in Receivers : rx'[s] = "idle"
    BY <2>1, <2>2 DEF ThreadInv, Busy, TypeOK
  <2>5. /\ Empty => UNCHANGED <<cur, Running>>
        /\ ~Empty => cur'.tid # None /\ sending' > 0 /\ UNCHANGED Running
    BY <1>8, SendOutcome DEF SendNext, Running
  <2>6. ThreadInv'
    BY <2>1, <2>3, <2>4 DEF ThreadInv
  <2>7. WatchInv'
    BY <2>1, <2>3, <2>5 DEF WatchInv
  <2>8. OwedInv'
    BY <2>1, <2>3, <2>4, <2>5 DEF OwedInv
  <2> QED
    BY <2>6, <2>7, <2>8
<1>9. ASSUME NEW t \in Timers, Expire(t) PROVE OneThreadInv'
  <2>1. /\ UNCHANGED <<cur, reqSent, stopped, sending, receiving, strand, rx, crossed>>
        /\ UNCHANGED <<Busy, Empty, Running>> /\ armed' \cup due' = armed \cup due
    BY <1>9 DEF Expire, Busy, Empty, Running
  <2> QED
    BY <2>1 DEF ThreadInv, WatchInv, OwedInv
<1>10. ASSUME NEW r \in Receivers, NEW d \in net, Receive(r, d) PROVE OneThreadInv'
  <2>1. Busy = {} /\ strand = "idle" /\ Running
    BY <1>10, OneThreadFree DEF Receive, ThreadInv
  <2>2. /\ receiving /\ receiving' = FALSE /\ stopped' = TRUE
        /\ rx' = [rx EXCEPT ![r] = "reading"]
        /\ UNCHANGED <<cur, reqSent, strand, crossed, Running>>
    BY <1>10 DEF Receive, Running
  <2>3. Busy' = {r} /\ \A s \in Receivers : rx'[s] \in {"idle", "reading"}
    BY <1>0, <2>1, <2>2 DEF Busy, TypeOK
  <2>4. ThreadInv'
    BY <2>1, <2>2, <2>3 DEF ThreadInv
  <2>5. WatchInv'
    BY <2>1, <2>2, <2>3 DEF WatchInv
  <2>6. OwedInv'
    BY <2>2, <2>3 DEF OwedInv
  <2> QED
    BY <2>4, <2>5, <2>6
<1>11. CASE UNCHANGED vars \/ \E d \in net : Answer(d) \/ Lose(d)
  <2>1. /\ UNCHANGED <<cur, reqSent, stopped, armed, due, sending, receiving, strand, rx, crossed>>
        /\ UNCHANGED <<Busy, Empty, Running>>
    BY <1>11 DEF Answer, Lose, vars, Busy, Empty, Running
  <2> QED
    BY <2>1 DEF ThreadInv, WatchInv, OwedInv
<1> QED
  BY <1>1, <1>2, <1>3, <1>4, <1>5, <1>6, <1>7, <1>8, <1>9, <1>10, <1>11 DEF Next, Handlers

\* With one thread the invariant holds from the moment run() has sent the
\* first connect.
LEMMA OneThreadHolds ==
    ASSUME NumThreads = 1
    PROVE  Spec => []OneThreadInv
<1>1. Init => OneThreadInv
  <2> SUFFICES ASSUME Init PROVE OneThreadInv
    OBVIOUS
  <2>1. PICK s \in Tids, t \in Tids :
          queue = [k \in Kinds |-> IF k = "connect" THEN s ELSE t]
    BY DEF Init
  <2>2. ~Empty
    BY <2>1, TrackerAssumption DEF Empty, Kinds
  <2>3. Busy = {} /\ \A r \in Receivers : rx[r] = "idle"
    BY DEF Init, Busy
  <2>4. /\ sending = 1 /\ reqSent = FALSE /\ stopped = TRUE /\ receiving = FALSE
        /\ strand = "idle" /\ failure = "none"
    BY DEF Init
  <2> QED
    BY <2>2, <2>3, <2>4 DEF OneThreadInv, ThreadInv, WatchInv, OwedInv, Running
<1>2. TypeOK /\ OneThreadInv /\ [Next]_vars => OneThreadInv'
  BY OneThreadStep
<1> QED
  BY <1>1, <1>2, TypeCorrect, PTL DEF Spec

\* On one thread the program ends by an exception of top() or a null cur_req
\* only after an answer overtook the handler of a retransmission.
THEOREM FailsOnlyWhenCrossedHolds ==
    ASSUME NumThreads = 1
    PROVE  Spec => []FailsOnlyWhenCrossed
<1>1. OneThreadInv => FailsOnlyWhenCrossed
  BY DEF OneThreadInv, OwedInv, FailsOnlyWhenCrossed
<1> QED
  BY <1>1, OneThreadHolds, PTL

\* On one thread the chain of requests of each kind never breaks, and somebody
\* watches over the queue whenever it is not empty.
THEOREM ChainUnbrokenHolds ==
    ASSUME NumThreads = 1
    PROVE  Spec => []ChainUnbroken
<1>1. TypeOK /\ Linked /\ OneThreadInv => ChainUnbroken
  <2> SUFFICES ASSUME TypeOK, Linked, OneThreadInv PROVE ChainUnbroken
    OBVIOUS
  <2>1. \A k \in Kinds : queue[k] # None \/ k \in armed \cup due
    BY DEF Linked
  <2>2. Running /\ ~Empty /\ strand = "idle" /\ Busy = {} =>
          sending > 0 \/ (reqSent /\ receiving /\ "retry" \in armed \cup due)
    BY DEF OneThreadInv, WatchInv
  <2> QED
    BY <2>1, <2>2 DEF ChainUnbroken
<1> QED
  BY <1>1, TypeCorrect, LinkedHolds, OneThreadHolds, PTL

=============================================================================
