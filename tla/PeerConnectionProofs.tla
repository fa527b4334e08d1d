------------------------ MODULE PeerConnectionProofs -------------------------
(***************************************************************************)
(* PeerConnection for any number of callers and messages.  On any number   *)
(* of threads nothing overtakes the handshake, and it is sent and received *)
(* once.  On one thread one chain of reads owns the receive buffer, the    *)
(* keep-alive is not forgotten, and every message given to send() is sent  *)
(* once and in its turn.                                                   *)
(***************************************************************************)
EXTENDS PeerConnection, SequenceTheorems, FiniteSetTheorems, TLAPS

\* The places of TypeOK that the argument needs, with where a flush stands.
ConnType ==
    /\ wire \in Seq(Chunks) /\ writes \in Seq(Chunks) /\ strand \in Seq(Chunks)
    /\ pending \in Seq(Messages \ {Handshake})
    /\ msg \in [Procs -> Messages \ {Handshake}]
    /\ at \in [Procs -> {"idle", "construct", "start", "push", "test", "racing", "flush"}]
    /\ cursor \in [Procs -> [next : Nat \ {0}, end : Nat]]
    /\ \A p \in Procs : cursor[p].end <= Len(pending)
    /\ sent \in BOOLEAN /\ recieved \in BOOLEAN
    /\ readers \in Nat

\* What is to be shown, as operators of the sequences and the flag r that the
\* remote's handshake came.
WrittenIn(w) == \E i \in DOMAIN w : w[i].m = Handshake /\ w[i].bite # "part"

FirstIn(w, r) ==
    \A i \in DOMAIN w : w[i].m # Handshake =>
        r /\ \E j \in 1 .. i - 1 : w[j].m = Handshake /\ w[j].bite # "part"

OnlyAfter(s, r, w) == \A i \in DOMAIN s : s[i].m # Handshake => r /\ WrittenIn(w)

-----------------------------------------------------------------------------
(* Lemmas about the sequences.                                              *)

\* Appending to a sequence of chunks keeps what was there.
LEMMA Appended ==
    ASSUME NEW S, NEW s \in Seq(S), NEW c \in S
    PROVE  /\ Append(s, c) \in Seq(S)
           /\ Len(Append(s, c)) = Len(s) + 1
           /\ DOMAIN Append(s, c) = 1 .. Len(s) + 1
           /\ \A i \in 1 .. Len(s) : Append(s, c)[i] = s[i]
           /\ Append(s, c)[Len(s) + 1] = c
  BY AppendProperties

\* What is left when the first chunk is taken.
LEMMA Taken ==
    ASSUME NEW S, NEW s \in Seq(S), s # <<>>
    PROVE  /\ Head(s) \in S /\ Tail(s) \in Seq(S)
           /\ Head(s) = s[1] /\ 1 \in DOMAIN s
           /\ \A i \in DOMAIN Tail(s) : i + 1 \in DOMAIN s /\ Tail(s)[i] = s[i + 1]
<1>1. Head(s) \in S /\ Tail(s) \in Seq(S)
  BY HeadTailProperties
<1>2. Len(s) \in Nat \ {0} /\ DOMAIN s = 1 .. Len(s)
  BY EmptySeq, LenProperties
<1>3. Len(Tail(s)) = Len(s) - 1 /\ \A i \in 1 .. Len(Tail(s)) : Tail(s)[i] = s[i + 1]
  BY HeadTailProperties
<1>4. DOMAIN Tail(s) = 1 .. Len(Tail(s))
  BY <1>1, LenProperties
<1>. QED
  BY <1>1, <1>2, <1>3, <1>4

\* The handshake stays written, and is once its last byte is.
LEMMA WrittenGrows ==
    ASSUME NEW w \in Seq(Chunks), NEW c \in Chunks,
           WrittenIn(w) \/ (c.m = Handshake /\ c.bite # "part")
    PROVE  WrittenIn(Append(w, c))
<1>1. /\ DOMAIN Append(w, c) = 1 .. Len(w) + 1 /\ Append(w, c)[Len(w) + 1] = c
      /\ \A i \in 1 .. Len(w) : Append(w, c)[i] = w[i]
  BY Appended
<1>2. Len(w) \in Nat /\ DOMAIN w = 1 .. Len(w)
  BY LenProperties
<1>3. CASE WrittenIn(w)
  BY <1>1, <1>2, <1>3 DEF WrittenIn
<1>4. CASE c.m = Handshake /\ c.bite # "part"
  BY <1>1, <1>2, <1>4 DEF WrittenIn
<1>. QED
  BY <1>3, <1>4

\* A chunk that is no handshake is taken by the socket behind the handshake.
LEMMA FirstGrows ==
    ASSUME NEW w \in Seq(Chunks), NEW c \in Chunks, NEW r \in BOOLEAN, FirstIn(w, r),
           c.m # Handshake => r /\ WrittenIn(w)
    PROVE  FirstIn(Append(w, c), r)
<1>1. /\ DOMAIN Append(w, c) = 1 .. Len(w) + 1 /\ Append(w, c)[Len(w) + 1] = c
      /\ \A i \in 1 .. Len(w) : Append(w, c)[i] = w[i]
  BY Appended
<1>2. Len(w) \in Nat /\ DOMAIN w = 1 .. Len(w)
  BY LenProperties
<1>. SUFFICES ASSUME NEW i \in 1 .. Len(w) + 1, Append(w, c)[i].m # Handshake
              PROVE  r /\ \E j \in 1 .. i - 1 :
                             Append(w, c)[j].m = Handshake /\ Append(w, c)[j].bite # "part"
  BY <1>1 DEF FirstIn
<1>3. CASE i \in 1 .. Len(w)
  BY <1>1, <1>2, <1>3 DEF FirstIn
<1>4. CASE i = Len(w) + 1
  <2>1. r /\ WrittenIn(w)
    BY <1>1, <1>4
  <2>2. PICK j \in 1 .. Len(w) : w[j].m = Handshake /\ w[j].bite # "part"
    BY <2>1, <1>2 DEF WrittenIn
  <2>3. j \in 1 .. i - 1
    BY <1>2, <1>4
  <2>. QED
    BY <2>1, <2>2, <2>3, <1>1
<1>. QED
  BY <1>2, <1>3, <1>4

\* So does a chunk that is added to the writes or to the strand.
LEMMA AfterGrows ==
    ASSUME NEW s \in Seq(Chunks), NEW c \in Chunks, NEW w, NEW r \in BOOLEAN,
           OnlyAfter(s, r, w), c.m # Handshake => r /\ WrittenIn(w)
    PROVE  OnlyAfter(Append(s, c), r, w)
<1>1. /\ DOMAIN Append(s, c) = 1 .. Len(s) + 1 /\ Append(s, c)[Len(s) + 1] = c
      /\ \A i \in 1 .. Len(s) : Append(s, c)[i] = s[i]
  BY Appended
<1>2. Len(s) \in Nat /\ DOMAIN s = 1 .. Len(s)
  BY LenProperties
<1>. SUFFICES ASSUME NEW i \in 1 .. Len(s) + 1, Append(s, c)[i].m # Handshake
              PROVE  r /\ WrittenIn(w)
  BY <1>1 DEF OnlyAfter
<1>3. CASE i \in 1 .. Len(s)
  BY <1>1, <1>2, <1>3 DEF OnlyAfter
<1>4. CASE i = Len(s) + 1
  BY <1>1, <1>4
<1>. QED
  BY <1>2, <1>3, <1>4

\* And taking one away changes nothing for the others.
LEMMA AfterShrinks ==
    ASSUME NEW s \in Seq(Chunks), NEW w, NEW r \in BOOLEAN, OnlyAfter(s, r, w), s # <<>>
    PROVE  OnlyAfter(Tail(s), r, w) /\ (Head(s).m # Handshake => r /\ WrittenIn(w))
  BY Taken DEF OnlyAfter

\* What was behind the handshake stays behind it when more is written or the
\* remote's handshake comes.
LEMMA AfterStays ==
    ASSUME NEW s, NEW w, NEW r, NEW w2, NEW r2, OnlyAfter(s, r, w),
           r => r2, WrittenIn(w) => WrittenIn(w2)
    PROVE  OnlyAfter(s, r2, w2)
  BY DEF OnlyAfter

\* What is on the wire stays behind the handshake too.
LEMMA FirstStays ==
    ASSUME NEW w, NEW r, NEW r2, FirstIn(w, r), r => r2
    PROVE  FirstIn(w, r2)
  BY DEF FirstIn

-----------------------------------------------------------------------------
(* Types.                                                                   *)

\* The messages that send() is given are never the handshake, and a whole
\* message is a chunk.
LEMMA NoHandshake ==
    /\ Bitfield \in Messages \ {Handshake}
    /\ \A m \in Msgs \cup KeepAlives : m \in Messages \ {Handshake}
    /\ Handshake \in Messages
    /\ \A m \in Messages : Whole(m) \in Chunks /\ Whole(m).m = m
  BY ConnectionAssumption DEF Messages, Chunks, Whole

\* send() keeps the types.
LEMMA SendType ==
    ASSUME ConnType, NEW p \in Procs, NEW m \in Messages \ {Handshake}, Send(p, m)
    PROVE  /\ writes' \in Seq(Chunks)
           /\ msg' \in [Procs -> Messages \ {Handshake}]
           /\ at' \in [Procs -> {"idle", "construct", "start", "push", "test", "racing", "flush"}]
<1>1. CASE MustWait
  BY <1>1 DEF Send, ConnType, Goto
<1>2. CASE ~MustWait
  <2>1. writes' = Append(writes, Whole(m)) /\ UNCHANGED msg /\ Goto(p, AfterSend(p))
    BY <1>2 DEF Send
  <2>2. writes' \in Seq(Chunks)
    BY <2>1, NoHandshake, Appended DEF ConnType
  <2>. QED
    BY <2>1, <2>2 DEF ConnType, Goto, AfterSend
<1>. QED
  BY <1>1, <1>2

\* The members of the connection and the activities of its handlers: only send()
\* fills pending_send_msgs, never with the handshake, and a flush stays inside.
THEOREM ConnTypeCorrect == Spec => []ConnType
<1>1. Init => ConnType
  <2> SUFFICES ASSUME Init PROVE ConnType
    OBVIOUS
  <2>1. wire \in Seq(Chunks) /\ writes \in Seq(Chunks) /\ strand \in Seq(Chunks)
        /\ pending \in Seq(Messages \ {Handshake})
    BY DEF Init
  <2>2. msg \in [Procs -> Messages \ {Handshake}]
    BY NoHandshake DEF Init
  <2>3. at \in [Procs -> {"idle", "construct", "start", "push", "test", "racing", "flush"}]
    BY DEF Init
  <2>4. cursor \in [Procs -> [next : Nat \ {0}, end : Nat]]
    BY DEF Init
  <2>5. \A p \in Procs : cursor[p].end <= Len(pending)
    BY DEF Init
  <2>6. sent \in BOOLEAN /\ recieved \in BOOLEAN /\ readers \in Nat
    BY DEF Init
  <2>. QED
    BY <2>1, <2>2, <2>3, <2>4, <2>5, <2>6 DEF ConnType
<1>2. ConnType /\ [Next]_vars => ConnType'
  <2> SUFFICES ASSUME ConnType, [Next]_vars PROVE ConnType'
    OBVIOUS
  <2>0. {"ctor", "strand", "reader", "timer"} \subseteq Procs /\ Callers \subseteq Procs
    BY DEF Procs
  <2>1. CASE Construct
    BY <2>1, <2>0, NoHandshake, SendType DEF Construct, ConnType
  <2>2. CASE StartAccepted \/ Connected
    <3>1. Start
      BY <2>2 DEF StartAccepted, Connected
    <3>2. writes' \in Seq(Chunks)
      BY <3>1, NoHandshake, Appended DEF Start, ConnType
    <3>3. at' \in [Procs -> {"idle", "construct", "start", "push", "test", "racing", "flush"}]
      BY <2>2 DEF StartAccepted, Connected, ConnType, Goto
    <3>. QED
      BY <3>1, <3>2, <3>3 DEF Start, ConnType
  <2>3. CASE ContinueWrite
    <3>1. strand # <<>> /\ Head(strand) \in Chunks /\ Tail(strand) \in Seq(Chunks)
      BY <2>3, Taken DEF ContinueWrite, ConnType
    <3>2. [Head(strand) EXCEPT !.bite = "rest"] \in Chunks
      BY <3>1 DEF Chunks
    <3>. QED
      BY <2>3, <3>1, <3>2, Appended DEF ContinueWrite, ConnType
  <2>4. CASE SendHandler
    <3>1. strand' \in Seq(Chunks)
      BY <2>4, Taken DEF SendHandler, ConnType
    <3>2. at' \in [Procs -> {"idle", "construct", "start", "push", "test", "racing", "flush"}]
      BY <2>4 DEF SendHandler, GotoTest, ConnType
    <3>3. sent' \in BOOLEAN
      BY <2>4 DEF SendHandler, ConnType
    <3>. QED
      BY <2>4, <3>1, <3>2, <3>3 DEF SendHandler, ConnType
  <2>5. CASE WriteFails
    BY <2>5, Taken DEF WriteFails, ConnType
  <2>6. ASSUME NEW p \in Procs, Push(p) PROVE ConnType'
    <3>1. pending' = Append(pending, msg[p]) /\ msg[p] \in Messages \ {Handshake}
      BY <2>6 DEF Push, ConnType
    <3>2. pending' \in Seq(Messages \ {Handshake}) /\ Len(pending') = Len(pending) + 1
          /\ Len(pending) \in Nat
      BY <3>1, Appended, LenProperties DEF ConnType
    <3>3. at' \in [Procs -> {"idle", "construct", "start", "push", "test", "racing", "flush"}]
      BY <2>6 DEF Push, Goto, AfterSend, ConnType
    <3>4. UNCHANGED <<wire, writes, strand, msg, cursor, sent, recieved, readers>>
      BY <2>6 DEF Push
    <3>5. \A q \in Procs : cursor'[q].end <= Len(pending')
      <4> TAKE q \in Procs
      <4>1. cursor[q].end \in Nat /\ cursor[q].end <= Len(pending)
        BY DEF ConnType
      <4>. QED
        BY <4>1, <3>2, <3>4
    <3>. QED
      BY <3>2, <3>3, <3>4, <3>5 DEF ConnType
  <2>7. CASE Crash
    BY <2>7 DEF Crash, ConnType
  <2>8. ASSUME NEW p \in Procs, PushRace(p) PROVE ConnType'
    <3>1. CASE Crash
      BY <3>1, <2>7
    <3>2. CASE Goto(p, AfterSend(p)) /\ UNCHANGED <<wire, writes, strand, pending, msg, cursor, sent, recieved, readers>>
      BY <3>2 DEF Goto, AfterSend, ConnType
    <3>. QED
      BY <2>8, <3>1, <3>2 DEF PushRace
  <2>9. ASSUME NEW p \in Procs, TestComplete(p) PROVE ConnType'
    <3>1. UNCHANGED <<wire, writes, strand, pending, msg, sent, recieved, readers>>
      BY <2>9 DEF TestComplete
    <3>2. Goto(p, "flush") \/ Goto(p, "idle")
      BY <2>9 DEF TestComplete
    <3>3. UNCHANGED cursor \/ cursor' = [cursor EXCEPT ![p] = [next |-> 1, end |-> Len(pending)]]
      BY <2>9 DEF TestComplete
    <3>4. Len(pending) \in Nat
      BY LenProperties DEF ConnType
    <3>5. [next |-> 1, end |-> Len(pending)] \in [next : Nat \ {0}, end : Nat]
      BY <3>4
    <3>6. cursor' \in [Procs -> [next : Nat \ {0}, end : Nat]]
      BY <3>3, <3>5 DEF ConnType
    <3>8. \A q \in Procs : cursor'[q].end <= Len(pending)
      <4> TAKE q \in Procs
      <4>1. cursor'[q] = cursor[q] \/ cursor'[q] = [next |-> 1, end |-> Len(pending)]
        BY <3>3 DEF ConnType
      <4>. QED
        BY <4>1, <3>4 DEF ConnType
    <3>7. at' \in [Procs -> {"idle", "construct", "start", "push", "test", "racing", "flush"}]
      BY <3>2 DEF Goto, ConnType
    <3>. QED
      BY <3>1, <3>6, <3>7, <3>8 DEF ConnType
  <2>10. ASSUME NEW p \in Procs, Flush(p) PROVE ConnType'
    <3>1. UNCHANGED <<wire, strand, pending, msg, at, sent, recieved, readers>>
      BY <2>10 DEF Flush
    <3>2. cursor[p] \in [next : Nat \ {0}, end : Nat] /\ cursor[p].next <= cursor[p].end
          /\ cursor[p].end <= Len(pending)
      BY <2>10 DEF Flush, ConnType
    <3>3. cursor[p].next \in 1 .. Len(pending)
      BY <3>2, LenProperties DEF ConnType
    <3>4. pending[cursor[p].next] \in Messages \ {Handshake}
      BY <3>3, ElementOfSeq DEF ConnType
    <3>5. writes' \in Seq(Chunks)
      BY <2>10, <3>4, NoHandshake, Appended DEF Flush, ConnType
    <3>6. cursor' = [cursor EXCEPT ![p].next = @ + 1]
      BY <2>10 DEF Flush
    <3>7. cursor' \in [Procs -> [next : Nat \ {0}, end : Nat]]
      <4>1. [cursor[p] EXCEPT !.next = @ + 1] \in [next : Nat \ {0}, end : Nat]
        BY <3>2
      <4>2. cursor' = [cursor EXCEPT ![p] = [cursor[p] EXCEPT !.next = @ + 1]]
        BY <3>6
      <4>. QED
        BY <4>1, <4>2 DEF ConnType
    <3>8. \A q \in Procs : cursor'[q].end = cursor[q].end
      BY <3>6, <3>2 DEF ConnType
    <3>9. \A q \in Procs : cursor'[q].end <= Len(pending')
      BY <3>1, <3>8 DEF ConnType
    <3>. QED
      BY <3>1, <3>5, <3>7, <3>9 DEF ConnType
  <2>11. ASSUME NEW p \in Procs, BeginReading(p) PROVE ConnType'
    BY <2>11 DEF BeginReading, Goto, ConnType
  <2>12. CASE ReadFails
    BY <2>12 DEF ReadFails, ConnType
  <2>13. CASE KeepAlive
    BY <2>13, <2>0, NoHandshake, SendType DEF KeepAlive, ConnType
  <2>14. CASE WriteDone \/ WritePart
    <3>1. writes # <<>> /\ Head(writes) \in Chunks /\ Tail(writes) \in Seq(Chunks)
      BY <2>14, Taken DEF WriteDone, WritePart, ConnType
    <3>2. PICK c \in Chunks : wire' = Append(wire, c) /\ strand' = Append(strand, c)
      BY <2>14, <3>1 DEF WriteDone, WritePart, Chunks
    <3>3. wire' \in Seq(Chunks) /\ strand' \in Seq(Chunks)
      BY <3>2, Appended DEF ConnType
    <3>. QED
      BY <2>14, <3>1, <3>3 DEF WriteDone, WritePart, ConnType
  <2>15. CASE ConnectFails \/ RecvUnknown
    BY <2>15, <2>7 DEF ConnectFails, RecvUnknown
  <2>16. CASE Break \/ RejectHandshake \/ TimerExpires
    BY <2>16 DEF Break, RejectHandshake, TimerExpires, ConnType
  <2>17. CASE RecvHandshake
    <3>1. at' \in [Procs -> {"idle", "construct", "start", "push", "test", "racing", "flush"}]
      BY <2>17 DEF RecvHandshake, GotoTest, ConnType
    <3>. QED
      BY <2>17, <3>1 DEF RecvHandshake, ConnType
  <2>18. CASE RecvMessage
    <3>1. writes' \in Seq(Chunks)
      <4>1. CASE UNCHANGED writes
        BY <4>1 DEF ConnType
      <4>2. ASSUME NEW m \in Msgs, writes' = Append(writes, Whole(m)) PROVE writes' \in Seq(Chunks)
        BY <4>2, NoHandshake, Appended DEF ConnType
      <4>. QED
        BY <2>18, <4>1, <4>2 DEF RecvMessage
    <3>. QED
      BY <2>18, <3>1 DEF RecvMessage, ConnType
  <2>19. CASE RecvTorn
    <3>1. CASE Crash
      BY <3>1, <2>7
    <3>2. CASE readers' = readers - 1 /\ UNCHANGED <<wire, writes, strand, pending, msg, at, cursor, sent, recieved>>
      BY <2>19, <3>2 DEF RecvTorn, ConnType
    <3>. QED
      BY <2>19, <3>1, <3>2 DEF RecvTorn
  <2>20. ASSUME NEW p \in Callers, NEW m \in Msgs, CallerSends(p, m) PROVE ConnType'
    BY <2>20, <2>0, NoHandshake, SendType DEF CallerSends, ConnType
  <2>21. CASE UNCHANGED vars
    BY <2>21 DEF vars, ConnType
  <2>. QED
    BY <2>1, <2>2, <2>3, <2>4, <2>5, <2>6, <2>8, <2>9, <2>10, <2>11, <2>12, <2>13, <2>14, <2>15,
       <2>16, <2>17, <2>18, <2>19, <2>20, <2>21 DEF Next, Handlers, Environment
<1>. QED
  BY <1>1, <1>2, PTL DEF Spec

-----------------------------------------------------------------------------
(* Nothing overtakes the handshake.                                         *)

\* The flags say no more than what was written and read, an activity that
\* flushes and a chain of reads only exist once both are set, and whatever is on
\* its way is behind the handshake.  HandshakeFirst alone is not inductive: it
\* does not say why send(), the flush and the strand may write.
FlagsHonest == sent => WrittenIn(wire)

Stages ==
    /\ \A p \in Procs : at[p] \in {"racing", "flush"} => sent /\ recieved
    /\ at["strand"] = "test" => sent
    /\ at["reader"] = "test" => recieved
    /\ readers > 0 => sent /\ recieved

StrandDone ==
    \A i \in DOMAIN strand : strand[i].m = Handshake /\ strand[i].bite # "part" => WrittenIn(wire)

FirstInv ==
    /\ FlagsHonest
    /\ Stages
    /\ StrandDone
    /\ OnlyAfter(writes, recieved, wire)
    /\ OnlyAfter(strand, recieved, wire)
    /\ FirstIn(wire, recieved)

\* The members FirstInv depends on.
heart == <<wire, writes, strand, sent, recieved>>

\* A step that leaves the sequences and flags alone and moves an activity to a
\* place outside the handshake keeps FirstInv.
LEMMA FirstAside ==
    ASSUME ConnType, FirstInv, UNCHANGED <<heart, readers>>,
           \A p \in Procs : at'[p] = at[p] \/ at'[p] \in {"idle", "start", "push"}
    PROVE  FirstInv'
<1>1. {"strand", "reader"} \subseteq Procs
  BY DEF Procs
<1>2. Stages'
  BY <1>1 DEF FirstInv, Stages, heart
<1>. QED
  BY <1>2 DEF FirstInv, FlagsHonest, StrandDone, OnlyAfter, FirstIn, WrittenIn, heart

\* send() writes at once only when both halves of the handshake are through.
LEMMA FirstSend ==
    ASSUME ConnType, FirstInv, NEW p \in Procs, NEW m \in Messages \ {Handshake}, Send(p, m),
           UNCHANGED <<wire, strand, sent, recieved, readers>>
    PROVE  FirstInv'
<1>1. \A q \in Procs : at'[q] = at[q] \/ at'[q] \in {"idle", "start", "push"}
  BY DEF Send, Goto, AfterSend, ConnType
<1>2. CASE MustWait
  BY <1>1, <1>2, FirstAside DEF Send, heart
<1>3. CASE ~MustWait
  <2>1. sent /\ recieved /\ WrittenIn(wire)
    BY <1>3 DEF MustWait, Complete, FirstInv, FlagsHonest
  <2>2. writes' = Append(writes, Whole(m)) /\ Whole(m) \in Chunks
    BY <1>3, NoHandshake DEF Send
  <2>3. OnlyAfter(writes', recieved, wire)
    BY <2>1, <2>2, AfterGrows DEF ConnType, FirstInv
  <2>4. Stages'
    <3>1. {"strand", "reader"} \subseteq Procs
      BY DEF Procs
    <3>. QED
      BY <1>1, <3>1 DEF FirstInv, Stages
  <2>. QED
    BY <2>3, <2>4 DEF FirstInv, FlagsHonest, StrandDone, OnlyAfter, FirstIn, WrittenIn
<1>. QED
  BY <1>2, <1>3

\* A write that is begun, or dropped, behind the handshake.
LEMMA FirstWrites ==
    ASSUME FirstInv, OnlyAfter(writes', recieved, wire),
           UNCHANGED <<wire, strand, sent, recieved, readers>>,
           \A p \in Procs : at'[p] = at[p] \/ at'[p] \in {"idle", "start", "push"}
    PROVE  FirstInv'
<1>1. {"strand", "reader"} \subseteq Procs
  BY DEF Procs
<1>2. Stages'
  BY <1>1 DEF FirstInv, Stages
<1>. QED
  BY <1>2 DEF FirstInv, FlagsHonest, StrandDone, OnlyAfter, FirstIn, WrittenIn

\* The socket takes chunk c, the whole or the rest of the first write or a bite
\* of it: of the handshake, or of something behind it.
LEMMA FirstTaken ==
    ASSUME ConnType, FirstInv, writes # <<>>, writes' = Tail(writes),
           NEW c \in Chunks, c.m = Head(writes).m,
           wire' = Append(wire, c), strand' = Append(strand, c),
           UNCHANGED <<sent, recieved, readers, at>>
    PROVE  FirstInv'
<1>1. c.m # Handshake => recieved /\ WrittenIn(wire)
  BY AfterShrinks DEF ConnType, FirstInv
<1>2. WrittenIn(wire) => WrittenIn(wire')
  BY WrittenGrows DEF ConnType
<1>3. c.m = Handshake /\ c.bite # "part" => WrittenIn(wire')
  BY WrittenGrows DEF ConnType
<1>4. FirstIn(wire', recieved)
  BY <1>1, FirstGrows DEF ConnType, FirstInv
<1>5. OnlyAfter(Tail(writes), recieved, wire)
  BY AfterShrinks DEF ConnType, FirstInv
<1>6. OnlyAfter(writes', recieved, wire')
  BY <1>5, <1>2, AfterStays
<1>7. OnlyAfter(Append(strand, c), recieved, wire)
  BY <1>1, AfterGrows DEF ConnType, FirstInv
<1>8. OnlyAfter(strand', recieved, wire')
  BY <1>7, <1>2, AfterStays
<1>9. StrandDone'
  <2>1. /\ DOMAIN strand' = 1 .. Len(strand) + 1 /\ strand'[Len(strand) + 1] = c
        /\ \A i \in 1 .. Len(strand) : strand'[i] = strand[i]
    BY Appended DEF ConnType
  <2>2. Len(strand) \in Nat /\ DOMAIN strand = 1 .. Len(strand)
    BY LenProperties DEF ConnType
  <2>. SUFFICES ASSUME NEW i \in 1 .. Len(strand) + 1,
                       strand'[i].m = Handshake, strand'[i].bite # "part"
                PROVE  WrittenIn(wire')
    BY <2>1 DEF StrandDone
  <2>3. CASE i \in 1 .. Len(strand)
    BY <2>1, <2>2, <2>3, <1>2 DEF FirstInv, StrandDone
  <2>4. CASE i = Len(strand) + 1
    BY <2>1, <2>4, <1>3
  <2>. QED
    BY <2>2, <2>3, <2>4
<1>10. FlagsHonest' /\ Stages'
  BY <1>2 DEF FirstInv, FlagsHonest, Stages
<1>. QED
  BY <1>4, <1>6, <1>8, <1>9, <1>10 DEF FirstInv

\* Taking the first chunk off the strand.
LEMMA StrandShrinks ==
    ASSUME ConnType, FirstInv, strand # <<>>, strand' = Tail(strand), UNCHANGED <<wire, recieved>>
    PROVE  /\ OnlyAfter(strand', recieved', wire') /\ StrandDone'
           /\ Head(strand) \in Chunks
           /\ Head(strand).m # Handshake => recieved /\ WrittenIn(wire)
           /\ Head(strand).m = Handshake /\ Head(strand).bite # "part" => WrittenIn(wire)
<1>1. OnlyAfter(Tail(strand), recieved, wire)
      /\ (Head(strand).m # Handshake => recieved /\ WrittenIn(wire))
  BY AfterShrinks DEF ConnType, FirstInv
<1>2. /\ Head(strand) \in Chunks /\ Head(strand) = strand[1] /\ 1 \in DOMAIN strand
      /\ \A i \in DOMAIN strand' : i + 1 \in DOMAIN strand /\ strand'[i] = strand[i + 1]
  BY Taken DEF ConnType
<1>3. StrandDone' /\ (Head(strand).m = Handshake /\ Head(strand).bite # "part" => WrittenIn(wire))
  BY <1>2 DEF FirstInv, StrandDone, WrittenIn
<1>. QED
  BY <1>1, <1>2, <1>3

\* A handler that sets its flag and goes on to test both.
LEMMA FirstFlag ==
    ASSUME ConnType, FirstInv, NEW p \in {"strand", "reader"}, NEW q \in {"strand", "reader"}, p # q,
           GotoTest(p, q), sent => sent', recieved => recieved', UNCHANGED readers,
           p = "strand" => sent', p = "reader" => recieved'
    PROVE  Stages'
<1>1. {"strand", "reader"} \subseteq Procs
  BY DEF Procs
<1>2. at[q] \in {"test", "racing"} => sent' /\ recieved'
  BY <1>1 DEF FirstInv, Stages
<1>3. \A a \in Procs : at'[a] \in {"racing", "flush"} => sent' /\ recieved'
  BY <1>1, <1>2 DEF GotoTest, ConnType, FirstInv, Stages
<1>4. (at'["strand"] = "test" => sent') /\ (at'["reader"] = "test" => recieved')
  BY <1>1 DEF GotoTest, ConnType, FirstInv, Stages
<1>. QED
  BY <1>3, <1>4 DEF FirstInv, Stages

\* Every step of the connection keeps that.
THEOREM FirstInvariant == Spec => []FirstInv
<1>1. Init => FirstInv
  BY DEF Init, FirstInv, FlagsHonest, Stages, StrandDone, OnlyAfter, FirstIn, Procs
<1>2. ConnType /\ FirstInv /\ [Next]_vars => FirstInv'
  <2> SUFFICES ASSUME ConnType, FirstInv, [Next]_vars PROVE FirstInv'
    OBVIOUS
  <2>0. {"ctor", "strand", "reader", "timer"} \subseteq Procs /\ Callers \subseteq Procs
    BY DEF Procs
  <2>1. CASE Construct
    BY <2>1, <2>0, NoHandshake, FirstSend DEF Construct
  <2>2. CASE StartAccepted \/ Connected
    <3>1. writes' = Append(writes, Whole(Handshake)) /\ UNCHANGED <<wire, strand, sent, recieved, readers>>
      BY <2>2 DEF StartAccepted, Connected, Start
    <3>2. OnlyAfter(writes', recieved, wire)
      <4>1. Whole(Handshake) \in Chunks /\ Whole(Handshake).m = Handshake
        BY NoHandshake
      <4>2. writes \in Seq(Chunks) /\ recieved \in BOOLEAN /\ OnlyAfter(writes, recieved, wire)
        BY DEF ConnType, FirstInv
      <4>3. OnlyAfter(Append(writes, Whole(Handshake)), recieved, wire)
        BY <4>1, <4>2, AfterGrows
      <4>. QED
        BY <3>1, <4>3
    <3>3. \A p \in Procs : at'[p] = at[p] \/ at'[p] \in {"idle", "start", "push"}
      BY <2>2 DEF StartAccepted, Connected, Goto, ConnType
    <3>. QED
      BY <3>1, <3>2, <3>3, FirstWrites
  <2>3. CASE ContinueWrite
    <3>1. strand # <<>> /\ strand' = Tail(strand) /\ UNCHANGED <<wire, sent, recieved, readers, at>>
      BY <2>3 DEF ContinueWrite
    <3>2. /\ OnlyAfter(strand', recieved', wire') /\ StrandDone' /\ Head(strand) \in Chunks
          /\ Head(strand).m # Handshake => recieved /\ WrittenIn(wire)
      BY <3>1, StrandShrinks
    <3>3. [Head(strand) EXCEPT !.bite = "rest"] \in Chunks
          /\ [Head(strand) EXCEPT !.bite = "rest"].m = Head(strand).m
      BY <3>2 DEF Chunks
    <3>4. OnlyAfter(writes', recieved, wire)
      <4>1. writes \in Seq(Chunks) /\ recieved \in BOOLEAN /\ OnlyAfter(writes, recieved, wire)
        BY DEF ConnType, FirstInv
      <4>2. OnlyAfter(Append(writes, [Head(strand) EXCEPT !.bite = "rest"]), recieved, wire)
        BY <3>2, <3>3, <4>1, AfterGrows
      <4>. QED
        BY <2>3, <4>2 DEF ContinueWrite
    <3>5. Stages' /\ FlagsHonest' /\ FirstIn(wire', recieved')
      BY <3>1 DEF FirstInv, Stages, FlagsHonest, FirstIn, WrittenIn
    <3>6. OnlyAfter(writes', recieved', wire')
      BY <3>1, <3>4 DEF OnlyAfter, WrittenIn
    <3>. QED
      BY <3>2, <3>5, <3>6 DEF FirstInv
  <2>4. CASE SendHandler
    <3>1. strand # <<>> /\ strand' = Tail(strand) /\ UNCHANGED <<wire, writes, recieved, readers>>
          /\ Head(strand).bite # "part"
      BY <2>4 DEF SendHandler
    <3>2. /\ OnlyAfter(strand', recieved', wire') /\ StrandDone'
          /\ Head(strand).m = Handshake => WrittenIn(wire)
      BY <3>1, StrandShrinks
    <3>3. CASE Head(strand).m = Handshake
      <4>1. sent' = TRUE /\ GotoTest("strand", "reader")
        BY <2>4, <3>3 DEF SendHandler
      <4>2. Stages'
        BY <3>1, <4>1, FirstFlag
      <4>3. FlagsHonest'
        BY <3>1, <3>2, <3>3 DEF FlagsHonest, WrittenIn
      <4>. QED
        BY <3>1, <3>2, <4>2, <4>3 DEF FirstInv, OnlyAfter, FirstIn, WrittenIn
    <3>4. CASE Head(strand).m # Handshake
      <4>1. UNCHANGED <<sent, at>>
        BY <2>4, <3>4 DEF SendHandler
      <4>. QED
        BY <3>1, <3>2, <4>1 DEF FirstInv, FlagsHonest, Stages, OnlyAfter, FirstIn, WrittenIn
    <3>. QED
      BY <3>3, <3>4
  <2>5. CASE WriteFails
    <3>1. OnlyAfter(writes', recieved, wire)
      BY <2>5, AfterShrinks DEF WriteFails, ConnType, FirstInv
    <3>. QED
      BY <2>5, <3>1, FirstWrites DEF WriteFails
  <2>6. ASSUME NEW p \in Procs, Push(p) PROVE FirstInv'
    <3>1. \A q \in Procs : at'[q] = at[q] \/ at'[q] \in {"idle", "start", "push"}
      BY <2>6 DEF Push, Goto, AfterSend, ConnType
    <3>. QED
      BY <2>6, <3>1, FirstAside DEF Push, heart
  <2>7. CASE Crash
    BY <2>7, FirstAside DEF Crash, heart
  <2>8. ASSUME NEW p \in Procs, PushRace(p) PROVE FirstInv'
    <3>1. CASE Crash
      BY <3>1, <2>7
    <3>2. CASE Goto(p, AfterSend(p)) /\ UNCHANGED <<heart, readers>>
      <4>1. \A q \in Procs : at'[q] = at[q] \/ at'[q] \in {"idle", "start", "push"}
        BY <3>2 DEF Goto, AfterSend, ConnType
      <4>. QED
        BY <3>2, <4>1, FirstAside
    <3>. QED
      BY <2>8, <3>1, <3>2 DEF PushRace, heart
  <2>9. ASSUME NEW p \in Procs, TestComplete(p) PROVE FirstInv'
    <3>1. UNCHANGED <<heart, readers>>
      BY <2>9 DEF TestComplete, heart
    <3>2. CASE Goto(p, "idle")
      <4>1. \A q \in Procs : at'[q] = at[q] \/ at'[q] \in {"idle", "start", "push"}
        BY <3>2 DEF Goto, ConnType
      <4>. QED
        BY <3>1, <4>1, FirstAside
    <3>3. CASE Goto(p, "flush") /\ sent /\ recieved
      <4>1. Stages'
        BY <3>1, <3>3, <2>0 DEF Goto, ConnType, FirstInv, Stages, heart
      <4>. QED
        BY <3>1, <4>1 DEF FirstInv, FlagsHonest, StrandDone, OnlyAfter, FirstIn, WrittenIn, heart
    <3>4. Goto(p, "idle") \/ (Goto(p, "flush") /\ sent /\ recieved)
      <4>1. CASE at[p] = "racing"
        <5>1. sent /\ recieved
          BY <4>1 DEF FirstInv, Stages
        <5>. QED
          BY <2>9, <5>1 DEF TestComplete
      <4>2. CASE at[p] # "racing"
        BY <2>9, <4>2 DEF TestComplete, Tested, Complete
      <4>. QED
        BY <4>1, <4>2
    <3>. QED
      BY <3>2, <3>3, <3>4
  <2>10. ASSUME NEW p \in Procs, Flush(p) PROVE FirstInv'
    <3>1. sent /\ recieved /\ WrittenIn(wire)
      BY <2>10 DEF Flush, FirstInv, Stages, FlagsHonest
    <3>2. cursor[p].next \in 1 .. Len(pending)
      <4>1. cursor[p] \in [next : Nat \ {0}, end : Nat] /\ cursor[p].next <= cursor[p].end
            /\ cursor[p].end <= Len(pending)
        BY <2>10 DEF Flush, ConnType
      <4>. QED
        BY <4>1, LenProperties DEF ConnType
    <3>3. Whole(pending[cursor[p].next]) \in Chunks
      BY <3>2, ElementOfSeq, NoHandshake DEF ConnType
    <3>4. OnlyAfter(writes', recieved, wire)
      BY <2>10, <3>1, <3>3, AfterGrows DEF Flush, ConnType, FirstInv
    <3>. QED
      BY <2>10, <3>4, FirstWrites DEF Flush
  <2>11. ASSUME NEW p \in Procs, BeginReading(p) PROVE FirstInv'
    <3>1. sent /\ recieved
      BY <2>11 DEF BeginReading, FirstInv, Stages
    <3>2. Stages'
      BY <2>11, <3>1, <2>0 DEF BeginReading, Goto, ConnType, FirstInv, Stages
    <3>. QED
      BY <2>11, <3>2 DEF BeginReading, FirstInv, FlagsHonest, StrandDone, OnlyAfter, FirstIn, WrittenIn
  <2>12. CASE ReadFails
    <3>1. Stages'
      BY <2>12 DEF ReadFails, ConnType, FirstInv, Stages
    <3>. QED
      BY <2>12, <3>1 DEF ReadFails, FirstInv, FlagsHonest, StrandDone, OnlyAfter, FirstIn, WrittenIn
  <2>13. CASE KeepAlive
    BY <2>13, <2>0, NoHandshake, FirstSend DEF KeepAlive
  <2>14. CASE WriteDone
    <3>1. writes # <<>> /\ Head(writes) \in Chunks
      BY <2>14, Taken DEF WriteDone, ConnType
    <3>. QED
      BY <2>14, <3>1, FirstTaken DEF WriteDone
  <2>15. CASE WritePart
    <3>1. writes # <<>> /\ Head(writes) \in Chunks
      BY <2>15, Taken DEF WritePart, ConnType
    <3>2. [m |-> Head(writes).m, bite |-> "part"] \in Chunks
      BY <3>1 DEF Chunks
    <3>. QED
      BY <2>15, <3>1, <3>2, FirstTaken DEF WritePart
  <2>16. CASE ConnectFails \/ RecvUnknown
    BY <2>16, <2>7 DEF ConnectFails, RecvUnknown
  <2>17. CASE Break \/ RejectHandshake \/ TimerExpires
    BY <2>17, FirstAside DEF Break, RejectHandshake, TimerExpires, heart
  <2>18. CASE RecvHandshake
    <3>1. recieved' = TRUE /\ GotoTest("reader", "strand") /\ UNCHANGED <<wire, writes, strand, sent, readers>>
      BY <2>18 DEF RecvHandshake
    <3>2. Stages'
      BY <3>1, FirstFlag
    <3>. QED
      BY <3>1, <3>2 DEF FirstInv, FlagsHonest, StrandDone, OnlyAfter, FirstIn, WrittenIn
  <2>19. CASE RecvMessage
    <3>1. readers = 1 /\ sent /\ recieved /\ WrittenIn(wire)
      BY <2>19 DEF RecvMessage, FirstInv, Stages, FlagsHonest
    <3>2. OnlyAfter(writes', recieved, wire)
      <4>1. CASE UNCHANGED writes
        BY <4>1 DEF FirstInv, OnlyAfter
      <4>2. ASSUME NEW m \in Msgs, writes' = Append(writes, Whole(m))
            PROVE  OnlyAfter(writes', recieved, wire)
        BY <4>2, <3>1, NoHandshake, AfterGrows DEF ConnType, FirstInv
      <4>. QED
        BY <2>19, <4>1, <4>2 DEF RecvMessage
    <3>. QED
      BY <2>19, <3>2, FirstWrites DEF RecvMessage
  <2>20. CASE RecvTorn
    <3>1. CASE Crash
      BY <3>1, <2>7
    <3>2. CASE readers' = readers - 1 /\ UNCHANGED <<heart, at>>
      <4>1. Stages'
        BY <2>20, <3>2 DEF RecvTorn, ConnType, FirstInv, Stages, heart
      <4>. QED
        BY <3>2, <4>1 DEF FirstInv, FlagsHonest, StrandDone, OnlyAfter, FirstIn, WrittenIn, heart
    <3>. QED
      BY <2>20, <3>1, <3>2 DEF RecvTorn, heart
  <2>21. ASSUME NEW p \in Callers, NEW m \in Msgs, CallerSends(p, m) PROVE FirstInv'
    BY <2>21, <2>0, NoHandshake, FirstSend DEF CallerSends
  <2>22. CASE UNCHANGED vars
    BY <2>22, FirstAside DEF vars, heart
  <2>. QED
    BY <2>1, <2>2, <2>3, <2>4, <2>5, <2>6, <2>8, <2>9, <2>10, <2>11, <2>12, <2>13, <2>14, <2>15,
       <2>16, <2>17, <2>18, <2>19, <2>20, <2>21, <2>22 DEF Next, Handlers, Environment
<1>. QED
  BY <1>1, <1>2, ConnTypeCorrect, PTL DEF Spec

\* Whatever the threads do to the flags and the queue of held-back messages,
\* nothing but the handshake is on its way before ours is written to the last
\* byte and the remote's was accepted.
THEOREM NothingOvertakes == Spec => []HandshakeFirst
<1>1. ConnType /\ FirstInv => HandshakeFirst
  <2> SUFFICES ASSUME ConnType, FirstInv PROVE HandshakeFirst
    OBVIOUS
  <2>1. ASSUME NEW c \in ToSet(writes), c.m # Handshake
        PROVE  recieved /\ Written(Handshake)
    BY <2>1 DEF ToSet, FirstInv, OnlyAfter, WrittenIn, Written
  <2>2. \A i \in DOMAIN wire : wire[i].m # Handshake =>
          recieved /\ \E j \in 1 .. i - 1 : wire[j].m = Handshake /\ wire[j].bite # "part"
    BY DEF FirstInv, FirstIn
  <2>. QED
    BY <2>1, <2>2 DEF HandshakeFirst
<1>. QED
  BY <1>1, ConnTypeCorrect, FirstInvariant, PTL

-----------------------------------------------------------------------------
(* The handshake is sent once and received once.                            *)

HasHandshake(s) == \E i \in DOMAIN s : s[i].m = Handshake
OneHandshake(s) == \A i, j \in DOMAIN s : s[i].m = Handshake /\ s[j].m = Handshake => i = j

\* At most one handshake is in two sequences, or none.
Single(w, s) == OneHandshake(w) /\ OneHandshake(s) /\ ~(HasHandshake(w) /\ HasHandshake(s))
None(w, s)   == ~HasHandshake(w) /\ ~HasHandshake(s)

\* start() is still to be called.
Unstarted ==
    \/ socket = "connecting"
    \/ at["ctor"] = "start"
    \/ at["ctor"] \in {"construct", "push"} /\ ~outgoing

\* start() is called once, by accept_peer or by the handler of the connect, and
\* each half of the handshake completes once.
HandshakeInv ==
    /\ outgoing => at["ctor"] # "start"
    /\ ~outgoing => socket # "connecting"
    /\ Single(writes, strand)
    /\ sent \/ Unstarted => None(writes, strand)
    /\ Unstarted => ~sent /\ handshakeRead = "none"
    /\ recieved => handshakeRead = "done"

\* A message that is not the handshake may be appended anywhere, the handshake
\* where there is none.
LEMMA HandshakeAppended ==
    ASSUME NEW s \in Seq(Chunks), NEW c \in Chunks
    PROVE  /\ c.m # Handshake => (HasHandshake(Append(s, c)) <=> HasHandshake(s))
           /\ c.m # Handshake \/ ~HasHandshake(s) => (OneHandshake(s) => OneHandshake(Append(s, c)))
<1>1. /\ DOMAIN Append(s, c) = 1 .. Len(s) + 1 /\ Append(s, c)[Len(s) + 1] = c
      /\ \A i \in 1 .. Len(s) : Append(s, c)[i] = s[i]
  BY Appended
<1>2. Len(s) \in Nat /\ DOMAIN s = 1 .. Len(s)
  BY LenProperties
<1> DEFINE n == Len(s)
           t == Append(s, c)
<1> HIDE DEF n, t
<1>3. /\ DOMAIN t = 1 .. n + 1 /\ t[n + 1] = c /\ n \in Nat /\ DOMAIN s = 1 .. n
      /\ \A i \in 1 .. n : t[i] = s[i]
  BY <1>1, <1>2 DEF n, t
<1>4. \A i \in 1 .. n + 1 : i \in 1 .. n \/ i = n + 1
  BY <1>3
<1>5. n + 1 \in 1 .. n + 1 /\ 1 .. n \subseteq 1 .. n + 1
  BY <1>3
<1>6. c.m # Handshake => (HasHandshake(t) <=> HasHandshake(s))
  BY <1>3, <1>4, <1>5 DEF HasHandshake
<1>7. ASSUME OneHandshake(s), c.m # Handshake PROVE OneHandshake(t)
  <2>1. \A i \in 1 .. n + 1 : t[i].m = Handshake => i \in 1 .. n /\ s[i].m = Handshake
    BY <1>3, <1>4, <1>7
  <2> QED
    BY <1>3, <1>7, <2>1 DEF OneHandshake
<1>8. ASSUME ~HasHandshake(s) PROVE OneHandshake(t)
  <2>1. \A i \in 1 .. n + 1 : t[i].m = Handshake => i = n + 1
    BY <1>3, <1>4, <1>8 DEF HasHandshake
  <2> QED
    BY <1>3, <2>1 DEF OneHandshake
<1> QED
  BY <1>6, <1>7, <1>8 DEF t

\* Taking the first chunk leaves at most one handshake, and none if it was it.
LEMMA HandshakeTaken ==
    ASSUME NEW s \in Seq(Chunks), s # <<>>
    PROVE  /\ HasHandshake(Tail(s)) => HasHandshake(s)
           /\ Head(s).m = Handshake => HasHandshake(s)
           /\ OneHandshake(s) => OneHandshake(Tail(s))
           /\ OneHandshake(s) /\ Head(s).m = Handshake => ~HasHandshake(Tail(s))
<1>1. /\ Head(s) = s[1] /\ 1 \in DOMAIN s
      /\ \A i \in DOMAIN Tail(s) : i + 1 \in DOMAIN s /\ Tail(s)[i] = s[i + 1]
  BY Taken
<1>2. Tail(s) \in Seq(Chunks)
  BY Taken
<1>3. \A i \in DOMAIN Tail(s) : i \in Nat \ {0}
  <2>1. DOMAIN Tail(s) = 1 .. Len(Tail(s)) /\ Len(Tail(s)) \in Nat
    BY <1>2, LenProperties
  <2> QED
    BY <2>1
<1> DEFINE t == Tail(s)
<1> HIDE DEF t
<1>4. /\ \A i \in DOMAIN t : i + 1 \in DOMAIN s /\ t[i] = s[i + 1]
      /\ \A i \in DOMAIN t : i \in Nat \ {0}
  BY <1>1, <1>3 DEF t
<1>5. HasHandshake(t) => HasHandshake(s)
  BY <1>4 DEF HasHandshake
<1>6. Head(s).m = Handshake => HasHandshake(s)
  BY <1>1 DEF HasHandshake
<1>7. ASSUME OneHandshake(s) PROVE OneHandshake(t)
  <2> SUFFICES ASSUME NEW i \in DOMAIN t, NEW j \in DOMAIN t,
                      t[i].m = Handshake, t[j].m = Handshake
               PROVE  i = j
    BY DEF OneHandshake
  <2>1. i + 1 = j + 1
    BY <1>4, <1>7 DEF OneHandshake
  <2> QED
    BY <1>4, <2>1
<1>8. ASSUME OneHandshake(s), Head(s).m = Handshake, HasHandshake(t) PROVE FALSE
  <2>1. PICK i \in DOMAIN t : t[i].m = Handshake
    BY <1>8 DEF HasHandshake
  <2>2. i + 1 = 1
    BY <1>1, <1>4, <1>8, <2>1 DEF OneHandshake
  <2> QED
    BY <1>4, <2>2
<1> QED
  BY <1>5, <1>6, <1>7, <1>8 DEF t

\* A chunk that moves from one sequence to the other, in whatever bite.
LEMMA HandshakeMoved ==
    ASSUME NEW w \in Seq(Chunks), NEW s \in Seq(Chunks), w # <<>>,
           NEW c \in Chunks, c.m = Head(w).m, Single(w, s)
    PROVE  /\ Single(Tail(w), Append(s, c))
           /\ None(w, s) => None(Tail(w), Append(s, c))
<1>1. CASE c.m # Handshake
  BY <1>1, HandshakeAppended, HandshakeTaken DEF Single, None
<1>2. CASE c.m = Handshake
  <2>1. HasHandshake(w) /\ ~HasHandshake(s) /\ ~HasHandshake(Tail(w))
    BY <1>2, HandshakeTaken DEF Single
  <2>2. OneHandshake(Append(s, c)) /\ OneHandshake(Tail(w))
    BY <2>1, HandshakeAppended, HandshakeTaken DEF Single
  <2> QED
    BY <2>1, <2>2 DEF Single, None
<1> QED
  BY <1>1, <1>2

\* A step that appends a message to the writes, or takes one off, or neither,
\* and leaves the start of the connection behind or as it was.
LEMMA HandshakeAside ==
    ASSUME ConnType, HandshakeInv, UNCHANGED <<outgoing, strand>>,
           \/ UNCHANGED writes
           \/ \E c \in Chunks : c.m # Handshake /\ writes' = Append(writes, c)
           \/ writes # <<>> /\ writes' = Tail(writes),
           sent' => sent, recieved' => handshakeRead' = "done",
           Unstarted' => Unstarted /\ handshakeRead' = handshakeRead,
           outgoing => at'["ctor"] # "start",
           socket' = "connecting" => socket = "connecting"
    PROVE  HandshakeInv'
<1>1. Single(writes', strand) /\ (None(writes, strand) => None(writes', strand))
  <2>1. CASE UNCHANGED writes
    BY <2>1 DEF HandshakeInv
  <2>2. ASSUME NEW c \in Chunks, c.m # Handshake, writes' = Append(writes, c)
        PROVE  Single(writes', strand) /\ (None(writes, strand) => None(writes', strand))
    BY <2>2, HandshakeAppended DEF HandshakeInv, Single, None, ConnType
  <2>3. CASE writes # <<>> /\ writes' = Tail(writes)
    BY <2>3, HandshakeTaken DEF HandshakeInv, Single, None, ConnType
  <2> QED
    BY <2>1, <2>2, <2>3
<1> QED
  BY <1>1 DEF HandshakeInv

\* send() appends a message that is not the handshake, if any.
LEMMA HandshakeSend ==
    ASSUME ConnType, HandshakeInv, NEW p \in Procs, NEW m \in Messages \ {Handshake}, Send(p, m),
           UNCHANGED <<outgoing, socket, strand, sent, recieved, handshakeRead>>,
           p = "ctor" => at["ctor"] = "construct"
    PROVE  HandshakeInv'
<1>1. UNCHANGED writes \/ \E c \in Chunks : c.m # Handshake /\ writes' = Append(writes, c)
  <2>1. Whole(m) \in Chunks /\ Whole(m).m = m
    BY NoHandshake
  <2> QED
    BY <2>1 DEF Send
<1>2. at'["ctor"] = at["ctor"] \/ (at["ctor"] = "construct" /\ at'["ctor"] \in {"push", AfterSend("ctor")})
  BY DEF Send, Goto, ConnType, Procs
<1>3. Unstarted' => Unstarted
  BY <1>2 DEF Unstarted, AfterSend
<1>4. outgoing => at'["ctor"] # "start"
  BY <1>2 DEF AfterSend, HandshakeInv
<1>5. recieved' => handshakeRead' = "done"
  BY DEF HandshakeInv
<1> QED
  BY <1>1, <1>3, <1>4, <1>5, HandshakeAside

\* What the other activities do to at leaves the constructor where it was.
LEMMA CtorStays ==
    ASSUME ConnType, NEW p \in Procs, p # "ctor", NEW l, Goto(p, l)
    PROVE  at'["ctor"] = at["ctor"]
  BY DEF Goto, ConnType, Procs

\* On any number of threads the handshake is written once, and once received.
THEOREM HandshakeOnce == Spec => []HandshakeInv
<1>1. Init => HandshakeInv
  <2> SUFFICES ASSUME Init PROVE HandshakeInv
    OBVIOUS
  <2>1. at["ctor"] = "construct"
    BY DEF Init, Procs
  <2>2. None(writes, strand) /\ Single(writes, strand)
    BY DEF Init, None, Single, HasHandshake, OneHandshake
  <2> QED
    BY <2>1, <2>2 DEF Init, HandshakeInv
<1>2. ConnType /\ HandshakeInv /\ [Next]_vars => HandshakeInv'
  <2> SUFFICES ASSUME ConnType, HandshakeInv, [Next]_vars PROVE HandshakeInv'
    OBVIOUS
  <2>0. {"ctor", "strand", "reader", "timer"} \subseteq Procs /\ Callers \subseteq Procs
        /\ "ctor" \notin Callers
    BY ConnectionAssumption DEF Procs
  <2> DEFINE Aside == UNCHANGED <<outgoing, writes, strand, sent, recieved, handshakeRead>>
             Started == at'["ctor"] = at["ctor"] /\ UNCHANGED socket
             Stays == UNCHANGED <<outgoing, sent, recieved, handshakeRead>> /\ Started
  <2>a. Aside /\ Started => HandshakeInv'
    BY DEF HandshakeInv, Unstarted
  <2>b. Stays => (Unstarted' <=> Unstarted)
    BY DEF Unstarted
  <2>1. CASE Construct
    BY <2>1, <2>0, NoHandshake, HandshakeSend DEF Construct
  <2>2. CASE StartAccepted \/ Connected
    <3>1. /\ writes' = Append(writes, Whole(Handshake)) /\ UNCHANGED <<outgoing, strand, sent, recieved>>
          /\ Unstarted
      BY <2>2 DEF StartAccepted, Connected, Start, Unstarted
    <3>2. ~Unstarted'
      BY <2>2, <2>0 DEF StartAccepted, Connected, Start, Unstarted, HandshakeInv, Goto, ConnType
    <3>3. ~sent /\ ~recieved /\ None(writes, strand)
      BY <3>1 DEF HandshakeInv
    <3>4. Single(writes', strand')
      BY <3>1, <3>3, NoHandshake, HandshakeAppended DEF HandshakeInv, Single, None, ConnType
    <3>5. (outgoing' => at'["ctor"] # "start") /\ (~outgoing' => socket' # "connecting")
      BY <3>1, <3>2 DEF Unstarted
    <3> QED
      BY <3>1, <3>2, <3>3, <3>4, <3>5 DEF HandshakeInv
  <2>3. CASE ContinueWrite
    <3>1. /\ strand # <<>> /\ strand' = Tail(strand)
          /\ writes' = Append(writes, [Head(strand) EXCEPT !.bite = "rest"]) /\ Stays
      BY <2>3 DEF ContinueWrite
    <3>2. Head(strand) \in Chunks
      BY <3>1, Taken DEF ConnType
    <3> DEFINE c == [Head(strand) EXCEPT !.bite = "rest"]
    <3>3. c \in Chunks /\ c.m = Head(strand).m
      BY <3>2 DEF Chunks
    <3> HIDE DEF c
    <3>4. Single(strand, writes)
      BY DEF HandshakeInv, Single
    <3>5. Single(Tail(strand), Append(writes, c))
          /\ (None(strand, writes) => None(Tail(strand), Append(writes, c)))
      BY <3>1, <3>3, <3>4, HandshakeMoved DEF ConnType
    <3>6. writes' = Append(writes, c)
      BY <3>1 DEF c
    <3>7. Single(writes', strand') /\ (None(writes, strand) => None(writes', strand'))
      BY <3>1, <3>5, <3>6 DEF Single, None
    <3> QED
      BY <3>1, <3>7, <2>b DEF HandshakeInv
  <2>4. CASE SendHandler
    <3>1. strand # <<>> /\ strand' = Tail(strand)
          /\ UNCHANGED <<outgoing, socket, writes, recieved, handshakeRead>>
      BY <2>4 DEF SendHandler
    <3>2. at'["ctor"] = at["ctor"]
      BY <2>4, <2>0 DEF SendHandler, GotoTest, ConnType
    <3>3. Single(writes', strand') /\ (None(writes, strand) => None(writes', strand'))
      BY <3>1, HandshakeTaken DEF HandshakeInv, Single, None, ConnType
    <3>4. CASE Head(strand).m = Handshake
      <4>1. HasHandshake(strand) /\ ~HasHandshake(strand')
        BY <3>1, <3>4, HandshakeTaken DEF HandshakeInv, Single, ConnType
      <4>2. None(writes', strand') /\ ~Unstarted
        BY <3>1, <4>1 DEF HandshakeInv, Single, None
      <4>3. ~Unstarted'
        BY <3>1, <3>2, <4>2 DEF Unstarted
      <4> QED
        BY <3>1, <3>2, <3>3, <4>2, <4>3 DEF HandshakeInv
    <3>5. CASE Head(strand).m # Handshake
      <4>1. UNCHANGED sent
        BY <2>4, <3>5 DEF SendHandler
      <4> QED
        BY <3>1, <3>2, <3>3, <4>1, <2>b DEF HandshakeInv
    <3> QED
      BY <3>4, <3>5
  <2>5. CASE WriteFails
    <3>1. writes # <<>> /\ writes' = Tail(writes) /\ Stays /\ UNCHANGED strand
      BY <2>5 DEF WriteFails
    <3> QED
      BY <3>1, <2>b, HandshakeAside DEF HandshakeInv
  <2>6. ASSUME NEW p \in Procs, at[p] = "push", Goto(p, AfterSend(p)), Aside, UNCHANGED socket
        PROVE  HandshakeInv'
    <3>1. CASE p = "ctor"
      <4>1. at'["ctor"] = AfterSend("ctor")
        BY <3>1, <2>6, <2>0 DEF Goto, ConnType
      <4>2. (Unstarted' => Unstarted) /\ (outgoing => at'["ctor"] # "start")
        BY <3>1, <4>1, <2>6 DEF Unstarted, AfterSend
      <4> QED
        BY <4>2, <2>6, HandshakeAside DEF HandshakeInv
    <3>2. CASE p # "ctor"
      BY <3>2, <2>6, <2>a, CtorStays
    <3> QED
      BY <3>1, <3>2
  <2>7. ASSUME NEW p \in Procs, Push(p) PROVE HandshakeInv'
    BY <2>6, <2>7 DEF Push
  <2>8. CASE Crash
    BY <2>8, <2>a DEF Crash
  <2>9. ASSUME NEW p \in Procs, PushRace(p) PROVE HandshakeInv'
    BY <2>6, <2>8, <2>9 DEF PushRace
  <2>10. ASSUME NEW p \in Procs, TestComplete(p) \/ BeginReading(p) PROVE HandshakeInv'
    <3>1. Aside /\ UNCHANGED socket /\ at[p] \in {"test", "racing", "flush"}
          /\ (Goto(p, "idle") \/ Goto(p, "flush"))
      BY <2>10 DEF TestComplete, BeginReading
    <3>2. CASE p = "ctor"
      <4>1. ~Unstarted' \/ Unstarted
        BY <3>1, <3>2, <2>0 DEF Unstarted, Goto, ConnType
      <4>2. at'["ctor"] # "start"
        BY <3>1, <3>2, <2>0 DEF Goto, ConnType
      <4> QED
        BY <3>1, <4>1, <4>2, HandshakeAside DEF HandshakeInv
    <3>3. CASE p # "ctor"
      BY <3>1, <3>3, <2>a, CtorStays
    <3> QED
      BY <3>2, <3>3
  <2>11. ASSUME NEW p \in Procs, Flush(p) PROVE HandshakeInv'
    <3>1. cursor[p].next \in 1 .. Len(pending)
      <4>1. cursor[p] \in [next : Nat \ {0}, end : Nat] /\ cursor[p].next <= cursor[p].end
            /\ cursor[p].end <= Len(pending)
        BY <2>11 DEF Flush, ConnType
      <4> QED
        BY <4>1, LenProperties DEF ConnType
    <3>2. pending[cursor[p].next] \in Messages \ {Handshake}
      BY <3>1, ElementOfSeq DEF ConnType
    <3>3. \E c \in Chunks : c.m # Handshake /\ writes' = Append(writes, c)
      BY <2>11, <3>2, NoHandshake DEF Flush
    <3>4. Stays /\ UNCHANGED strand
      BY <2>11 DEF Flush
    <3> QED
      BY <3>3, <3>4, <2>b, HandshakeAside DEF HandshakeInv
  <2>12. CASE ReadFails
    <3>1. /\ UNCHANGED <<outgoing, writes, strand, sent, recieved>> /\ Started
          /\ UNCHANGED handshakeRead \/ (handshakeRead = "waiting" /\ handshakeRead' = "failed")
      BY <2>12 DEF ReadFails
    <3> QED
      BY <3>1 DEF HandshakeInv, Unstarted
  <2>13. CASE KeepAlive
    BY <2>13, <2>0, NoHandshake, HandshakeSend DEF KeepAlive
  <2>14. ASSUME NEW c \in Chunks, writes # <<>>, c.m = Head(writes).m,
                writes' = Tail(writes), strand' = Append(strand, c), Stays
         PROVE  HandshakeInv'
    <3>1. Single(writes', strand') /\ (None(writes, strand) => None(writes', strand'))
      BY <2>14, HandshakeMoved DEF HandshakeInv, ConnType
    <3> QED
      BY <2>14, <3>1, <2>b DEF HandshakeInv
  <2>15. CASE WriteDone
    <3>1. Head(writes) \in Chunks
      BY <2>15, Taken DEF WriteDone, ConnType
    <3> QED
      BY <2>15, <3>1, <2>14 DEF WriteDone
  <2>16. CASE WritePart
    <3>1. Head(writes) \in Chunks
      BY <2>16, Taken DEF WritePart, ConnType
    <3>2. [m |-> Head(writes).m, bite |-> "part"] \in Chunks
      BY <3>1 DEF Chunks
    <3> QED
      BY <2>16, <3>2, <2>14 DEF WritePart
  <2>17. CASE ConnectFails \/ RecvUnknown
    BY <2>17, <2>8 DEF ConnectFails, RecvUnknown
  <2>18. CASE Break
    <3>1. socket' = "broken" /\ socket # "connecting" /\ Aside /\ UNCHANGED at
      BY <2>18 DEF Break
    <3> QED
      BY <3>1 DEF HandshakeInv, Unstarted
  <2>19. CASE TimerExpires
    BY <2>19, <2>a DEF TimerExpires
  <2>20. CASE RejectHandshake \/ RecvHandshake
    <3>1. /\ UNCHANGED <<outgoing, writes, strand, sent, socket>> /\ at'["ctor"] = at["ctor"]
          /\ handshakeRead = "waiting"
          /\ \/ handshakeRead' = "failed" /\ UNCHANGED recieved
             \/ handshakeRead' = "done"
      BY <2>20, <2>0 DEF RejectHandshake, RecvHandshake, GotoTest, ConnType
    <3> QED
      BY <3>1 DEF HandshakeInv, Unstarted
  <2>21. CASE RecvMessage
    <3>1. Stays /\ UNCHANGED strand
      BY <2>21 DEF RecvMessage
    <3>2. UNCHANGED writes \/ \E c \in Chunks : c.m # Handshake /\ writes' = Append(writes, c)
      BY <2>21, NoHandshake DEF RecvMessage
    <3> QED
      BY <3>1, <3>2, <2>b, HandshakeAside DEF HandshakeInv
  <2>22. CASE RecvTorn
    BY <2>22, <2>8, <2>a DEF RecvTorn
  <2>23. ASSUME NEW p \in Callers, NEW m \in Msgs, CallerSends(p, m) PROVE HandshakeInv'
    BY <2>23, <2>0, NoHandshake, HandshakeSend DEF CallerSends
  <2>24. CASE UNCHANGED vars
    BY <2>24, <2>a DEF vars
  <2> QED
    BY <2>1, <2>2, <2>3, <2>4, <2>5, <2>7, <2>9, <2>10, <2>11, <2>12, <2>13, <2>15, <2>16, <2>17,
       <2>18, <2>19, <2>20, <2>21, <2>22, <2>23, <2>24 DEF Next, Handlers, Environment
<1> QED
  BY <1>1, <1>2, ConnTypeCorrect, PTL DEF Spec

-----------------------------------------------------------------------------
(* On one thread: one chain of reads.                                       *)

\* One handler at a time: who tests the flags is the only one to do so, and the
\* second half of the handshake finds nothing completed.
ReaderInv ==
    /\ \A p, q \in Busy : p = q
    /\ completions \in {0, 1} /\ readers \in {0, 1}
    /\ completions = 0 => readers = 0
    /\ completions > 0 => Complete
    /\ \A p \in Procs :
        /\ at[p] # "racing"
        /\ at[p] \in {"construct", "push"} => ~Complete
        /\ at[p] = "test" => completions = 0
        /\ at[p] = "flush" => readers = 0 /\ completions = 1

\* An activity starts only when no other is under way.
LEMMA OneThreadFree ==
    ASSUME NumThreads = 1, \A p, q \in Busy : p = q, Cardinality(Busy) < NumThreads
    PROVE  \A p \in Procs : at[p] = "idle"
<1>1. ASSUME NEW p \in Busy PROVE FALSE
  <2>1. Busy = {p}
    BY <1>1
  <2>2. Cardinality({p}) = 1
    BY FS_Singleton
  <2> QED
    BY <2>1, <2>2
<1> QED
  BY <1>1 DEF Busy

\* A step of the only handler: it ends, or goes on alone.
LEMMA OneGoesOn ==
    ASSUME ConnType, NEW p \in Procs, NEW l, Goto(p, l),
           \A q \in Procs : q # p => at[q] = "idle"
    PROVE  /\ \A q, r \in Busy' : q = r
           /\ \A q \in Procs : q # p => at'[q] = "idle"
           /\ at'[p] = l
<1>1. at' = [at EXCEPT ![p] = l]
  BY DEF Goto
<1>2. at'[p] = l /\ \A q \in Procs : q # p => at'[q] = "idle"
  BY <1>1 DEF ConnType
<1> QED
  BY <1>2 DEF Busy

\* send() holds a message back only while the handshake is not complete.
LEMMA OneSends ==
    ASSUME ConnType, ReaderInv, NEW p \in Procs, NEW m, Send(p, m),
           \A q \in Procs : q # p => at[q] = "idle",
           UNCHANGED <<sent, recieved, readers, completions>>
    PROVE  ReaderInv'
<1>1. PICK l \in {"push", "start", "idle"} : Goto(p, l) /\ (l = "push" => ~Complete)
  BY DEF Send, AfterSend, MustWait
<1>2. /\ \A q, r \in Busy' : q = r
      /\ \A q \in Procs : q # p => at'[q] = "idle"
      /\ at'[p] = l
  BY <1>1, OneGoesOn
<1>3. UNCHANGED Complete
  BY DEF Complete
<1> QED
  BY <1>1, <1>2, <1>3 DEF ReaderInv

\* A half of the handshake that ends while no handler runs is tested alone, and
\* nothing is complete before it.
LEMMA OneTests ==
    ASSUME ConnType, ReaderInv, NEW p \in {"strand", "reader"}, NEW q \in {"strand", "reader"},
           GotoTest(p, q), \A r \in Procs : at[r] = "idle",
           ~Complete, UNCHANGED <<readers, completions>>
    PROVE  ReaderInv'
<1>1. p \in Procs /\ q \in Procs
  BY DEF Procs
<1>2. Goto(p, "test")
  BY <1>1 DEF GotoTest, Goto
<1>3. /\ \A r, s \in Busy' : r = s
      /\ \A r \in Procs : r # p => at'[r] = "idle"
      /\ at'[p] = "test"
  BY <1>1, <1>2, OneGoesOn
<1>4. completions = 0 /\ readers = 0
  BY DEF ReaderInv
<1> QED
  BY <1>3, <1>4 DEF ReaderInv

\* What the network, the timer and the user of the connection do beside the handlers.
LEMMA ReaderAside ==
    ASSUME ReaderInv, UNCHANGED <<at, sent, recieved, completions>>,
           readers' = readers \/ (readers > 0 /\ readers' = 0)
    PROVE  ReaderInv'
  BY DEF ReaderInv, Busy, Complete

\* The handlers of one thread, one after the other, complete the handshake once
\* and begin one chain of reads.
LEMMA ReaderStep ==
    ASSUME NumThreads = 1, ConnType, HandshakeInv, ReaderInv, [Next]_vars
    PROVE  ReaderInv'
<1>0. {"ctor", "strand", "reader", "timer"} \subseteq Procs /\ Callers \subseteq Procs
  BY DEF Procs
<1>a. ASSUME Cardinality(Busy) < NumThreads PROVE \A p \in Procs : at[p] = "idle"
  BY <1>a, OneThreadFree DEF ReaderInv
<1>b. ASSUME NEW p \in Procs, at[p] # "idle" PROVE \A q \in Procs : q # p => at[q] = "idle"
  BY <1>b DEF ReaderInv, Busy
<1>c. ASSUME NEW p \in Procs, NEW l \in {"start", "idle"}, at[p] # "idle", Goto(p, l),
             UNCHANGED <<sent, recieved, readers, completions>>
      PROVE  ReaderInv'
  <2>1. /\ \A q, r \in Busy' : q = r
        /\ \A q \in Procs : q # p => at'[q] = "idle"
        /\ at'[p] = l
    BY <1>b, <1>c, OneGoesOn
  <2> QED
    BY <1>c, <2>1 DEF ReaderInv, Complete
<1>1. CASE Construct
  BY <1>0, <1>1, <1>b, OneSends DEF Construct
<1>2. CASE StartAccepted
  BY <1>0, <1>2, <1>c DEF StartAccepted, Start
<1>3. CASE Connected \/ ContinueWrite \/ WriteFails
  BY <1>3, ReaderAside DEF Connected, Start, ContinueWrite, WriteFails
<1>4. CASE SendHandler
  <2>1. /\ \A p \in Procs : at[p] = "idle"
        /\ strand # <<>> /\ UNCHANGED <<recieved, readers, completions>>
    BY <1>4, <1>a DEF SendHandler, MayRun
  <2>2. CASE Head(strand).m = Handshake
    <3>1. HasHandshake(strand)
      BY <2>1, <2>2, HandshakeTaken DEF ConnType
    <3>2. ~Complete
      BY <3>1 DEF HandshakeInv, None, Complete
    <3>3. GotoTest("strand", "reader")
      BY <1>4, <2>2 DEF SendHandler
    <3> QED
      BY <2>1, <3>2, <3>3, OneTests
  <2>3. CASE Head(strand).m # Handshake
    BY <1>4, <2>3, ReaderAside DEF SendHandler
  <2> QED
    BY <2>2, <2>3
<1>5. ASSUME NEW p \in Procs, Push(p) PROVE ReaderInv'
  BY <1>5, <1>c DEF Push, AfterSend
<1>6. CASE Crash
  BY <1>6, ReaderAside DEF Crash
<1>7. ASSUME NEW p \in Procs, PushRace(p) PROVE ReaderInv'
  BY <1>7, <1>b DEF PushRace
<1>8. ASSUME NEW p \in Procs, TestComplete(p) PROVE ReaderInv'
  <2>1. /\ at[p] = "test" /\ completions = 0 /\ readers = 0
        /\ UNCHANGED <<sent, recieved, readers>>
    BY <1>8 DEF TestComplete, ReaderInv
  <2>2. CASE Complete
    <3>1. completions' = 1 /\ Goto(p, "flush")
      BY <1>8, <2>1, <2>2 DEF TestComplete, Tested
    <3>2. /\ \A q, r \in Busy' : q = r
          /\ \A q \in Procs : q # p => at'[q] = "idle"
          /\ at'[p] = "flush"
      BY <1>b, <2>1, <3>1, OneGoesOn
    <3>3. Complete'
      BY <2>1, <2>2 DEF Complete
    <3> QED
      BY <2>1, <3>1, <3>2, <3>3 DEF ReaderInv
  <2>3. CASE ~Complete
    BY <1>8, <1>c, <2>1, <2>3 DEF TestComplete, Tested
  <2> QED
    BY <2>2, <2>3
<1>9. ASSUME NEW p \in Procs, Flush(p) PROVE ReaderInv'
  BY <1>9, ReaderAside DEF Flush
<1>10. ASSUME NEW p \in Procs, BeginReading(p) PROVE ReaderInv'
  <2>1. /\ at[p] = "flush" /\ readers = 0 /\ completions = 1 /\ readers' = 1
        /\ Goto(p, "idle") /\ UNCHANGED <<sent, recieved, completions>>
    BY <1>10 DEF BeginReading, ReaderInv
  <2>2. /\ \A q, r \in Busy' : q = r
        /\ \A q \in Procs : q # p => at'[q] = "idle"
        /\ at'[p] = "idle"
    BY <1>b, <2>1, OneGoesOn
  <2> QED
    BY <2>1, <2>2 DEF ReaderInv, Complete
<1>11. CASE ReadFails
  <2>1. readers' = readers \/ (readers > 0 /\ readers' = 0)
    BY <1>11 DEF ReadFails, ReaderInv
  <2> QED
    BY <1>11, <2>1, ReaderAside DEF ReadFails
<1>12. CASE KeepAlive
  BY <1>0, <1>12, <1>a, OneSends DEF KeepAlive, MayRun
<1>13. CASE WriteDone \/ WritePart \/ Break \/ RejectHandshake \/ RecvMessage \/ TimerExpires
  BY <1>13, ReaderAside DEF WriteDone, WritePart, Break, RejectHandshake, RecvMessage, TimerExpires
<1>14. CASE ConnectFails \/ RecvUnknown
  BY <1>6, <1>14 DEF ConnectFails, RecvUnknown
<1>15. CASE RecvHandshake
  <2>1. /\ \A p \in Procs : at[p] = "idle"
        /\ handshakeRead = "waiting" /\ UNCHANGED <<readers, completions>>
        /\ GotoTest("reader", "strand")
    BY <1>15, <1>a DEF RecvHandshake, MayRun
  <2>2. ~Complete
    BY <2>1 DEF HandshakeInv, Complete
  <2> QED
    BY <2>1, <2>2, OneTests
<1>16. CASE RecvTorn
  BY <1>16 DEF RecvTorn, ReaderInv
<1>17. ASSUME NEW p \in Callers, NEW m \in Msgs, CallerSends(p, m) PROVE ReaderInv'
  BY <1>0, <1>17, <1>a, OneSends DEF CallerSends, MayRun
<1>18. CASE UNCHANGED vars
  BY <1>18, ReaderAside DEF vars
<1> QED
  BY <1>1, <1>2, <1>3, <1>4, <1>5, <1>7, <1>8, <1>9, <1>10, <1>11, <1>12, <1>13, <1>14, <1>15,
     <1>16, <1>17, <1>18 DEF Next, Handlers, Environment

\* With one thread the invariant holds from the construction of the peer on.
LEMMA ReaderHolds ==
    ASSUME NumThreads = 1
    PROVE  Spec => []ReaderInv
<1>1. Init => ReaderInv
  BY DEF Init, ReaderInv, Busy, Complete
<1>2. ConnType /\ HandshakeInv /\ ReaderInv /\ [Next]_vars => ReaderInv'
  BY ReaderStep
<1> QED
  BY <1>1, <1>2, ConnTypeCorrect, HandshakeOnce, PTL DEF Spec

\* On one thread the handshake completes once, and recv_buffer belongs to a
\* single chain of reads.
THEOREM OneReaderHolds ==
    ASSUME NumThreads = 1
    PROVE  Spec => []OneReader
<1>1. ReaderInv => OneReader
  BY DEF ReaderInv, OneReader
<1> QED
  BY <1>1, ReaderHolds, PTL

-----------------------------------------------------------------------------
(* On one thread: the keep-alive.                                           *)

\* The flush has something to write, at least the BITFIELD, and the completion
\* of a write arms the timer.
KeepInv ==
    /\ at["ctor"] \in {"construct", "push"} \/ pending # <<>>
    /\ \A p \in Procs : at[p] = "flush" =>
        /\ cursor[p].end = Len(pending)
        /\ socket = "open" /\ cursor[p].next > 1 => writes # <<>> \/ strand # <<>>
    /\ KeepAliveNotForgotten

\* A step beside the handlers that takes nothing away without leaving something
\* to come.
LEMMA KeepAside ==
    ASSUME KeepInv, UNCHANGED <<at, pending, cursor, completions>>,
           crashed => crashed', socket' = "open" => socket = "open",
           writes # <<>> \/ strand # <<>> => writes' # <<>> \/ strand' # <<>>,
           armed \/ due => armed' \/ due'
    PROVE  KeepInv'
  BY DEF KeepInv, KeepAliveNotForgotten, Busy

\* A handler that no flush is beside, and that leaves a write, the timer or
\* another place to go.
LEMMA KeepOwed ==
    ASSUME KeepInv, UNCHANGED pending, at'["ctor"] = at["ctor"] \/ at'["ctor"] \notin {"construct", "push"},
           at["ctor"] \notin {"construct", "push"} \/ at'["ctor"] \in {"construct", "push"},
           \A p \in Procs : at'[p] # "flush",
           \/ armed' \/ due' \/ Busy' # {} \/ writes' # <<>> \/ strand' # <<>>
           \/ completions' = 0
    PROVE  KeepInv'
  BY DEF KeepInv, KeepAliveNotForgotten

\* A sequence to which something was appended is not empty.
LEMMA NotEmpty ==
    ASSUME NEW S, NEW s \in Seq(S), NEW c \in S
    PROVE  Append(s, c) # <<>>
<1>1. Len(Append(s, c)) = Len(s) + 1 /\ Len(s) \in Nat
  BY AppendProperties, LenProperties
<1>2. Len(Append(s, c)) # 0
  BY <1>1
<1> QED
  BY <1>2, EmptySeq

\* send() leaves its message in the hand of its activity or on its way.
LEMMA KeepSends ==
    ASSUME ConnType, KeepInv, NEW p \in Procs, NEW m \in Messages \ {Handshake}, Send(p, m),
           \A q \in Procs : at[q] # "flush", UNCHANGED pending,
           p = "ctor" => MustWait
    PROVE  KeepInv'
<1>0. "ctor" \in Procs
  BY DEF Procs
<1>1. CASE MustWait
  <2>1. at' = [at EXCEPT ![p] = "push"]
    BY <1>1 DEF Send, Goto
  <2>2. at'[p] = "push" /\ \A q \in Procs : q # p => at'[q] = at[q]
    BY <2>1 DEF ConnType
  <2>3. Busy' # {} /\ \A q \in Procs : at'[q] # "flush"
    BY <2>2 DEF Busy
  <2> QED
    BY <1>0, <2>2, <2>3 DEF KeepInv, KeepAliveNotForgotten
<1>2. CASE ~MustWait
  <2>1. p # "ctor" /\ writes' = Append(writes, Whole(m)) /\ at' = [at EXCEPT ![p] = "idle"]
    BY <1>2 DEF Send, Goto, AfterSend
  <2>2. writes' # <<>>
    BY <2>1, NotEmpty, NoHandshake DEF ConnType
  <2>3. at'["ctor"] = at["ctor"] /\ \A q \in Procs : at'[q] # "flush"
    BY <1>0, <2>1 DEF ConnType
  <2> QED
    BY <2>2, <2>3 DEF KeepInv, KeepAliveNotForgotten
<1> QED
  BY <1>1, <1>2

\* The handlers of one thread never leave a connection that is up without a
\* write under way or the timer.
LEMMA KeepStep ==
    ASSUME NumThreads = 1, ConnType, HandshakeInv, ReaderInv, KeepInv, [Next]_vars
    PROVE  KeepInv'
<1>0. {"ctor", "strand", "reader", "timer"} \subseteq Procs /\ Callers \subseteq Procs
      /\ "ctor" \notin Callers
  BY ConnectionAssumption DEF Procs
<1>a. ASSUME Cardinality(Busy) < NumThreads PROVE \A p \in Procs : at[p] = "idle"
  BY <1>a, OneThreadFree DEF ReaderInv
<1>b. ASSUME NEW p \in Procs, at[p] # "idle" PROVE \A q \in Procs : q # p => at[q] = "idle"
  BY <1>b DEF ReaderInv, Busy
<1>c. writes \in Seq(Chunks) /\ strand \in Seq(Chunks)
  BY DEF ConnType
<1>1. CASE Construct
  <2>1. at["ctor"] = "construct" /\ MustWait /\ \A q \in Procs : at[q] # "flush"
    BY <1>0, <1>1, <1>b DEF Construct, ReaderInv, MustWait
  <2> QED
    BY <1>0, <1>1, <2>1, NoHandshake, KeepSends DEF Construct
<1>2. CASE StartAccepted \/ Connected
  <2>1. writes' = Append(writes, Whole(Handshake)) /\ UNCHANGED pending
    BY <1>2 DEF StartAccepted, Connected, Start
  <2>2. writes' # <<>>
    BY <1>c, <2>1, NotEmpty, NoHandshake
  <2>3. /\ \A p \in Procs : at'[p] # "flush"
        /\ at["ctor"] \notin {"construct", "push"} /\ at'["ctor"] \notin {"construct", "push"}
    <3>1. CASE StartAccepted
      <4>1. at["ctor"] = "start" /\ at' = [at EXCEPT !["ctor"] = "idle"]
        BY <3>1 DEF StartAccepted, Goto
      <4>2. at'["ctor"] = "idle" /\ \A p \in Procs : p # "ctor" => at'[p] = at[p]
        BY <1>0, <4>1 DEF ConnType
      <4>3. \A p \in Procs : p # "ctor" => at[p] = "idle"
        BY <1>0, <1>b, <4>1
      <4> QED
        BY <4>1, <4>2, <4>3
    <3>2. CASE Connected
      <4>1. UNCHANGED at /\ \A p \in Procs : at[p] = "idle"
        BY <1>a, <3>2 DEF Connected
      <4> QED
        BY <1>0, <4>1
    <3> QED
      BY <1>2, <3>1, <3>2
  <2> QED
    BY <2>1, <2>2, <2>3, KeepOwed
<1>3. CASE ContinueWrite
  <2>1. Head(strand) \in Chunks /\ writes' = Append(writes, [Head(strand) EXCEPT !.bite = "rest"])
    BY <1>3, <1>c, Taken DEF ContinueWrite
  <2>2. [Head(strand) EXCEPT !.bite = "rest"] \in Chunks
    BY <2>1 DEF Chunks
  <2>3. writes' # <<>>
    BY <1>c, <2>1, <2>2, NotEmpty
  <2> QED
    BY <1>3, <2>3, KeepAside DEF ContinueWrite
<1>4. CASE SendHandler
  <2>1. /\ \A p \in Procs : at[p] = "idle"
        /\ armed' = TRUE /\ UNCHANGED pending
    BY <1>4, <1>a DEF SendHandler, MayRun
  <2>2. at' = at \/ at' = [at EXCEPT !["strand"] = "test"]
    BY <1>0, <1>4, <2>1 DEF SendHandler, GotoTest
  <2>3. at'["ctor"] = "idle" /\ \A p \in Procs : at'[p] # "flush"
    BY <1>0, <2>1, <2>2 DEF ConnType
  <2> QED
    BY <1>0, <2>1, <2>3, KeepOwed
<1>5. CASE WriteFails \/ Break
  <2>1. socket' = "broken" /\ UNCHANGED <<at, pending, cursor>>
    BY <1>5 DEF WriteFails, Break
  <2> QED
    BY <2>1 DEF KeepInv, KeepAliveNotForgotten
<1>6. ASSUME NEW p \in Procs, Push(p) PROVE KeepInv'
  <2>1. /\ at[p] = "push" /\ pending' = Append(pending, msg[p])
        /\ Goto(p, AfterSend(p)) /\ UNCHANGED completions
    BY <1>6 DEF Push
  <2>2. pending' # <<>>
    BY <2>1, NotEmpty DEF ConnType
  <2>3. completions' = 0
    BY <2>1 DEF ReaderInv
  <2>4. \A q \in Procs : at'[q] # "flush"
    BY <2>1, <1>b DEF Goto, AfterSend, ConnType
  <2> QED
    BY <2>2, <2>3, <2>4 DEF KeepInv, KeepAliveNotForgotten
<1>7. CASE Crash
  BY <1>7, KeepAside DEF Crash
<1>8. ASSUME NEW p \in Procs, PushRace(p) PROVE KeepInv'
  BY <1>8, <1>b DEF PushRace
<1>9. ASSUME NEW p \in Procs, TestComplete(p) PROVE KeepInv'
  <2>1. /\ at[p] = "test" /\ completions = 0 /\ UNCHANGED <<pending, socket>>
        /\ \A q \in Procs : q # p => at[q] = "idle"
    BY <1>9, <1>b DEF TestComplete, ReaderInv
  <2>2. at["ctor"] \notin {"construct", "push"} /\ pending # <<>>
    BY <1>0, <2>1 DEF KeepInv
  <2>3. CASE Complete
    <3>1. /\ at' = [at EXCEPT ![p] = "flush"]
          /\ cursor' = [cursor EXCEPT ![p] = [next |-> 1, end |-> Len(pending)]]
      BY <1>9, <2>1, <2>3 DEF TestComplete, Tested, Goto
    <3>2. /\ at'[p] = "flush" /\ \A q \in Procs : q # p => at'[q] = "idle"
          /\ cursor'[p].end = Len(pending) /\ cursor'[p].next = 1
      BY <2>1, <3>1 DEF ConnType
    <3>3. Busy' # {}
      BY <3>2 DEF Busy
    <3> QED
      BY <2>1, <2>2, <3>2, <3>3 DEF KeepInv, KeepAliveNotForgotten
  <2>4. CASE ~Complete
    <3>1. at' = [at EXCEPT ![p] = "idle"] /\ UNCHANGED completions
      BY <1>9, <2>1, <2>4 DEF TestComplete, Tested, Goto
    <3>2. \A q \in Procs : at'[q] = "idle"
      BY <2>1, <3>1 DEF ConnType
    <3> QED
      BY <2>1, <2>2, <3>1, <3>2 DEF KeepInv, KeepAliveNotForgotten
  <2> QED
    BY <2>3, <2>4
<1>10. ASSUME NEW p \in Procs, Flush(p) PROVE KeepInv'
  <2>1. /\ at[p] = "flush" /\ cursor[p].next <= cursor[p].end
        /\ writes' = Append(writes, Whole(pending[cursor[p].next]))
        /\ cursor' = [cursor EXCEPT ![p].next = @ + 1]
        /\ UNCHANGED <<at, pending>>
    BY <1>10 DEF Flush
  <2>2. cursor[p].next \in 1 .. Len(pending)
    <3>1. cursor[p] \in [next : Nat \ {0}, end : Nat] /\ cursor[p].end <= Len(pending)
      BY DEF ConnType
    <3> QED
      BY <2>1, <3>1, LenProperties DEF ConnType
  <2>3. pending[cursor[p].next] \in Messages \ {Handshake}
    BY <2>2, ElementOfSeq DEF ConnType
  <2>4. writes' # <<>>
    BY <1>c, <2>1, <2>3, NotEmpty, NoHandshake
  <2>5. \A q \in Procs : cursor'[q].end = cursor[q].end
    BY <2>1 DEF ConnType
  <2> QED
    BY <2>1, <2>4, <2>5 DEF KeepInv, KeepAliveNotForgotten
<1>11. ASSUME NEW p \in Procs, BeginReading(p) PROVE KeepInv'
  <2>1. /\ at[p] = "flush" /\ cursor[p].next > cursor[p].end
        /\ UNCHANGED <<pending, socket, writes, strand>>
        /\ \A q \in Procs : q # p => at[q] = "idle"
        /\ at' = [at EXCEPT ![p] = "idle"]
    BY <1>11, <1>b DEF BeginReading, Goto
  <2>2. pending # <<>>
    BY <1>0, <2>1 DEF KeepInv
  <2>3. Len(pending) \in Nat \ {0}
    BY <2>2, EmptySeq, LenProperties DEF ConnType
  <2>4. cursor[p] \in [next : Nat \ {0}, end : Nat] /\ cursor[p].end = Len(pending)
    BY <2>1 DEF ConnType, KeepInv
  <2>5. cursor[p].next > 1
    BY <2>1, <2>3, <2>4
  <2>6. socket = "open" => writes # <<>> \/ strand # <<>>
    BY <2>1, <2>5 DEF KeepInv
  <2>7. \A q \in Procs : at'[q] = "idle"
    BY <2>1 DEF ConnType
  <2> QED
    BY <2>1, <2>2, <2>6, <2>7 DEF KeepInv, KeepAliveNotForgotten
<1>12. CASE ReadFails \/ RejectHandshake
  BY <1>12, KeepAside DEF ReadFails, RejectHandshake
<1>13. CASE KeepAlive
  <2>1. \A q \in Procs : at[q] # "flush"
    BY <1>13, <1>a DEF KeepAlive, MayRun
  <2> QED
    BY <1>0, <1>13, <2>1, NoHandshake, KeepSends DEF KeepAlive
<1>14. CASE WriteDone
  <2>1. strand' # <<>>
    BY <1>14, <1>c, Taken, NotEmpty DEF WriteDone
  <2> QED
    BY <1>14, <2>1, KeepAside DEF WriteDone
<1>15. CASE WritePart
  <2>1. Head(writes) \in Chunks
    BY <1>15, <1>c, Taken DEF WritePart
  <2>2. [m |-> Head(writes).m, bite |-> "part"] \in Chunks
    BY <2>1 DEF Chunks
  <2>3. strand' # <<>>
    BY <1>15, <1>c, <2>2, NotEmpty DEF WritePart
  <2> QED
    BY <1>15, <2>3, KeepAside DEF WritePart
<1>16. CASE ConnectFails \/ RecvUnknown
  BY <1>7, <1>16 DEF ConnectFails, RecvUnknown
<1>17. CASE RecvHandshake
  <2>1. /\ \A p \in Procs : at[p] = "idle"
        /\ handshakeRead = "waiting" /\ UNCHANGED <<pending, completions>>
        /\ GotoTest("reader", "strand")
    BY <1>17, <1>a DEF RecvHandshake, MayRun
  <2>2. completions' = 0
    BY <2>1 DEF HandshakeInv, ReaderInv, Complete
  <2>3. at'["ctor"] = "idle" /\ \A p \in Procs : at'[p] # "flush"
    <3>1. at' = [at EXCEPT !["reader"] = "test"]
      BY <1>0, <2>1 DEF GotoTest
    <3> QED
      BY <1>0, <2>1, <3>1 DEF ConnType
  <2> QED
    BY <1>0, <2>1, <2>2, <2>3, KeepOwed
<1>18. CASE RecvMessage
  <2>1. writes' # <<>> \/ UNCHANGED writes
    BY <1>18, <1>c, NotEmpty, NoHandshake DEF RecvMessage
  <2> QED
    BY <1>18, <2>1, KeepAside DEF RecvMessage
<1>19. CASE RecvTorn
  BY <1>19 DEF RecvTorn, ReaderInv
<1>20. CASE TimerExpires
  BY <1>20, KeepAside DEF TimerExpires
<1>21. ASSUME NEW p \in Callers, NEW m \in Msgs, CallerSends(p, m) PROVE KeepInv'
  <2>1. \A q \in Procs : at[q] # "flush"
    BY <1>21, <1>a DEF CallerSends, MayRun
  <2> QED
    BY <1>0, <1>21, <2>1, NoHandshake, KeepSends DEF CallerSends
<1>22. CASE UNCHANGED vars
  BY <1>22, KeepAside DEF vars
<1> QED
  BY <1>1, <1>2, <1>3, <1>4, <1>5, <1>6, <1>8, <1>9, <1>10, <1>11, <1>12, <1>13, <1>14, <1>15,
     <1>16, <1>17, <1>18, <1>19, <1>20, <1>21, <1>22 DEF Next, Handlers, Environment

\* On one thread the keep-alive of a connection that is up is never forgotten.
THEOREM KeepAliveHolds ==
    ASSUME NumThreads = 1
    PROVE  Spec => []KeepAliveNotForgotten
<1>1. Init => KeepInv
  BY DEF Init, KeepInv, KeepAliveNotForgotten, Procs
<1>2. ConnType /\ HandshakeInv /\ ReaderInv /\ KeepInv /\ [Next]_vars => KeepInv'
  BY KeepStep
<1>3. KeepInv => KeepAliveNotForgotten
  BY DEF KeepInv
<1> QED
  BY <1>1, <1>2, <1>3, ConnTypeCorrect, HandshakeOnce, ReaderHolds, PTL DEF Spec

-----------------------------------------------------------------------------
(* On one thread: where the messages are.                                   *)

\* The places of s that hold an element of T, and their number.
At(s, T) == {k \in DOMAIN s : s[k] \in T}
Count(s, T) == Cardinality(At(s, T))

\* No more entries are counted than there are.
LEMMA CountType ==
    ASSUME NEW S, NEW s \in Seq(S), NEW T
    PROVE  /\ IsFiniteSet(At(s, T))
           /\ Count(s, T) \in Nat
           /\ Count(s, T) <= Len(s)
<1>1. At(s, T) \in SUBSET (1 .. Len(s)) /\ Len(s) \in Nat
  BY DEF At
<1>2. IsFiniteSet(1 .. Len(s)) /\ Cardinality(1 .. Len(s)) = Len(s)
  <2>1. /\ IsFiniteSet(1 .. Len(s))
        /\ Cardinality(1 .. Len(s)) = IF 1 > Len(s) THEN 0 ELSE Len(s) - 1 + 1
    BY <1>1, FS_Interval
  <2> QED
    BY <1>1, <2>1
<1>3. IsFiniteSet(At(s, T)) /\ Cardinality(At(s, T)) <= Len(s)
  BY <1>1, <1>2, FS_Subset
<1> QED
  BY <1>3, FS_CardinalityType DEF Count

\* Nothing is counted in an empty sequence.
LEMMA CountEmpty == \A T : Count(<<>>, T) = 0
  BY FS_EmptySet DEF Count, At

\* An entry that is appended is counted if it is of the kind.
LEMMA CountAppend ==
    ASSUME NEW S, NEW s \in Seq(S), NEW e \in S, NEW T
    PROVE  Count(Append(s, e), T) = Count(s, T) + (IF e \in T THEN 1 ELSE 0)
<1> DEFINE n == Len(s) + 1
<1>1. IsFiniteSet(At(s, T)) /\ Count(s, T) \in Nat
  BY CountType
<1>0. n \notin At(s, T)
  BY DEF At
<1>2. /\ DOMAIN Append(s, e) = DOMAIN s \cup {n}
      /\ Append(s, e)[n] = e
      /\ \A k \in DOMAIN s : Append(s, e)[k] = s[k]
  OBVIOUS
<1>3. At(Append(s, e), T) = IF e \in T THEN At(s, T) \cup {n} ELSE At(s, T)
  BY <1>2 DEF At
<1>4. Cardinality(At(s, T) \cup {n}) = Cardinality(At(s, T)) + 1
  BY <1>0, <1>1, FS_AddElement
<1> QED
  BY <1>1, <1>3, <1>4 DEF Count

\* The entry at the head was counted if it is of the kind.
LEMMA CountTail ==
    ASSUME NEW S, NEW s \in Seq(S), s # <<>>, NEW T
    PROVE  Count(s, T) = Count(Tail(s), T) + (IF Head(s) \in T THEN 1 ELSE 0)
<1> DEFINE rest == At(s, T) \ {1}
           shift == [k \in At(Tail(s), T) |-> k + 1]
<1>0. Tail(s) \in Seq(S)
  OBVIOUS
<1>1. IsFiniteSet(At(Tail(s), T)) /\ Count(Tail(s), T) \in Nat
  BY <1>0, CountType
<1>2. /\ Len(Tail(s)) = Len(s) - 1 /\ Len(s) \in Nat \ {0}
      /\ \A k \in 1 .. Len(s) - 1 : Tail(s)[k] = s[k + 1]
      /\ DOMAIN Tail(s) = 1 .. Len(s) - 1 /\ DOMAIN s = 1 .. Len(s)
  OBVIOUS
<1>3. shift \in [At(Tail(s), T) -> rest]
  BY <1>2 DEF At
<1>4. \A k, l \in At(Tail(s), T) : shift[k] = shift[l] => k = l
  BY <1>2 DEF At
<1>5. \A j \in rest : \E k \in At(Tail(s), T) : shift[k] = j
  <2> SUFFICES ASSUME NEW j \in rest PROVE \E k \in At(Tail(s), T) : shift[k] = j
    OBVIOUS
  <2>1. j - 1 \in At(Tail(s), T)
    BY <1>2 DEF At
  <2>2. shift[j - 1] = j
    BY <1>2, <2>1 DEF At
  <2> QED
    BY <2>1, <2>2
<1>6. shift \in Bijection(At(Tail(s), T), rest)
  BY <1>3, <1>4, <1>5 DEF Bijection, Injection, Surjection, IsInjective
<1>7. ExistsBijection(At(Tail(s), T), rest)
  BY <1>6 DEF ExistsBijection
<1>8. IsFiniteSet(rest) /\ Cardinality(rest) = Count(Tail(s), T)
  BY <1>1, <1>7, FS_Bijection DEF Count
<1>9. At(s, T) = IF Head(s) \in T THEN rest \cup {1} ELSE rest
  BY <1>2 DEF At
<1>10. Cardinality(rest \cup {1}) = Cardinality(rest) + 1
  BY <1>8, FS_AddElement
<1>11. Cardinality(At(s, T)) = Cardinality(rest) + (IF Head(s) \in T THEN 1 ELSE 0)
  <2> HIDE DEF rest
  <2>1. CASE Head(s) \in T
    BY <1>9, <1>10, <2>1
  <2>2. CASE Head(s) \notin T
    BY <1>1, <1>8, <1>9, <2>2
  <2> QED
    BY <2>1, <2>2
<1> QED
  BY <1>8, <1>11 DEF Count

\* The chunks of message m, those to be continued and the last ones.
Of(m)     == {c \in Chunks : c.m = m}
PartOf(m) == {c \in Chunks : c.m = m /\ c.bite = "part"}
EndOf(m)  == {c \in Chunks : c.m = m /\ c.bite # "part"}

\* How often m is being written (w), waits on the strand to be continued (s) or
\* was written (v).
Under(w, s, v, m) == Count(w, Of(m)) + Count(s, PartOf(m)) + Count(v, EndOf(m))

\* On a connection that is not broken every message given to send() is in one
\* place, and no other is in any.
PlaceInv ==
    /\ accepted \in Seq(Messages \ {Handshake})
    /\ at["ctor"] = "construct" => accepted = <<>>
    /\ socket # "broken" =>
         \A m \in Messages \ {Handshake} :
            HeldBack(m) + InHand(m) + OnItsWay(m) = IF m \in ToSet(accepted) THEN 1 ELSE 0

\* The places of the chunks, as the counts name them.
LEMMA PlacesOf ==
    ASSUME NEW s \in Seq(Chunks), NEW m
    PROVE  /\ {i \in DOMAIN s : s[i].m = m} = At(s, Of(m))
           /\ {i \in DOMAIN s : s[i].m = m /\ s[i].bite = "part"} = At(s, PartOf(m))
           /\ {i \in DOMAIN s : s[i].m = m /\ s[i].bite # "part"} = At(s, EndOf(m))
<1>1. \A i \in DOMAIN s : s[i] \in Chunks
  BY ElementOfSeq
<1> QED
  BY <1>1 DEF At, Of, PartOf, EndOf

LEMMA WayIsUnder ==
    ASSUME ConnType
    PROVE  \A m : OnItsWay(m) = Under(writes, strand, wire, m)
  BY PlacesOf DEF ConnType, OnItsWay, Under, Count

LEMMA WayIsUnderNext ==
    ASSUME ConnType'
    PROVE  \A m : OnItsWay(m)' = Under(writes', strand', wire', m)
<1>1. writes' \in Seq(Chunks) /\ strand' \in Seq(Chunks) /\ wire' \in Seq(Chunks)
  BY DEF ConnType
<1> QED
  BY <1>1, PlacesOf DEF OnItsWay, Under, Count

LEMMA UnderType ==
    ASSUME NEW w \in Seq(Chunks), NEW s \in Seq(Chunks), NEW v \in Seq(Chunks), NEW m
    PROVE  /\ Count(w, Of(m)) \in Nat /\ Count(s, PartOf(m)) \in Nat /\ Count(v, EndOf(m)) \in Nat
           /\ Under(w, s, v, m) \in Nat
<1>1. Count(w, Of(m)) \in Nat /\ Count(s, PartOf(m)) \in Nat /\ Count(v, EndOf(m)) \in Nat
  BY CountType
<1> QED
  BY <1>1 DEF Under

\* A write that is begun.
LEMMA UnderGains ==
    ASSUME NEW w \in Seq(Chunks), NEW s \in Seq(Chunks), NEW v \in Seq(Chunks),
           NEW c \in Chunks, NEW m
    PROVE  Under(Append(w, c), s, v, m) = Under(w, s, v, m) + (IF c.m = m THEN 1 ELSE 0)
<1>1. c \in Of(m) <=> c.m = m
  BY DEF Of
<1>2. Count(Append(w, c), Of(m)) = Count(w, Of(m)) + (IF c \in Of(m) THEN 1 ELSE 0)
  BY CountAppend
<1>3. /\ Count(w, Of(m)) \in Nat /\ Count(s, PartOf(m)) \in Nat /\ Count(v, EndOf(m)) \in Nat
  BY UnderType
<1> QED
  BY <1>1, <1>2, <1>3 DEF Under

\* A write that goes on.
LEMMA UnderContinues ==
    ASSUME NEW w \in Seq(Chunks), NEW s \in Seq(Chunks), NEW v \in Seq(Chunks),
           s # <<>>, Head(s).bite = "part", NEW c \in Chunks, c.m = Head(s).m, NEW m
    PROVE  Under(Append(w, c), Tail(s), v, m) = Under(w, s, v, m)
<1>0. Head(s) \in Chunks /\ Tail(s) \in Seq(Chunks)
  BY Taken
<1>1. (c \in Of(m) <=> c.m = m) /\ (Head(s) \in PartOf(m) <=> c.m = m)
  BY <1>0 DEF Of, PartOf
<1>2. Count(Append(w, c), Of(m)) = Count(w, Of(m)) + (IF c \in Of(m) THEN 1 ELSE 0)
  BY CountAppend
<1>3. Count(s, PartOf(m)) = Count(Tail(s), PartOf(m)) + (IF Head(s) \in PartOf(m) THEN 1 ELSE 0)
  BY CountTail
<1>4. /\ Count(w, Of(m)) \in Nat /\ Count(s, PartOf(m)) \in Nat /\ Count(v, EndOf(m)) \in Nat
      /\ Count(Tail(s), PartOf(m)) \in Nat
  BY <1>0, UnderType
<1> QED
  BY <1>1, <1>2, <1>3, <1>4 DEF Under

\* The handler of a write that is done.
LEMMA UnderDrops ==
    ASSUME NEW w \in Seq(Chunks), NEW s \in Seq(Chunks), NEW v \in Seq(Chunks),
           s # <<>>, Head(s).bite # "part", NEW m
    PROVE  Under(w, Tail(s), v, m) = Under(w, s, v, m)
<1>0. Tail(s) \in Seq(Chunks) /\ Head(s) \notin PartOf(m)
  BY Taken DEF PartOf
<1>1. Count(s, PartOf(m)) = Count(Tail(s), PartOf(m)) + (IF Head(s) \in PartOf(m) THEN 1 ELSE 0)
  BY CountTail
<1>2. Count(Tail(s), PartOf(m)) \in Nat
  BY <1>0, CountType
<1> QED
  BY <1>0, <1>1, <1>2 DEF Under

\* What the socket takes is written, or is to be continued.
LEMMA UnderMoves ==
    ASSUME NEW w \in Seq(Chunks), NEW s \in Seq(Chunks), NEW v \in Seq(Chunks),
           w # <<>>, NEW c \in Chunks, c.m = Head(w).m, NEW m
    PROVE  Under(Tail(w), Append(s, c), Append(v, c), m) = Under(w, s, v, m)
<1>0. Head(w) \in Chunks /\ Tail(w) \in Seq(Chunks)
  BY Taken
<1>1. /\ Head(w) \in Of(m) <=> c.m = m
      /\ c \in PartOf(m) <=> c.m = m /\ c.bite = "part"
      /\ c \in EndOf(m) <=> c.m = m /\ c.bite # "part"
  BY <1>0 DEF Of, PartOf, EndOf
<1>2. /\ Count(w, Of(m)) = Count(Tail(w), Of(m)) + (IF Head(w) \in Of(m) THEN 1 ELSE 0)
      /\ Count(Append(s, c), PartOf(m)) = Count(s, PartOf(m)) + (IF c \in PartOf(m) THEN 1 ELSE 0)
      /\ Count(Append(v, c), EndOf(m)) = Count(v, EndOf(m)) + (IF c \in EndOf(m) THEN 1 ELSE 0)
  BY CountTail, CountAppend
<1>3. /\ Count(Tail(w), Of(m)) \in Nat /\ Count(s, PartOf(m)) \in Nat /\ Count(v, EndOf(m)) \in Nat
  BY <1>0, UnderType
<1> QED
  BY <1>1, <1>2, <1>3 DEF Under

-----------------------------------------------------------------------------
\* What is held back is finite, and nothing is in hand unless an activity pushes.
LEMMA HeldType ==
    ASSUME ConnType, NEW m
    PROVE  HeldBack(m) \in Nat
<1> DEFINE places == {i \in DOMAIN pending :
        /\ pending[i] = m
        /\ \/ completions = 0
           \/ \E p \in Procs : at[p] = "flush" /\ i \in cursor[p].next .. cursor[p].end}
<1>1. IsFiniteSet(1 .. Len(pending)) /\ DOMAIN pending = 1 .. Len(pending)
  BY FS_Interval, LenProperties DEF ConnType
<1>2. IsFiniteSet(places)
  BY <1>1, FS_Subset
<1> QED
  BY <1>2, FS_CardinalityType DEF HeldBack

LEMMA NothingInHand ==
    ASSUME \A p \in Procs : at[p] # "push", NEW m
    PROVE  InHand(m) = 0
<1>1. {p \in Procs : at[p] = "push" /\ msg[p] = m} = {}
  OBVIOUS
<1> QED
  BY <1>1, FS_EmptySet DEF InHand

\* One activity has one message in hand.
LEMMA HandIs ==
    ASSUME NEW p \in Procs, at[p] = "push", \A q \in Procs : q # p => at[q] # "push", NEW m
    PROVE  InHand(m) = IF msg[p] = m THEN 1 ELSE 0
<1>1. {q \in Procs : at[q] = "push" /\ msg[q] = m} = IF msg[p] = m THEN {p} ELSE {}
  OBVIOUS
<1> QED
  BY <1>1, FS_EmptySet, FS_Singleton DEF InHand

LEMMA HandType ==
    ASSUME \A p, q \in Busy : p = q, NEW m
    PROVE  InHand(m) \in Nat
<1>1. CASE \A p \in Procs : at[p] # "push"
  BY <1>1, NothingInHand
<1>2. ASSUME NEW p \in Procs, at[p] = "push" PROVE InHand(m) \in Nat
  <2>1. \A q \in Procs : q # p => at[q] # "push"
    BY <1>2 DEF Busy
  <2> QED
    BY <1>2, <2>1, HandIs
<1> QED
  BY <1>1, <1>2

\* A step that only moves chunks about.
LEMMA PlaceAside ==
    ASSUME ConnType, ConnType', PlaceInv, UNCHANGED <<pending, completions, cursor, msg, accepted>>,
           \A p \in Procs : /\ at'[p] = "push" <=> at[p] = "push"
                            /\ at'[p] = "flush" <=> at[p] = "flush",
           at'["ctor"] = "construct" => at["ctor"] = "construct",
           socket' # "broken" =>
              /\ socket # "broken"
              /\ \A m \in Messages \ {Handshake} :
                    Under(writes', strand', wire', m) = Under(writes, strand, wire, m)
    PROVE  PlaceInv'
<1>1. \A m : HeldBack(m)' = HeldBack(m) /\ InHand(m)' = InHand(m)
  BY DEF HeldBack, InHand
<1>2. socket' # "broken" => \A m \in Messages \ {Handshake} : OnItsWay(m)' = OnItsWay(m)
  BY WayIsUnder, WayIsUnderNext
<1> QED
  BY <1>1, <1>2 DEF PlaceInv

\* The messages given to send() when one more is.
LEMMA AcceptedGrows ==
    ASSUME NEW a \in Seq(Messages \ {Handshake}), NEW m \in Messages \ {Handshake}
    PROVE  /\ Append(a, m) \in Seq(Messages \ {Handshake})
           /\ ToSet(Append(a, m)) = ToSet(a) \cup {m}
<1>1. /\ Append(a, m) \in Seq(Messages \ {Handshake})
      /\ DOMAIN Append(a, m) = 1 .. Len(a) + 1
      /\ \A i \in 1 .. Len(a) : Append(a, m)[i] = a[i]
      /\ Append(a, m)[Len(a) + 1] = m
  BY Appended
<1>2. Len(a) \in Nat /\ DOMAIN a = 1 .. Len(a)
  BY LenProperties
<1>3. 1 .. Len(a) + 1 = 1 .. Len(a) \cup {Len(a) + 1}
  BY <1>2
<1> QED
  BY <1>1, <1>2, <1>3 DEF ToSet

\* A message that goes to the socket at once.
LEMMA PlaceWrites ==
    ASSUME ConnType, ConnType', PlaceInv, NEW m \in Messages \ {Handshake}, m \notin ToSet(accepted),
           writes' = Append(writes, Whole(m)), accepted' = Append(accepted, m),
           UNCHANGED <<pending, completions, cursor, msg, strand, wire, socket>>,
           \A p, q \in Busy : p = q,
           \A p \in Procs : /\ at'[p] = "push" <=> at[p] = "push"
                            /\ at'[p] = "flush" <=> at[p] = "flush",
           at'["ctor"] # "construct"
    PROVE  PlaceInv'
<1>1. \A n : HeldBack(n)' = HeldBack(n) /\ InHand(n)' = InHand(n)
  BY DEF HeldBack, InHand
<1>2. Whole(m) \in Chunks /\ Whole(m).m = m
  BY NoHandshake
<1>3. \A n : OnItsWay(n)' = OnItsWay(n) + (IF n = m THEN 1 ELSE 0)
  <2>1. \A n : Under(writes', strand', wire', n) = Under(writes, strand, wire, n) + (IF n = m THEN 1 ELSE 0)
    BY <1>2, UnderGains DEF ConnType
  <2> QED
    BY <2>1, WayIsUnder, WayIsUnderNext
<1>4. accepted' \in Seq(Messages \ {Handshake}) /\ ToSet(accepted') = ToSet(accepted) \cup {m}
  BY AcceptedGrows DEF PlaceInv
<1>5. ASSUME socket' # "broken", NEW n \in Messages \ {Handshake}
      PROVE  HeldBack(n)' + InHand(n)' + OnItsWay(n)' = IF n \in ToSet(accepted') THEN 1 ELSE 0
  <2>1. HeldBack(n) + InHand(n) + OnItsWay(n) = IF n \in ToSet(accepted) THEN 1 ELSE 0
    BY <1>5 DEF PlaceInv
  <2>2. HeldBack(n) \in Nat /\ InHand(n) \in Nat
    BY HeldType, HandType
  <2>3. OnItsWay(n) \in Nat
    BY WayIsUnder, UnderType DEF ConnType
  <2>4. CASE n = m
    <3>1. HeldBack(n) + InHand(n) + OnItsWay(n) = 0 /\ n \in ToSet(accepted')
      BY <1>4, <2>1, <2>4
    <3>2. HeldBack(n)' + InHand(n)' + OnItsWay(n)' = HeldBack(n) + InHand(n) + (OnItsWay(n) + 1)
      BY <1>1, <1>3, <2>4
    <3> QED
      BY <2>2, <2>3, <3>1, <3>2
  <2>5. CASE n # m
    <3>1. OnItsWay(n)' = OnItsWay(n)
      BY <1>3, <2>3, <2>5
    <3> QED
      BY <1>1, <1>4, <2>1, <2>5, <3>1
  <2> QED
    BY <2>4, <2>5
<1> QED
  BY <1>4, <1>5 DEF PlaceInv

\* A message that is to be held back.
LEMMA PlaceTakes ==
    ASSUME ConnType, ConnType', PlaceInv, NEW p \in Procs, NEW m \in Messages \ {Handshake},
           m \notin ToSet(accepted),
           at' = [at EXCEPT ![p] = "push"], msg' = [msg EXCEPT ![p] = m],
           accepted' = Append(accepted, m),
           UNCHANGED <<pending, completions, cursor, writes, strand, wire, socket>>,
           at[p] \in {"idle", "construct"}, \A q \in Procs : q # p => at[q] = "idle"
    PROVE  PlaceInv'
<1>1. /\ at'[p] = "push" /\ msg'[p] = m
      /\ \A q \in Procs : q # p => at'[q] = "idle"
  BY DEF ConnType
<1>2. \A n : HeldBack(n)' = HeldBack(n)
  BY <1>1 DEF HeldBack
<1>3. \A n : InHand(n) = 0 /\ InHand(n)' = IF n = m THEN 1 ELSE 0
  <2>1. \A q \in Procs : at[q] # "push"
    OBVIOUS
  <2>2. TAKE n
  <2>3. {q \in Procs : at'[q] = "push" /\ msg'[q] = n} = IF n = m THEN {p} ELSE {}
    BY <1>1
  <2>4. InHand(n)' = IF n = m THEN 1 ELSE 0
    BY <2>3, FS_EmptySet, FS_Singleton DEF InHand
  <2> QED
    BY <2>1, <2>4, NothingInHand
<1>4. \A n : OnItsWay(n)' = OnItsWay(n)
  BY WayIsUnder, WayIsUnderNext
<1>5. accepted' \in Seq(Messages \ {Handshake}) /\ ToSet(accepted') = ToSet(accepted) \cup {m}
  BY AcceptedGrows DEF PlaceInv
<1>6. ASSUME socket' # "broken", NEW n \in Messages \ {Handshake}
      PROVE  HeldBack(n)' + InHand(n)' + OnItsWay(n)' = IF n \in ToSet(accepted') THEN 1 ELSE 0
  <2>1. HeldBack(n) + InHand(n) + OnItsWay(n) = IF n \in ToSet(accepted) THEN 1 ELSE 0
    BY <1>6 DEF PlaceInv
  <2>2. HeldBack(n) \in Nat /\ OnItsWay(n) \in Nat
    BY HeldType, WayIsUnder, UnderType DEF ConnType
  <2>3. CASE n = m
    <3>1. HeldBack(n) + 0 + OnItsWay(n) = 0 /\ n \in ToSet(accepted')
      BY <1>3, <1>5, <2>1, <2>3
    <3>2. HeldBack(n)' + InHand(n)' + OnItsWay(n)' = HeldBack(n) + 1 + OnItsWay(n)
      BY <1>2, <1>3, <1>4, <2>3
    <3> QED
      BY <2>2, <3>1, <3>2
  <2>4. CASE n # m
    BY <1>2, <1>3, <1>4, <1>5, <2>1, <2>4
  <2> QED
    BY <2>3, <2>4
<1>7. at'["ctor"] # "construct"
  BY <1>1 DEF Procs
<1> QED
  BY <1>5, <1>6, <1>7 DEF PlaceInv

\* send(), when no other activity is under way.
LEMMA PlaceSends ==
    ASSUME ConnType, ConnType', PlaceInv, NEW p \in Procs, NEW m \in Messages \ {Handshake},
           m \notin ToSet(accepted), Send(p, m),
           UNCHANGED <<pending, completions, cursor, strand, wire, socket>>,
           at[p] \in {"idle", "construct"}, \A q \in Procs : q # p => at[q] = "idle"
    PROVE  PlaceInv'
<1>1. CASE MustWait
  BY <1>1, PlaceTakes DEF Send, Goto
<1>2. CASE ~MustWait
  <2>1. /\ writes' = Append(writes, Whole(m)) /\ UNCHANGED msg
        /\ accepted' = Append(accepted, m) /\ at' = [at EXCEPT ![p] = AfterSend(p)]
    BY <1>2 DEF Send, Goto
  <2>2. /\ at'[p] \in {"idle", "start"}
        /\ \A q \in Procs : q # p => at'[q] = "idle"
    BY <2>1 DEF ConnType, AfterSend
  <2>3. \A q, r \in Busy : q = r
    BY DEF Busy
  <2>4. at'["ctor"] # "construct"
    BY <2>2 DEF Procs
  <2> QED
    BY <2>1, <2>2, <2>3, <2>4, PlaceWrites
<1> QED
  BY <1>1, <1>2

\* push_back: what was in hand is held back.
LEMMA PlacePushes ==
    ASSUME ConnType, ConnType', PlaceInv, NEW p \in Procs, at[p] = "push",
           pending' = Append(pending, msg[p]), at' = [at EXCEPT ![p] = AfterSend(p)],
           UNCHANGED <<completions, cursor, writes, strand, wire, socket, msg, accepted>>,
           completions = 0, \A q \in Procs : q # p => at[q] = "idle"
    PROVE  PlaceInv'
<1>1. /\ at'[p] \in {"idle", "start"}
      /\ \A q \in Procs : q # p => at'[q] = "idle"
  BY DEF ConnType, AfterSend
<1>2. \A n : InHand(n) = (IF msg[p] = n THEN 1 ELSE 0) /\ InHand(n)' = 0
  <2>1. \A q \in Procs : q # p => at[q] # "push"
    OBVIOUS
  <2>2. TAKE n
  <2>3. {q \in Procs : at'[q] = "push" /\ msg'[q] = n} = {}
    BY <1>1
  <2>4. InHand(n)' = 0
    BY <2>3, FS_EmptySet DEF InHand
  <2> QED
    BY <2>1, <2>4, HandIs
<1>3. \A n : HeldBack(n) \in Nat /\ HeldBack(n)' = HeldBack(n) + (IF msg[p] = n THEN 1 ELSE 0)
  <2>1. TAKE n
  <2>2. pending \in Seq(Messages \ {Handshake}) /\ msg[p] \in Messages \ {Handshake}
    BY DEF ConnType
  <2>3. HeldBack(n) = Count(pending, {n}) /\ HeldBack(n)' = Count(pending', {n})
    BY DEF HeldBack, Count, At
  <2>4. Count(pending', {n}) = Count(pending, {n}) + (IF msg[p] \in {n} THEN 1 ELSE 0)
    BY <2>2, CountAppend
  <2> QED
    BY <2>3, <2>4, HeldType
<1>4. \A n : OnItsWay(n)' = OnItsWay(n) /\ OnItsWay(n) \in Nat
  BY WayIsUnder, WayIsUnderNext, UnderType DEF ConnType
<1>5. ASSUME socket' # "broken", NEW n \in Messages \ {Handshake}
      PROVE  HeldBack(n)' + InHand(n)' + OnItsWay(n)' = IF n \in ToSet(accepted') THEN 1 ELSE 0
  <2>1. HeldBack(n) + InHand(n) + OnItsWay(n) = IF n \in ToSet(accepted) THEN 1 ELSE 0
    BY <1>5 DEF PlaceInv
  <2>2. HeldBack(n)' + InHand(n)' + OnItsWay(n)' = HeldBack(n) + InHand(n) + OnItsWay(n)
    BY <1>2, <1>3, <1>4
  <2> QED
    BY <2>1, <2>2
<1>6. at'["ctor"] # "construct"
  BY <1>1 DEF Procs
<1> QED
  BY <1>5, <1>6 DEF PlaceInv

\* One turn of the flush: what was held back is on its way.
LEMMA PlaceFlushes ==
    ASSUME ConnType, ConnType', PlaceInv, NEW p \in Procs, Flush(p), completions = 1,
           \A q \in Procs : q # p => at[q] = "idle"
    PROVE  PlaceInv'
<1> DEFINE k == cursor[p].next
           e == cursor[p].end
           m == pending[k]
<1>1. /\ at[p] = "flush" /\ k <= e /\ k \in Nat \ {0} /\ e \in Nat /\ e <= Len(pending)
      /\ writes' = Append(writes, Whole(m))
      /\ cursor' = [cursor EXCEPT ![p].next = k + 1]
      /\ UNCHANGED <<at, pending, completions, strand, wire, socket, msg, accepted>>
  BY DEF Flush, ConnType
<1>2. cursor'[p].next = k + 1 /\ cursor'[p].end = e
  BY <1>1 DEF ConnType
<1>3. k \in DOMAIN pending /\ DOMAIN pending = 1 .. Len(pending)
  BY <1>1, LenProperties DEF ConnType
<1>4. m \in Messages \ {Handshake}
  BY <1>3, ElementOfSeq DEF ConnType
<1>5. \A n : InHand(n)' = InHand(n) /\ InHand(n) = 0
  BY <1>1, NothingInHand DEF InHand
<1>6. \A n : OnItsWay(n) \in Nat /\ OnItsWay(n)' = OnItsWay(n) + (IF n = m THEN 1 ELSE 0)
  <2>1. Whole(m) \in Chunks /\ Whole(m).m = m
    BY <1>4, NoHandshake
  <2>2. \A n : Under(writes', strand', wire', n) = Under(writes, strand, wire, n) + (IF n = m THEN 1 ELSE 0)
    BY <1>1, <2>1, UnderGains DEF ConnType
  <2>3. \A n : Under(writes, strand, wire, n) \in Nat
    BY UnderType DEF ConnType
  <2> QED
    BY <2>2, <2>3, WayIsUnder, WayIsUnderNext
<1>7. \A n : HeldBack(n)' \in Nat /\ HeldBack(n) = HeldBack(n)' + (IF n = m THEN 1 ELSE 0)
  <2>1. TAKE n
  <2> DEFINE now == {i \in k .. e : pending[i] = n}
             next == {i \in k + 1 .. e : pending[i] = n}
  <2>2. HeldBack(n) = Cardinality(now)
    <3>1. {i \in DOMAIN pending :
            /\ pending[i] = n
            /\ \/ completions = 0
               \/ \E q \in Procs : at[q] = "flush" /\ i \in cursor[q].next .. cursor[q].end} = now
      BY <1>1, <1>3
    <3> QED
      BY <3>1 DEF HeldBack
  <2>3. HeldBack(n)' = Cardinality(next)
    <3>1. {i \in DOMAIN pending' :
            /\ pending'[i] = n
            /\ \/ completions' = 0
               \/ \E q \in Procs : at'[q] = "flush" /\ i \in cursor'[q].next .. cursor'[q].end} = next
      BY <1>1, <1>2, <1>3
    <3> QED
      BY <3>1 DEF HeldBack
  <2>4. IsFiniteSet(next) /\ Cardinality(next) \in Nat
    <3>0. k + 1 \in Int /\ e \in Int
      BY <1>1
    <3>1. IsFiniteSet(k + 1 .. e)
      BY <3>0, FS_Interval
    <3> QED
      BY <3>1, FS_Subset, FS_CardinalityType
  <2>5. k \notin next /\ now = IF n = m THEN next \cup {k} ELSE next
    BY <1>1
  <2>6. Cardinality(next \cup {k}) = Cardinality(next) + 1
    BY <2>4, <2>5, FS_AddElement
  <2> HIDE DEF now, next
  <2>7. CASE n = m
    BY <2>2, <2>3, <2>4, <2>5, <2>6, <2>7
  <2>8. CASE n # m
    BY <2>2, <2>3, <2>4, <2>5, <2>8
  <2> QED
    BY <2>7, <2>8
<1>8. ASSUME socket' # "broken", NEW n \in Messages \ {Handshake}
      PROVE  HeldBack(n)' + InHand(n)' + OnItsWay(n)' = IF n \in ToSet(accepted') THEN 1 ELSE 0
  <2>1. HeldBack(n) + InHand(n) + OnItsWay(n) = IF n \in ToSet(accepted) THEN 1 ELSE 0
    BY <1>1, <1>8 DEF PlaceInv
  <2>2. HeldBack(n)' + InHand(n)' + OnItsWay(n)' = HeldBack(n) + InHand(n) + OnItsWay(n)
    <3>1. HeldBack(n)' + 0 + (OnItsWay(n) + (IF n = m THEN 1 ELSE 0))
          = HeldBack(n)' + (IF n = m THEN 1 ELSE 0) + 0 + OnItsWay(n)
      BY <1>6, <1>7
    <3> QED
      BY <1>5, <1>6, <1>7, <3>1
  <2> QED
    BY <1>1, <2>1, <2>2
<1> QED
  BY <1>1, <1>8 DEF PlaceInv

\* handshake_complete begins to flush what is held back: all of it.
LEMMA PlaceTests ==
    ASSUME ConnType, ConnType', PlaceInv, ReaderInv, NEW p \in Procs, TestComplete(p),
           \A q \in Procs : q # p => at[q] = "idle"
    PROVE  PlaceInv'
<1>1. /\ at[p] = "test" /\ completions = 0
      /\ UNCHANGED <<pending, writes, strand, wire, socket, msg, accepted>>
      /\ Tested(p) = {Complete}
  BY DEF TestComplete, ReaderInv, Tested
<1>2. \A n : OnItsWay(n)' = OnItsWay(n)
  BY <1>1, WayIsUnder, WayIsUnderNext
<1>3. at' = [at EXCEPT ![p] = "flush"] \/ at' = [at EXCEPT ![p] = "idle"]
  BY DEF TestComplete, Goto
<1>4. /\ at'[p] \in {"flush", "idle"}
      /\ \A q \in Procs : q # p => at'[q] = "idle"
  BY <1>3 DEF ConnType
<1>5. \A n : InHand(n)' = 0 /\ InHand(n) = 0
  <2>1. TAKE n
  <2>2. {q \in Procs : at'[q] = "push" /\ msg'[q] = n} = {}
    BY <1>4
  <2>3. InHand(n)' = 0
    BY <2>2, FS_EmptySet DEF InHand
  <2>4. \A q \in Procs : at[q] # "push"
    BY <1>1
  <2> QED
    BY <2>3, <2>4, NothingInHand
<1>6. \A n : HeldBack(n)' = HeldBack(n)
  <2>1. CASE Complete
    <3>1. /\ at' = [at EXCEPT ![p] = "flush"]
          /\ cursor' = [cursor EXCEPT ![p] = [next |-> 1, end |-> Len(pending)]]
      BY <1>1, <2>1 DEF TestComplete, Goto
    <3>2. at'[p] = "flush" /\ cursor'[p].next = 1 /\ cursor'[p].end = Len(pending)
      BY <3>1 DEF ConnType
    <3>3. DOMAIN pending = 1 .. Len(pending)
      BY LenProperties DEF ConnType
    <3> QED
      BY <1>1, <3>2, <3>3 DEF HeldBack
  <2>2. CASE ~Complete
    <3>1. completions' = 0
      BY <1>1, <2>2 DEF TestComplete
    <3> QED
      BY <1>1, <3>1 DEF HeldBack
  <2> QED
    BY <2>1, <2>2
<1>7. at'["ctor"] # "construct"
  BY <1>4 DEF Procs
<1> QED
  BY <1>1, <1>2, <1>5, <1>6, <1>7 DEF PlaceInv

\* The flush ends, having put everything on its way.
LEMMA PlaceFlushed ==
    ASSUME ConnType, ConnType', PlaceInv, ReaderInv, NEW p \in Procs, BeginReading(p),
           \A q \in Procs : q # p => at[q] = "idle"
    PROVE  PlaceInv'
<1>1. /\ at[p] = "flush" /\ completions = 1 /\ cursor[p].next > cursor[p].end
      /\ UNCHANGED <<pending, completions, cursor, writes, strand, wire, socket, msg, accepted>>
      /\ at' = [at EXCEPT ![p] = "idle"]
  BY DEF BeginReading, ReaderInv, Goto
<1>2. \A n : OnItsWay(n)' = OnItsWay(n)
  BY <1>1, WayIsUnder, WayIsUnderNext
<1>3. \A q \in Procs : at'[q] = "idle"
  BY <1>1 DEF ConnType
<1>4. \A n : InHand(n)' = InHand(n)
  BY <1>1, <1>3 DEF InHand
<1>5. cursor[p].next \in Nat /\ cursor[p].end \in Nat
  BY DEF ConnType
<1>6. cursor[p].next .. cursor[p].end = {}
  BY <1>1, <1>5
<1>7. \A n : HeldBack(n)' = HeldBack(n)
  BY <1>1, <1>3, <1>6 DEF HeldBack
<1>8. at'["ctor"] # "construct"
  BY <1>3 DEF Procs
<1> QED
  BY <1>1, <1>2, <1>4, <1>7, <1>8 DEF PlaceInv

\* No handler of one thread loses a message or sends one twice.
LEMMA PlaceStep ==
    ASSUME NumThreads = 1, ConnType, ConnType', ReaderInv, PlaceInv, [Next]_vars
    PROVE  PlaceInv'
<1>0. {"ctor", "strand", "reader", "timer"} \subseteq Procs /\ Callers \subseteq Procs
      /\ "ctor" \notin Callers
  BY ConnectionAssumption DEF Procs
<1>a. ASSUME Cardinality(Busy) < NumThreads PROVE \A p \in Procs : at[p] = "idle"
  BY <1>a, OneThreadFree DEF ReaderInv
<1>b. ASSUME NEW p \in Procs, at[p] # "idle" PROVE \A q \in Procs : q # p => at[q] = "idle"
  BY <1>b DEF ReaderInv, Busy
<1>c. writes \in Seq(Chunks) /\ strand \in Seq(Chunks) /\ wire \in Seq(Chunks)
  BY DEF ConnType
<1>1. CASE Construct
  <2>1. /\ at["ctor"] = "construct" /\ \A q \in Procs : q # "ctor" => at[q] = "idle"
        /\ Bitfield \notin ToSet(accepted)
    BY <1>0, <1>1, <1>b DEF Construct, PlaceInv, ToSet
  <2> QED
    BY <1>0, <1>1, <2>1, NoHandshake, PlaceSends DEF Construct
<1>2. CASE StartAccepted \/ Connected
  <2>1. /\ writes' = Append(writes, Whole(Handshake))
        /\ UNCHANGED <<pending, completions, cursor, msg, accepted, strand, wire>>
    BY <1>2 DEF StartAccepted, Connected, Start
  <2>2. /\ \A p \in Procs : /\ at'[p] = "push" <=> at[p] = "push"
                            /\ at'[p] = "flush" <=> at[p] = "flush"
        /\ at'["ctor"] = "construct" => at["ctor"] = "construct"
        /\ socket' # "broken" => socket # "broken"
    BY <1>2 DEF StartAccepted, Connected, Goto, ConnType
  <2>3. Whole(Handshake) \in Chunks /\ Whole(Handshake).m = Handshake
    BY NoHandshake
  <2>4. ASSUME NEW m \in Messages \ {Handshake}
        PROVE  Under(writes', strand', wire', m) = Under(writes, strand, wire, m)
    <3>1. Under(Append(writes, Whole(Handshake)), strand, wire, m)
          = Under(writes, strand, wire, m) + (IF Handshake = m THEN 1 ELSE 0)
      BY <1>c, <2>3, UnderGains
    <3>2. Under(writes, strand, wire, m) \in Nat
      BY <1>c, UnderType
    <3> QED
      BY <2>1, <2>4, <3>1, <3>2
  <2> QED
    BY <2>1, <2>2, <2>4, PlaceAside
<1>3. CASE ContinueWrite
  <2>1. /\ strand # <<>> /\ Head(strand).bite = "part" /\ Head(strand) \in Chunks
        /\ writes' = Append(writes, [Head(strand) EXCEPT !.bite = "rest"]) /\ strand' = Tail(strand)
        /\ UNCHANGED <<pending, completions, cursor, msg, accepted, at, wire, socket>>
    BY <1>3, <1>c, Taken DEF ContinueWrite
  <2> DEFINE c == [Head(strand) EXCEPT !.bite = "rest"]
  <2>2. c \in Chunks /\ c.m = Head(strand).m
    BY <2>1 DEF Chunks
  <2>3. \A m : Under(writes', strand', wire', m) = Under(writes, strand, wire, m)
    <3> HIDE DEF c
    <3>1. \A m : Under(Append(writes, c), Tail(strand), wire, m) = Under(writes, strand, wire, m)
      BY <1>c, <2>1, <2>2, UnderContinues
    <3> QED
      BY <2>1, <3>1 DEF c
  <2> QED
    BY <2>1, <2>3, PlaceAside
<1>4. CASE SendHandler
  <2>1. /\ strand # <<>> /\ Head(strand).bite # "part" /\ strand' = Tail(strand)
        /\ UNCHANGED <<pending, completions, cursor, msg, accepted, writes, wire, socket>>
        /\ \A p \in Procs : at[p] = "idle"
    BY <1>4, <1>a DEF SendHandler, MayRun
  <2>2. \A m : Under(writes', strand', wire', m) = Under(writes, strand, wire, m)
    BY <1>c, <2>1, UnderDrops
  <2>3. at' = at \/ at' = [at EXCEPT !["strand"] = "test"]
    BY <1>0, <1>4, <2>1 DEF SendHandler, GotoTest
  <2>4. \A p \in Procs : at'[p] \in {"idle", "test"}
    BY <2>1, <2>3 DEF ConnType
  <2> QED
    BY <1>0, <2>1, <2>2, <2>4, PlaceAside
<1>5. CASE WriteFails \/ Break
  <2>1. /\ socket' = "broken"
        /\ UNCHANGED <<pending, completions, cursor, msg, accepted, at>>
    BY <1>5 DEF WriteFails, Break
  <2> QED
    BY <2>1, PlaceAside
<1>6. ASSUME NEW p \in Procs, Push(p) PROVE PlaceInv'
  <2>1. completions = 0
    BY <1>6 DEF Push, ReaderInv
  <2> QED
    BY <1>6, <1>b, <2>1, PlacePushes DEF Push, Goto
<1>7. CASE Crash
  BY <1>7, PlaceAside DEF Crash
<1>8. ASSUME NEW p \in Procs, PushRace(p) PROVE PlaceInv'
  BY <1>8, <1>b DEF PushRace
<1>9. ASSUME NEW p \in Procs, TestComplete(p) PROVE PlaceInv'
  BY <1>9, <1>b, PlaceTests DEF TestComplete
<1>10. ASSUME NEW p \in Procs, Flush(p) PROVE PlaceInv'
  BY <1>10, <1>b, PlaceFlushes DEF Flush, ReaderInv
<1>11. ASSUME NEW p \in Procs, BeginReading(p) PROVE PlaceInv'
  BY <1>11, <1>b, PlaceFlushed DEF BeginReading
<1>12. CASE ReadFails \/ RejectHandshake \/ TimerExpires
  BY <1>12, PlaceAside DEF ReadFails, RejectHandshake, TimerExpires
<1>13. CASE KeepAlive
  <2>1. PICK m \in KeepAlives \ ToSet(accepted) : Send("timer", m)
    BY <1>13 DEF KeepAlive
  <2>2. \A p \in Procs : at[p] = "idle"
    BY <1>13, <1>a DEF KeepAlive, MayRun
  <2>3. m \in Messages \ {Handshake} /\ "timer" \in Procs /\ m \notin ToSet(accepted)
    BY <1>0, <2>1, NoHandshake
  <2>4. UNCHANGED <<pending, completions, cursor, strand, wire, socket>>
    BY <1>13 DEF KeepAlive
  <2> QED
    BY <2>1, <2>2, <2>3, <2>4, PlaceSends
<1>14. CASE WriteDone \/ WritePart
  <2>1. /\ writes # <<>> /\ Head(writes) \in Chunks /\ writes' = Tail(writes)
        /\ UNCHANGED <<pending, completions, cursor, msg, accepted, at, socket>>
    BY <1>14, <1>c, Taken DEF WriteDone, WritePart
  <2>2. PICK c \in Chunks : c.m = Head(writes).m /\ wire' = Append(wire, c) /\ strand' = Append(strand, c)
    BY <1>14, <2>1 DEF WriteDone, WritePart, Chunks
  <2>3. \A m : Under(Tail(writes), Append(strand, c), Append(wire, c), m) = Under(writes, strand, wire, m)
    BY <1>c, <2>1, <2>2, UnderMoves
  <2> QED
    BY <2>1, <2>2, <2>3, PlaceAside
<1>15. CASE ConnectFails \/ RecvUnknown
  BY <1>7, <1>15 DEF ConnectFails, RecvUnknown
<1>16. CASE RecvHandshake
  <2>1. /\ UNCHANGED <<pending, completions, cursor, msg, accepted, writes, strand, wire, socket>>
        /\ \A p \in Procs : at[p] = "idle"
        /\ GotoTest("reader", "strand")
    BY <1>16, <1>a DEF RecvHandshake, MayRun
  <2>2. at' = [at EXCEPT !["reader"] = "test"]
    BY <1>0, <2>1 DEF GotoTest
  <2>3. \A p \in Procs : at'[p] \in {"idle", "test"}
    BY <2>1, <2>2 DEF ConnType
  <2> QED
    BY <1>0, <2>1, <2>3, PlaceAside
<1>17. CASE RecvMessage
  <2>1. /\ UNCHANGED <<pending, completions, cursor, msg, at, strand, wire, socket>>
        /\ \A p \in Procs : at[p] = "idle"
    BY <1>17, <1>a DEF RecvMessage, MayRun
  <2>2. CASE UNCHANGED <<writes, accepted>>
    BY <2>1, <2>2, PlaceAside
  <2>3. ASSUME NEW m \in Msgs \ ToSet(accepted),
               writes' = Append(writes, Whole(m)), accepted' = Append(accepted, m)
        PROVE  PlaceInv'
    <3>1. m \in Messages \ {Handshake} /\ m \notin ToSet(accepted)
      BY <2>3, NoHandshake
    <3>3. \A p \in Procs : at'[p] = at[p]
      BY <2>1
    <3>2. (\A p, q \in Busy : p = q) /\ at'["ctor"] # "construct"
      BY <1>0, <2>1 DEF Busy
    <3> QED
      BY <2>1, <2>3, <3>1, <3>2, <3>3, PlaceWrites
  <2> QED
    BY <1>17, <2>2, <2>3 DEF RecvMessage
<1>18. CASE RecvTorn
  BY <1>18 DEF RecvTorn, ReaderInv
<1>19. ASSUME NEW p \in Callers, NEW m \in Msgs, CallerSends(p, m) PROVE PlaceInv'
  <2>1. /\ m \in Messages \ {Handshake} /\ m \notin ToSet(accepted) /\ Send(p, m) /\ p \in Procs
        /\ UNCHANGED <<pending, completions, cursor, strand, wire, socket>>
    BY <1>0, <1>19, NoHandshake DEF CallerSends
  <2>2. \A q \in Procs : at[q] = "idle"
    BY <1>19, <1>a DEF CallerSends, MayRun
  <2> QED
    BY <2>1, <2>2, PlaceSends
<1>20. CASE UNCHANGED vars
  BY <1>20, PlaceAside DEF vars
<1> QED
  BY <1>1, <1>2, <1>3, <1>4, <1>5, <1>6, <1>8, <1>9, <1>10, <1>11, <1>12, <1>13, <1>14, <1>15,
     <1>16, <1>17, <1>18, <1>19, <1>20 DEF Next, Handlers, Environment

\* On one thread every message given to send() is in exactly one place: held back,
\* in hand, being written or written, until the connection breaks.
THEOREM EachIsSentOnce ==
    ASSUME NumThreads = 1
    PROVE  Spec => []SentOnce
<1>1. Init => PlaceInv
  <2> SUFFICES ASSUME Init PROVE PlaceInv
    OBVIOUS
  <2>1. accepted = <<>> /\ pending = <<>> /\ writes = <<>> /\ strand = <<>> /\ wire = <<>>
        /\ \A p \in Procs : at[p] # "push"
    BY DEF Init
  <2>2. ASSUME NEW m PROVE HeldBack(m) = 0 /\ InHand(m) = 0 /\ OnItsWay(m) = 0
    <3>1. HeldBack(m) = 0
      <4>1. {i \in DOMAIN pending :
              /\ pending[i] = m
              /\ \/ completions = 0
                 \/ \E p \in Procs : at[p] = "flush" /\ i \in cursor[p].next .. cursor[p].end} = {}
        BY <2>1
      <4> QED
        BY <4>1, FS_EmptySet DEF HeldBack
    <3>2. OnItsWay(m) = 0
      <4>1. /\ Cardinality({i \in DOMAIN writes : writes[i].m = m}) = 0
            /\ Cardinality({i \in DOMAIN strand : strand[i].m = m /\ strand[i].bite = "part"}) = 0
            /\ Cardinality({i \in DOMAIN wire : wire[i].m = m /\ wire[i].bite # "part"}) = 0
        BY <2>1, FS_EmptySet
      <4> QED
        BY <4>1 DEF OnItsWay
    <3>3. \A p \in Procs : at[p] # "push"
      BY <2>1
    <3>4. InHand(m) = 0
      BY <3>3, NothingInHand
    <3> QED
      BY <3>1, <3>2, <3>4
  <2>3. ToSet(accepted) = {}
    BY <2>1 DEF ToSet
  <2> QED
    BY <2>1, <2>2, <2>3 DEF PlaceInv
<1>2. ConnType /\ ConnType' /\ ReaderInv /\ PlaceInv /\ [Next]_vars => PlaceInv'
  BY PlaceStep
<1>3. PlaceInv => SentOnce
  BY ElementOfSeq DEF PlaceInv, SentOnce, ToSet
<1> QED
  BY <1>1, <1>2, <1>3, ConnTypeCorrect, ReaderHolds, PTL DEF Spec

-----------------------------------------------------------------------------
(* On one thread: the order of the messages.                                *)

\* The chunks that begin a message other than the handshake; the places of s up to
\* i that hold one; and s begins the messages of a in turn.
Starts     == {c \in Chunks : c.bite # "rest" /\ c.m # Handshake}
UpTo(s, i) == {j \in At(s, Starts) : j <= i}
Ordered(s, a) ==
    \A i \in At(s, Starts) :
        Cardinality(UpTo(s, i)) <= Len(a) /\ s[i].m = a[Cardinality(UpTo(s, i))]

\* What the socket took and has still to take.
Line == wire \o (IF socket = "broken" THEN <<>> ELSE writes)

\* A flush has begun the messages before its cursor.
Flushing(p) ==
    at[p] = "flush" =>
        /\ accepted = pending /\ cursor[p].end = Len(pending)
        /\ cursor[p].next <= Len(pending) + 1
        /\ Count(Line, Starts) = cursor[p].next - 1

\* Before the flush none has begun, after it all have.
Standing ==
    /\ \A p \in Procs : at[p] = "push" => accepted = Append(pending, msg[p])
    /\ \A p \in Procs : Flushing(p)
    /\ completions = 0 =>
         /\ Count(Line, Starts) = 0
         /\ (\A p \in Procs : at[p] # "push") => accepted = pending
    /\ completions > 0 /\ (\A p \in Procs : at[p] # "flush") => Count(Line, Starts) = Len(accepted)

OrderInv ==
    /\ accepted \in Seq(Messages \ {Handshake})
    /\ Ordered(Line, accepted)
    /\ Complete /\ completions = 0 => \E p \in Procs : at[p] = "test"
    /\ socket # "broken" => Standing

\* What was begun before a place, and up to it.
LEMMA UpToType ==
    ASSUME NEW s \in Seq(Chunks), NEW i \in At(s, Starts)
    PROVE  Cardinality(UpTo(s, i)) \in Nat \ {0}
<1>1. IsFiniteSet(At(s, Starts))
  BY CountType
<1>2. UpTo(s, i) \subseteq At(s, Starts) /\ i \in UpTo(s, i)
  BY DEF UpTo, At
<1>3. IsFiniteSet(UpTo(s, i)) /\ UpTo(s, i) # {}
  BY <1>1, <1>2, FS_Subset
<1> QED
  BY <1>3, FS_CardinalityType, FS_EmptySet

\* More messages are given to send().
LEMMA OrderedLonger ==
    ASSUME NEW s \in Seq(Chunks), NEW S, NEW a \in Seq(S), NEW m \in S, Ordered(s, a)
    PROVE  Ordered(s, Append(a, m))
<1>1. Len(Append(a, m)) = Len(a) + 1 /\ \A k \in 1 .. Len(a) : Append(a, m)[k] = a[k]
  BY Appended
<1>2. Len(a) \in Nat
  BY LenProperties
<1> SUFFICES ASSUME NEW i \in At(s, Starts)
             PROVE  /\ Cardinality(UpTo(s, i)) <= Len(Append(a, m))
                    /\ s[i].m = Append(a, m)[Cardinality(UpTo(s, i))]
  BY DEF Ordered
<1> DEFINE k == Cardinality(UpTo(s, i))
<1>3. k \in Nat \ {0}
  BY UpToType
<1>4. k <= Len(a) /\ s[i].m = a[k]
  BY DEF Ordered
<1> HIDE DEF k
<1>5. k \in 1 .. Len(a) /\ k <= Len(a) + 1
  BY <1>2, <1>3, <1>4
<1> QED
  BY <1>1, <1>4, <1>5 DEF k

\* A chunk is added that begins the next message, or none.
LEMMA OrderedAppend ==
    ASSUME NEW s \in Seq(Chunks), NEW c \in Chunks, NEW a, Ordered(s, a),
           c \in Starts => /\ Count(s, Starts) + 1 <= Len(a)
                           /\ c.m = a[Count(s, Starts) + 1]
    PROVE  /\ Ordered(Append(s, c), a)
           /\ Count(Append(s, c), Starts) = Count(s, Starts) + (IF c \in Starts THEN 1 ELSE 0)
<1> DEFINE t == Append(s, c)
           n == Len(s) + 1
<1>0. Count(t, Starts) = Count(s, Starts) + (IF c \in Starts THEN 1 ELSE 0)
  BY CountAppend
<1>1. /\ DOMAIN t = 1 .. n /\ t[n] = c
      /\ \A i \in 1 .. Len(s) : t[i] = s[i]
  BY Appended
<1>2. Len(s) \in Nat /\ DOMAIN s = 1 .. Len(s)
  BY LenProperties
<1> HIDE DEF t
<1>3. ASSUME NEW i \in At(t, Starts)
      PROVE  Cardinality(UpTo(t, i)) <= Len(a) /\ t[i].m = a[Cardinality(UpTo(t, i))]
  <2>1. CASE i <= Len(s)
    <3>1. i \in At(s, Starts) /\ t[i] = s[i]
      BY <1>1, <1>2, <2>1 DEF At
    <3>2. UpTo(t, i) = UpTo(s, i)
      BY <1>1, <1>2, <2>1 DEF UpTo, At
    <3> QED
      BY <3>1, <3>2 DEF Ordered
  <2>2. CASE i = n
    <3>1. UpTo(t, i) = At(t, Starts) /\ c \in Starts /\ t[i] = c
      BY <1>1, <1>2, <2>2 DEF UpTo, At
    <3>2. Cardinality(UpTo(t, i)) = Count(s, Starts) + 1
      BY <1>0, <3>1 DEF Count
    <3> QED
      BY <3>1, <3>2
  <2> QED
    BY <1>1, <1>2, <2>1, <2>2 DEF At
<1> QED
  BY <1>0, <1>3 DEF Ordered, t

\* The same messages begin at the same places.
LEMMA OrderedSame ==
    ASSUME NEW s, NEW t, NEW a, Ordered(s, a), At(t, Starts) = At(s, Starts),
           \A i \in At(s, Starts) : t[i].m = s[i].m
    PROVE  Ordered(t, a) /\ Count(t, Starts) = Count(s, Starts)
<1>1. \A i \in At(s, Starts) : UpTo(t, i) = UpTo(s, i)
  BY DEF UpTo
<1> QED
  BY <1>1 DEF Ordered, Count

\* What is not taken any more leaves the rest in order.
LEMMA OrderedPrefix ==
    ASSUME NEW v \in Seq(Chunks), NEW w \in Seq(Chunks), NEW a, Ordered(v \o w, a)
    PROVE  Ordered(v, a)
<1> DEFINE t == v \o w
<1>1. /\ DOMAIN v = 1 .. Len(v) /\ DOMAIN t = 1 .. Len(v) + Len(w)
      /\ Len(v) \in Nat /\ Len(w) \in Nat
      /\ \A i \in 1 .. Len(v) : t[i] = v[i]
  OBVIOUS
<1> HIDE DEF t
<1>2. ASSUME NEW i \in At(v, Starts)
      PROVE  i \in At(t, Starts) /\ t[i] = v[i] /\ UpTo(t, i) = UpTo(v, i)
  <2>1. \A j \in DOMAIN v : j \in DOMAIN t /\ t[j] = v[j]
    BY <1>1
  <2>2. \A j \in DOMAIN t : j <= i => j \in DOMAIN v
    BY <1>1 DEF At
  <2> QED
    BY <2>1, <2>2 DEF UpTo, At
<1> QED
  BY <1>2 DEF Ordered, t

\* The socket takes a chunk.
LEMMA LineMoves ==
    ASSUME NEW v \in Seq(Chunks), NEW w \in Seq(Chunks), w # <<>>, NEW c \in Chunks, NEW a,
           c.m = Head(w).m, c \in Starts <=> Head(w) \in Starts, Ordered(v \o w, a)
    PROVE  /\ Ordered(Append(v, c) \o Tail(w), a)
           /\ Count(Append(v, c) \o Tail(w), Starts) = Count(v \o w, Starts)
<1> DEFINE s == v \o w
           t == Append(v, c) \o Tail(w)
           n == Len(v) + 1
<1>1. /\ Len(v) \in Nat /\ Len(w) \in Nat \ {0} /\ Len(Tail(w)) = Len(w) - 1
      /\ DOMAIN s = 1 .. Len(v) + Len(w) /\ DOMAIN t = 1 .. Len(v) + Len(w)
  OBVIOUS
<1>2. s[n] = Head(w) /\ t[n] = c
  OBVIOUS
<1>3. \A i \in DOMAIN s : i # n => t[i] = s[i]
  <2>1. \A i \in 1 .. Len(v) : t[i] = s[i]
    OBVIOUS
  <2>2. ASSUME NEW i \in n + 1 .. Len(v) + Len(w) PROVE t[i] = s[i]
    <3>1. t[i] = Tail(w)[i - n] /\ s[i] = w[i - Len(v)]
      BY <1>1
    <3>2. i - n \in 1 .. Len(Tail(w)) /\ (i - n) + 1 = i - Len(v)
      BY <1>1
    <3> QED
      BY <3>1, <3>2
  <2> QED
    BY <1>1, <2>1, <2>2
<1> HIDE DEF s, t
<1>4. At(t, Starts) = At(s, Starts)
  BY <1>1, <1>2, <1>3 DEF At
<1>5. \A i \in At(s, Starts) : t[i].m = s[i].m
  BY <1>2, <1>3 DEF At
<1>6. Ordered(s, a)
  BY DEF s
<1>7. Ordered(t, a) /\ Count(t, Starts) = Count(s, Starts)
  BY <1>4, <1>5, <1>6, OrderedSame
<1> QED
  BY <1>7 DEF s, t

-----------------------------------------------------------------------------
LEMMA LineType ==
    ASSUME ConnType
    PROVE  Line \in Seq(Chunks)
<1>1. wire \in Seq(Chunks) /\ writes \in Seq(Chunks) /\ <<>> \in Seq(Chunks)
  BY DEF ConnType
<1> QED
  BY <1>1 DEF Line

\* A write is begun.
LEMMA LineGrows ==
    ASSUME ConnType, NEW c \in Chunks, writes' = Append(writes, c), UNCHANGED wire,
           socket' = "broken" <=> socket = "broken"
    PROVE  Line' = IF socket = "broken" THEN Line ELSE Append(Line, c)
<1>1. wire \in Seq(Chunks) /\ writes \in Seq(Chunks)
  BY DEF ConnType
<1>2. wire \o Append(writes, c) = Append(wire \o writes, c)
  BY <1>1
<1> QED
  BY <1>2 DEF Line

\* A step beside the messages.
LEMMA OrderAside ==
    ASSUME OrderInv, UNCHANGED <<pending, completions, cursor, msg, accepted>>,
           Complete' => Complete \/ \E p \in Procs : at'[p] = "test",
           \A p \in Procs : /\ at'[p] = "push" <=> at[p] = "push"
                            /\ at'[p] = "flush" <=> at[p] = "flush"
                            /\ at[p] = "test" => at'[p] = "test",
           socket' # "broken" => socket # "broken" /\ Count(Line', Starts) = Count(Line, Starts),
           Ordered(Line', accepted)
    PROVE  OrderInv'
<1>1. socket' # "broken" => Standing'
  <2>1. ASSUME socket' # "broken", NEW p \in Procs PROVE Flushing(p)'
    BY <2>1 DEF OrderInv, Standing, Flushing
  <2> QED
    BY <2>1 DEF OrderInv, Standing
<1> QED
  BY <1>1 DEF OrderInv

\* A chunk that begins no message.
LEMMA OrderRests ==
    ASSUME ConnType, OrderInv, NEW c \in Chunks, c \notin Starts,
           writes' = Append(writes, c), UNCHANGED <<wire, pending, completions, cursor, msg, accepted>>,
           socket' = "broken" <=> socket = "broken", UNCHANGED Complete,
           \A p \in Procs : /\ at'[p] = "push" <=> at[p] = "push"
                            /\ at'[p] = "flush" <=> at[p] = "flush"
                            /\ at[p] = "test" => at'[p] = "test"
    PROVE  OrderInv'
<1>1. Line' = IF socket = "broken" THEN Line ELSE Append(Line, c)
  BY LineGrows
<1>2. Line \in Seq(Chunks) /\ Ordered(Line, accepted)
  BY LineType DEF OrderInv
<1>3. /\ Ordered(Append(Line, c), accepted)
      /\ Count(Append(Line, c), Starts) = Count(Line, Starts) + (IF c \in Starts THEN 1 ELSE 0)
  BY <1>2, OrderedAppend
<1>4. Count(Line, Starts) \in Nat
  BY <1>2, CountType
<1>5. Ordered(Line', accepted) /\ Count(Line', Starts) = Count(Line, Starts)
  BY <1>1, <1>2, <1>3, <1>4
<1> QED
  BY <1>5, OrderAside

\* A message that goes to the socket at once, after all the others.
LEMMA OrderWrites ==
    ASSUME ConnType, OrderInv, NEW m \in Messages \ {Handshake},
           writes' = Append(writes, Whole(m)), accepted' = Append(accepted, m),
           UNCHANGED <<wire, pending, completions, cursor, msg, socket>>, completions > 0,
           \A p \in Procs : at[p] \notin {"push", "flush"} /\ at'[p] \notin {"push", "flush"}
    PROVE  OrderInv'
<1>0. Whole(m) \in Chunks /\ Whole(m).m = m /\ Whole(m) \in Starts
  BY NoHandshake DEF Starts, Whole
<1>1. Line' = IF socket = "broken" THEN Line ELSE Append(Line, Whole(m))
  BY <1>0, LineGrows
<1>2. /\ Line \in Seq(Chunks) /\ Ordered(Line, accepted)
      /\ accepted \in Seq(Messages \ {Handshake})
  BY LineType DEF OrderInv
<1>3. Ordered(Line, accepted') /\ accepted' \in Seq(Messages \ {Handshake})
  BY <1>2, OrderedLonger
<1>4. Len(accepted) \in Nat /\ Len(accepted') = Len(accepted) + 1 /\ accepted'[Len(accepted) + 1] = m
  BY <1>2, Appended, LenProperties
<1>5. ASSUME socket # "broken"
      PROVE  Ordered(Line', accepted') /\ Count(Line', Starts) = Len(accepted')
  <2>1. Count(Line, Starts) = Len(accepted)
    BY <1>5 DEF OrderInv, Standing
  <2>2. Count(Line, Starts) + 1 <= Len(accepted') /\ Whole(m).m = accepted'[Count(Line, Starts) + 1]
    BY <1>0, <1>4, <2>1
  <2>3. /\ Ordered(Append(Line, Whole(m)), accepted')
        /\ Count(Append(Line, Whole(m)), Starts) = Count(Line, Starts) + (IF Whole(m) \in Starts THEN 1 ELSE 0)
    BY <1>0, <1>2, <1>3, <2>2, OrderedAppend
  <2> QED
    BY <1>0, <1>1, <1>4, <1>5, <2>1, <2>3
<1>6. Ordered(Line', accepted')
  BY <1>1, <1>3, <1>5
<1>7. socket' # "broken" => Standing'
  BY <1>5 DEF Standing, Flushing
<1>8. completions' # 0
  OBVIOUS
<1> QED
  BY <1>3, <1>6, <1>7, <1>8 DEF OrderInv

\* A message that is to be held back, the flush still to come.
LEMMA OrderTakes ==
    ASSUME ConnType, OrderInv, NEW p \in Procs, NEW m \in Messages \ {Handshake},
           at' = [at EXCEPT ![p] = "push"], msg' = [msg EXCEPT ![p] = m],
           accepted' = Append(accepted, m),
           UNCHANGED <<wire, writes, socket, pending, completions, cursor, sent, recieved>>,
           ~Complete, completions = 0,
           at[p] \in {"idle", "construct"}, \A q \in Procs : q # p => at[q] = "idle"
    PROVE  OrderInv'
<1>1. /\ at'[p] = "push" /\ msg'[p] = m
      /\ \A q \in Procs : q # p => at'[q] = "idle"
  BY DEF ConnType
<1>2. /\ Line \in Seq(Chunks) /\ Ordered(Line, accepted) /\ UNCHANGED Line
      /\ accepted \in Seq(Messages \ {Handshake})
  BY LineType DEF OrderInv, Line
<1>3. Ordered(Line', accepted') /\ accepted' \in Seq(Messages \ {Handshake})
  BY <1>2, OrderedLonger, Appended
<1>4. ~Complete'
  BY DEF Complete
<1>5. ASSUME socket' # "broken" PROVE Standing'
  <2>1. /\ Count(Line, Starts) = 0
        /\ accepted = pending
    BY <1>5 DEF OrderInv, Standing
  <2>2. \A q \in Procs : at'[q] = "push" => accepted' = Append(pending', msg'[q])
    BY <1>1, <2>1
  <2>3. \A q \in Procs : Flushing(q)'
    BY <1>1 DEF Flushing
  <2> QED
    BY <1>1, <1>2, <2>1, <2>2, <2>3 DEF Standing
<1> QED
  BY <1>3, <1>4, <1>5 DEF OrderInv

\* send(), when no other activity is under way: nothing overtakes.
LEMMA OrderSends ==
    ASSUME ConnType, ReaderInv, OrderInv, NEW p \in Procs, NEW m \in Messages \ {Handshake}, Send(p, m),
           UNCHANGED <<wire, pending, completions, cursor, socket, sent, recieved>>,
           at[p] \in {"idle", "construct"}, \A q \in Procs : q # p => at[q] = "idle"
    PROVE  OrderInv'
<1>1. CASE MustWait
  <2>1. ~Complete /\ completions = 0
    BY <1>1 DEF MustWait, ReaderInv
  <2> QED
    BY <1>1, <2>1, OrderTakes DEF Send, Goto
<1>2. CASE ~MustWait
  <2>1. /\ writes' = Append(writes, Whole(m)) /\ UNCHANGED msg
        /\ accepted' = Append(accepted, m) /\ at' = [at EXCEPT ![p] = AfterSend(p)]
    BY <1>2 DEF Send, Goto
  <2>2. completions > 0
    <3>1. \A q \in Procs : at[q] # "test"
      OBVIOUS
    <3>2. completions # 0
      BY <1>2, <3>1 DEF MustWait, OrderInv
    <3> QED
      BY <3>2 DEF ReaderInv
  <2>3. \A q \in Procs : at[q] \notin {"push", "flush"} /\ at'[q] \notin {"push", "flush"}
    BY <2>1 DEF ConnType, AfterSend
  <2> QED
    BY <2>1, <2>2, <2>3, OrderWrites
<1> QED
  BY <1>1, <1>2

\* push_back: the queue holds what was given to send(), in that order.
LEMMA OrderPushes ==
    ASSUME ConnType, ReaderInv, OrderInv, NEW p \in Procs, Push(p),
           \A q \in Procs : q # p => at[q] = "idle"
    PROVE  OrderInv'
<1>1. /\ at[p] = "push" /\ ~Complete /\ completions = 0
      /\ pending' = Append(pending, msg[p]) /\ at' = [at EXCEPT ![p] = AfterSend(p)]
      /\ UNCHANGED <<wire, writes, socket, completions, cursor, sent, recieved, msg, accepted>>
  BY DEF Push, Goto, ReaderInv
<1>2. /\ at'[p] \in {"idle", "start"}
      /\ \A q \in Procs : q # p => at'[q] = "idle"
  BY <1>1 DEF ConnType, AfterSend
<1>3. UNCHANGED Line /\ ~Complete'
  BY <1>1 DEF Line, Complete
<1>4. ASSUME socket' # "broken" PROVE Standing'
  <2>1. Count(Line, Starts) = 0 /\ accepted = pending'
    BY <1>1, <1>4 DEF OrderInv, Standing
  <2>2. \A q \in Procs : Flushing(q)'
    BY <1>2 DEF Flushing
  <2> QED
    BY <1>1, <1>2, <1>3, <2>1, <2>2 DEF Standing
<1> QED
  BY <1>1, <1>3, <1>4 DEF OrderInv

\* handshake_complete flushes all that was given to send().
LEMMA OrderTests ==
    ASSUME ConnType, ReaderInv, OrderInv, NEW p \in Procs, TestComplete(p),
           \A q \in Procs : q # p => at[q] = "idle"
    PROVE  OrderInv'
<1>1. /\ at[p] = "test" /\ completions = 0 /\ Tested(p) = {Complete}
      /\ UNCHANGED <<wire, writes, socket, pending, sent, recieved, msg, accepted>>
  BY DEF TestComplete, ReaderInv, Tested
<1>2. UNCHANGED <<Line, Complete>>
  BY <1>1 DEF Line, Complete
<1>3. ASSUME socket # "broken" PROVE Count(Line, Starts) = 0 /\ accepted = pending
  <2>1. \A q \in Procs : at[q] # "push"
    BY <1>1
  <2> QED
    BY <1>1, <1>3, <2>1 DEF OrderInv, Standing
<1>4. CASE Complete
  <2>1. /\ at' = [at EXCEPT ![p] = "flush"] /\ completions' = 1
        /\ cursor' = [cursor EXCEPT ![p] = [next |-> 1, end |-> Len(pending)]]
    BY <1>1, <1>4 DEF TestComplete, Goto
  <2>2. /\ at'[p] = "flush" /\ cursor'[p].next = 1 /\ cursor'[p].end = Len(pending)
        /\ \A q \in Procs : q # p => at'[q] = "idle"
    BY <2>1 DEF ConnType
  <2>3. Len(pending) \in Nat
    BY LenProperties DEF ConnType
  <2>4. ASSUME socket' # "broken" PROVE Standing'
    <3>1. Count(Line', Starts) = 0 /\ accepted' = pending'
      BY <1>1, <1>2, <1>3, <2>4
    <3>2. \A q \in Procs : Flushing(q)'
      BY <1>1, <2>2, <2>3, <3>1 DEF Flushing
    <3> QED
      BY <2>1, <2>2, <3>2 DEF Standing
  <2> QED
    BY <1>1, <1>2, <2>1, <2>4 DEF OrderInv
<1>5. CASE ~Complete
  <2>1. at' = [at EXCEPT ![p] = "idle"] /\ completions' = 0
    BY <1>1, <1>5 DEF TestComplete, Goto
  <2>2. \A q \in Procs : at'[q] = "idle"
    BY <2>1 DEF ConnType
  <2>3. socket' # "broken" => Standing'
    BY <1>1, <1>2, <1>3, <2>1, <2>2 DEF Standing, Flushing
  <2> QED
    BY <1>1, <1>2, <1>5, <2>3 DEF OrderInv
<1> QED
  BY <1>4, <1>5

\* A turn of the flush begins the next message.
LEMMA OrderFlushes ==
    ASSUME ConnType, ReaderInv, OrderInv, NEW p \in Procs, Flush(p),
           \A q \in Procs : q # p => at[q] = "idle"
    PROVE  OrderInv'
<1> DEFINE k == cursor[p].next
           m == pending[k]
<1>1. /\ at[p] = "flush" /\ k <= cursor[p].end /\ k \in Nat \ {0} /\ cursor[p].end <= Len(pending)
      /\ cursor[p].end \in Nat /\ completions = 1
      /\ writes' = Append(writes, Whole(m))
      /\ cursor' = [cursor EXCEPT ![p].next = k + 1]
      /\ UNCHANGED <<at, pending, completions, wire, socket, msg, accepted, sent, recieved>>
  BY DEF Flush, ConnType, ReaderInv
<1>2. cursor'[p].next = k + 1 /\ cursor'[p].end = cursor[p].end
  BY <1>1 DEF ConnType
<1>3. Len(pending) \in Nat /\ k \in 1 .. Len(pending)
  BY <1>1, LenProperties DEF ConnType
<1>4. m \in Messages \ {Handshake}
  BY <1>3, ElementOfSeq DEF ConnType
<1>5. Whole(m) \in Chunks /\ Whole(m).m = m /\ Whole(m) \in Starts
  BY <1>4, NoHandshake DEF Starts, Whole
<1>6. Line' = IF socket = "broken" THEN Line ELSE Append(Line, Whole(m))
  BY <1>1, <1>5, LineGrows
<1>7. Line \in Seq(Chunks) /\ Ordered(Line, accepted)
  BY LineType DEF OrderInv
<1>8. ASSUME socket # "broken"
      PROVE  /\ Ordered(Line', accepted) /\ Count(Line', Starts) = k
             /\ accepted = pending /\ cursor[p].end = Len(pending)
  <2>1. /\ accepted = pending /\ cursor[p].end = Len(pending)
        /\ Count(Line, Starts) = k - 1
    BY <1>1, <1>8 DEF OrderInv, Standing, Flushing
  <2>2. Count(Line, Starts) + 1 = k
    BY <1>1, <2>1
  <2>3. Count(Line, Starts) + 1 <= Len(accepted) /\ Whole(m).m = accepted[Count(Line, Starts) + 1]
    BY <1>3, <1>5, <2>1, <2>2
  <2>4. /\ Ordered(Append(Line, Whole(m)), accepted)
        /\ Count(Append(Line, Whole(m)), Starts) = Count(Line, Starts) + (IF Whole(m) \in Starts THEN 1 ELSE 0)
    BY <1>5, <1>7, <2>3, OrderedAppend
  <2> QED
    BY <1>5, <1>6, <1>8, <2>1, <2>2, <2>4
<1>9. socket' # "broken" => Standing'
  <2>1. ASSUME socket' # "broken" PROVE \A q \in Procs : Flushing(q)'
    <3>1. Flushing(p)'
      BY <1>1, <1>2, <1>3, <1>8, <2>1 DEF Flushing
    <3> QED
      BY <1>1, <3>1 DEF Flushing
  <2> QED
    BY <1>1, <2>1 DEF Standing
<1>10. Ordered(Line', accepted')
  BY <1>1, <1>6, <1>7, <1>8
<1> QED
  BY <1>1, <1>9, <1>10 DEF OrderInv

\* Once it is through, everything given to send() has begun.
LEMMA OrderFlushed ==
    ASSUME ConnType, ReaderInv, OrderInv, NEW p \in Procs, BeginReading(p),
           \A q \in Procs : q # p => at[q] = "idle"
    PROVE  OrderInv'
<1>1. /\ at[p] = "flush" /\ cursor[p].next > cursor[p].end /\ completions = 1
      /\ at' = [at EXCEPT ![p] = "idle"]
      /\ UNCHANGED <<pending, completions, cursor, wire, writes, socket, msg, accepted>>
  BY DEF BeginReading, ReaderInv, Goto
<1>2. \A q \in Procs : at'[q] = "idle"
  BY <1>1 DEF ConnType
<1>3. UNCHANGED Line
  BY <1>1 DEF Line
<1>4. cursor[p].next \in Nat /\ cursor[p].end \in Nat /\ Len(pending) \in Nat
  BY LenProperties DEF ConnType
<1>5. ASSUME socket # "broken" PROVE Count(Line, Starts) = Len(accepted)
  <2>1. /\ accepted = pending /\ cursor[p].end = Len(pending)
        /\ cursor[p].next <= Len(pending) + 1 /\ Count(Line, Starts) = cursor[p].next - 1
    BY <1>1, <1>5 DEF OrderInv, Standing, Flushing
  <2> QED
    BY <1>1, <1>4, <2>1
<1>6. socket' # "broken" => Standing'
  BY <1>1, <1>2, <1>3, <1>5 DEF Standing, Flushing
<1> QED
  BY <1>1, <1>3, <1>6 DEF OrderInv

\* No handler of one thread lets a message overtake another.
LEMMA OrderStep ==
    ASSUME NumThreads = 1, ConnType, ReaderInv, OrderInv, [Next]_vars
    PROVE  OrderInv'
<1>0. {"ctor", "strand", "reader", "timer"} \subseteq Procs /\ Callers \subseteq Procs
      /\ "ctor" \notin Callers
  BY ConnectionAssumption DEF Procs
<1>a. ASSUME Cardinality(Busy) < NumThreads PROVE \A p \in Procs : at[p] = "idle"
  BY <1>a, OneThreadFree DEF ReaderInv
<1>b. ASSUME NEW p \in Procs, at[p] # "idle" PROVE \A q \in Procs : q # p => at[q] = "idle"
  BY <1>b DEF ReaderInv, Busy
<1>c. /\ writes \in Seq(Chunks) /\ wire \in Seq(Chunks) /\ strand \in Seq(Chunks)
      /\ Ordered(Line, accepted)
  BY DEF ConnType, OrderInv
<1>1. CASE Construct
  <2>1. at["ctor"] = "construct" /\ \A q \in Procs : q # "ctor" => at[q] = "idle"
    BY <1>0, <1>1, <1>b DEF Construct
  <2> QED
    BY <1>0, <1>1, <2>1, NoHandshake, OrderSends DEF Construct
<1>2. CASE StartAccepted \/ Connected
  <2>1. /\ writes' = Append(writes, Whole(Handshake)) /\ UNCHANGED Complete
        /\ UNCHANGED <<wire, pending, completions, cursor, msg, accepted>>
        /\ socket' = "broken" <=> socket = "broken"
    BY <1>2 DEF StartAccepted, Connected, Start, Complete
  <2>2. \A p \in Procs : /\ at'[p] = "push" <=> at[p] = "push"
                         /\ at'[p] = "flush" <=> at[p] = "flush"
                         /\ at[p] = "test" => at'[p] = "test"
    BY <1>2 DEF StartAccepted, Connected, Goto, ConnType
  <2>3. Whole(Handshake) \in Chunks /\ Whole(Handshake) \notin Starts
    BY NoHandshake DEF Starts
  <2> QED
    BY <2>1, <2>2, <2>3, OrderRests
<1>3. CASE ContinueWrite
  <2>1. Head(strand) \in Chunks
    BY <1>3, <1>c, Taken DEF ContinueWrite
  <2> DEFINE c == [Head(strand) EXCEPT !.bite = "rest"]
  <2>2. c \in Chunks /\ c \notin Starts
    BY <2>1 DEF Chunks, Starts
  <2>3. /\ writes' = Append(writes, c) /\ UNCHANGED Complete
        /\ UNCHANGED <<wire, pending, completions, cursor, msg, accepted, at, socket>>
    BY <1>3 DEF ContinueWrite, Complete
  <2> HIDE DEF c
  <2> QED
    BY <2>2, <2>3, OrderRests
<1>4. CASE SendHandler
  <2>1. /\ UNCHANGED <<pending, completions, cursor, msg, accepted, Line, socket>>
        /\ \A p \in Procs : at[p] = "idle"
    BY <1>4, <1>a DEF SendHandler, MayRun, Line
  <2>2. (at' = at /\ UNCHANGED Complete) \/ at' = [at EXCEPT !["strand"] = "test"]
    BY <1>0, <1>4, <2>1 DEF SendHandler, GotoTest, Complete
  <2>3. /\ \A p \in Procs : at'[p] \in {"idle", "test"}
        /\ Complete' => Complete \/ \E p \in Procs : at'[p] = "test"
    BY <1>0, <2>1, <2>2 DEF ConnType
  <2> QED
    BY <1>c, <2>1, <2>3, OrderAside
<1>5. CASE WriteFails \/ Break
  <2>1. /\ socket' = "broken" /\ UNCHANGED Complete
        /\ UNCHANGED <<pending, completions, cursor, msg, accepted, at, wire>>
    BY <1>5 DEF WriteFails, Break, Complete
  <2>2. Line' = wire
    BY <1>c, <2>1 DEF Line
  <2>3. Ordered(wire, accepted)
    <3>1. CASE socket = "broken"
      BY <1>c, <3>1 DEF Line
    <3>2. CASE socket # "broken"
      BY <1>c, <3>2, OrderedPrefix DEF Line
    <3> QED
      BY <3>1, <3>2
  <2> QED
    BY <2>1, <2>2, <2>3, OrderAside
<1>6. ASSUME NEW p \in Procs, Push(p) PROVE OrderInv'
  BY <1>6, <1>b, OrderPushes DEF Push
<1>7. CASE Crash
  <2>1. UNCHANGED <<pending, completions, cursor, msg, accepted, at, Line, socket, Complete>>
    BY <1>7 DEF Crash, Line, Complete
  <2> QED
    BY <1>c, <2>1, OrderAside
<1>8. ASSUME NEW p \in Procs, PushRace(p) PROVE OrderInv'
  BY <1>8, <1>b DEF PushRace
<1>9. ASSUME NEW p \in Procs, TestComplete(p) PROVE OrderInv'
  BY <1>9, <1>b, OrderTests DEF TestComplete
<1>10. ASSUME NEW p \in Procs, Flush(p) PROVE OrderInv'
  BY <1>10, <1>b, OrderFlushes DEF Flush
<1>11. ASSUME NEW p \in Procs, BeginReading(p) PROVE OrderInv'
  BY <1>11, <1>b, OrderFlushed DEF BeginReading
<1>12. CASE ReadFails \/ RejectHandshake \/ TimerExpires \/ UNCHANGED vars
  <2>1. UNCHANGED <<pending, completions, cursor, msg, accepted, at, Line, socket, Complete>>
    BY <1>12 DEF ReadFails, RejectHandshake, TimerExpires, vars, Line, Complete
  <2> QED
    BY <1>c, <2>1, OrderAside
<1>13. CASE KeepAlive
  <2>1. PICK m \in KeepAlives \ ToSet(accepted) : Send("timer", m)
    BY <1>13 DEF KeepAlive
  <2>2. \A p \in Procs : at[p] = "idle"
    BY <1>13, <1>a DEF KeepAlive, MayRun
  <2>3. m \in Messages \ {Handshake} /\ "timer" \in Procs
    BY <1>0, <2>1, NoHandshake
  <2>4. UNCHANGED <<wire, pending, completions, cursor, socket, sent, recieved>>
    BY <1>13 DEF KeepAlive
  <2> QED
    BY <2>1, <2>2, <2>3, <2>4, OrderSends
<1>14. CASE WriteDone \/ WritePart
  <2>1. /\ writes # <<>> /\ Head(writes) \in Chunks /\ writes' = Tail(writes) /\ socket = "open"
        /\ UNCHANGED <<pending, completions, cursor, msg, accepted, at, socket, Complete>>
    BY <1>14, <1>c, Taken DEF WriteDone, WritePart, Complete
  <2>2. PICK c \in Chunks : /\ c.m = Head(writes).m
                            /\ c \in Starts <=> Head(writes) \in Starts
                            /\ wire' = Append(wire, c)
    BY <1>14, <2>1 DEF WriteDone, WritePart, Chunks, Starts
  <2>3. Line = wire \o writes /\ Line' = Append(wire, c) \o Tail(writes)
    BY <2>1, <2>2 DEF Line
  <2>4. Ordered(Line', accepted) /\ Count(Line', Starts) = Count(Line, Starts)
    BY <1>c, <2>1, <2>2, <2>3, LineMoves
  <2>5. UNCHANGED <<pending, completions, cursor, msg, accepted, at, socket, Complete>>
    BY <2>1
  <2> QED
    BY <2>4, <2>5, OrderAside
<1>15. CASE ConnectFails \/ RecvUnknown
  BY <1>7, <1>15 DEF ConnectFails, RecvUnknown
<1>16. CASE RecvHandshake
  <2>1. /\ UNCHANGED <<pending, completions, cursor, msg, accepted, Line, socket>>
        /\ \A p \in Procs : at[p] = "idle"
        /\ GotoTest("reader", "strand")
    BY <1>16, <1>a DEF RecvHandshake, MayRun, Line
  <2>2. at' = [at EXCEPT !["reader"] = "test"]
    BY <1>0, <2>1 DEF GotoTest
  <2>3. /\ \A p \in Procs : at'[p] \in {"idle", "test"}
        /\ \E p \in Procs : at'[p] = "test"
    BY <1>0, <2>1, <2>2 DEF ConnType
  <2> QED
    BY <1>c, <2>1, <2>3, OrderAside
<1>17. CASE RecvMessage
  <2>1. /\ UNCHANGED <<pending, completions, cursor, msg, at, wire, socket, Complete>>
        /\ \A p \in Procs : at[p] = "idle"
        /\ readers = 1
    BY <1>17, <1>a DEF RecvMessage, MayRun, Complete
  <2>2. completions > 0
    BY <2>1 DEF ReaderInv
  <2>3. CASE UNCHANGED <<writes, accepted>>
    <3>1. UNCHANGED Line
      BY <2>1, <2>3 DEF Line
    <3> QED
      BY <1>c, <2>1, <2>3, <3>1, OrderAside
  <2>4. ASSUME NEW m \in Msgs, writes' = Append(writes, Whole(m)), accepted' = Append(accepted, m)
        PROVE  OrderInv'
    <3>1. m \in Messages \ {Handshake}
      BY <2>4, NoHandshake
    <3>2. \A p \in Procs : at[p] \notin {"push", "flush"} /\ at'[p] \notin {"push", "flush"}
      BY <2>1
    <3> QED
      BY <2>1, <2>2, <2>4, <3>1, <3>2, OrderWrites
  <2> QED
    BY <1>17, <2>3, <2>4 DEF RecvMessage
<1>18. CASE RecvTorn
  BY <1>18 DEF RecvTorn, ReaderInv
<1>19. ASSUME NEW p \in Callers, NEW m \in Msgs, CallerSends(p, m) PROVE OrderInv'
  <2>1. /\ m \in Messages \ {Handshake} /\ Send(p, m) /\ p \in Procs
        /\ UNCHANGED <<wire, pending, completions, cursor, socket, sent, recieved>>
    BY <1>0, <1>19, NoHandshake DEF CallerSends
  <2>2. \A q \in Procs : at[q] = "idle"
    BY <1>19, <1>a DEF CallerSends, MayRun
  <2> QED
    BY <2>1, <2>2, OrderSends
<1> QED
  BY <1>1, <1>2, <1>3, <1>4, <1>5, <1>6, <1>8, <1>9, <1>10, <1>11, <1>12, <1>13, <1>14, <1>15,
     <1>16, <1>17, <1>18, <1>19 DEF Next, Handlers, Environment

\* On one thread messages start out in the order of the calls of send(): none
\* overtakes one that was held back.
THEOREM NoneOvertakes ==
    ASSUME NumThreads = 1
    PROVE  Spec => []SendOrder
<1>1. Init => OrderInv
  <2> SUFFICES ASSUME Init PROVE OrderInv
    OBVIOUS
  <2>1. /\ Line = <<>> /\ accepted = <<>> /\ pending = <<>> /\ completions = 0 /\ ~Complete
        /\ \A p \in Procs : at[p] \in {"construct", "idle"}
    BY DEF Init, Line, Complete
  <2>2. Ordered(Line, accepted)
    BY <2>1 DEF Ordered, At
  <2>3. Count(Line, Starts) = 0
    BY <2>1, CountEmpty
  <2>4. Standing
    BY <2>1, <2>3 DEF Standing, Flushing
  <2> QED
    BY <2>1, <2>2, <2>4 DEF OrderInv
<1>2. ConnType /\ ReaderInv /\ OrderInv /\ [Next]_vars => OrderInv'
  BY OrderStep
<1>3. ConnType /\ OrderInv => SendOrder
  <2> SUFFICES ASSUME ConnType, OrderInv PROVE SendOrder
    OBVIOUS
  <2> DEFINE begun == {i \in DOMAIN Line : Line[i].bite # "rest" /\ Line[i].m # Handshake}
  <2>1. \A i \in DOMAIN Line : Line[i] \in Chunks
    BY LineType, ElementOfSeq
  <2>2. begun = At(Line, Starts)
    BY <2>1 DEF At, Starts
  <2>3. \A i \in begun : {j \in begun : j <= i} = UpTo(Line, i)
    BY <2>2 DEF UpTo
  <2>4. \A i \in begun :
          /\ Cardinality({j \in begun : j <= i}) <= Len(accepted)
          /\ Line[i].m = accepted[Cardinality({j \in begun : j <= i})]
    BY <2>2, <2>3 DEF OrderInv, Ordered
  <2> QED
    BY <2>4 DEF SendOrder, Line
<1> QED
  BY <1>1, <1>2, <1>3, ConnTypeCorrect, ReaderHolds, PTL DEF Spec

=============================================================================
