---------------------------- MODULE UploadProofs ----------------------------
(***************************************************************************)
(* Upload for any number of peers, pieces, requests and threads: who owns  *)
(* the buffers of the reads, and who is told of a finished piece.          *)
(***************************************************************************)
EXTENDS Upload, TLAPS

Places == {"idle", "push", "lock", "change", "submit", "tell"}

\* The places where an activity has a request in hand.
Handling == {"lock", "change", "submit"}

\* The places of TypeOK that the argument needs, with what is in hand.
UploadType ==
    /\ at \in [Activities -> Places]
    /\ hand \in [Activities -> Peers \cup Pieces \cup Requests \cup {Nothing}]
    /\ inbox \in [Peers -> SUBSET Requests]
    /\ asked \in SUBSET Requests
    /\ reading \in SUBSET asked /\ read \in SUBSET asked
    /\ \A p \in Peers : /\ \A r \in inbox[p] : r \in asked /\ Asker[r] = p
                        /\ at[p] \in Handling => hand[p] \in asked /\ Asker[hand[p]] = p
    /\ at["strand"] \in Handling => hand["strand"] \in asked
    /\ at["strand"] # "submit"

\* The holder of read_mutex, and no other activity, is about to change the vector,
\* which is still as it found it.
MutexHeld ==
    /\ \A a \in Activities : at[a] = "change" => read_mutex = a
    /\ read_mutex # Nothing => read_mutex \in Activities /\ at[read_mutex] = "change"
    /\ read_mutex # Nothing => seen = read_buffers

\* A request is in one place: on its way, in the hand of its peer's handler, read,
\* waiting for the strand, or in the hand of the handler there.
Done == IF at["strand"] \in Handling THEN {hand["strand"]} ELSE {}

OnePlace ==
    /\ reading \cap read = {}
    /\ Done \cap (reading \cup read) = {}
    /\ \A p \in Peers : /\ inbox[p] \cap (reading \cup read \cup Done) = {}
                        /\ at[p] \in Handling =>
                             hand[p] \notin inbox[p] \cup reading \cup read \cup Done

\* The requests whose buffer must be there; between the answer and the erase the
\* vector still has it.
Submitted == {r \in Requests : \E p \in Peers : at[p] = "submit" /\ hand[p] = r}
Kept      == reading \cup read \cup Submitted \cup Done

BufferInv ==
    /\ MutexHeld
    /\ OnePlace
    /\ read_buffers = Kept

\* What all of this depends on.
core == <<at, hand, inbox, bufferVars, reading, read, asked>>

-----------------------------------------------------------------------------
\* The activities differ from each other and from the peers.
LEMMA Names ==
    /\ {"adder", "acceptor", "strand"} \subseteq Activities /\ Peers \subseteq Activities
    /\ {"adder", "acceptor", "strand"} \cap Peers = {}
    /\ Nothing \notin Activities /\ Asker \in [Requests -> Peers]
  BY UploadAssumption DEF Activities

\* What an activity does before it handles a request, or without any.
LEMMA Moved ==
    ASSUME UploadType, BufferInv, NEW a \in {"adder", "acceptor", "strand"},
           at[a] \notin Handling, NEW place \in Places \ Handling,
           NEW x \in Peers \cup Pieces \cup Requests \cup {Nothing}, Goto(a, place, x),
           UNCHANGED <<inbox, bufferVars, reading, read, asked>>
    PROVE  UploadType' /\ BufferInv'
<1>1. /\ at' = [at EXCEPT ![a] = place] /\ hand' = [hand EXCEPT ![a] = x]
      /\ a \in Activities \ Peers
  BY Names DEF Goto
<1>2. \A p \in Peers : at'[p] = at[p] /\ hand'[p] = hand[p]
  BY <1>1, Names DEF UploadType
<1>3. Done' = Done
  BY <1>1, Names DEF Done, UploadType
<1>4. UploadType'
  <2>1. at' \in [Activities -> Places] /\ hand' \in [Activities -> Peers \cup Pieces \cup Requests \cup {Nothing}]
    BY <1>1 DEF UploadType
  <2>2. (at'["strand"] \in Handling => hand'["strand"] \in asked) /\ at'["strand"] # "submit"
    BY <1>1, Names DEF UploadType, Handling
  <2>. QED
    BY <2>1, <2>2, <1>2 DEF UploadType
<1>5. MutexHeld'
  BY <1>1, Names DEF UploadType, BufferInv, MutexHeld, bufferVars, Handling
<1>6. OnePlace' /\ Kept' = Kept
  BY <1>2, <1>3 DEF BufferInv, OnePlace, Kept, Submitted
<1>. QED
  BY <1>4, <1>5, <1>6 DEF BufferInv, bufferVars

\* What an activity does that has nothing to do with requests.
LEMMA Aside ==
    ASSUME UploadType, BufferInv, UNCHANGED core
    PROVE  UploadType' /\ BufferInv'
  BY DEF core, bufferVars, UploadType, BufferInv, MutexHeld, OnePlace, Kept, Submitted, Done

-----------------------------------------------------------------------------
(* The operations on the buffers, one after the other.                      *)

\* The request that comes in is asked for once, so nothing holds it yet.
LEMMA AskKeeps ==
    ASSUME UploadType, BufferInv, NEW r \in Requests, Ask(r)
    PROVE  UploadType' /\ BufferInv'
<1>1. /\ asked' = asked \cup {r} /\ r \notin asked
      /\ inbox' = [inbox EXCEPT ![Asker[r]] = @ \cup {r}]
      /\ UNCHANGED <<at, hand, bufferVars, reading, read>>
  BY DEF Ask, readVars
<1>2. Asker[r] \in Peers
  BY Names
<1>3. \A p \in Peers : inbox'[p] = IF p = Asker[r] THEN inbox[p] \cup {r} ELSE inbox[p]
  BY <1>1, <1>2 DEF UploadType
<1>4. UploadType'
  <2>1. inbox' \in [Peers -> SUBSET Requests]
    BY <1>1, <1>2 DEF UploadType
  <2>2. asked' \in SUBSET Requests /\ reading' \in SUBSET asked' /\ read' \in SUBSET asked'
    BY <1>1 DEF UploadType
  <2>. QED
    BY <1>1, <1>3, <2>1, <2>2 DEF UploadType
<1>5. Done' = Done /\ Done \subseteq asked
  BY <1>1 DEF Done, UploadType
<1>6. OnePlace'
  BY <1>1, <1>3, <1>5 DEF UploadType, BufferInv, OnePlace
<1>7. MutexHeld' /\ Kept' = Kept /\ read_buffers' = read_buffers
  BY <1>1, <1>5 DEF BufferInv, MutexHeld, Kept, Submitted, bufferVars
<1>. QED
  BY <1>4, <1>6, <1>7 DEF BufferInv

\* From the connection to the hand of its handler.
LEMMA ReceiveKeeps ==
    ASSUME UploadType, BufferInv, NEW r \in Requests, ReceiveRequest(r)
    PROVE  UploadType' /\ BufferInv'
<1> DEFINE p == Asker[r]
<1>1. /\ at[p] = "idle" /\ r \in inbox[p]
      /\ inbox' = [inbox EXCEPT ![p] = @ \ {r}]
      /\ at' = [at EXCEPT ![p] = "lock"] /\ hand' = [hand EXCEPT ![p] = r]
      /\ UNCHANGED <<bufferVars, reading, read, asked>>
  BY DEF ReceiveRequest, MayRun, Goto, readVars
<1>2. p \in Peers /\ p \in Activities /\ p # "strand" /\ r \in asked
  BY <1>1, Names DEF UploadType
<1>3. \A q \in Peers : IF q = p THEN at'[q] = "lock" /\ hand'[q] = r /\ inbox'[q] = inbox[q] \ {r}
                                ELSE at'[q] = at[q] /\ hand'[q] = hand[q] /\ inbox'[q] = inbox[q]
  BY <1>1, <1>2, Names DEF UploadType
<1>4. at'["strand"] = at["strand"] /\ hand'["strand"] = hand["strand"] /\ Done' = Done
  BY <1>1, <1>2, Names DEF Done, UploadType
<1>5. UploadType'
  <2>1. /\ at' \in [Activities -> Places]
        /\ hand' \in [Activities -> Peers \cup Pieces \cup Requests \cup {Nothing}]
        /\ inbox' \in [Peers -> SUBSET Requests]
    BY <1>1, <1>2 DEF UploadType, Places
  <2>. QED
    BY <1>1, <1>2, <1>3, <1>4, <2>1 DEF UploadType
<1>6. MutexHeld'
  BY <1>1, <1>2 DEF UploadType, BufferInv, MutexHeld, bufferVars
<1>7. OnePlace'
  BY <1>1, <1>2, <1>3, <1>4 DEF BufferInv, OnePlace
<1>8. Submitted' = Submitted
  BY <1>1, <1>3 DEF Submitted
<1>. QED
  BY <1>1, <1>4, <1>5, <1>6, <1>7, <1>8 DEF BufferInv, Kept, bufferVars

\* Taking the mutex changes neither the vector nor what is in hand.
LEMMA LockKeeps ==
    ASSUME UploadType, BufferInv, NEW a \in Activities, LockBuffers(a)
    PROVE  UploadType' /\ BufferInv'
<1>1. /\ at[a] = "lock" /\ read_mutex = Nothing /\ read_mutex' = a /\ seen' = read_buffers
      /\ at' = [at EXCEPT ![a] = "change"] /\ hand' = [hand EXCEPT ![a] = hand[a]]
      /\ UNCHANGED <<inbox, read_buffers, reading, read, asked>>
  BY DEF LockBuffers, Goto, readVars
<1>2. hand' = hand
  BY <1>1 DEF UploadType
<1>3. \A b \in Activities : /\ at'[b] \in Handling <=> at[b] \in Handling
                            /\ at'[b] = "submit" <=> at[b] = "submit"
  BY <1>1 DEF UploadType, Handling
<1>4. Done' = Done /\ Submitted' = Submitted
  BY <1>2, <1>3, Names DEF Done, Submitted
<1>5. UploadType'
  <2>1. at' \in [Activities -> Places]
    BY <1>1 DEF UploadType, Places
  <2>. QED
    BY <1>1, <1>2, <1>3, <2>1, Names DEF UploadType
<1>6. MutexHeld'
  BY <1>1, Names DEF UploadType, BufferInv, MutexHeld
<1>7. OnePlace'
  BY <1>1, <1>2, <1>3, <1>4, Names DEF BufferInv, OnePlace
<1>. QED
  BY <1>1, <1>4, <1>5, <1>6, <1>7 DEF BufferInv, Kept

\* The new buffer is in the vector before the read is submitted.
LEMMA PushKeeps ==
    ASSUME UploadType, BufferInv, NEW p \in Peers, PushBuffer(p)
    PROVE  UploadType' /\ BufferInv'
<1>1. /\ at[p] = "change" /\ read_buffers' = seen \cup {hand[p]}
      /\ read_mutex' = Nothing
      /\ at' = [at EXCEPT ![p] = "submit"] /\ hand' = [hand EXCEPT ![p] = hand[p]]
      /\ UNCHANGED <<inbox, reading, read, asked>>
  BY DEF PushBuffer, Goto, readVars
<1>2. hand' = hand /\ p \in Activities /\ p # "strand" /\ hand[p] \in asked /\ hand[p] \in Requests
  BY <1>1, Names DEF UploadType, Handling
<1>3. read_mutex = p /\ seen = read_buffers
  BY <1>1, <1>2, Names DEF BufferInv, MutexHeld
<1>4. \A b \in Activities : /\ at'[b] \in Handling <=> at[b] \in Handling
                            /\ at'[b] = "submit" <=> at[b] = "submit" \/ b = p
                            /\ at'[b] = "change" => b # p /\ at[b] = "change"
  BY <1>1, <1>2 DEF UploadType, Handling
<1>5. Done' = Done /\ Submitted' = Submitted \cup {hand[p]}
  BY <1>2, <1>4, Names DEF Done, Submitted
<1>6. UploadType'
  <2>1. at' \in [Activities -> Places]
    BY <1>1 DEF UploadType, Places
  <2>. QED
    BY <1>1, <1>2, <1>4, <2>1, Names DEF UploadType
<1>7. MutexHeld'
  BY <1>1, <1>3, <1>4, Names DEF BufferInv, MutexHeld
<1>8. OnePlace'
  BY <1>1, <1>2, <1>4, <1>5, Names DEF BufferInv, OnePlace
<1>9. read_buffers' = Kept'
  BY <1>1, <1>3, <1>5 DEF BufferInv, Kept
<1>. QED
  BY <1>6, <1>7, <1>8, <1>9 DEF BufferInv

\* The handler of the read takes its buffer out, which is there and is no other
\* request's.
LEMMA EraseKeeps ==
    ASSUME UploadType, BufferInv, EraseBuffer
    PROVE  UploadType' /\ BufferInv'
<1> DEFINE r == hand["strand"]
<1>1. /\ at["strand"] = "change" /\ read_buffers' = seen \ {r}
      /\ read_mutex' = Nothing
      /\ at' = [at EXCEPT !["strand"] = "idle"] /\ hand' = [hand EXCEPT !["strand"] = Nothing]
      /\ UNCHANGED <<inbox, reading, read, asked>>
  BY DEF EraseBuffer, Goto, readVars
<1>2. read_mutex = "strand" /\ seen = read_buffers
  BY <1>1, Names DEF BufferInv, MutexHeld
<1>3. Done = {r} /\ Done' = {}
  BY <1>1, Names DEF Done, Handling, UploadType
<1>4. \A p \in Peers : at'[p] = at[p] /\ hand'[p] = hand[p]
  BY <1>1, Names DEF UploadType
<1>5. Submitted' = Submitted /\ r \notin Submitted
  <2>1. Submitted' = Submitted
    BY <1>4 DEF Submitted
  <2>2. \A p \in Peers : at[p] = "submit" => hand[p] # r
    BY <1>3 DEF BufferInv, OnePlace, Handling
  <2>. QED
    BY <2>1, <2>2 DEF Submitted
<1>6. UploadType'
  <2>1. /\ at' \in [Activities -> Places]
        /\ hand' \in [Activities -> Peers \cup Pieces \cup Requests \cup {Nothing}]
        /\ at'["strand"] \notin Handling
    BY <1>1, Names DEF UploadType, Places, Handling
  <2>. QED
    BY <1>1, <1>4, <2>1 DEF UploadType
<1>7. MutexHeld'
  BY <1>1, <1>2, Names DEF UploadType, BufferInv, MutexHeld
<1>8. OnePlace'
  BY <1>1, <1>3, <1>4 DEF BufferInv, OnePlace
<1>9. r \notin reading \cup read
  BY <1>3 DEF BufferInv, OnePlace
<1>10. read_buffers' = Kept'
  BY <1>1, <1>2, <1>3, <1>5, <1>9 DEF BufferInv, Kept
<1>. QED
  BY <1>6, <1>7, <1>8, <1>10 DEF BufferInv

\* From the hand of the handler to the kernel.
LEMMA SubmitKeeps ==
    ASSUME UploadType, BufferInv, NEW p \in Peers, SubmitRead(p)
    PROVE  UploadType' /\ BufferInv'
<1> DEFINE r == hand[p]
<1>1. /\ at[p] = "submit" /\ reading' = reading \cup {r}
      /\ at' = [at EXCEPT ![p] = "idle"] /\ hand' = [hand EXCEPT ![p] = Nothing]
      /\ UNCHANGED <<inbox, bufferVars, read, asked>>
  BY DEF SubmitRead, Goto
<1>2. /\ p \in Activities /\ p # "strand" /\ r \in asked /\ Asker[r] = p /\ r \in Requests
      /\ r \notin inbox[p] \cup reading \cup read \cup Done
  BY <1>1, Names DEF UploadType, Handling, BufferInv, OnePlace
<1>3. \A q \in Peers \ {p} : at'[q] = at[q] /\ hand'[q] = hand[q]
  BY <1>1, Names DEF UploadType
<1>4. at'[p] = "idle" /\ at'["strand"] = at["strand"] /\ hand'["strand"] = hand["strand"]
  BY <1>1, <1>2, Names DEF UploadType
<1>5. Done' = Done
  BY <1>4 DEF Done
<1>6. Submitted \subseteq Submitted' \cup {r} /\ Submitted' \subseteq Submitted /\ r \in Submitted
  BY <1>1, <1>2, <1>3, <1>4 DEF Submitted
<1>7. \A q \in Peers \ {p} : r \notin inbox[q] /\ (at[q] \in Handling => hand[q] # r)
  BY <1>2 DEF UploadType
<1>8. UploadType'
  <2>1. /\ at' \in [Activities -> Places]
        /\ hand' \in [Activities -> Peers \cup Pieces \cup Requests \cup {Nothing}]
    BY <1>1 DEF UploadType, Places
  <2>2. reading' \in SUBSET asked' /\ read' \in SUBSET asked' /\ asked' \in SUBSET Requests
    BY <1>1, <1>2 DEF UploadType
  <2>3. \A q \in Peers : at'[q] \in Handling => hand'[q] \in asked /\ Asker[hand'[q]] = q
    BY <1>3, <1>4 DEF UploadType, Handling
  <2>. QED
    BY <1>1, <1>4, <2>1, <2>2, <2>3 DEF UploadType
<1>9. MutexHeld'
  BY <1>1, <1>2 DEF UploadType, BufferInv, MutexHeld, bufferVars
<1>10. OnePlace'
  <2>1. reading' \cap read' = {} /\ Done' \cap (reading' \cup read') = {}
    BY <1>1, <1>2, <1>5 DEF BufferInv, OnePlace
  <2>2. \A q \in Peers : inbox'[q] \cap (reading' \cup read' \cup Done') = {}
    BY <1>1, <1>2, <1>5, <1>7 DEF BufferInv, OnePlace
  <2>3. \A q \in Peers : at'[q] \in Handling =>
            hand'[q] \notin inbox'[q] \cup reading' \cup read' \cup Done'
    BY <1>1, <1>3, <1>4, <1>5, <1>7 DEF BufferInv, OnePlace, Handling
  <2>. QED
    BY <2>1, <2>2, <2>3 DEF OnePlace
<1>11. Kept' = Kept
  BY <1>1, <1>5, <1>6 DEF Kept
<1>. QED
  BY <1>1, <1>8, <1>9, <1>10, <1>11 DEF BufferInv, bufferVars

\* The kernel's answer keeps the request in one place.
LEMMA ReadKeeps ==
    ASSUME UploadType, BufferInv, NEW r \in Requests, ReadDone(r)
    PROVE  UploadType' /\ BufferInv'
<1>1. /\ r \in reading /\ reading' = reading \ {r} /\ read' = read \cup {r}
      /\ UNCHANGED <<at, hand, inbox, bufferVars, asked>>
  BY DEF ReadDone
<1>2. reading' \cup read' = reading \cup read /\ reading' \cap read' = {}
  BY <1>1 DEF BufferInv, OnePlace
<1>3. Done' = Done /\ Submitted' = Submitted
  BY <1>1 DEF Done, Submitted
<1>4. UploadType'
  BY <1>1 DEF UploadType
<1>5. OnePlace'
  BY <1>1, <1>2, <1>3 DEF BufferInv, OnePlace
<1>. QED
  BY <1>1, <1>2, <1>3, <1>4, <1>5 DEF BufferInv, MutexHeld, Kept, bufferVars

\* From the kernel to the hand of the handler on the strand.
LEMMA AnswerKeeps ==
    ASSUME UploadType, BufferInv, NEW r \in Requests, AnswerRequest(r)
    PROVE  UploadType' /\ BufferInv'
<1>1. /\ at["strand"] = "idle" /\ r \in read /\ read' = read \ {r}
      /\ at' = [at EXCEPT !["strand"] = "lock"] /\ hand' = [hand EXCEPT !["strand"] = r]
      /\ UNCHANGED <<inbox, bufferVars, reading, asked>>
  BY DEF AnswerRequest, MayRun, Goto
<1>2. \A p \in Peers : at'[p] = at[p] /\ hand'[p] = hand[p]
  BY <1>1, Names DEF UploadType
<1>3. at'["strand"] = "lock" /\ hand'["strand"] = r /\ Done = {} /\ Done' = {r}
  BY <1>1, Names DEF UploadType, Done, Handling
<1>4. Submitted' = Submitted
  BY <1>2 DEF Submitted
<1>5. UploadType'
  <2>1. /\ at' \in [Activities -> Places]
        /\ hand' \in [Activities -> Peers \cup Pieces \cup Requests \cup {Nothing}]
    BY <1>1 DEF UploadType, Places
  <2>. QED
    BY <1>1, <1>2, <1>3, <2>1 DEF UploadType
<1>6. MutexHeld'
  BY <1>1, Names DEF UploadType, BufferInv, MutexHeld, bufferVars
<1>7. OnePlace'
  <2>1. reading \cap read = {} /\ r \notin reading
    BY <1>1 DEF BufferInv, OnePlace
  <2>. QED
    BY <1>1, <1>2, <1>3, <2>1 DEF BufferInv, OnePlace
<1>8. Kept' = Kept
  BY <1>1, <1>3, <1>4 DEF Kept
<1>. QED
  BY <1>1, <1>5, <1>6, <1>7, <1>8 DEF BufferInv, bufferVars

\* A connection that breaks loses the requests on their way.
LEMMA BreakKeeps ==
    ASSUME UploadType, BufferInv, NEW p \in Peers, Break(p)
    PROVE  UploadType' /\ BufferInv'
<1>1. /\ inbox' = [inbox EXCEPT ![p] = {}]
      /\ UNCHANGED <<at, hand, bufferVars, reading, read, asked>>
  BY DEF Break, readVars
<1>2. \A q \in Peers : inbox'[q] \subseteq inbox[q]
  BY <1>1 DEF UploadType
<1>3. inbox' \in [Peers -> SUBSET Requests]
  BY <1>1 DEF UploadType
<1>4. Done' = Done /\ Kept' = Kept
  BY <1>1 DEF Done, Kept, Submitted
<1>5. UploadType'
  BY <1>1, <1>2, <1>3 DEF UploadType
<1>6. OnePlace'
  BY <1>1, <1>2, <1>4 DEF BufferInv, OnePlace
<1>. QED
  BY <1>1, <1>4, <1>5, <1>6 DEF BufferInv, MutexHeld, bufferVars

-----------------------------------------------------------------------------
\* Every step keeps the types and the account of the buffers.
THEOREM BufferInvariant == Spec => [](UploadType /\ BufferInv)
<1>1. Init => UploadType /\ BufferInv
  <2> SUFFICES ASSUME Init PROVE UploadType /\ BufferInv
    OBVIOUS
  <2>1. \A a \in Activities : at[a] = "idle"
    BY DEF Init
  <2>2. Done = {} /\ Submitted = {}
    BY <2>1, Names DEF Done, Submitted, Handling
  <2>3. UploadType
    BY <2>1, Names DEF Init, UploadType, Places, Handling
  <2>4. MutexHeld
    BY <2>1 DEF Init, MutexHeld
  <2>5. OnePlace
    BY <2>1, <2>2, Names DEF Init, OnePlace, Handling
  <2>. QED
    BY <2>2, <2>3, <2>4, <2>5 DEF Init, BufferInv, Kept
<1>2. UploadType /\ BufferInv /\ [Next]_vars => (UploadType /\ BufferInv)'
  <2> SUFFICES ASSUME UploadType, BufferInv, [Next]_vars PROVE UploadType' /\ BufferInv'
    OBVIOUS
  <2> USE DEF bufferVars, readVars
  <2>1. CASE Crash
    BY <2>1, Aside DEF Crash, core
  <2>2. ASSUME NEW p \in Peers, AddPeer(p) PROVE UploadType' /\ BufferInv'
    BY <2>2, Moved DEF AddPeer, MayRun, Places, Handling
  <2>3. ASSUME NEW p \in Peers, AcceptPeer(p) PROVE UploadType' /\ BufferInv'
    BY <2>3, Moved DEF AcceptPeer, MayRun, Places, Handling
  <2>4. CASE AcceptFails
    BY <2>4, Aside DEF AcceptFails, core
  <2>5. CASE AcceptThrows
    BY <2>5, <2>1 DEF AcceptThrows
  <2>6. ASSUME NEW a \in Activities, PushPeer(a) PROVE UploadType' /\ BufferInv'
    BY <2>6, Moved DEF PushPeer, Places, Handling
  <2>7. ASSUME NEW a \in Activities, PushRace(a) PROVE UploadType' /\ BufferInv'
    BY <2>7, <2>1 DEF PushRace
  <2>8. ASSUME NEW p \in Peers, Connected(p) \/ ConnectFails(p) \/ SetChoked(p)
        PROVE  UploadType' /\ BufferInv'
    BY <2>8, Aside DEF Connected, ConnectFails, SetChoked, core
  <2>9. ASSUME NEW p \in Peers, Break(p) PROVE UploadType' /\ BufferInv'
    BY <2>9, BreakKeeps
  <2>10. ASSUME NEW i \in Pieces, PieceComplete(i) PROVE UploadType' /\ BufferInv'
    BY <2>10, Moved DEF PieceComplete, MayRun, Places, Handling
  <2>11. CASE Tell
    BY <2>11, Aside DEF Tell, core
  <2>12. CASE Told
    BY <2>12, Moved DEF Told, Places, Handling
  <2>13. ASSUME NEW r \in Requests, Ask(r) PROVE UploadType' /\ BufferInv'
    BY <2>13, AskKeeps
  <2>14. ASSUME NEW r \in Requests, ReceiveRequest(r) PROVE UploadType' /\ BufferInv'
    BY <2>14, ReceiveKeeps
  <2>15. ASSUME NEW a \in Activities, LockBuffers(a) PROVE UploadType' /\ BufferInv'
    BY <2>15, LockKeeps
  <2>16. ASSUME NEW p \in Peers, PushBuffer(p) PROVE UploadType' /\ BufferInv'
    BY <2>16, PushKeeps
  <2>17. CASE EraseBuffer
    BY <2>17, EraseKeeps
  <2>18. ASSUME NEW p \in Peers, SubmitRead(p) PROVE UploadType' /\ BufferInv'
    BY <2>18, SubmitKeeps
  <2>19. ASSUME NEW r \in Requests, ReadDone(r) PROVE UploadType' /\ BufferInv'
    BY <2>19, ReadKeeps
  <2>20. ASSUME NEW r \in Requests, AnswerRequest(r) PROVE UploadType' /\ BufferInv'
    BY <2>20, AnswerKeeps
  <2>21. CASE UNCHANGED vars
    BY <2>21, Aside DEF vars, core
  <2>. QED
    BY <2>2, <2>3, <2>4, <2>5, <2>6, <2>7, <2>8, <2>9, <2>10, <2>11, <2>12, <2>13, <2>14, <2>15,
       <2>16, <2>17, <2>18, <2>19, <2>20, <2>21 DEF Next, Running, Kernel, Environment
<1>. QED
  BY <1>1, <1>2, PTL DEF Spec

\* Whatever the threads of the message handlers and the strand do, read_buffers has
\* the buffer of every read that is under way or not yet taken out, and no other,
\* whenever the mutex is free.
THEOREM BuffersAreOwned == Spec => []BuffersOwned
<1>1. UploadType /\ BufferInv => BuffersOwned
  <2> SUFFICES ASSUME UploadType, BufferInv, read_mutex = Nothing PROVE read_buffers = InUse
    BY DEF BuffersOwned
  <2>1. at["strand"] # "change"
    BY Names DEF BufferInv, MutexHeld
  <2>2. at["strand"] # "submit"
    BY DEF UploadType
  <2>. QED
    BY <2>1, <2>2 DEF BufferInv, Kept, Submitted, Done, InUse, Handling, UploadType
<1>. QED
  BY <1>1, BufferInvariant, PTL

\* find() in the handler of a read always meets the buffer it looks for, so erase()
\* is never given end().
THEOREM EraseFinds == Spec => [][EraseBuffer => ~crashed']_vars
<1>1. ASSUME UploadType, BufferInv, EraseBuffer PROVE ~crashed'
  <2>1. at["strand"] = "change" /\ crashed' = (hand["strand"] \notin seen)
    BY <1>1 DEF EraseBuffer
  <2>2. hand["strand"] \in Kept
    BY <2>1 DEF Kept, Done, Handling
  <2>3. seen = read_buffers
    BY <1>1, <2>1, Names DEF BufferInv, MutexHeld
  <2>. QED
    BY <1>1, <2>1, <2>2, <2>3 DEF BufferInv
<1>. QED
  BY <1>1, BufferInvariant, PTL

-----------------------------------------------------------------------------
(* Who is told of a finished piece.                                         *)

\* The peer that an activity is about to put in the list, and the piece that the
\* strand tells the peers of, if there is one.
Pushed(a) == IF at[a] = "push" THEN {hand[a]} ELSE {}
Telling   == IF at["strand"] = "tell" THEN {hand["strand"]} ELSE {}

Listed(p) == \E k \in DOMAIN peers : peers[k] = p

ListType ==
    /\ peers \in Seq(Peers)
    /\ link \in [Peers -> {"none", "connecting", "open", "broken"}]
    /\ since \in [Peers -> SUBSET Pieces] /\ verified \in SUBSET Pieces
    /\ haves \in [Peers -> [Pieces -> Nat]]
    /\ walk \in [next : Nat, end : Nat]

\* A peer is put in the list once: it has a connection from before it is in the
\* hand of add_peer or accept_peer, which have no peer in common.
PushedOnce ==
    /\ \A k, j \in DOMAIN peers : peers[k] = peers[j] => k = j
    /\ \A k \in DOMAIN peers : link[peers[k]] # "none"
    /\ Pushed("adder") \subseteq Outgoing /\ Pushed("acceptor") \subseteq Incoming
    /\ \A a \in {"adder", "acceptor"} : \A p \in Pushed(a) : link[p] # "none" /\ ~Listed(p)

\* The walk goes over the peers that were there before the piece was verified; the
\* others have it in what was verified before them.
Walking ==
    \A i \in Telling :
        /\ i \in verified
        /\ walk.next > 0 /\ walk.next <= walk.end + 1 /\ walk.end <= Len(peers)
        /\ \A k \in DOMAIN peers : i \notin since[peers[k]] <=> k <= walk.end

\* The pieces that the peer at place k was told of, when the walk is at next.
ToldOf(k) ==
    {i \in verified \ since[peers[k]] : i \in Telling => k < walk.next}

Tellings ==
    /\ \A k \in DOMAIN peers : \A i \in Pieces : haves[peers[k]][i] = (IF i \in ToldOf(k) THEN 1 ELSE 0)
    /\ \A p \in Peers : since[p] \subseteq verified
    /\ \A p \in Peers : ~Listed(p) => \A i \in Pieces : haves[p][i] = 0

ListInv == ListType /\ PushedOnce /\ Walking /\ Tellings

\* What all of this depends on.
tale == <<peers, link, since, verified, haves, walk, Pushed("adder"), Pushed("acceptor"), Telling>>

LEMMA TaleAside ==
    ASSUME ListInv, UNCHANGED tale
    PROVE  ListInv'
<1>1. UNCHANGED <<peers, link, since, verified, haves, walk>>
      /\ Pushed("adder")' = Pushed("adder") /\ Pushed("acceptor")' = Pushed("acceptor")
      /\ Telling' = Telling
  BY DEF tale
<1>2. ListType' /\ Walking'
  BY <1>1 DEF ListInv, ListType, Walking
<1>3. \A p \in Peers : Listed(p)' = Listed(p)
  BY <1>1 DEF Listed
<1>4. PushedOnce'
  BY <1>1 DEF ListInv, PushedOnce, Listed
<1>5. Tellings'
  <2>1. \A k \in DOMAIN peers : ToldOf(k)' = ToldOf(k)
    BY <1>1 DEF ToldOf
  <2>. QED
    BY <1>1, <1>3, <2>1 DEF ListInv, Tellings
<1>. QED
  BY <1>2, <1>4, <1>5 DEF ListInv

\* An activity that does something else has neither a peer to push nor a piece to
\* tell of.
LEMMA Elsewhere ==
    ASSUME UploadType, NEW a \in Activities, NEW place \in Places \ {"push", "tell"}, NEW x,
           Goto(a, place, x), at[a] \notin {"push", "tell"}
    PROVE  UNCHANGED <<Pushed("adder"), Pushed("acceptor"), Telling>>
<1>1. \A b \in Activities : b # a => at'[b] = at[b] /\ hand'[b] = hand[b]
  BY DEF Goto, UploadType
<1>2. at'[a] = place
  BY DEF Goto, UploadType
<1>. QED
  BY <1>1, <1>2, Names DEF Pushed, Telling

\* When the program goes on or ends by an exception, all but a failed connection
\* keeps EveryPeerTold by way of this.
LEMMA ListTold == ListInv => EveryPeerTold
<1> SUFFICES ASSUME ListInv, NEW k \in DOMAIN peers, NEW i \in Pieces,
                    at["strand"] = "tell" => hand["strand"] # i
             PROVE  haves[peers[k]][i] = (IF i \in verified \ since[peers[k]] THEN 1 ELSE 0)
  BY DEF EveryPeerTold
<1>1. i \notin Telling
  BY DEF Telling
<1>. QED
  BY <1>1 DEF ListInv, Tellings, ToldOf

\* A peer that gets its connection is in no list, and in no hand, yet.
LEMMA JoinKeeps ==
    ASSUME ListInv, UploadType, NEW p \in Peers, AddPeer(p) \/ AcceptPeer(p)
    PROVE  ListInv'
<1>1. PICK a \in {"adder", "acceptor"} :
        /\ at[a] = "idle" /\ Goto(a, "push", p) /\ p \in (IF a = "adder" THEN Outgoing ELSE Incoming)
        /\ link[p] = "none" /\ \E l \in {"connecting", "open"} : link' = [link EXCEPT ![p] = l]
        /\ UNCHANGED <<peers, since, verified, haves, walk>>
  BY DEF AddPeer, AcceptPeer, MayRun, tellVars
<1>2. /\ \A q \in Peers : link[q] # "none" => link'[q] # "none"
      /\ link'[p] # "none" /\ link' \in [Peers -> {"none", "connecting", "open", "broken"}]
  BY <1>1 DEF ListInv, ListType
<1>3. \A b \in Activities : IF b = a THEN at'[b] = "push" /\ hand'[b] = p ELSE at'[b] = at[b] /\ hand'[b] = hand[b]
  BY <1>1 DEF Goto, UploadType
<1>4. Telling' = Telling /\ Pushed(a)' = {p} /\ \A b \in {"adder", "acceptor"} \ {a} : Pushed(b)' = Pushed(b)
  BY <1>3, Names DEF Telling, Pushed
<1>5. ~Listed(p)
  BY <1>1 DEF ListInv, PushedOnce, Listed
<1>6. \A q \in Peers : Listed(q)' = Listed(q)
  BY <1>1 DEF Listed
<1>7. ListType' /\ Walking'
  BY <1>1, <1>2, <1>4 DEF ListInv, ListType, Walking
<1>8. PushedOnce'
  <2>1. /\ \A k, j \in DOMAIN peers' : peers'[k] = peers'[j] => k = j
        /\ \A k \in DOMAIN peers' : link'[peers'[k]] # "none"
    BY <1>1, <1>2 DEF ListInv, ListType, PushedOnce
  <2>2. Pushed("adder")' \subseteq Outgoing /\ Pushed("acceptor")' \subseteq Incoming
    BY <1>1, <1>4 DEF ListInv, PushedOnce
  <2>3. ASSUME NEW b \in {"adder", "acceptor"}, NEW q \in Pushed(b)'
        PROVE  link'[q] # "none" /\ ~Listed(q)'
    <3>1. CASE b = a
      BY <1>1, <1>2, <1>4, <1>5, <2>3, <3>1 DEF Listed
    <3>2. CASE b # a
      <4>1. q \in Pushed(b) /\ q \in Peers
        BY <1>4, <2>3, <3>2 DEF ListInv, PushedOnce, Peers
      <4>. QED
        BY <1>2, <1>6, <4>1 DEF ListInv, PushedOnce
    <3>. QED
      BY <3>1, <3>2
  <2>. QED
    BY <2>1, <2>2, <2>3 DEF PushedOnce
<1>9. Tellings'
  <2>1. \A k \in DOMAIN peers : ToldOf(k)' = ToldOf(k)
    BY <1>1, <1>4 DEF ToldOf
  <2>. QED
    BY <1>1, <1>6, <2>1 DEF ListInv, Tellings
<1>. QED
  BY <1>7, <1>8, <1>9 DEF ListInv

\* The end of the list is beyond the end of the walk, if there is one.
LEMMA PushKeepsTale ==
    ASSUME ListInv, UploadType, NEW a \in Activities, PushPeer(a)
    PROVE  ListInv'
<1> DEFINE p == hand[a]
           n == Len(peers)
<1>1. /\ a \in {"adder", "acceptor"} /\ at[a] = "push" /\ Goto(a, "idle", Nothing)
      /\ peers' = Append(peers, p) /\ since' = [since EXCEPT ![p] = verified]
      /\ UNCHANGED <<link, verified, haves, walk>>
  BY DEF PushPeer, tellVars
<1>2. Pushed(a) = {p} /\ p \in Peers /\ link[p] # "none" /\ ~Listed(p)
  BY <1>1 DEF Pushed, ListInv, PushedOnce, Peers
<1>3. \A b \in Activities \ {a} : at'[b] = at[b] /\ hand'[b] = hand[b]
  BY <1>1 DEF Goto, UploadType
<1>4. /\ Telling' = Telling /\ Pushed(a)' = {}
      /\ \A b \in {"adder", "acceptor"} \ {a} : Pushed(b)' = Pushed(b)
  <2>1. at'[a] = "idle" /\ a # "strand"
    BY <1>1, Names DEF Goto, UploadType
  <2>. QED
    BY <1>3, <2>1, Names DEF Telling, Pushed
<1>5. /\ n \in Nat /\ DOMAIN peers = 1 .. n /\ DOMAIN peers' = 1 .. n + 1 /\ Len(peers') = n + 1
      /\ peers'[n + 1] = p /\ \A k \in 1 .. n : peers'[k] = peers[k] /\ peers[k] \in Peers /\ peers[k] # p
  BY <1>1, <1>2 DEF ListInv, ListType, Listed
<1>6. ListType'
  BY <1>1, <1>2 DEF ListInv, ListType
<1>7. \A k \in 1 .. n : since'[peers[k]] = since[peers[k]]
  BY <1>1, <1>5 DEF ListInv, ListType
<1>8. since'[p] = verified
  BY <1>1, <1>2 DEF ListInv, ListType
<1>9. PushedOnce'
  <2>1. \A k, j \in DOMAIN peers' : peers'[k] = peers'[j] => k = j
    BY <1>5 DEF ListInv, PushedOnce
  <2>2. \A k \in DOMAIN peers' : link'[peers'[k]] # "none"
    BY <1>1, <1>2, <1>5 DEF ListInv, PushedOnce
  <2>3. Pushed("adder")' \subseteq Outgoing /\ Pushed("acceptor")' \subseteq Incoming
    BY <1>1, <1>4 DEF ListInv, PushedOnce
  <2>4. ASSUME NEW b \in {"adder", "acceptor"}, NEW q \in Pushed(b)'
        PROVE  link'[q] # "none" /\ ~Listed(q)'
    <3>1. b # a /\ q \in Pushed(b)
      BY <1>4, <2>4
    <3>2. link[q] # "none" /\ ~Listed(q)
      BY <3>1 DEF ListInv, PushedOnce
    <3>3. q # p
      BY <1>1, <1>2, <3>1, UploadAssumption DEF ListInv, PushedOnce
    <3>. QED
      BY <1>1, <1>5, <3>2, <3>3 DEF Listed
  <2>. QED
    BY <2>1, <2>2, <2>3, <2>4 DEF PushedOnce
<1>10. Walking'
  <2>1. ASSUME NEW i \in Telling
        PROVE  /\ i \in verified /\ walk.next > 0 /\ walk.next <= walk.end + 1 /\ walk.end <= n + 1
               /\ \A k \in 1 .. n + 1 : i \notin since'[peers'[k]] <=> k <= walk.end
    <3>1. /\ i \in verified /\ walk.next > 0 /\ walk.next <= walk.end + 1 /\ walk.end <= n
          /\ \A k \in 1 .. n : i \notin since[peers[k]] <=> k <= walk.end
      BY <1>5 DEF ListInv, Walking
    <3>2. walk.end \in Nat /\ walk.end <= n + 1 /\ ~(n + 1 <= walk.end)
      BY <1>5, <3>1 DEF ListInv, ListType
    <3>3. ASSUME NEW k \in 1 .. n + 1 PROVE i \notin since'[peers'[k]] <=> k <= walk.end
      <4>1. CASE k \in 1 .. n
        BY <1>5, <1>7, <3>1, <4>1
      <4>2. CASE k = n + 1
        BY <1>5, <1>8, <3>1, <3>2, <4>2
      <4>. QED
        BY <1>5, <4>1, <4>2
    <3>. QED
      BY <3>1, <3>2, <3>3
  <2>. QED
    BY <1>1, <1>4, <1>5, <2>1 DEF Walking
<1>11. Tellings'
  <2>1. ASSUME NEW k \in DOMAIN peers', NEW i \in Pieces
        PROVE  haves'[peers'[k]][i] = (IF i \in ToldOf(k)' THEN 1 ELSE 0)
    <3>1. CASE k \in 1 .. n
      <4>1. ToldOf(k)' = ToldOf(k)
        BY <1>1, <1>4, <1>5, <1>7, <3>1 DEF ToldOf
      <4>. QED
        BY <1>1, <1>5, <3>1, <4>1 DEF ListInv, Tellings
    <3>2. CASE k = n + 1
      <4>1. ToldOf(k)' = {}
        BY <1>1, <1>5, <1>8, <3>2 DEF ToldOf
      <4>. QED
        BY <1>1, <1>2, <1>5, <3>2, <4>1 DEF ListInv, Tellings
    <3>. QED
      BY <1>5, <3>1, <3>2
  <2>2. \A q \in Peers : since'[q] \subseteq verified
    BY <1>1 DEF ListInv, ListType, Tellings
  <2>3. \A q \in Peers : ~Listed(q)' => ~Listed(q)
    BY <1>5 DEF Listed
  <2>. QED
    BY <1>1, <2>1, <2>2, <2>3 DEF ListInv, Tellings
<1>. QED
  BY <1>6, <1>9, <1>10, <1>11 DEF ListInv

\* The list does not look at how a connection goes on.
LEMMA LinkKeeps ==
    ASSUME ListInv, NEW p \in Peers, NEW l \in {"open", "broken"}, link' = [link EXCEPT ![p] = l],
           UNCHANGED <<peers, since, verified, haves, walk, at, hand>>
    PROVE  ListInv'
<1>1. /\ \A q \in Peers : link[q] # "none" => link'[q] # "none"
      /\ link' \in [Peers -> {"none", "connecting", "open", "broken"}]
  BY DEF ListInv, ListType
<1>2. /\ Telling' = Telling /\ \A a : Pushed(a)' = Pushed(a)
      /\ \A q : Listed(q)' = Listed(q) /\ \A k : ToldOf(k)' = ToldOf(k)
  BY DEF Telling, Pushed, Listed, ToldOf
<1>3. \A a \in {"adder", "acceptor"} : Pushed(a) \subseteq Peers
  BY DEF ListInv, PushedOnce, Peers
<1>4. PushedOnce'
  BY <1>1, <1>2, <1>3 DEF ListInv, ListType, PushedOnce
<1>5. ListType' /\ Walking' /\ Tellings'
  BY <1>1, <1>2 DEF ListInv, ListType, Walking, Tellings
<1>. QED
  BY <1>4, <1>5 DEF ListInv

\* A walk begins before its first peer and ends behind the last one there is.
LEMMA CompleteKeeps ==
    ASSUME ListInv, UploadType, NEW i \in Pieces, PieceComplete(i)
    PROVE  ListInv'
<1>1. /\ at["strand"] = "idle" /\ Goto("strand", "tell", i) /\ i \notin verified
      /\ verified' = verified \cup {i} /\ walk' = [next |-> 1, end |-> Len(peers)]
      /\ UNCHANGED <<peers, link, since, haves>>
  BY DEF PieceComplete, MayRun, listVars
<1>2. Telling = {} /\ Telling' = {i} /\ \A a \in {"adder", "acceptor"} : Pushed(a)' = Pushed(a)
  BY <1>1, Names DEF Telling, Pushed, Goto, UploadType
<1>3. Len(peers) \in Nat /\ \A k \in DOMAIN peers : k >= 1 /\ k <= Len(peers) /\ peers[k] \in Peers
  BY DEF ListInv, ListType
<1>4. ListType'
  BY <1>1, <1>3 DEF ListInv, ListType
<1>5. PushedOnce'
  BY <1>1, <1>2 DEF ListInv, PushedOnce, Listed
<1>6. Walking'
  <2>1. \A k \in DOMAIN peers : i \notin since[peers[k]]
    BY <1>1, <1>3 DEF ListInv, Tellings
  <2>. QED
    BY <1>1, <1>2, <1>3, <2>1 DEF Walking
<1>7. Tellings'
  <2>1. ASSUME NEW k \in DOMAIN peers PROVE ToldOf(k)' = ToldOf(k)
    <3>1. ToldOf(k) = verified \ since[peers[k]]
      BY <1>2 DEF ToldOf
    <3>2. ToldOf(k)' = verified \ since[peers[k]]
      BY <1>1, <1>2, <1>3 DEF ToldOf
    <3>. QED
      BY <3>1, <3>2
  <2>. QED
    BY <1>1, <2>1 DEF ListInv, Tellings, Listed
<1>. QED
  BY <1>4, <1>5, <1>6, <1>7 DEF ListInv

\* The walk is at a peer that was not told yet.
LEMMA TellKeeps ==
    ASSUME ListInv, UploadType, Tell
    PROVE  ListInv'
<1> DEFINE n == walk.next
           i == hand["strand"]
           q == peers[n]
<1>1. /\ at["strand"] = "tell" /\ n <= walk.end
      /\ haves' = [haves EXCEPT ![q][i] = @ + 1] /\ walk' = [walk EXCEPT !.next = @ + 1]
      /\ UNCHANGED <<peers, link, since, verified, at, hand>>
  BY DEF Tell, listVars
<1>2. Telling = {i} /\ Telling' = Telling /\ \A a \in {"adder", "acceptor"} : Pushed(a)' = Pushed(a)
  BY <1>1 DEF Telling, Pushed
<1>3. /\ i \in verified /\ i \in Pieces /\ n \in Nat \ {0} /\ walk.end \in Nat /\ walk.end <= Len(peers)
      /\ \A k \in DOMAIN peers : i \notin since[peers[k]] <=> k <= walk.end
  BY <1>2 DEF ListInv, ListType, Walking
<1>4. /\ n \in DOMAIN peers /\ q \in Peers /\ DOMAIN peers \subseteq Nat
      /\ \A k \in DOMAIN peers : peers[k] \in Peers /\ (k # n => peers[k] # q)
  BY <1>1, <1>3 DEF ListInv, ListType, PushedOnce
<1>5. walk'.next = n + 1 /\ walk'.end = walk.end /\ walk' \in [next : Nat, end : Nat]
  <2>1. walk \in [next : Nat, end : Nat] /\ walk' = [walk EXCEPT !.next = walk.next + 1]
    BY <1>1 DEF ListInv, ListType
  <2>2. walk'.next = walk.next + 1 /\ walk'.end = walk.end
    BY <2>1
  <2>3. walk' = [next |-> walk.next + 1, end |-> walk.end]
    BY <2>1
  <2>4. walk.next + 1 \in Nat /\ walk.end \in Nat
    BY <2>1
  <2>. QED
    BY <2>2, <2>3, <2>4
<1>6. /\ \A p \in Peers \ {q} : haves'[p] = haves[p]
      /\ haves'[q][i] = haves[q][i] + 1 /\ \A j \in Pieces \ {i} : haves'[q][j] = haves[q][j]
  BY <1>1, <1>3, <1>4 DEF ListInv, ListType
<1>7. haves' \in [Peers -> [Pieces -> Nat]]
  BY <1>1, <1>3, <1>4 DEF ListInv, ListType
<1>8. ListType'
  BY <1>1, <1>5, <1>7 DEF ListInv, ListType
<1>9. PushedOnce'
  BY <1>1, <1>2 DEF ListInv, PushedOnce, Listed
<1>10. Walking'
  BY <1>1, <1>2, <1>3, <1>5 DEF Walking
<1>11. Tellings'
  <2>1. ASSUME NEW k \in DOMAIN peers, NEW j \in Pieces
        PROVE  haves'[peers[k]][j] = (IF j \in ToldOf(k)' THEN 1 ELSE 0)
    <3>0. haves[peers[k]][j] = (IF j \in ToldOf(k) THEN 1 ELSE 0)
      BY DEF ListInv, Tellings
    <3>1. CASE j # i
      <4>1. j \in ToldOf(k)' <=> j \in ToldOf(k)
        BY <1>1, <1>2, <3>1 DEF ToldOf
      <4>. QED
        BY <1>4, <1>6, <3>0, <3>1, <4>1
    <3>2. CASE j = i /\ k # n
      <4>1. k < n <=> k < n + 1
        BY <1>3, <1>4, <3>2
      <4>2. j \in ToldOf(k)' <=> j \in ToldOf(k)
        BY <1>1, <1>2, <1>5, <3>2, <4>1 DEF ToldOf
      <4>. QED
        BY <1>4, <1>6, <3>0, <3>2, <4>2
    <3>3. CASE j = i /\ k = n
      <4>1. j \notin ToldOf(k)
        BY <1>2, <1>3, <3>3 DEF ToldOf
      <4>2. j \in ToldOf(k)'
        BY <1>1, <1>2, <1>3, <1>4, <1>5, <3>3 DEF ToldOf
      <4>. QED
        BY <1>6, <3>0, <3>3, <4>1, <4>2
    <3>. QED
      BY <3>1, <3>2, <3>3
  <2>2. ASSUME NEW p \in Peers, ~Listed(p)', NEW j \in Pieces PROVE haves'[p][j] = 0
    <3>1. ~Listed(p) /\ p # q
      BY <1>1, <1>4, <2>2 DEF Listed
    <3>. QED
      BY <1>6, <3>1 DEF ListInv, Tellings
  <2>3. \A p \in Peers : since'[p] \subseteq verified'
    BY <1>1 DEF ListInv, Tellings
  <2>. QED
    BY <1>1, <2>1, <2>2, <2>3 DEF Tellings
<1>. QED
  BY <1>8, <1>9, <1>10, <1>11 DEF ListInv

\* Behind the end of the walk are only peers that came too late for the piece.
LEMMA ToldKeepsTale ==
    ASSUME ListInv, UploadType, Told
    PROVE  ListInv'
<1>1. /\ at["strand"] = "tell" /\ walk.next > walk.end /\ Goto("strand", "idle", Nothing)
      /\ UNCHANGED <<peers, link, since, verified, haves, walk>>
  BY DEF Told, listVars, tellVars
<1>2. Telling' = {} /\ \A a \in {"adder", "acceptor"} : Pushed(a)' = Pushed(a)
  BY <1>1, Names DEF Telling, Pushed, Goto, UploadType
<1>3. ListType' /\ PushedOnce' /\ Walking'
  BY <1>1, <1>2 DEF ListInv, ListType, PushedOnce, Walking, Listed
<1>4. Tellings'
  <2>1. ASSUME NEW k \in DOMAIN peers PROVE ToldOf(k)' = ToldOf(k)
    <3>1. ToldOf(k)' = verified \ since[peers[k]]
      BY <1>1, <1>2 DEF ToldOf
    <3>2. ASSUME NEW i \in Telling, i \notin since[peers[k]] PROVE k < walk.next
      <4>1. k <= walk.end /\ k \in Nat /\ walk.end \in Nat /\ walk.next \in Nat
        BY <3>2 DEF ListInv, ListType, Walking
      <4>. QED
        BY <1>1, <4>1
    <3>. QED
      BY <3>1, <3>2 DEF ToldOf
  <2>. QED
    BY <1>1, <2>1 DEF ListInv, Tellings, Listed
<1>. QED
  BY <1>3, <1>4 DEF ListInv

LEMMA Joined ==
    ASSUME NEW S, NEW s \in Seq(S), NEW t \in Seq(S), NEW m \in DOMAIN (s \o t)
    PROVE  \/ m \in DOMAIN s /\ (s \o t)[m] = s[m]
           \/ m - Len(s) \in DOMAIN t /\ (s \o t)[m] = t[m - Len(s)]
  OBVIOUS

\* Whoever leaves the list when its connection cannot be made, the others have been
\* told the same as before.
LEMMA RemoveKeeps ==
    ASSUME EveryPeerTold, peers \in Seq(Peers), NEW p \in Peers, ConnectFails(p)
    PROVE  EveryPeerTold' /\ crashed'
<1>1. /\ crashed' /\ UNCHANGED <<at, hand, haves, verified, since>>
      /\ \/ \E k \in DOMAIN peers : peers' = SubSeq(peers, 1, k - 1) \o SubSeq(peers, k + 1, Len(peers))
         \/ UNCHANGED peers
  BY DEF ConnectFails, tellVars
<1>2. \A k \in DOMAIN peers' : \E j \in DOMAIN peers : peers'[k] = peers[j]
  <2>1. ASSUME NEW k \in DOMAIN peers, peers' = SubSeq(peers, 1, k - 1) \o SubSeq(peers, k + 1, Len(peers)),
               NEW m \in DOMAIN peers'
        PROVE  \E j \in DOMAIN peers : peers'[m] = peers[j]
    <3> DEFINE front == SubSeq(peers, 1, k - 1)
               rear  == SubSeq(peers, k + 1, Len(peers))
    <3>1. k \in 1 .. Len(peers) /\ Len(peers) \in Nat /\ front \in Seq(Peers) /\ rear \in Seq(Peers)
      OBVIOUS
    <3>2. /\ \A j \in DOMAIN front : j \in DOMAIN peers /\ front[j] = peers[j]
          /\ \A j \in DOMAIN rear : j + k \in DOMAIN peers /\ rear[j] = peers[j + k]
      BY <3>1
    <3>3. m \in DOMAIN (front \o rear) /\ peers'[m] = (front \o rear)[m]
      BY <2>1
    <3> HIDE DEF front, rear
    <3>4. \/ m \in DOMAIN front /\ peers'[m] = front[m]
          \/ m - Len(front) \in DOMAIN rear /\ peers'[m] = rear[m - Len(front)]
      BY <3>1, <3>3, Joined
    <3>. QED
      BY <3>2, <3>4
  <2>. QED
    BY <1>1, <2>1
<1>. QED
  BY <1>1, <1>2 DEF EveryPeerTold

LEMMA ListStep ==
    ASSUME UploadType, ListInv, Next
    PROVE  ListInv' \/ (EveryPeerTold' /\ crashed')
<1> USE DEF listVars, tellVars, tale
<1>0. Places \ {"push", "tell"} = {"idle", "lock", "change", "submit"}
  BY DEF Places
<1>1. ASSUME UNCHANGED <<peers, link, since, tellVars, at, hand>> PROVE ListInv'
  BY <1>1, TaleAside DEF Pushed, Telling
<1>2. ASSUME UNCHANGED <<peers, link, since, tellVars>>, NEW a \in Activities, at[a] \notin {"push", "tell"},
             NEW place \in Places \ {"push", "tell"}, NEW x, Goto(a, place, x)
      PROVE  ListInv'
  BY <1>2, Elsewhere, TaleAside
<1>3. ASSUME Crash PROVE ListInv'
  BY <1>1, <1>3 DEF Crash
<1>4. ASSUME NEW p \in Peers, AddPeer(p) \/ AcceptPeer(p) PROVE ListInv'
  BY <1>4, JoinKeeps
<1>5. CASE AcceptFails \/ AcceptThrows
  BY <1>1, <1>3, <1>5 DEF AcceptFails, AcceptThrows
<1>6. ASSUME NEW a \in Activities, PushPeer(a) \/ PushRace(a) PROVE ListInv'
  <2>1. CASE PushPeer(a)
    BY <2>1, PushKeepsTale
  <2>2. CASE PushRace(a)
    BY <1>3, <2>2 DEF PushRace
  <2>. QED
    BY <1>6, <2>1, <2>2
<1>7. ASSUME NEW p \in Peers, Connected(p) PROVE ListInv'
  BY <1>7, LinkKeeps DEF Connected
<1>8. ASSUME NEW p \in Peers, Break(p) PROVE ListInv'
  BY <1>8, LinkKeeps DEF Break
<1>9. ASSUME NEW p \in Peers, ConnectFails(p) PROVE EveryPeerTold' /\ crashed'
  BY <1>9, RemoveKeeps, ListTold DEF ListInv, ListType
<1>10. ASSUME NEW p \in Peers, SetChoked(p) PROVE ListInv'
  BY <1>1, <1>10 DEF SetChoked
<1>11. ASSUME NEW i \in Pieces, PieceComplete(i) PROVE ListInv'
  BY <1>11, CompleteKeeps
<1>12. CASE Tell \/ Told
  BY <1>12, TellKeeps, ToldKeepsTale
<1>13. ASSUME NEW r \in Requests, Ask(r) \/ ReadDone(r) PROVE ListInv'
  BY <1>1, <1>13 DEF Ask, ReadDone
<1>14. ASSUME NEW r \in Requests, ReceiveRequest(r) PROVE ListInv'
  BY <1>0, <1>2, <1>14, Names DEF ReceiveRequest, MayRun
<1>15. ASSUME NEW r \in Requests, AnswerRequest(r) PROVE ListInv'
  BY <1>0, <1>2, <1>15, Names DEF AnswerRequest, MayRun
<1>16. ASSUME NEW a \in Activities, LockBuffers(a) PROVE ListInv'
  BY <1>0, <1>2, <1>16 DEF LockBuffers
<1>17. ASSUME NEW p \in Peers, PushBuffer(p) \/ SubmitRead(p) PROVE ListInv'
  BY <1>0, <1>2, <1>17, Names DEF PushBuffer, SubmitRead
<1>18. CASE EraseBuffer
  BY <1>0, <1>2, <1>18, Names DEF EraseBuffer
<1>. QED
  BY <1>4, <1>5, <1>6, <1>7, <1>8, <1>9, <1>10, <1>11, <1>12, <1>13, <1>14, <1>15, <1>16, <1>17, <1>18
     DEF Next, Running, Kernel, Environment

\* A program that has ended does nothing more.
LEMMA CrashedStops == crashed /\ [Next]_vars => UNCHANGED vars
<1> USE DEF MayRun
<1>1. crashed /\ Running => FALSE
  BY DEF Running, PushPeer, PushRace, LockBuffers, PushBuffer, SubmitRead, ReceiveRequest,
         AnswerRequest, Tell, Told, EraseBuffer
<1>2. crashed /\ Kernel => FALSE
  BY DEF Kernel, ReadDone
<1>3. crashed /\ Environment => FALSE
  BY DEF Environment, AddPeer, AcceptPeer, Connected, ConnectFails, Break, SetChoked, AcceptFails,
         AcceptThrows, PieceComplete, Ask
<1>. QED
  BY <1>1, <1>2, <1>3 DEF Next

\* Every peer that was in the list when a piece was verified is sent one HAVE of it
\* by the time the walk is through, on any number of threads, unless two of them
\* meet in the vector and end the program.
THEOREM EveryPeerIsTold == Spec => []EveryPeerTold
<1> DEFINE Inv == EveryPeerTold /\ (crashed \/ ListInv)
<1>1. Init => Inv
  <2> SUFFICES ASSUME Init PROVE Inv
    OBVIOUS
  <2>1. /\ peers = <<>> /\ verified = {} /\ walk = [next |-> 1, end |-> 0]
        /\ at = [a \in Activities |-> "idle"] /\ link = [p \in Peers |-> "none"]
        /\ haves = [p \in Peers |-> [i \in Pieces |-> 0]] /\ since = [p \in Peers |-> {}]
    BY DEF Init
  <2>2. Telling = {} /\ Pushed("adder") = {} /\ Pushed("acceptor") = {}
    BY <2>1, Names DEF Telling, Pushed
  <2>3. ListType
    <3>1. haves \in [Peers -> [Pieces -> Nat]]
      BY <2>1
    <3>2. peers \in Seq(Peers) /\ walk \in [next : Nat, end : Nat]
      BY <2>1
    <3>3. link \in [Peers -> {"none", "connecting", "open", "broken"}] /\ since \in [Peers -> SUBSET Pieces]
      BY <2>1
    <3>. QED
      BY <2>1, <3>1, <3>2, <3>3 DEF ListType
  <2>4. PushedOnce /\ Walking /\ Tellings
    BY <2>1, <2>2 DEF PushedOnce, Walking, Tellings
  <2>. QED
    BY <2>3, <2>4, ListTold DEF ListInv
<1>2. UploadType /\ Inv /\ [Next]_vars => Inv'
  <2> SUFFICES ASSUME UploadType, Inv, [Next]_vars PROVE Inv'
    OBVIOUS
  <2>1. CASE UNCHANGED vars
    <3>1. UNCHANGED <<tale, crashed>> /\ (EveryPeerTold => EveryPeerTold')
      BY <2>1 DEF vars, listVars, tellVars, tale, Pushed, Telling, EveryPeerTold
    <3>. QED
      BY <3>1, TaleAside
  <2>2. CASE ~crashed /\ Next
    <3>1. ListInv' => EveryPeerTold'
      BY ListTold, PTL
    <3>. QED
      BY <2>2, <3>1, ListStep
  <2>. QED
    BY <2>1, <2>2, CrashedStops
<1>. QED
  BY <1>1, <1>2, BufferInvariant, PTL DEF Spec

=============================================================================
