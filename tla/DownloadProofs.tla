--------------------------- MODULE DownloadProofs ---------------------------
(***************************************************************************)
(* Download for any number of peers, pieces and blocks and any block       *)
(* lists.                                                                  *)
(*                                                                         *)
(* On any number of threads: whom requests are sent to, what lost          *)
(* increments of the availability can do, what blocks_in_queue counts, how *)
(* far the counters go and, while the pieces stand in order, that a mark   *)
(* on a block is a request or a block to be stored.                        *)
(*                                                                         *)
(* On one thread, while the pieces stand in order: no block is asked for   *)
(* twice, and none is left unasked that a peer could be asked for.         *)
(***************************************************************************)
EXTENDS Download, FiniteSetTheorems, TLAPS

-----------------------------------------------------------------------------
(* Sets of numbers, and how many entries of a queue are of a kind.          *)

\* A nonempty set of natural numbers has a smallest element.
LEMMA SmallestElement ==
    ASSUME NEW T \in SUBSET Nat, T # {}
    PROVE  \E m \in T : \A n \in T : m <= n
<1>1. PICK m \in T : \A n \in T : <<n, m>> \notin OpToRel(<, Nat)
  BY NatLessThanWellFounded, WFMin, Zenon
<1>2. \A n \in T : ~(n < m)
  <2> SUFFICES ASSUME NEW n \in T, n < m PROVE FALSE
    OBVIOUS
  <2>1. <<n, m>> \in Nat \X Nat
    OBVIOUS
  <2>2. <<n, m>> \in OpToRel(<, Nat)
    BY <2>1 DEF OpToRel
  <2> QED
    BY <1>1, <2>2
<1> QED
  BY <1>2

\* A nonempty set of natural numbers below a bound has a largest element.
LEMMA LargestElement ==
    ASSUME NEW T \in SUBSET Nat, T # {}, NEW b \in Nat, \A n \in T : n <= b
    PROVE  \E m \in T : \A n \in T : n <= m
<1> DEFINE U == {b - n : n \in T}
<1>1. U \in SUBSET Nat /\ U # {}
  OBVIOUS
<1>2. PICK u \in U : \A v \in U : u <= v
  BY <1>1, SmallestElement, Zenon
<1>3. PICK m \in T : u = b - m
  BY <1>2
<1>4. \A n \in T : n <= m
  <2> SUFFICES ASSUME NEW n \in T PROVE n <= m
    OBVIOUS
  <2>1. b - m <= b - n
    BY <1>2, <1>3
  <2> QED
    BY <2>1
<1> QED
  BY <1>4

\* A finite set of natural numbers is bounded: no counterexample is minimal.
LEMMA FiniteIsBounded ==
    ASSUME NEW S \in SUBSET Nat, IsFiniteSet(S)
    PROVE  \E b \in Nat : \A n \in S : n <= b
<1> DEFINE Unbounded == {T \in SUBSET S : \A b \in Nat : \E n \in T : ~(n <= b)}
<1> SUFFICES ASSUME Unbounded # {} PROVE FALSE
  OBVIOUS
<1>1. Unbounded \subseteq FiniteSubsetsOf(S)
  BY FS_FiniteSubsetsOfFinite, Zenon
<1>2. PICK T \in Unbounded : \A U \in Unbounded : <<U, T>> \notin StrictSubsetOrdering(S)
  BY <1>1, FS_StrictSubsetOrderingWellFounded, WFMin, Zenon
<1>3. PICK x \in T : ~(x <= 0)
  BY <1>2
<1>4. T \ {x} \notin Unbounded
  <2>1. <<T \ {x}, T>> \in StrictSubsetOrdering(S)
    BY <1>2, <1>3 DEF StrictSubsetOrdering
  <2> QED
    BY <1>2, <2>1
<1>5. PICK b \in Nat : \A n \in T \ {x} : n <= b
  BY <1>2, <1>4
<1>6. x \in Nat
  BY <1>2, <1>3
<1>7. b + x \in Nat /\ \A n \in T : n \in Nat /\ n <= b + x
  BY <1>2, <1>5, <1>6
<1> QED
  BY <1>2, <1>7

\* The places of s that hold an element of T, and their number.
At(s, T) == {k \in DOMAIN s : s[k] \in T}
Count(s, T) == Cardinality(At(s, T))

\* No more entries are counted than there are.
LEMMA CountType ==
    ASSUME NEW S, NEW s \in Seq(S), NEW T
    PROVE  /\ IsFiniteSet(At(s, T))
           /\ Count(s, T) \in Nat
           /\ Count(s, T) <= Len(s)
<1>1. At(s, T) \in SUBSET (1 .. Len(s)) /\ Len(s) \in Nat
  BY DEF At
<1>2. IsFiniteSet(1 .. Len(s)) /\ Cardinality(1 .. Len(s)) = Len(s)
  <2>1. /\ IsFiniteSet(1 .. Len(s))
        /\ Cardinality(1 .. Len(s)) = IF 1 > Len(s) THEN 0 ELSE Len(s) - 1 + 1
    BY <1>1, FS_Interval
  <2> QED
    BY <1>1, <2>1
<1>3. IsFiniteSet(At(s, T)) /\ Cardinality(At(s, T)) <= Len(s)
  BY <1>1, <1>2, FS_Subset
<1> QED
  BY <1>3, FS_CardinalityType DEF Count

\* Nothing is counted in an empty sequence.
LEMMA CountEmpty == \A T : Count(<<>>, T) = 0
  BY FS_EmptySet DEF Count, At

\* An entry that is appended is counted if it is of the kind.
LEMMA CountAppend ==
    ASSUME NEW S, NEW s \in Seq(S), NEW e \in S, NEW T
    PROVE  Count(Append(s, e), T) = Count(s, T) + (IF e \in T THEN 1 ELSE 0)
<1> DEFINE n == Len(s) + 1
<1>1. IsFiniteSet(At(s, T)) /\ Count(s, T) \in Nat
  BY CountType
<1>0. n \notin At(s, T)
  BY DEF At
<1>2. /\ DOMAIN Append(s, e) = DOMAIN s \cup {n}
      /\ Append(s, e)[n] = e
      /\ \A k \in DOMAIN s : Append(s, e)[k] = s[k]
  OBVIOUS
<1>3. At(Append(s, e), T) = IF e \in T THEN At(s, T) \cup {n} ELSE At(s, T)
  BY <1>2 DEF At
<1>4. Cardinality(At(s, T) \cup {n}) = Cardinality(At(s, T)) + 1
  BY <1>0, <1>1, FS_AddElement
<1> QED
  BY <1>1, <1>3, <1>4 DEF Count

\* The entry at the head was counted if it is of the kind.
LEMMA CountTail ==
    ASSUME NEW S, NEW s \in Seq(S), s # <<>>, NEW T
    PROVE  Count(s, T) = Count(Tail(s), T) + (IF Head(s) \in T THEN 1 ELSE 0)
<1> DEFINE rest == At(s, T) \ {1}
           shift == [k \in At(Tail(s), T) |-> k + 1]
<1>0. Tail(s) \in Seq(S)
  OBVIOUS
<1>1. IsFiniteSet(At(Tail(s), T)) /\ Count(Tail(s), T) \in Nat
  BY <1>0, CountType
<1>2. /\ Len(Tail(s)) = Len(s) - 1 /\ Len(s) \in Nat \ {0}
      /\ \A k \in 1 .. Len(s) - 1 : Tail(s)[k] = s[k + 1]
      /\ DOMAIN Tail(s) = 1 .. Len(s) - 1 /\ DOMAIN s = 1 .. Len(s)
  OBVIOUS
<1>3. shift \in [At(Tail(s), T) -> rest]
  BY <1>2 DEF At
<1>4. \A k, l \in At(Tail(s), T) : shift[k] = shift[l] => k = l
  BY <1>2 DEF At
<1>5. \A j \in rest : \E k \in At(Tail(s), T) : shift[k] = j
  <2> SUFFICES ASSUME NEW j \in rest PROVE \E k \in At(Tail(s), T) : shift[k] = j
    OBVIOUS
  <2>1. j - 1 \in At(Tail(s), T)
    BY <1>2 DEF At
  <2>2. shift[j - 1] = j
    BY <1>2, <2>1 DEF At
  <2> QED
    BY <2>1, <2>2
<1>6. shift \in Bijection(At(Tail(s), T), rest)
  BY <1>3, <1>4, <1>5 DEF Bijection, Injection, Surjection, IsInjective
<1>7. ExistsBijection(At(Tail(s), T), rest)
  BY <1>6 DEF ExistsBijection
<1>8. IsFiniteSet(rest) /\ Cardinality(rest) = Count(Tail(s), T)
  BY <1>1, <1>7, FS_Bijection DEF Count
<1>9. At(s, T) = IF Head(s) \in T THEN rest \cup {1} ELSE rest
  BY <1>2 DEF At
<1>10. Cardinality(rest \cup {1}) = Cardinality(rest) + 1
  BY <1>8, FS_AddElement
<1>11. Cardinality(At(s, T)) = Cardinality(rest) + (IF Head(s) \in T THEN 1 ELSE 0)
  <2> HIDE DEF rest
  <2>1. CASE Head(s) \in T
    BY <1>9, <1>10, <2>1
  <2>2. CASE Head(s) \notin T
    BY <1>1, <1>8, <1>9, <2>2
  <2> QED
    BY <2>1, <2>2
<1> QED
  BY <1>8, <1>11 DEF Count

-----------------------------------------------------------------------------
(* Types.                                                                   *)

Places == {"idle", "have", "have+", "bitfield", "bitfield+", "store", "pick", "scan", "claim"}

Messages ==
    [type : {"choke", "unchoke"}]
      \cup [type : {"have"}, piece : Pieces]
      \cup [type : {"bitfield"}, pieces : SUBSET Pieces]
      \cup [type : {"piece"}, block : Blocks]

\* The types the argument needs.
PeerType ==
    /\ {piece_present, offered, todo} \subseteq [Peers -> SUBSET Pieces]
    /\ {choked, interested, remote_choking, greeted, unchoked} \subseteq [Peers -> BOOLEAN]
    /\ availability \in [Pieces -> Nat]
    /\ blocks_in_queue \in [Peers -> Int]
    /\ pc \in [Peers -> Places]
    /\ inbox \in [Peers -> Seq(Messages)]
    /\ {outbox, scan} \subseteq [Peers -> Seq(Blocks)]
    /\ DOMAIN seen = Peers

\* seen is a number while it holds the availability of the piece that is counted
\* next, and a block is claimed only when there is one.
Counting(p) == pc[p] \in {"have+", "bitfield+"} /\ Counts(p) \in Pieces => seen[p] \in Nat
Claiming(p) == pc[p] = "claim" => scan[p] # <<>>

-----------------------------------------------------------------------------
\* A message of each kind has the fields of its kind.
LEMMA Fields ==
    ASSUME NEW m \in Messages
    PROVE  /\ m.type = "have" => m.piece \in Pieces
           /\ m.type = "bitfield" => m.pieces \subseteq Pieces
           /\ m.type = "piece" => m.block \in Blocks
  BY DEF Messages

\* The unsigned counter of the pipeline is a number, wherever it wraps.
LEMMA Wraps == \A n \in Int : n % Modulus \in Int
  BY BoundsAssumption

LEMMA Received ==
    ASSUME PeerType, NEW p \in Peers, NEW type, Receive(p, type)
    PROVE  /\ pc[p] = "idle" /\ inbox[p] # <<>>
           /\ Head(inbox[p]) \in Messages /\ Head(inbox[p]).type = type
           /\ inbox' = [inbox EXCEPT ![p] = Tail(@)]
           /\ inbox' \in [Peers -> Seq(Messages)]
  BY DEF Receive, PeerType

LEMMA WentTo ==
    ASSUME PeerType, NEW p \in Peers, NEW s \in Places, NEW blocks \in Seq(Blocks), Goto(p, s, blocks)
    PROVE  /\ pc' \in [Peers -> Places] /\ scan' \in [Peers -> Seq(Blocks)]
           /\ pc'[p] = s /\ scan'[p] = blocks
           /\ \A q \in Peers \ {p} : pc'[q] = pc[q] /\ scan'[q] = scan[q]
  BY DEF Goto, PeerType

LEMMA HandlerTypes ==
    ASSUME PeerType, NEW p \in Peers, Handler(p)
    PROVE  PeerType'
<1>0. <<>> \in Seq(Blocks) /\ Places = {"idle", "have", "have+", "bitfield", "bitfield+", "store", "pick", "scan", "claim"}
  BY DEF Places
<1>1. CASE ReceiveChoke(p)
  BY <1>1, Received DEF ReceiveChoke, PeerType, handlerVars, pickerVars, remoteVars
<1>2. CASE ReceiveUnchoke(p)
  <2>1. Goto(p, "pick", <<>>) /\ Receive(p, "unchoke") /\ choked' = [choked EXCEPT ![p] = FALSE]
        /\ UNCHANGED <<piece_present, interested, blocks_in_queue, todo, seen, availability, outbox, remoteVars>>
    BY <1>2 DEF ReceiveUnchoke, StartRequests, pickerVars
  <2>2. pc' \in [Peers -> Places] /\ scan' \in [Peers -> Seq(Blocks)] /\ inbox' \in [Peers -> Seq(Messages)]
    BY <1>0, <2>1, WentTo, Received
  <2>3. choked' \in [Peers -> BOOLEAN]
    BY <2>1 DEF PeerType
  <2>. QED
    BY <2>1, <2>2, <2>3 DEF PeerType, remoteVars
<1>3. CASE ReceiveHave(p)
  <2> DEFINE i == Head(inbox[p]).piece
  <2>1. /\ Goto(p, "have", <<>>) /\ Receive(p, "have")
        /\ piece_present' = [piece_present EXCEPT ![p] = @ \cup {i}]
        /\ todo' = [todo EXCEPT ![p] = {i}]
        /\ UNCHANGED <<choked, interested, blocks_in_queue, seen, availability, outbox, remoteVars>>
    BY <1>3 DEF ReceiveHave, pickerVars
  <2>2. pc' \in [Peers -> Places] /\ scan' \in [Peers -> Seq(Blocks)] /\ inbox' \in [Peers -> Seq(Messages)]
    BY <1>0, <2>1, WentTo, Received
  <2>3. i \in Pieces
    BY <2>1, Received, Fields
  <2>4. piece_present' \in [Peers -> SUBSET Pieces]
    BY <2>1, <2>3 DEF PeerType
  <2>5. todo' \in [Peers -> SUBSET Pieces]
    BY <2>1, <2>3 DEF PeerType
  <2>. QED
    BY <2>1, <2>2, <2>4, <2>5 DEF PeerType, remoteVars
<1>4. CASE ReceiveBitfield(p)
  <2> DEFINE S == Head(inbox[p]).pieces
  <2>1. /\ Goto(p, "bitfield", <<>>) /\ Receive(p, "bitfield")
        /\ piece_present' = [piece_present EXCEPT ![p] = @ \cup S]
        /\ todo' = [todo EXCEPT ![p] = S]
        /\ interested' = [interested EXCEPT ![p] = Interesting(piece_present[p] \cup S)]
        /\ UNCHANGED <<choked, blocks_in_queue, seen, availability, outbox, remoteVars>>
    BY <1>4 DEF ReceiveBitfield, pickerVars
  <2>2. pc' \in [Peers -> Places] /\ scan' \in [Peers -> Seq(Blocks)] /\ inbox' \in [Peers -> Seq(Messages)]
    BY <1>0, <2>1, WentTo, Received
  <2>3. S \subseteq Pieces
    BY <2>1, Received, Fields
  <2>4. Interesting(piece_present[p] \cup S) \in BOOLEAN
    BY DEF Interesting
  <2>5. interested' \in [Peers -> BOOLEAN]
    BY <2>1, <2>4 DEF PeerType
  <2>. QED
    BY <2>1, <2>2, <2>3, <2>5 DEF PeerType, remoteVars
<1>5. CASE ReceivePiece(p)
  <2> DEFINE b == Head(inbox[p]).block
  <2>1. /\ Receive(p, "piece")
        /\ blocks_in_queue' = [blocks_in_queue EXCEPT ![p] = (@ - 1) % Modulus]
        /\ Goto(p, "store", <<b>>) \/ UNCHANGED <<pc, scan>>
        /\ UNCHANGED <<piece_present, choked, interested, todo, seen, availability, outbox, remoteVars>>
    BY <1>5 DEF ReceivePiece, pickerVars
  <2>2. b \in Blocks /\ inbox' \in [Peers -> Seq(Messages)]
    BY <2>1, Received, Fields
  <2>3. pc' \in [Peers -> Places] /\ scan' \in [Peers -> Seq(Blocks)]
    <3>1. <<b>> \in Seq(Blocks)
      BY <2>2
    <3>. QED
      BY <1>0, <2>1, <3>1, WentTo DEF PeerType
  <2>4. (blocks_in_queue[p] - 1) % Modulus \in Int
    BY Wraps DEF PeerType
  <2>. QED
    BY <2>1, <2>2, <2>3, <2>4 DEF PeerType, remoteVars
<1>. QED
  BY <1>1, <1>2, <1>3, <1>4, <1>5 DEF Handler

LEMMA StepTypes ==
    ASSUME PeerType, NEW p \in Peers, Counting(p), Claiming(p), HandlerStep(p)
    PROVE  PeerType'
<1>0. <<>> \in Seq(Blocks) /\ {"idle", "have", "have+", "bitfield", "bitfield+", "pick", "scan", "claim"} \subseteq Places
  BY DEF Places
<1>1. CASE ReadAvailability(p)
  BY <1>0, <1>1 DEF ReadAvailability, PeerType, peerVars, pickerVars, remoteVars
<1>2. CASE WriteAvailability(p)
  <2> DEFINE i == Counts(p)
  <2>1. availability' \in [Pieces -> Nat]
    <3>1. availability' = [availability EXCEPT ![i] = seen[p] + 1] /\ pc[p] \in {"have+", "bitfield+"}
      BY <1>2 DEF WriteAvailability
    <3>2. i \in Pieces => seen[p] + 1 \in Nat
      BY <3>1 DEF Counting
    <3>. QED
      BY <3>1, <3>2 DEF PeerType
  <2>2. todo' \in [Peers -> SUBSET Pieces] /\ pc' \in [Peers -> Places] /\ DOMAIN seen' = Peers
    BY <1>0, <1>2 DEF WriteAvailability, PeerType
  <2>. QED
    BY <1>2, <2>1, <2>2 DEF WriteAvailability, PeerType, peerVars, remoteVars
<1>3. CASE FinishBitfield(p)
  <2>1. /\ Goto(p, "idle", <<>>)
        /\ UNCHANGED <<peerVars, availability, todo, seen, inbox, outbox, remoteVars>>
    BY <1>3 DEF FinishBitfield, Return
  <2>2. pc' \in [Peers -> Places] /\ scan' \in [Peers -> Seq(Blocks)]
    BY <1>0, <2>1, WentTo
  <2>. QED
    BY <2>1, <2>2 DEF PeerType, peerVars, remoteVars
<1>4. CASE FinishHave(p)
  <2>1. /\ interested' = [interested EXCEPT ![p] = Interesting(piece_present[p])]
        /\ Goto(p, "pick", <<>>) \/ Goto(p, "idle", <<>>)
        /\ UNCHANGED <<piece_present, choked, blocks_in_queue, todo, seen, availability, inbox, outbox, remoteVars>>
    BY <1>4 DEF FinishHave, StartRequests, Return
  <2>2. pc' \in [Peers -> Places] /\ scan' \in [Peers -> Seq(Blocks)]
    BY <1>0, <2>1, WentTo
  <2>3. interested' \in [Peers -> BOOLEAN]
    BY <2>1 DEF PeerType, Interesting
  <2>. QED
    BY <2>1, <2>2, <2>3 DEF PeerType, remoteVars
<1>5. CASE StorePiece(p)
  <2>1. /\ Goto(p, "pick", <<>>)
        /\ UNCHANGED <<peerVars, availability, todo, seen, inbox, outbox, remoteVars>>
    BY <1>5 DEF StorePiece, StartRequests, pickerVars
  <2>2. pc' \in [Peers -> Places] /\ scan' \in [Peers -> Seq(Blocks)]
    BY <1>0, <2>1, WentTo
  <2>. QED
    BY <2>1, <2>2 DEF PeerType, peerVars, remoteVars
<1>6. CASE Pick(p)
  <2>1. /\ \/ \E i \in Pieces : Goto(p, "scan", BlockList[i])
           \/ Goto(p, "idle", <<>>)
        /\ UNCHANGED <<peerVars, availability, todo, seen, inbox, outbox, remoteVars>>
    <3>1. \A k \in Found(p, buckets') : buckets'[k] \in Pieces
      BY DEF Found, Candidate, PeerType
    <3>. QED
      BY <1>6, <3>1 DEF Pick, Return
  <2>2. \A i \in Pieces : BlockList[i] \in Seq(Blocks)
    <3>1. ASSUME NEW i \in Pieces PROVE BlockList[i] \in Seq(Blocks)
      <4>1. BlockList[i] \in Seq(BlocksOf(i)) /\ BlocksOf(i) \subseteq Blocks
        BY BlockListAssumption DEF BlocksOf
      <4>. QED
        BY <4>1
    <3>. QED
      BY <3>1
  <2>3. pc' \in [Peers -> Places] /\ scan' \in [Peers -> Seq(Blocks)]
    BY <1>0, <2>1, <2>2, WentTo
  <2>. QED
    BY <2>1, <2>3 DEF PeerType, peerVars, remoteVars
<1>7. CASE Scan(p)
  <2>1. pc' \in [Peers -> Places]
    BY <1>0, <1>7 DEF Scan, PeerType
  <2>2. scan' \in [Peers -> Seq(Blocks)]
    <3>1. scan[p] \in Seq(Blocks) /\ scan[p] # <<>>
      BY <1>7 DEF Scan, PeerType
    <3>2. Tail(scan[p]) \in Seq(Blocks)
      BY <3>1
    <3>3. scan' = scan \/ scan' = [scan EXCEPT ![p] = Tail(@)]
      BY <1>7 DEF Scan
    <3>. QED
      BY <3>2, <3>3 DEF PeerType
  <2>. QED
    BY <1>7, <2>1, <2>2 DEF Scan, PeerType, peerVars, pickerVars, remoteVars
<1>8. CASE Claim(p)
  <2>1. (blocks_in_queue[p] + 1) % Modulus \in Int
    BY Wraps DEF PeerType
  <2>2. Head(scan[p]) \in Blocks /\ Tail(scan[p]) \in Seq(Blocks)
    BY <1>8 DEF Claim, Claiming, PeerType
  <2>3. outbox' \in [Peers -> Seq(Blocks)] /\ scan' \in [Peers -> Seq(Blocks)]
    BY <1>8, <2>2 DEF Claim, PeerType
  <2>. QED
    BY <1>0, <1>8, <2>1, <2>3 DEF Claim, PeerType, pickerVars, remoteVars
<1>9. CASE SkipLocked(p)
  <2>1. Tail(scan[p]) \in Seq(Blocks)
    BY <1>9 DEF SkipLocked, Claiming, PeerType
  <2>. QED
    BY <1>0, <1>9, <2>1 DEF SkipLocked, PeerType, peerVars, pickerVars, remoteVars
<1>10. CASE NextAttempt(p)
  <2>1. /\ Goto(p, "pick", <<>>)
        /\ UNCHANGED <<peerVars, availability, todo, seen, inbox, outbox, remoteVars>>
    BY <1>10 DEF NextAttempt, pickerVars
  <2>2. pc' \in [Peers -> Places] /\ scan' \in [Peers -> Seq(Blocks)]
    BY <1>0, <2>1, WentTo
  <2>. QED
    BY <2>1, <2>2 DEF PeerType, peerVars, remoteVars
<1>. QED
  BY <1>1, <1>2, <1>3, <1>4, <1>5, <1>6, <1>7, <1>8, <1>9, <1>10 DEF HandlerStep

LEMMA RemoteTypes ==
    ASSUME PeerType, NEW p \in Peers, Remote(p)
    PROVE  PeerType'
<1>. USE DEF Send, PeerType, ourVars, peerVars, handlerVars, pickerVars
<1>1. ASSUME NEW S \in SUBSET Pieces, RemoteBitfield(p, S) PROVE PeerType'
  <2>1. [type |-> "bitfield", pieces |-> S] \in Messages
    BY DEF Messages
  <2>. QED
    BY <1>1, <2>1 DEF RemoteBitfield
<1>2. ASSUME NEW i \in Pieces, RemoteHave(p, i) PROVE PeerType'
  <2>1. [type |-> "have", piece |-> i] \in Messages
    BY DEF Messages
  <2>. QED
    BY <1>2, <2>1 DEF RemoteHave
<1>3. CASE RemoteUnchoke(p)
  <2>1. [type |-> "unchoke"] \in Messages
    BY DEF Messages
  <2>. QED
    BY <1>3, <2>1 DEF RemoteUnchoke
<1>4. CASE RemoteChoke(p)
  <2>1. [type |-> "choke"] \in Messages
    BY DEF Messages
  <2>. QED
    BY <1>4, <2>1 DEF RemoteChoke
<1>5. CASE RemoteAnswer(p)
  <2>1. Head(outbox[p]) \in Blocks
    BY <1>5 DEF RemoteAnswer
  <2>2. [type |-> "piece", block |-> Head(outbox[p])] \in Messages
    BY <2>1 DEF Messages
  <2>. QED
    BY <1>5, <2>2 DEF RemoteAnswer
<1>6. CASE RemoteDrop(p)
  BY <1>6 DEF RemoteDrop, remoteVars
<1>7. CASE Break(p)
  BY <1>7 DEF Break
<1>. QED
  BY <1>1, <1>2, <1>3, <1>4, <1>5, <1>6, <1>7 DEF Remote

\* The strand tells every peer's interest, and else changes the storage only.
LEMMA StrandSteps ==
    ASSUME PeerType, Strand \/ PickerRace \/ UNCHANGED vars
    PROVE  /\ UNCHANGED <<piece_present, choked, blocks_in_queue, pc, todo, seen, scan,
                          availability, inbox, outbox, remote_choking, offered, greeted, unchoked>>
           /\ \/ UNCHANGED interested
              \/ interested' = [p \in Peers |-> Interesting(piece_present[p])]
  BY DEF Strand, PickerRace, BlockWritten, PieceVerified, PieceFailed, StorageFails, vars,
         peerVars, handlerVars, pickerVars, remoteVars

LEMMA TypesKept ==
    ASSUME PeerType, \A p \in Peers : Counting(p) /\ Claiming(p), [Next]_vars
    PROVE  PeerType'
<1>1. CASE Strand \/ PickerRace \/ UNCHANGED vars
  <2>1. interested' \in [Peers -> BOOLEAN]
    BY <1>1, StrandSteps DEF PeerType, Interesting
  <2>. QED
    BY <1>1, <2>1, StrandSteps DEF PeerType
<1>. QED
  BY <1>1, HandlerTypes, StepTypes, RemoteTypes DEF Next

-----------------------------------------------------------------------------
(* The availability.                                                        *)

\* What belongs to one peer.
Mine(q) == <<piece_present[q], choked[q], interested[q], blocks_in_queue[q], pc[q], todo[q],
             seen[q], scan[q], inbox[q], outbox[q], remote_choking[q], offered[q], greeted[q],
             unchoked[q]>>

\* A handler and a remote change what belongs to their peer and nothing of others.
LEMMA OthersKept ==
    ASSUME PeerType, NEW p \in Peers, NEW q \in Peers, q # p,
           Handler(p) \/ HandlerStep(p) \/ Remote(p)
    PROVE  UNCHANGED Mine(q)
<1>. USE DEF PeerType, Mine, peerVars, handlerVars, pickerVars, remoteVars
<1>1. CASE Handler(p)
  <2>1. CASE ReceiveChoke(p) \/ ReceiveUnchoke(p)
    BY <2>1 DEF ReceiveChoke, ReceiveUnchoke, Receive, StartRequests, Goto
  <2>2. CASE ReceiveHave(p) \/ ReceiveBitfield(p)
    BY <2>2 DEF ReceiveHave, ReceiveBitfield, Receive, Goto
  <2>3. CASE ReceivePiece(p)
    BY <2>3 DEF ReceivePiece, Receive, Goto
  <2>. QED
    BY <1>1, <2>1, <2>2, <2>3 DEF Handler
<1>2. CASE HandlerStep(p)
  <2>1. CASE ReadAvailability(p) \/ WriteAvailability(p)
    BY <2>1 DEF ReadAvailability, WriteAvailability
  <2>2. CASE FinishBitfield(p) \/ FinishHave(p)
    BY <2>2 DEF FinishBitfield, FinishHave, StartRequests, Return, Goto
  <2>3. CASE StorePiece(p)
    BY <2>3 DEF StorePiece, StartRequests, Goto
  <2>4. CASE Pick(p)
    BY <2>4 DEF Pick, Return, Goto
  <2>5. CASE Scan(p) \/ Claim(p) \/ SkipLocked(p) \/ NextAttempt(p)
    BY <2>5 DEF Scan, Claim, SkipLocked, NextAttempt, Goto
  <2>. QED
    BY <1>2, <2>1, <2>2, <2>3, <2>4, <2>5 DEF HandlerStep
<1>3. CASE Remote(p)
  BY <1>3 DEF Remote, RemoteBitfield, RemoteHave, RemoteUnchoke, RemoteChoke, RemoteAnswer,
              RemoteDrop, Break, Send, ourVars
<1>. QED
  BY <1>1, <1>2, <1>3

\* The pieces of p are available, or its handler is about to count them.
Known(p) ==
    \A i \in piece_present[p] :
        \/ availability[i] > 0
        \/ pc[p] \in {"have", "have+", "bitfield", "bitfield+"} /\ i \in todo[p]

Counted(p) == Counting(p) /\ Known(p)

\* Increments may be lost, but no counter returns to 0.
LEMMA NeverZeroAgain ==
    ASSUME PeerType, PeerType', \A q \in Peers : Counting(q), [Next]_vars,
           NEW i \in Pieces, availability[i] > 0
    PROVE  availability'[i] > 0
<1>1. CASE UNCHANGED availability
  BY <1>1
<1>2. ASSUME NEW p \in Peers, WriteAvailability(p) PROVE availability'[i] > 0
  <2>1. CASE i = Counts(p)
    BY <1>2, <2>1 DEF WriteAvailability, Counting, PeerType
  <2>2. CASE i # Counts(p)
    BY <1>2, <2>2 DEF WriteAvailability, PeerType
  <2>. QED
    BY <2>1, <2>2
<1>3. UNCHANGED availability \/ \E p \in Peers : WriteAvailability(p)
  <2>1. CASE Strand \/ PickerRace \/ UNCHANGED vars
    BY <2>1, StrandSteps
  <2>2. ASSUME NEW p \in Peers, Handler(p) PROVE UNCHANGED availability
    BY <2>2 DEF Handler, ReceiveChoke, ReceiveUnchoke, ReceiveHave, ReceiveBitfield, ReceivePiece, pickerVars
  <2>3. ASSUME NEW p \in Peers, HandlerStep(p) PROVE UNCHANGED availability \/ WriteAvailability(p)
    BY <2>3 DEF HandlerStep, ReadAvailability, FinishBitfield, FinishHave, StorePiece, Pick, Scan,
                Claim, SkipLocked, NextAttempt, pickerVars
  <2>4. ASSUME NEW p \in Peers, Remote(p) PROVE UNCHANGED availability
    BY <2>4 DEF Remote, RemoteBitfield, RemoteHave, RemoteUnchoke, RemoteChoke, RemoteAnswer,
                RemoteDrop, Break, ourVars, pickerVars
  <2>. QED
    BY <2>1, <2>2, <2>3, <2>4 DEF Next
<1>. QED
  BY <1>1, <1>2, <1>3

\* A peer whose pieces and place stay as they are.
LEMMA CountedAside ==
    ASSUME PeerType, PeerType', \A q \in Peers : Counted(q), [Next]_vars,
           NEW q \in Peers, UNCHANGED <<piece_present[q], pc[q], todo[q], seen[q]>>
    PROVE  Counted(q)'
<1>1. Counting(q)'
  BY DEF Counted, Counting, Counts
<1>2. ASSUME NEW i \in piece_present'[q], ~(availability'[i] > 0)
      PROVE  pc'[q] \in {"have", "have+", "bitfield", "bitfield+"} /\ i \in todo'[q]
  <2>1. i \in Pieces /\ i \in piece_present[q]
    BY <1>2 DEF PeerType
  <2>2. ~(availability[i] > 0)
    BY <1>2, <2>1, NeverZeroAgain DEF Counted
  <2>. QED
    BY <2>1, <2>2 DEF Counted, Known
<1>. QED
  BY <1>1, <1>2 DEF Counted, Known

LEMMA CountedKept ==
    ASSUME PeerType, PeerType', \A q \in Peers : Counted(q), [Next]_vars
    PROVE  \A q \in Peers : Counted(q)'
<1>1. CASE Strand \/ PickerRace \/ UNCHANGED vars
  BY <1>1, StrandSteps, CountedAside
<1>2. ASSUME NEW p \in Peers, Handler(p) \/ HandlerStep(p) \/ Remote(p)
      PROVE  \A q \in Peers : Counted(q)'
  <2>1. \A q \in Peers : q # p => Counted(q)'
    <3>1. ASSUME NEW q \in Peers, q # p PROVE UNCHANGED <<piece_present[q], pc[q], todo[q], seen[q]>>
      BY <1>2, <3>1, OthersKept DEF Mine
    <3>. QED
      BY <3>1, CountedAside
  <2>2. Counted(p)'
    <3>1. CASE UNCHANGED <<piece_present[p], pc[p], todo[p], seen[p]>>
      BY <3>1, CountedAside
    <3>2. CASE pc[p] \notin {"have", "have+", "bitfield", "bitfield+"}
               /\ UNCHANGED piece_present[p] /\ pc'[p] \notin {"have", "have+", "bitfield", "bitfield+"}
      <4>1. ASSUME NEW i \in piece_present'[p] PROVE availability'[i] > 0
        <5>1. availability[i] > 0 /\ i \in Pieces
          BY <3>2 DEF Counted, Known, PeerType
        <5>. QED
          BY <5>1, NeverZeroAgain DEF Counted
      <4>2. Known(p)'
        BY <4>1 DEF Known
      <4>3. Counting(p)'
        BY <3>2 DEF Counting
      <4>. QED
        BY <4>2, <4>3 DEF Counted
    <3>3. CASE ReceiveHave(p) \/ ReceiveBitfield(p)
      <4>1. /\ pc[p] = "idle" /\ pc'[p] \in {"have", "bitfield"}
            /\ piece_present'[p] = piece_present[p] \cup todo'[p]
        <5>1. CASE ReceiveHave(p)
          BY <5>1 DEF ReceiveHave, Receive, Goto, PeerType
        <5>2. CASE ReceiveBitfield(p)
          BY <5>2 DEF ReceiveBitfield, Receive, Goto, PeerType
        <5>. QED
          BY <3>3, <5>1, <5>2
      <4>2. ASSUME NEW i \in piece_present'[p] PROVE availability'[i] > 0 \/ i \in todo'[p]
        <5>1. CASE i \in todo'[p]
          BY <5>1
        <5>2. CASE i \notin todo'[p]
          <6>1. i \in Pieces /\ availability[i] > 0
            BY <4>1, <4>2, <5>2 DEF Counted, Known, PeerType
          <6>. QED
            BY <6>1, NeverZeroAgain DEF Counted
        <5>. QED
          BY <5>1, <5>2
      <4>3. Known(p)'
        BY <4>1, <4>2 DEF Known
      <4>4. Counting(p)'
        BY <4>1, <4>2 DEF Counting
      <4>. QED
        BY <4>3, <4>4 DEF Counted
    <3>4. CASE ReadAvailability(p)
      <4>1. /\ pc[p] \in {"have", "bitfield"} /\ pc'[p] \in {"have+", "bitfield+"}
            /\ seen'[p] = availability[Counts(p)]
            /\ UNCHANGED <<piece_present, todo, availability>>
        BY <3>4 DEF ReadAvailability, PeerType, peerVars, pickerVars
      <4>2. Counts(p)' \in Pieces => seen'[p] \in Nat
        BY <4>1 DEF PeerType, Counts
      <4>. QED
        BY <4>1, <4>2 DEF Counted, Counting, Known
    <3>5. CASE WriteAvailability(p)
      <4> DEFINE first == Counts(p)
      <4>1. /\ pc[p] \in {"have+", "bitfield+"} /\ pc'[p] \in {"have", "bitfield"}
            /\ availability' = [availability EXCEPT ![first] = seen[p] + 1]
            /\ todo'[p] = todo[p] \ {first} /\ UNCHANGED piece_present
        BY <3>5 DEF WriteAvailability, PeerType, peerVars
      <4>2. ASSUME NEW i \in piece_present'[p] PROVE availability'[i] > 0 \/ i \in todo'[p]
        <5>1. i \in Pieces /\ (availability[i] > 0 \/ i \in todo[p])
          BY <4>1 DEF Counted, Known, PeerType
        <5>2. CASE availability[i] > 0
          BY <5>1, <5>2, NeverZeroAgain DEF Counted
        <5>3. CASE i \in todo[p] /\ i # first
          BY <4>1, <5>3
        <5>4. CASE i = first
          <6>1. seen[p] \in Nat /\ availability'[i] = seen[p] + 1
            BY <4>1, <5>1, <5>4 DEF Counted, Counting, PeerType
          <6>. QED
            BY <6>1
        <5>. QED
          BY <5>1, <5>2, <5>3, <5>4
      <4>3. Known(p)'
        BY <4>1, <4>2 DEF Known
      <4>4. Counting(p)'
        BY <4>1 DEF Counting
      <4>. QED
        BY <4>3, <4>4 DEF Counted
    <3>6. CASE FinishBitfield(p) \/ FinishHave(p)
      <4>1. todo[p] = {} /\ UNCHANGED <<piece_present, availability>> /\ pc'[p] \in {"pick", "idle"}
        BY <3>6 DEF FinishBitfield, FinishHave, StartRequests, Return, Goto, PeerType, peerVars
      <4>. QED
        BY <4>1 DEF Counted, Counting, Known
    <3>7. Handler(p) => \/ ReceiveHave(p) \/ ReceiveBitfield(p)
                        \/ UNCHANGED <<piece_present[p], pc[p], todo[p], seen[p]>>
                        \/ pc[p] = "idle" /\ UNCHANGED piece_present[p] /\ pc'[p] \in {"pick", "store"}
      <4>1. ReceiveChoke(p) => UNCHANGED <<piece_present[p], pc[p], todo[p], seen[p]>>
        BY DEF ReceiveChoke, handlerVars
      <4>2. ReceiveUnchoke(p) => pc[p] = "idle" /\ UNCHANGED piece_present[p] /\ pc'[p] = "pick"
        BY DEF ReceiveUnchoke, Receive, StartRequests, Goto, PeerType
      <4>3. ReceivePiece(p) => /\ pc[p] = "idle" /\ UNCHANGED piece_present[p]
                               /\ pc'[p] = "store" \/ UNCHANGED <<pc, todo, seen>>
        BY DEF ReceivePiece, Receive, Goto, PeerType
      <4>. QED
        BY <4>1, <4>2, <4>3 DEF Handler
    <3>8. HandlerStep(p) => \/ ReadAvailability(p) \/ WriteAvailability(p)
                            \/ FinishBitfield(p) \/ FinishHave(p)
                            \/ /\ pc[p] \in {"store", "pick", "scan", "claim"} /\ UNCHANGED piece_present[p]
                               /\ pc'[p] \in {"idle", "pick", "scan", "claim"}
      <4>1. StorePiece(p) \/ Pick(p) => /\ pc[p] \in {"store", "pick"} /\ UNCHANGED piece_present[p]
                                       /\ pc'[p] \in {"idle", "pick", "scan"}
        BY DEF StorePiece, Pick, StartRequests, Return, Goto, PeerType, peerVars
      <4>2. Scan(p) \/ Claim(p) \/ SkipLocked(p) \/ NextAttempt(p) =>
              /\ pc[p] \in {"scan", "claim"} /\ UNCHANGED piece_present[p]
              /\ pc'[p] \in {"scan", "claim", "pick"}
        BY DEF Scan, Claim, SkipLocked, NextAttempt, Goto, PeerType, peerVars
      <4>. QED
        BY <4>1, <4>2 DEF HandlerStep
    <3>9. Remote(p) => UNCHANGED <<piece_present[p], pc[p], todo[p], seen[p]>>
      BY DEF Remote, RemoteBitfield, RemoteHave, RemoteUnchoke, RemoteChoke, RemoteAnswer,
             RemoteDrop, Break, ourVars, peerVars, handlerVars
    <3>. QED
      BY <1>2, <3>1, <3>2, <3>3, <3>4, <3>5, <3>6, <3>7, <3>8, <3>9
  <2>. QED
    BY <2>1, <2>2
<1>. QED
  BY <1>1, <1>2 DEF Next

-----------------------------------------------------------------------------
(* The requests.                                                            *)

\* A remote sends what it has, and an UNCHOKE before any PIECE.
Honest(p, m) ==
    /\ m.type = "have" => m.piece \in offered[p]
    /\ m.type = "bitfield" => m.pieces \subseteq offered[p]
    /\ m.type \in {"unchoke", "piece"} => unchoked[p]

Told(p) ==
    /\ ~greeted[p] => offered[p] = {}
    /\ piece_present[p] \subseteq offered[p]
    /\ \A k \in DOMAIN inbox[p] : Honest(p, inbox[p][k])

\* A handler requests blocks only after an UNCHOKE.
Unchoked(p) ==
    \/ ~choked[p]
    \/ ~remote_choking[p]
    \/ blocks_in_queue[p] > 0
    \/ pc[p] \in {"store", "pick", "scan", "claim"}
    => unchoked[p]

\* INTERESTED is sent before a handler that learnt of a piece goes on to requests.
Interest(p) == piece_present[p] # {} /\ pc[p] \notin {"have", "have+"} => interested[p]

\* What is looked at and what is asked for belongs to the pieces of p.
Scanned(p) ==
    pc[p] \in {"scan", "claim"} => \A k \in DOMAIN scan[p] : PieceOf[scan[p][k]] \in piece_present[p]
Asked(p) ==
    \A k \in DOMAIN outbox[p] : PieceOf[outbox[p][k]] \in piece_present[p] /\ interested[p]

Welcomed(p) ==
    /\ Told(p) /\ Unchoked(p) /\ Interest(p)
    /\ Scanned(p) /\ Claiming(p) /\ Asked(p)

LEMMA WelcomedAside ==
    ASSUME NEW q \in Peers, Welcomed(q), UNCHANGED Mine(q)
    PROVE  Welcomed(q)'
  BY DEF Welcomed, Told, Honest, Unchoked, Interest, Scanned, Claiming, Asked, Mine

\* What the remote has said stays said.
LEMMA SaidKept ==
    ASSUME PeerType, NEW p \in Peers, Told(p), Handler(p) \/ HandlerStep(p) \/ Remote(p)
    PROVE  /\ offered[p] \subseteq offered'[p]
           /\ ~greeted'[p] => ~greeted[p] /\ offered'[p] = offered[p]
           /\ unchoked[p] => unchoked'[p]
           /\ piece_present[p] \subseteq piece_present'[p]
<1>1. CASE Handler(p)
  <2>1. UNCHANGED <<offered, greeted, unchoked>>
    BY <1>1 DEF Handler, ReceiveChoke, ReceiveUnchoke, ReceiveHave, ReceiveBitfield, ReceivePiece, remoteVars
  <2>2. piece_present[p] \subseteq piece_present'[p]
    <3>1. CASE ReceiveHave(p) \/ ReceiveBitfield(p)
      BY <3>1 DEF ReceiveHave, ReceiveBitfield, PeerType
    <3>2. CASE ReceiveChoke(p) \/ ReceiveUnchoke(p) \/ ReceivePiece(p)
      BY <3>2 DEF ReceiveChoke, ReceiveUnchoke, ReceivePiece
    <3>. QED
      BY <1>1, <3>1, <3>2 DEF Handler
  <2>. QED
    BY <2>1, <2>2
<1>2. CASE HandlerStep(p)
  BY <1>2 DEF HandlerStep, ReadAvailability, WriteAvailability, FinishBitfield, FinishHave, StorePiece,
              Pick, Scan, Claim, SkipLocked, NextAttempt, remoteVars, peerVars
<1>3. CASE Remote(p)
  <2>1. CASE \E S \in SUBSET Pieces : RemoteBitfield(p, S)
    BY <2>1 DEF RemoteBitfield, Send, Told, ourVars, peerVars, PeerType
  <2>2. CASE (\E i \in Pieces : RemoteHave(p, i)) \/ RemoteUnchoke(p) \/ RemoteChoke(p) \/ RemoteAnswer(p)
    <3>1. greeted'[p] /\ UNCHANGED piece_present
      BY <2>2 DEF RemoteHave, RemoteUnchoke, RemoteChoke, RemoteAnswer, Send, ourVars, peerVars, PeerType
    <3>2. offered[p] \subseteq offered'[p]
      BY <2>2 DEF RemoteHave, RemoteUnchoke, RemoteChoke, RemoteAnswer, PeerType
    <3>3. unchoked[p] => unchoked'[p]
      BY <2>2 DEF RemoteHave, RemoteUnchoke, RemoteChoke, RemoteAnswer, PeerType
    <3>. QED
      BY <3>1, <3>2, <3>3
  <2>3. CASE RemoteDrop(p) \/ Break(p)
    BY <2>3 DEF RemoteDrop, Break, ourVars, peerVars, remoteVars
  <2>. QED
    BY <1>3, <2>1, <2>2, <2>3 DEF Remote
<1>. QED
  BY <1>1, <1>2, <1>3

LEMMA ToldKept ==
    ASSUME PeerType, NEW p \in Peers, Welcomed(p), Handler(p) \/ HandlerStep(p) \/ Remote(p)
    PROVE  Told(p)'
<1>0. Told(p)
  BY DEF Welcomed
<1>1. \A m : Honest(p, m) => Honest(p, m)'
  BY <1>0, SaidKept DEF Honest
<1>2. CASE Handler(p)
  <2>1. inbox[p] # <<>> /\ inbox[p] \in Seq(Messages) /\ inbox'[p] = Tail(inbox[p])
    BY <1>2 DEF Handler, ReceiveChoke, ReceiveUnchoke, ReceiveHave, ReceiveBitfield, ReceivePiece,
                Receive, PeerType
  <2>2. Honest(p, Head(inbox[p]))
    BY <1>0, <2>1 DEF Told
  <2>3. \A k \in DOMAIN inbox'[p] : Honest(p, inbox'[p][k])
    BY <1>0, <2>1 DEF Told
  <2>4. piece_present'[p] \subseteq offered[p]
    <3>1. CASE ReceiveHave(p)
      BY <1>0, <2>2, <3>1 DEF ReceiveHave, Receive, Told, Honest, PeerType
    <3>2. CASE ReceiveBitfield(p)
      BY <1>0, <2>2, <3>2 DEF ReceiveBitfield, Receive, Told, Honest, PeerType
    <3>3. CASE ReceiveChoke(p) \/ ReceiveUnchoke(p) \/ ReceivePiece(p)
      BY <1>0, <3>3 DEF ReceiveChoke, ReceiveUnchoke, ReceivePiece, Told
    <3>. QED
      BY <1>2, <3>1, <3>2, <3>3 DEF Handler
  <2>. QED
    BY <1>0, <1>1, <2>3, <2>4, SaidKept DEF Told
<1>3. CASE HandlerStep(p)
  <2>1. UNCHANGED <<inbox, piece_present>>
    BY <1>3 DEF HandlerStep, ReadAvailability, WriteAvailability, FinishBitfield, FinishHave, StorePiece,
                Pick, Scan, Claim, SkipLocked, NextAttempt, peerVars
  <2>. QED
    BY <1>0, <1>1, <2>1, SaidKept DEF Told
<1>4. CASE Remote(p)
  <2>1. UNCHANGED piece_present
    BY <1>4 DEF Remote, RemoteBitfield, RemoteHave, RemoteUnchoke, RemoteChoke, RemoteAnswer,
                RemoteDrop, Break, ourVars, peerVars
  <2>2. CASE UNCHANGED inbox \/ inbox'[p] = <<>>
    BY <1>0, <1>1, <1>4, <2>1, <2>2, SaidKept DEF Told
  <2>3. ASSUME NEW m, inbox'[p] = Append(inbox[p], m), Honest(p, m)' PROVE Told(p)'
    <3>1. inbox[p] \in Seq(Messages)
      BY DEF PeerType
    <3>2. \A k \in DOMAIN inbox'[p] : \/ inbox'[p][k] = m
                                      \/ k \in DOMAIN inbox[p] /\ inbox'[p][k] = inbox[p][k]
      BY <2>3, <3>1
    <3>3. (\A k \in DOMAIN inbox[p] : Honest(p, inbox[p][k]))'
      BY <1>0, <1>1, <2>3, <3>2 DEF Told
    <3>. QED
      BY <1>0, <1>4, <2>1, <3>3, SaidKept DEF Told
  <2>4. ASSUME NEW S \in SUBSET Pieces, RemoteBitfield(p, S) PROVE Told(p)'
    <3>1. /\ inbox'[p] = Append(inbox[p], [type |-> "bitfield", pieces |-> S])
          /\ offered'[p] = S
      BY <2>4 DEF RemoteBitfield, Send, PeerType
    <3>. QED
      BY <2>3, <3>1 DEF Honest
  <2>5. ASSUME NEW i \in Pieces, RemoteHave(p, i) PROVE Told(p)'
    <3>1. /\ inbox'[p] = Append(inbox[p], [type |-> "have", piece |-> i])
          /\ i \in offered'[p]
      BY <2>5 DEF RemoteHave, Send, PeerType
    <3>. QED
      BY <2>3, <3>1 DEF Honest
  <2>6. CASE RemoteUnchoke(p)
    <3>1. inbox'[p] = Append(inbox[p], [type |-> "unchoke"]) /\ unchoked'[p]
      BY <2>6 DEF RemoteUnchoke, Send, PeerType
    <3>. QED
      BY <2>3, <3>1 DEF Honest
  <2>7. CASE RemoteChoke(p)
    <3>1. inbox'[p] = Append(inbox[p], [type |-> "choke"])
      BY <2>7 DEF RemoteChoke, Send, PeerType
    <3>. QED
      BY <2>3, <3>1 DEF Honest
  <2>8. CASE RemoteAnswer(p)
    <3>1. /\ inbox'[p] = Append(inbox[p], [type |-> "piece", block |-> Head(outbox[p])])
          /\ ~remote_choking[p] /\ unchoked' = unchoked
      BY <2>8 DEF RemoteAnswer, Send, PeerType
    <3>2. unchoked'[p]
      BY <3>1 DEF Welcomed, Unchoked
    <3>. QED
      BY <2>3, <3>1, <3>2 DEF Honest
  <2>9. CASE RemoteDrop(p) \/ Break(p)
    BY <2>2, <2>9 DEF RemoteDrop, Break, PeerType
  <2>. QED
    BY <1>4, <2>4, <2>5, <2>6, <2>7, <2>8, <2>9 DEF Remote
<1>. QED
  BY <1>2, <1>3, <1>4


\* Before the first UNCHOKE no step of p leads to a request.
LEMMA UnchokedKept ==
    ASSUME PeerType, NEW p \in Peers, Welcomed(p), Handler(p) \/ HandlerStep(p) \/ Remote(p)
    PROVE  Unchoked(p)'
<1>1. CASE unchoked[p]
  BY <1>1, SaidKept DEF Welcomed, Unchoked
<1>2. CASE ~unchoked[p]
  <2>1. /\ choked[p] /\ remote_choking[p] /\ ~(blocks_in_queue[p] > 0)
        /\ pc[p] \notin {"store", "pick", "scan", "claim"}
        /\ \A k \in DOMAIN inbox[p] : inbox[p][k].type \notin {"unchoke", "piece"}
    BY <1>2 DEF Welcomed, Unchoked, Told, Honest
  <2>2. CASE Handler(p)
    <3>1. ReceiveChoke(p) \/ ReceiveHave(p) \/ ReceiveBitfield(p)
      <4>1. ASSUME NEW type, Receive(p, type) PROVE type \notin {"unchoke", "piece"}
        <5>1. inbox[p] \in Seq(Messages) /\ inbox[p] # <<>> /\ inbox[p][1].type = type
          BY <4>1 DEF Receive, PeerType
        <5>2. 1 \in DOMAIN inbox[p]
          BY <5>1
        <5>. QED
          BY <2>1, <5>1, <5>2
      <4>. QED
        BY <2>2, <4>1 DEF Handler, ReceiveUnchoke, ReceivePiece
    <3>2. choked'[p] /\ UNCHANGED <<remote_choking, blocks_in_queue>>
      BY <2>1, <3>1 DEF ReceiveChoke, ReceiveHave, ReceiveBitfield, remoteVars, PeerType
    <3>3. pc'[p] \in {"idle", "have", "bitfield"}
      BY <3>1 DEF ReceiveChoke, ReceiveHave, ReceiveBitfield, Receive, Goto, handlerVars, PeerType
    <3>. QED
      BY <2>1, <3>2, <3>3 DEF Unchoked
  <2>3. CASE HandlerStep(p)
    <3>1. ReadAvailability(p) \/ WriteAvailability(p) \/ FinishBitfield(p) \/ FinishHave(p)
      BY <2>1, <2>3 DEF HandlerStep, StorePiece, Pick, Scan, Claim, SkipLocked, NextAttempt
    <3>2. UNCHANGED <<choked, remote_choking, blocks_in_queue>>
      BY <3>1 DEF ReadAvailability, WriteAvailability, FinishBitfield, FinishHave, peerVars, remoteVars
    <3>3. pc'[p] \in {"idle", "have", "have+", "bitfield", "bitfield+"}
      <4>1. CASE ReadAvailability(p) \/ WriteAvailability(p)
        BY <4>1 DEF ReadAvailability, WriteAvailability, PeerType
      <4>2. CASE FinishBitfield(p) \/ FinishHave(p)
        BY <2>1, <4>2 DEF FinishBitfield, FinishHave, Return, Goto, PeerType
      <4>. QED
        BY <3>1, <4>1, <4>2
    <3>. QED
      BY <2>1, <3>2, <3>3 DEF Unchoked
  <2>4. CASE Remote(p)
    <3>1. CASE RemoteUnchoke(p)
      BY <3>1 DEF RemoteUnchoke, Unchoked, PeerType
    <3>2. CASE ~RemoteUnchoke(p)
      <4>1. UNCHANGED <<choked, blocks_in_queue, pc>>
        BY <2>4, <3>2 DEF Remote, RemoteBitfield, RemoteHave, RemoteChoke, RemoteAnswer,
                        RemoteDrop, Break, ourVars, peerVars, handlerVars
      <4>2. remote_choking'[p]
        BY <2>1, <2>4, <3>2 DEF Remote, RemoteBitfield, RemoteHave, RemoteChoke, RemoteAnswer,
                        RemoteDrop, Break, remoteVars, PeerType
      <4>. QED
        BY <2>1, <4>1, <4>2 DEF Unchoked
    <3>. QED
      BY <3>1, <3>2
  <2>. QED
    BY <2>2, <2>3, <2>4
<1>. QED
  BY <1>1, <1>2

LEMMA InterestKept ==
    ASSUME PeerType, NEW p \in Peers, Welcomed(p), Handler(p) \/ HandlerStep(p) \/ Remote(p)
    PROVE  Interest(p)'
<1>0. Interest(p)
  BY DEF Welcomed
<1>1. CASE ReceiveHave(p)
  BY <1>1 DEF ReceiveHave, Goto, PeerType, Interest
<1>2. CASE ReceiveBitfield(p)
  BY <1>2 DEF ReceiveBitfield, Interesting, HaveBitfield, PeerType, Interest
<1>3. CASE FinishHave(p)
  BY <1>3 DEF FinishHave, Interesting, HaveBitfield, PeerType, Interest
<1>4. CASE UNCHANGED <<piece_present[p], interested[p]>>
           /\ (pc[p] \in {"have", "have+"} => pc'[p] \in {"have", "have+"})
  BY <1>0, <1>4 DEF Interest
<1>5. Handler(p) => \/ ReceiveHave(p) \/ ReceiveBitfield(p)
                    \/ UNCHANGED <<piece_present[p], interested[p]>> /\ pc[p] = "idle"
  BY DEF Handler, ReceiveChoke, ReceiveUnchoke, ReceivePiece, Receive
<1>6. ReadAvailability(p) \/ WriteAvailability(p) =>
        /\ UNCHANGED <<piece_present[p], interested[p]>>
        /\ pc[p] \in {"have", "have+"} => pc'[p] \in {"have", "have+"}
  BY DEF ReadAvailability, WriteAvailability, peerVars, PeerType
<1>7. HandlerStep(p) =>
        \/ FinishHave(p) \/ ReadAvailability(p) \/ WriteAvailability(p)
        \/ UNCHANGED <<piece_present[p], interested[p]>> /\ pc[p] \notin {"have", "have+"}
  BY DEF HandlerStep, FinishBitfield, StorePiece, Pick, Scan, Claim, SkipLocked, NextAttempt, peerVars
<1>8. Remote(p) => UNCHANGED <<piece_present[p], interested[p], pc[p]>>
  BY DEF Remote, RemoteBitfield, RemoteHave, RemoteUnchoke, RemoteChoke, RemoteAnswer,
         RemoteDrop, Break, ourVars, peerVars, handlerVars
<1>. QED
  BY <1>1, <1>2, <1>3, <1>4, <1>5, <1>6, <1>7, <1>8


LEMMA ScannedKept ==
    ASSUME PeerType, NEW p \in Peers, Welcomed(p), Handler(p) \/ HandlerStep(p) \/ Remote(p)
    PROVE  Scanned(p)' /\ Claiming(p)'
<1>0. Scanned(p) /\ Claiming(p) /\ scan[p] \in Seq(Blocks)
  BY DEF Welcomed, PeerType
<1>1. CASE pc'[p] \notin {"scan", "claim"}
  BY <1>1 DEF Scanned, Claiming
<1>2. CASE UNCHANGED <<pc[p], scan[p], piece_present[p]>>
  BY <1>0, <1>2 DEF Scanned, Claiming
<1>3. CASE Pick(p) /\ pc'[p] = "scan"
  <2>1. PICK k \in Found(p, buckets') : scan'[p] = BlockList[buckets'[k]]
    BY <1>3 DEF Pick, Return, Goto, PeerType
  <2> DEFINE i == buckets'[k]
  <2>2. i \in piece_present[p] /\ i \in Pieces
    BY DEF Found, Candidate, PeerType
  <2>3. \A n \in DOMAIN BlockList[i] : PieceOf[BlockList[i][n]] = i
    <3>1. BlockList[i] \in Seq(BlocksOf(i))
      BY <2>2, BlockListAssumption
    <3>. QED
      BY <3>1 DEF BlocksOf
  <2>4. UNCHANGED piece_present
    BY <1>3 DEF Pick, peerVars
  <2>. QED
    BY <1>3, <2>1, <2>2, <2>3, <2>4 DEF Scanned, Claiming
<1>4. CASE Scan(p) \/ Claim(p) \/ SkipLocked(p)
  <2>1. pc[p] \in {"scan", "claim"} /\ scan[p] # <<>>
    BY <1>0, <1>4 DEF Scan, Claim, SkipLocked, Claiming
  <2>2. UNCHANGED piece_present
    BY <1>4 DEF Scan, Claim, SkipLocked, peerVars
  <2>3. CASE UNCHANGED scan[p]
    BY <1>0, <2>1, <2>2, <2>3 DEF Scanned, Claiming
  <2>4. CASE scan'[p] = Tail(scan[p]) /\ pc'[p] = "scan"
    <3>1. \A k \in DOMAIN scan'[p] : k + 1 \in DOMAIN scan[p] /\ scan'[p][k] = scan[p][k + 1]
      BY <1>0, <2>1, <2>4
    <3>. QED
      BY <1>0, <2>1, <2>2, <2>4, <3>1 DEF Scanned, Claiming
  <2>. QED
    BY <1>4, <2>3, <2>4 DEF Scan, Claim, SkipLocked, PeerType
<1>5. Handler(p) => pc'[p] \notin {"scan", "claim"} \/ UNCHANGED <<pc[p], scan[p], piece_present[p]>>
  <2>1. ReceiveChoke(p) \/ ReceiveUnchoke(p) => pc'[p] \in {"idle", "pick"}
    BY DEF ReceiveChoke, ReceiveUnchoke, Receive, StartRequests, Goto, handlerVars, PeerType
  <2>2. ReceiveHave(p) \/ ReceiveBitfield(p) => pc'[p] \in {"have", "bitfield"}
    BY DEF ReceiveHave, ReceiveBitfield, Goto, PeerType
  <2>3. ReceivePiece(p) => pc'[p] \in {"idle", "store"}
    BY DEF ReceivePiece, Receive, Goto, PeerType
  <2>. QED
    BY <2>1, <2>2, <2>3 DEF Handler
<1>6. HandlerStep(p) => \/ pc'[p] \notin {"scan", "claim"}
                        \/ Pick(p) /\ pc'[p] = "scan"
                        \/ Scan(p) \/ Claim(p) \/ SkipLocked(p)
  <2>1. ReadAvailability(p) \/ WriteAvailability(p) => pc'[p] \notin {"scan", "claim"}
    BY DEF ReadAvailability, WriteAvailability, PeerType
  <2>2. FinishBitfield(p) \/ FinishHave(p) \/ StorePiece(p) \/ NextAttempt(p) => pc'[p] \in {"idle", "pick"}
    BY DEF FinishBitfield, FinishHave, StorePiece, NextAttempt, StartRequests, Return, Goto, PeerType
  <2>3. Pick(p) => pc'[p] \in {"idle", "scan"}
    BY DEF Pick, Return, Goto, PeerType
  <2>. QED
    BY <2>1, <2>2, <2>3 DEF HandlerStep
<1>7. Remote(p) => UNCHANGED <<pc[p], scan[p], piece_present[p]>>
  BY DEF Remote, RemoteBitfield, RemoteHave, RemoteUnchoke, RemoteChoke, RemoteAnswer,
         RemoteDrop, Break, ourVars, peerVars, handlerVars
<1>. QED
  BY <1>1, <1>2, <1>3, <1>4, <1>5, <1>6, <1>7

\* Who has heard of our interest in a piece is not told otherwise: nothing is ever
\* verified in the picker's bitfield.
LEMMA StaysInterested ==
    ASSUME PeerType, NEW p \in Peers, interested[p], piece_present[p] # {},
           Handler(p) \/ HandlerStep(p) \/ Remote(p)
    PROVE  interested'[p]
<1>1. CASE ReceiveBitfield(p) \/ FinishHave(p)
  BY <1>1 DEF ReceiveBitfield, FinishHave, Interesting, HaveBitfield, PeerType
<1>2. Handler(p) => ReceiveBitfield(p) \/ UNCHANGED interested
  BY DEF Handler, ReceiveChoke, ReceiveUnchoke, ReceiveHave, ReceivePiece
<1>3. HandlerStep(p) => FinishHave(p) \/ UNCHANGED interested
  BY DEF HandlerStep, ReadAvailability, WriteAvailability, FinishBitfield, StorePiece, Pick, Scan,
         Claim, SkipLocked, NextAttempt, peerVars
<1>4. Remote(p) => UNCHANGED interested
  BY DEF Remote, RemoteBitfield, RemoteHave, RemoteUnchoke, RemoteChoke, RemoteAnswer,
         RemoteDrop, Break, ourVars, peerVars
<1>. QED
  BY <1>1, <1>2, <1>3, <1>4

LEMMA AskedKept ==
    ASSUME PeerType, NEW p \in Peers, Welcomed(p), Handler(p) \/ HandlerStep(p) \/ Remote(p)
    PROVE  Asked(p)'
<1>0. Told(p) /\ Asked(p) /\ Scanned(p) /\ Claiming(p) /\ Interest(p) /\ outbox[p] \in Seq(Blocks)
  BY DEF Welcomed, PeerType
<1>1. \A k \in DOMAIN outbox[p] : PieceOf[outbox[p][k]] \in piece_present'[p] /\ interested'[p]
  BY <1>0, SaidKept, StaysInterested DEF Asked
<1>2. CASE UNCHANGED outbox[p]
  BY <1>1, <1>2 DEF Asked
<1>3. CASE Claim(p)
  <2>1. /\ pc[p] = "claim" /\ scan[p] # <<>> /\ scan[p] \in Seq(Blocks)
        /\ outbox'[p] = Append(outbox[p], Head(scan[p])) /\ UNCHANGED <<piece_present, interested>>
    BY <1>0, <1>3 DEF Claim, Claiming, PeerType
  <2>2. PieceOf[Head(scan[p])] \in piece_present[p]
    BY <1>0, <2>1 DEF Scanned
  <2>3. interested[p]
    BY <1>0, <2>1, <2>2 DEF Interest
  <2>4. \A k \in DOMAIN outbox'[p] :
          \/ outbox'[p][k] = Head(scan[p])
          \/ k \in DOMAIN outbox[p] /\ outbox'[p][k] = outbox[p][k]
    BY <1>0, <2>1
  <2>. QED
    BY <1>1, <2>1, <2>2, <2>3, <2>4 DEF Asked
<1>4. CASE RemoteAnswer(p) \/ RemoteDrop(p)
  <2>1. outbox[p] # <<>> /\ outbox'[p] = Tail(outbox[p])
    BY <1>4 DEF RemoteAnswer, RemoteDrop, PeerType
  <2>2. \A k \in DOMAIN outbox'[p] : k + 1 \in DOMAIN outbox[p] /\ outbox'[p][k] = outbox[p][k + 1]
    BY <1>0, <2>1
  <2>. QED
    BY <1>1, <2>2 DEF Asked
<1>5. Handler(p) => UNCHANGED outbox
  BY DEF Handler, ReceiveChoke, ReceiveUnchoke, ReceiveHave, ReceiveBitfield, ReceivePiece
<1>6. HandlerStep(p) => Claim(p) \/ UNCHANGED outbox
  BY DEF HandlerStep, ReadAvailability, WriteAvailability, FinishBitfield, FinishHave, StorePiece, Pick,
         Scan, SkipLocked, NextAttempt
<1>7. Remote(p) => RemoteAnswer(p) \/ RemoteDrop(p) \/ UNCHANGED outbox
  BY DEF Remote, RemoteBitfield, RemoteHave, RemoteUnchoke, RemoteChoke, Break
<1>. QED
  BY <1>2, <1>3, <1>4, <1>5, <1>6, <1>7


LEMMA WelcomedKept ==
    ASSUME PeerType, \A q \in Peers : Welcomed(q), [Next]_vars
    PROVE  \A q \in Peers : Welcomed(q)'
<1>1. ASSUME Strand \/ PickerRace \/ UNCHANGED vars, NEW q \in Peers PROVE Welcomed(q)'
  <2>1. UNCHANGED <<piece_present, choked, blocks_in_queue, pc, scan, inbox, outbox,
                    remote_choking, offered, greeted, unchoked>>
    BY <1>1, StrandSteps
  <2>2. piece_present[q] # {} /\ interested[q] => interested'[q]
    BY <1>1, StrandSteps DEF Interesting, HaveBitfield
  <2>3. Told(q)' /\ Unchoked(q)' /\ Scanned(q)' /\ Claiming(q)'
    BY <2>1 DEF Welcomed, Told, Honest, Unchoked, Scanned, Claiming
  <2>4. Interest(q)' /\ Asked(q)'
    BY <2>1, <2>2 DEF Welcomed, Interest, Asked
  <2>. QED
    BY <2>3, <2>4 DEF Welcomed
<1>2. ASSUME NEW p \in Peers, Handler(p) \/ HandlerStep(p) \/ Remote(p), NEW q \in Peers
      PROVE  Welcomed(q)'
  <2>1. CASE q = p
    BY <1>2, <2>1, ToldKept, UnchokedKept, InterestKept, ScannedKept, AskedKept DEF Welcomed
  <2>2. CASE q # p
    BY <1>2, <2>2, OthersKept, WelcomedAside
  <2>. QED
    BY <2>1, <2>2
<1>. QED
  BY <1>1, <1>2 DEF Next

-----------------------------------------------------------------------------
PeerInv ==
    /\ PeerType
    /\ \A p \in Peers : Counted(p) /\ Welcomed(p)

\* Every reachable state keeps, peer by peer, what the remote has said apart from what
\* the handler has made of it so far.
THEOREM PeerInvariant == Spec => []PeerInv
<1>1. Init => PeerInv
  <2> SUFFICES ASSUME Init PROVE PeerInv
    OBVIOUS
  <2>1. PeerType
    <3>1. {piece_present, offered, todo} \subseteq [Peers -> SUBSET Pieces]
      BY DEF Init
    <3>2. {choked, interested, remote_choking, greeted, unchoked} \subseteq [Peers -> BOOLEAN]
      BY DEF Init
    <3>3. availability \in [Pieces -> Nat] /\ blocks_in_queue \in [Peers -> Int]
      <4>1. availability = [i \in Pieces |-> 0] /\ blocks_in_queue = [p \in Peers |-> 0]
        BY DEF Init
      <4>2. 0 \in Nat /\ 0 \in Int
        OBVIOUS
      <4>3. availability \in [Pieces -> Nat]
        BY <4>1, <4>2, Zenon
      <4>4. blocks_in_queue \in [Peers -> Int]
        BY <4>1, <4>2, Zenon
      <4>. QED
        BY <4>3, <4>4
    <3>4. pc \in [Peers -> Places]
      <4>1. "idle" \in Places
        BY DEF Places
      <4>. QED
        BY <4>1 DEF Init
    <3>5. DOMAIN seen = Peers
      BY DEF Init
    <3>6. inbox \in [Peers -> Seq(Messages)]
      <4>1. <<>> \in Seq(Messages)
        OBVIOUS
      <4>. QED
        BY <4>1 DEF Init
    <3>7. {outbox, scan} \subseteq [Peers -> Seq(Blocks)]
      <4>1. <<>> \in Seq(Blocks)
        OBVIOUS
      <4>2. outbox \in [Peers -> Seq(Blocks)]
        BY <4>1 DEF Init
      <4>3. scan \in [Peers -> Seq(Blocks)]
        BY <4>1 DEF Init
      <4>. QED
        BY <4>2, <4>3
    <3>. QED
      BY <3>1, <3>2, <3>3, <3>4, <3>5, <3>6, <3>7 DEF PeerType
  <2>2. ASSUME NEW p \in Peers PROVE Counted(p) /\ Welcomed(p)
    <3>1. /\ piece_present[p] = {} /\ offered[p] = {} /\ inbox[p] = <<>> /\ outbox[p] = <<>>
          /\ choked[p] /\ remote_choking[p] /\ blocks_in_queue[p] = 0 /\ pc[p] = "idle"
      BY DEF Init
    <3>2. Counted(p)
      BY <3>1 DEF Counted, Counting, Known
    <3>3. Told(p) /\ Asked(p)
      BY <3>1 DEF Told, Asked
    <3>4. Unchoked(p) /\ Interest(p) /\ Scanned(p) /\ Claiming(p)
      BY <3>1 DEF Unchoked, Interest, Scanned, Claiming
    <3>. QED
      BY <3>2, <3>3, <3>4 DEF Welcomed
  <2>. QED
    BY <2>1, <2>2 DEF PeerInv
<1>2. PeerInv /\ [Next]_vars => PeerInv'
  <2> SUFFICES ASSUME PeerInv, [Next]_vars PROVE PeerInv'
    OBVIOUS
  <2>1. PeerType'
    BY TypesKept DEF PeerInv, Counted, Welcomed
  <2>2. \A p \in Peers : Counted(p)'
    BY <2>1, CountedKept DEF PeerInv
  <2>3. \A p \in Peers : Welcomed(p)'
    BY WelcomedKept DEF PeerInv
  <2>. QED
    BY <2>1, <2>2, <2>3 DEF PeerInv
<1>. QED
  BY <1>1, <1>2, PTL DEF Spec

\* A piece that a peer is known to have has an availability above 0, or its handler
\* is about to count it, however many threads race on the counters: next() never
\* skips it for good.
THEOREM AvailabilityIsKnown == Spec => []AvailabilityKnown
<1>1. PeerInv => AvailabilityKnown
  BY DEF PeerInv, Counted, Known, AvailabilityKnown
<1>. QED
  BY <1>1, PeerInvariant, PTL

\* A REQUEST goes only to a peer that has offered the piece, knows of our interest
\* and has unchoked us before, in whatever order its messages came.
THEOREM RequestsAreWelcome == Spec => []RequestsWelcome
<1>1. PeerInv => RequestsWelcome
  BY DEF PeerInv, Welcomed, Told, Asked, Unchoked, RequestsWelcome
<1>. QED
  BY <1>1, PeerInvariant, PTL


-----------------------------------------------------------------------------
(* The pipeline.                                                            *)

PieceMessages == {m \in Messages : IsPiece(m)}

\* The types of what the accounts are kept in.
PipeType ==
    /\ requested_ \in [Blocks -> BOOLEAN]
    /\ attempt \in [Peers -> Nat]
    /\ dropped \in [Peers -> [number : Nat, blocks : SUBSET Blocks]]
    /\ buckets \in Seq(Pieces) /\ Len(buckets) <= Cardinality(Pieces)

\* blocks_in_queue counts the requests whose answer has not been read, and there is
\* room for what the handler has still to look at.
Account(p) == blocks_in_queue[p] = Len(outbox[p]) + Cardinality(Answers(p)) + dropped[p].number
Most == PipelineSize + MaxBlocks - 1
Room(p) ==
    /\ blocks_in_queue[p] \in 0 .. Most
    /\ pc[p] \in {"scan", "claim"} => blocks_in_queue[p] + Len(scan[p]) <= Most

\* A piece looked at was found at a place of the vector behind as many as were tried.
Tried(p) ==
    /\ attempt[p] <= Cardinality(Pieces)
    /\ pc[p] \in {"scan", "claim"} => attempt[p] < Cardinality(Pieces)

PipeInv == PipeType /\ \A p \in Peers : Account(p) /\ Room(p) /\ Tried(p)

LEMMA PieceNumbers ==
    /\ Cardinality(Pieces) \in Nat \ {0}
    /\ Pieces \subseteq Nat
<1>1. Cardinality(Pieces) \in Nat
  BY PiecesAssumption, FS_CardinalityType
<1>2. Cardinality(Pieces) # 0
  BY PiecesAssumption, FS_EmptySet
<1> QED
  BY <1>1, <1>2, PiecesAssumption

\* Some piece has most blocks.
LEMMA MostBlocks ==
    /\ MaxBlocks \in Nat
    /\ \A i \in Pieces : Len(BlockList[i]) \in Nat /\ Len(BlockList[i]) <= MaxBlocks
<1> DEFINE lengths == {Len(BlockList[i]) : i \in Pieces}
           f == [i \in Pieces |-> Len(BlockList[i])]
<1>1. \A i \in Pieces : Len(BlockList[i]) \in Nat
  BY BlockListAssumption
<1>2. lengths \in SUBSET Nat /\ lengths # {}
  BY <1>1, PiecesAssumption
<1>3. f \in Surjection(Pieces, lengths)
  BY DEF Surjection
<1>4. IsFiniteSet(lengths)
  BY <1>3, PiecesAssumption, FS_Surjection
<1>5. PICK b \in Nat : \A n \in lengths : n <= b
  BY <1>2, <1>4, FiniteIsBounded
<1>6. \E n \in lengths : \A l \in lengths : l <= n
  BY <1>2, <1>5, LargestElement
<1>7. \E n \in lengths : \A i \in Pieces : Len(BlockList[i]) <= n
  BY <1>6
<1>8. MaxBlocks \in lengths /\ \A i \in Pieces : Len(BlockList[i]) <= MaxBlocks
  BY <1>7 DEF MaxBlocks
<1> QED
  BY <1>1, <1>2, <1>8

\* Below its range the unsigned counter counts.
LEMMA CountsTruly == \A n \in 0 .. Most : n % Modulus = n
<1>1. Modulus \in Nat \ {0} /\ PipelineSize \in Nat /\ MaxBlocks \in Nat
  BY BoundsAssumption, MostBlocks
<1>2. Most < Modulus
  BY <1>1, CounterAssumption DEF Most
<1>3. ASSUME NEW n \in 0 .. Most PROVE n % Modulus = n
  <2>1. n \in Nat /\ n < Modulus
    BY <1>1, <1>2 DEF Most
  <2> QED
    BY <1>1, <2>1
<1> QED
  BY <1>3

LEMMA AnswersAt ==
    ASSUME NEW s \in Seq(Messages)
    PROVE  {k \in DOMAIN s : IsPiece(s[k])} = At(s, PieceMessages)
  BY DEF At, PieceMessages

\* The answers under way, counted as messages in the queue.
LEMMA AnswersCounted ==
    ASSUME PeerType, PeerType', NEW p \in Peers
    PROVE  /\ Cardinality(Answers(p)) = Count(inbox[p], PieceMessages)
           /\ Cardinality(Answers(p)') = Count(inbox'[p], PieceMessages)
           /\ Count(inbox[p], PieceMessages) \in Nat
           /\ Count(inbox'[p], PieceMessages) \in Nat
<1>1. inbox[p] \in Seq(Messages) /\ inbox'[p] \in Seq(Messages)
  BY DEF PeerType
<1>2. Answers(p) = At(inbox[p], PieceMessages)
  BY <1>1, AnswersAt DEF Answers
<1>3. Answers(p)' = At(inbox'[p], PieceMessages)
  BY <1>1, AnswersAt DEF Answers
<1> QED
  BY <1>1, <1>2, <1>3, CountType DEF Count

LEMMA PipeTypesKept ==
    ASSUME PeerType, PipeType, \A p \in Peers : Claiming(p), [Next]_vars
    PROVE  PipeType'
<1>0. 0 \in Nat /\ \A p \in Peers : attempt[p] + 1 \in Nat
  BY DEF PipeType
<1>1. CASE Strand \/ PickerRace \/ UNCHANGED vars
  BY <1>1 DEF Strand, PickerRace, BlockWritten, PieceVerified, PieceFailed, StorageFails, vars,
              handlerVars, pickerVars, PipeType
<1>2. ASSUME NEW p \in Peers, Handler(p) PROVE PipeType'
  <2>1. UNCHANGED <<dropped, buckets>>
    BY <1>2 DEF Handler, ReceiveChoke, ReceiveUnchoke, ReceiveHave, ReceiveBitfield, ReceivePiece, pickerVars
  <2>2. attempt' = attempt \/ attempt' = [attempt EXCEPT ![p] = 0]
    BY <1>2 DEF Handler, ReceiveChoke, ReceiveUnchoke, ReceiveHave, ReceiveBitfield, ReceivePiece,
                StartRequests, handlerVars
  <2>3. requested_' = requested_ \/ \E b : requested_' = [requested_ EXCEPT ![b] = FALSE]
    BY <1>2 DEF Handler, ReceiveChoke, ReceiveUnchoke, ReceiveHave, ReceiveBitfield, ReceivePiece
  <2>4. requested_' \in [Blocks -> BOOLEAN]
    BY <2>3 DEF PipeType
  <2> QED
    BY <1>0, <2>1, <2>2, <2>4 DEF PipeType
<1>3. ASSUME NEW p \in Peers, HandlerStep(p) PROVE PipeType'
  <2>1. UNCHANGED dropped
    BY <1>3 DEF HandlerStep, ReadAvailability, WriteAvailability, FinishBitfield, FinishHave, StorePiece,
                Pick, Scan, Claim, SkipLocked, NextAttempt
  <2>2. \/ attempt' = attempt \/ attempt' = [attempt EXCEPT ![p] = 0]
        \/ attempt' = [attempt EXCEPT ![p] = @ + 1]
    BY <1>3 DEF HandlerStep, ReadAvailability, WriteAvailability, FinishBitfield, FinishHave, StorePiece,
                Pick, Scan, Claim, SkipLocked, NextAttempt, StartRequests, Return
  <2>3. requested_' = requested_ \/ \E b \in Blocks : requested_' = [requested_ EXCEPT ![b] = TRUE]
    <3>1. CASE Claim(p)
      <4>1. Head(scan[p]) \in Blocks
        BY <3>1 DEF Claim, Claiming, PeerType
      <4> QED
        BY <3>1, <4>1 DEF Claim
    <3>2. CASE ~Claim(p)
      BY <1>3, <3>2 DEF HandlerStep, ReadAvailability, WriteAvailability, FinishBitfield, FinishHave,
                  StorePiece, Pick, Scan, SkipLocked, NextAttempt
    <3> QED
      BY <3>1, <3>2
  <2>4. requested_' \in [Blocks -> BOOLEAN]
    BY <2>3 DEF PipeType
  <2>5. buckets' = buckets \/ buckets' \in SortedBy(availability)
    BY <1>3 DEF HandlerStep, ReadAvailability, WriteAvailability, FinishBitfield, FinishHave, StorePiece,
                Pick, Scan, Claim, SkipLocked, NextAttempt, pickerVars
  <2>6. buckets' \in Seq(Pieces) /\ Len(buckets') <= Cardinality(Pieces)
    <3>1. CASE buckets' = buckets
      BY <3>1 DEF PipeType
    <3>2. CASE buckets' \in SortedBy(availability)
      <4>1. buckets' \in [1 .. Cardinality(Pieces) -> Pieces]
        BY <3>2 DEF SortedBy
      <4> QED
        BY <4>1, PieceNumbers
    <3> QED
      BY <2>5, <3>1, <3>2
  <2>7. attempt' \in [Peers -> Nat]
    BY <1>0, <2>2 DEF PipeType
  <2> QED
    BY <2>1, <2>4, <2>6, <2>7 DEF PipeType
<1>4. ASSUME NEW p \in Peers, Remote(p) PROVE PipeType'
  <2>1. UNCHANGED <<requested_, attempt, buckets>>
    BY <1>4 DEF Remote, RemoteBitfield, RemoteHave, RemoteUnchoke, RemoteChoke, RemoteAnswer,
                RemoteDrop, Break, ourVars, handlerVars, pickerVars
  <2>2. ASSUME NEW n \in Nat, NEW S \in SUBSET Blocks, Drop(p, n, S)
        PROVE  dropped' \in [Peers -> [number : Nat, blocks : SUBSET Blocks]]
    BY <2>2 DEF Drop, PipeType
  <2>3. dropped' \in [Peers -> [number : Nat, blocks : SUBSET Blocks]]
    <3>1. CASE RemoteDrop(p)
      <4>1. {Head(outbox[p])} \in SUBSET Blocks /\ Drop(p, 1, {Head(outbox[p])})
        BY <3>1 DEF RemoteDrop, PeerType
      <4> QED
        BY <2>2, <4>1
    <3>2. CASE Break(p)
      <4>1. Drop(p, Cardinality(Answers(p)), {inbox[p][k].block : k \in Answers(p)})
        BY <3>2 DEF Break
      <4>2. {inbox[p][k].block : k \in Answers(p)} \in SUBSET Blocks
        BY Fields DEF Answers, IsPiece, PeerType
      <4>3. inbox[p] \in Seq(Messages)
        BY DEF PeerType
      <4>4. Cardinality(Answers(p)) \in Nat
        BY <4>3, AnswersAt, CountType DEF Answers, Count
      <4> QED
        BY <2>2, <4>1, <4>2, <4>4
    <3>3. CASE ~RemoteDrop(p) /\ ~Break(p)
      BY <1>4, <3>3 DEF Remote, RemoteBitfield, RemoteHave, RemoteUnchoke, RemoteChoke, RemoteAnswer, PipeType
    <3> QED
      BY <3>1, <3>2, <3>3
  <2> QED
    BY <2>1, <2>3 DEF PipeType
<1> QED
  BY <1>1, <1>2, <1>3, <1>4 DEF Next

\* A handler and a remote drop nothing of others, and leave their attempts alone.
LEMMA OthersTried ==
    ASSUME PipeType, NEW p \in Peers, NEW q \in Peers, q # p,
           Handler(p) \/ HandlerStep(p) \/ Remote(p)
    PROVE  UNCHANGED <<dropped[q], attempt[q]>>
<1>1. CASE Handler(p)
  BY <1>1 DEF Handler, ReceiveChoke, ReceiveUnchoke, ReceiveHave, ReceiveBitfield, ReceivePiece,
              StartRequests, handlerVars, PipeType
<1>2. CASE HandlerStep(p)
  <2>1. UNCHANGED dropped
    BY <1>2 DEF HandlerStep, ReadAvailability, WriteAvailability, FinishBitfield, FinishHave, StorePiece,
                Pick, Scan, Claim, SkipLocked, NextAttempt
  <2>2. UNCHANGED attempt[q]
    BY <1>2 DEF HandlerStep, ReadAvailability, WriteAvailability, FinishBitfield, FinishHave, StorePiece,
                Pick, Scan, Claim, SkipLocked, NextAttempt, StartRequests, Return, PipeType
  <2> QED
    BY <2>1, <2>2
<1>3. CASE Remote(p)
  <2>1. UNCHANGED attempt
    BY <1>3 DEF Remote, RemoteBitfield, RemoteHave, RemoteUnchoke, RemoteChoke, RemoteAnswer,
                RemoteDrop, Break, ourVars, handlerVars
  <2>2. dropped' = dropped \/ \E n, S : Drop(p, n, S)
    BY <1>3 DEF Remote, RemoteBitfield, RemoteHave, RemoteUnchoke, RemoteChoke, RemoteAnswer,
                RemoteDrop, Break
  <2> QED
    BY <2>1, <2>2 DEF Drop, PipeType
<1> QED
  BY <1>1, <1>2, <1>3

\* A message that is read is one answer less if it is a PIECE.
LEMMA AnswerRead ==
    ASSUME PeerType, PeerType', NEW p \in Peers, NEW type, Receive(p, type)
    PROVE  Cardinality(Answers(p)) = Cardinality(Answers(p)') + (IF type = "piece" THEN 1 ELSE 0)
<1>1. /\ inbox[p] \in Seq(Messages) /\ inbox[p] # <<>> /\ inbox'[p] = Tail(inbox[p])
      /\ Head(inbox[p]).type = type /\ Head(inbox[p]) \in Messages
  BY Received DEF PeerType
<1>2. Head(inbox[p]) \in PieceMessages <=> type = "piece"
  BY <1>1 DEF PieceMessages, IsPiece
<1> QED
  BY <1>1, <1>2, AnswersCounted, CountTail

\* A message that is sent is one answer more if it is a PIECE.
LEMMA AnswerSent ==
    ASSUME PeerType, PeerType', NEW p \in Peers, NEW m \in Messages, Send(p, m)
    PROVE  Cardinality(Answers(p)') = Cardinality(Answers(p)) + (IF m.type = "piece" THEN 1 ELSE 0)
<1>1. inbox[p] \in Seq(Messages) /\ inbox'[p] = Append(inbox[p], m)
  BY DEF Send, PeerType
<1>2. m \in PieceMessages <=> m.type = "piece"
  BY DEF PieceMessages, IsPiece
<1>3. Count(inbox'[p], PieceMessages) = Count(inbox[p], PieceMessages) + (IF m \in PieceMessages THEN 1 ELSE 0)
  BY <1>1, CountAppend
<1> QED
  BY <1>2, <1>3, AnswersCounted

LEMMA HandlerAccount ==
    ASSUME PeerType, PeerType', PipeType, NEW p \in Peers, Account(p), Room(p), Tried(p), Handler(p)
    PROVE  Account(p)' /\ Room(p)' /\ Tried(p)'
<1>0. blocks_in_queue[p] \in 0 .. Most /\ Cardinality(Answers(p)) \in Nat /\ Cardinality(Answers(p)') \in Nat
      /\ Len(outbox[p]) \in Nat /\ dropped[p].number \in Nat /\ UNCHANGED <<outbox, dropped>>
      /\ Most \in Int
  <2>1. Len(outbox[p]) \in Nat /\ dropped[p].number \in Nat
    BY DEF PeerType, PipeType
  <2>2. UNCHANGED <<outbox, dropped>>
    BY DEF Handler, ReceiveChoke, ReceiveUnchoke, ReceiveHave, ReceiveBitfield, ReceivePiece
  <2>3. Most \in Int
    BY MostBlocks, BoundsAssumption DEF Most
  <2> QED
    BY <2>1, <2>2, <2>3, AnswersCounted DEF Room
<1>1. CASE ReceivePiece(p)
  <2>1. /\ Receive(p, "piece")
        /\ blocks_in_queue' = [blocks_in_queue EXCEPT ![p] = (@ - 1) % Modulus]
        /\ attempt' = attempt
        /\ pc[p] = "idle" /\ pc'[p] \in {"idle", "store"}
    BY <1>1 DEF ReceivePiece, Receive, Goto, PeerType
  <2>2. Cardinality(Answers(p)) = Cardinality(Answers(p)') + 1
    BY <2>1, AnswerRead
  <2>3. blocks_in_queue[p] - 1 \in 0 .. Most
    BY <1>0, <2>2 DEF Account
  <2>4. blocks_in_queue'[p] = blocks_in_queue[p] - 1
    BY <2>1, <2>3, CountsTruly DEF PeerType
  <2>5. Account(p)'
    <3>1. blocks_in_queue[p] = Len(outbox[p]) + Cardinality(Answers(p)) + dropped[p].number
      BY DEF Account
    <3>2. outbox'[p] = outbox[p] /\ dropped'[p] = dropped[p]
      BY <1>0
    <3>3. blocks_in_queue'[p] = Len(outbox[p]) + Cardinality(Answers(p)') + dropped[p].number
      BY <1>0, <2>2, <2>4, <3>1, SMTT(30)
    <3> QED
      BY <3>2, <3>3 DEF Account
  <2> QED
    BY <2>1, <2>3, <2>4, <2>5 DEF Room, Tried
<1>2. CASE ReceiveChoke(p) \/ ReceiveUnchoke(p) \/ ReceiveHave(p) \/ ReceiveBitfield(p)
  <2>1. /\ \E type \in {"choke", "unchoke", "have", "bitfield"} : Receive(p, type)
        /\ UNCHANGED blocks_in_queue
        /\ pc'[p] \in {"idle", "pick", "have", "bitfield"}
    BY <1>2 DEF ReceiveChoke, ReceiveUnchoke, ReceiveHave, ReceiveBitfield, Receive, StartRequests,
                Goto, handlerVars, PeerType
  <2>2. Cardinality(Answers(p)) = Cardinality(Answers(p)')
    BY <1>0, <2>1, AnswerRead
  <2>3. attempt'[p] \in {attempt[p], 0}
    BY <1>2 DEF ReceiveChoke, ReceiveUnchoke, ReceiveHave, ReceiveBitfield, StartRequests,
                handlerVars, PipeType
  <2>4. Tried(p)'
    BY <2>1, <2>3, PieceNumbers DEF Tried
  <2> QED
    BY <1>0, <2>1, <2>2, <2>4 DEF Account, Room
<1> QED
  BY <1>1, <1>2 DEF Handler

LEMMA StepAccount ==
    ASSUME PeerType, PeerType', PipeType, NEW p \in Peers, Claiming(p),
           Account(p), Room(p), Tried(p), HandlerStep(p)
    PROVE  Account(p)' /\ Room(p)' /\ Tried(p)'
<1>0. blocks_in_queue[p] \in 0 .. Most /\ Cardinality(Answers(p)) \in Nat /\ attempt[p] \in Nat
      /\ Len(outbox[p]) \in Nat /\ dropped[p].number \in Nat /\ UNCHANGED dropped
      /\ Most \in Int /\ Len(scan[p]) \in Nat /\ scan[p] \in Seq(Blocks) /\ Cardinality(Pieces) \in Nat
  <2>1. Len(outbox[p]) \in Nat /\ dropped[p].number \in Nat /\ Len(scan[p]) \in Nat /\ attempt[p] \in Nat
    BY DEF PeerType, PipeType
  <2>2. UNCHANGED dropped
    BY DEF HandlerStep, ReadAvailability, WriteAvailability, FinishBitfield, FinishHave, StorePiece,
           Pick, Scan, Claim, SkipLocked, NextAttempt
  <2>3. Most \in Int
    BY MostBlocks, BoundsAssumption DEF Most
  <2>4. scan[p] \in Seq(Blocks)
    BY DEF PeerType
  <2> QED
    BY <2>1, <2>2, <2>3, <2>4, AnswersCounted, PieceNumbers DEF Room
<1>1. Answers(p)' = Answers(p)
  BY DEF HandlerStep, ReadAvailability, WriteAvailability, FinishBitfield, FinishHave, StorePiece,
         Pick, Scan, Claim, SkipLocked, NextAttempt, Answers
<1>2. CASE ReadAvailability(p) \/ WriteAvailability(p) \/ FinishBitfield(p) \/ FinishHave(p) \/ StorePiece(p)
  <2>1. UNCHANGED <<blocks_in_queue, outbox>> /\ attempt'[p] \in {attempt[p], 0} /\ pc'[p] \notin {"scan", "claim"}
    BY <1>2 DEF ReadAvailability, WriteAvailability, FinishBitfield, FinishHave, StorePiece, StartRequests,
                Return, Goto, peerVars, PipeType, PeerType
  <2> QED
    BY <1>0, <1>1, <2>1 DEF Account, Room, Tried
<1>3. CASE Pick(p)
  <2>1. UNCHANGED <<blocks_in_queue, outbox, attempt>>
    BY <1>3 DEF Pick, Return, peerVars
  <2>2. CASE pc'[p] = "idle"
    BY <1>0, <1>1, <2>1, <2>2 DEF Account, Room, Tried
  <2>3. CASE pc'[p] # "idle"
    <3>1. PICK k \in Found(p, buckets') : Goto(p, "scan", BlockList[buckets'[k]])
      BY <1>3, <2>3, ZenonT(40) DEF Pick, Return, Goto, PeerType
    <3>2. HasRoom(p) /\ buckets' \in Seq(Pieces) /\ Len(buckets') <= Cardinality(Pieces)
      <4>1. HasRoom(p) /\ (buckets' = buckets \/ buckets' \in SortedBy(availability))
        BY <1>3, <2>3 DEF Pick, Return, Goto, PeerType
      <4>2. ASSUME buckets' \in SortedBy(availability)
            PROVE  buckets' \in Seq(Pieces) /\ Len(buckets') <= Cardinality(Pieces)
        <5>1. buckets' \in [1 .. Cardinality(Pieces) -> Pieces]
          BY <4>2 DEF SortedBy
        <5> QED
          BY <5>1, PieceNumbers
      <4> QED
        BY <4>1, <4>2 DEF PipeType
    <3>3. /\ k \in 1 .. Len(buckets') /\ buckets'[k] \in Pieces
          /\ Cardinality({j \in 1 .. k - 1 : Candidate(p, buckets'[j])}) = attempt[p]
      BY <3>1, <3>2 DEF Found
    <3>4. Len(BlockList[buckets'[k]]) \in Nat /\ Len(BlockList[buckets'[k]]) <= MaxBlocks /\ MaxBlocks \in Nat
      BY <3>3, MostBlocks
    <3>5. attempt[p] < Cardinality(Pieces)
      <4>1. {j \in 1 .. k - 1 : Candidate(p, buckets'[j])} \in SUBSET (1 .. k - 1) /\ k - 1 \in Nat
        BY <3>2, <3>3
      <4>2. IsFiniteSet(1 .. k - 1) /\ Cardinality(1 .. k - 1) = IF 1 > k - 1 THEN 0 ELSE k - 1 - 1 + 1
        BY <4>1, FS_Interval
      <4>3. Cardinality(1 .. k - 1) = k - 1
        BY <4>1, <4>2
      <4>4. attempt[p] <= k - 1
        BY <3>3, <4>1, <4>2, <4>3, FS_Subset
      <4>5. k - 1 < Len(buckets') /\ Len(buckets') \in Nat
        BY <3>2, <3>3
      <4> QED
        BY <1>0, <3>2, <4>1, <4>4, <4>5
    <3>6. scan'[p] = BlockList[buckets'[k]]
      BY <3>1 DEF Goto, PeerType
    <3>7. blocks_in_queue[p] + Len(scan'[p]) <= Most
      <4>1. PipelineSize \in Nat /\ blocks_in_queue[p] \in Int /\ blocks_in_queue[p] < PipelineSize
        BY <3>2, BoundsAssumption DEF HasRoom, PeerType
      <4> QED
        BY <3>4, <3>6, <4>1 DEF Most
    <3> QED
      BY <1>0, <1>1, <2>1, <3>5, <3>7 DEF Account, Room, Tried
  <2> QED
    BY <2>2, <2>3
<1>4. CASE Scan(p) \/ SkipLocked(p)
  <2>1. UNCHANGED <<blocks_in_queue, outbox, attempt>> /\ scan[p] # <<>> /\ pc[p] \in {"scan", "claim"}
    BY <1>4 DEF Scan, SkipLocked, Claiming, peerVars
  <2>2. scan'[p] = scan[p] \/ scan'[p] = Tail(scan[p])
    BY <1>4 DEF Scan, SkipLocked, PeerType
  <2>3. Len(scan'[p]) \in Nat /\ Len(scan'[p]) <= Len(scan[p])
    <3>1. Len(Tail(scan[p])) = Len(scan[p]) - 1 /\ Len(scan[p]) > 0
      BY <1>0, <2>1
    <3>2. Len(scan'[p]) = Len(scan[p]) \/ Len(scan'[p]) = Len(scan[p]) - 1
      BY <2>2, <3>1
    <3>3. Len(scan[p]) \in Nat
      BY <1>0
    <3> QED
      BY <3>1, <3>2, <3>3
  <2>4. Room(p)'
    BY <1>0, <2>1, <2>3 DEF Room
  <2>5. Account(p)'
    BY <1>0, <1>1, <2>1 DEF Account
  <2> QED
    BY <2>1, <2>4, <2>5 DEF Tried
<1>5. CASE Claim(p)
  <2>1. /\ scan[p] # <<>> /\ pc[p] = "claim" /\ UNCHANGED attempt
        /\ scan'[p] = Tail(scan[p]) /\ outbox'[p] = Append(outbox[p], Head(scan[p]))
        /\ blocks_in_queue'[p] = (blocks_in_queue[p] + 1) % Modulus
    BY <1>5 DEF Claim, Claiming, PeerType
  <2>2. Len(scan'[p]) = Len(scan[p]) - 1 /\ Len(outbox'[p]) = Len(outbox[p]) + 1 /\ Len(scan[p]) > 0
    BY <1>0, <2>1 DEF PeerType
  <2>3. blocks_in_queue[p] + Len(scan[p]) <= Most
    BY <2>1 DEF Room
  <2>4. blocks_in_queue[p] + 1 \in 0 .. Most
    BY <1>0, <2>2, <2>3
  <2>5. blocks_in_queue'[p] = blocks_in_queue[p] + 1
    BY <2>1, <2>4, CountsTruly
  <2>6. Account(p)'
    BY <1>0, <1>1, <2>2, <2>5 DEF Account
  <2>7. Room(p)'
    BY <1>0, <2>2, <2>3, <2>4, <2>5 DEF Room
  <2> QED
    BY <2>1, <2>6, <2>7 DEF Tried
<1>6. CASE NextAttempt(p)
  <2>1. UNCHANGED <<blocks_in_queue, outbox>> /\ attempt'[p] = attempt[p] + 1 /\ pc[p] = "scan" /\ pc'[p] = "pick"
    BY <1>6 DEF NextAttempt, Goto, peerVars, PeerType, PipeType
  <2> QED
    BY <1>0, <1>1, <2>1 DEF Account, Room, Tried
<1> QED
  BY <1>2, <1>3, <1>4, <1>5, <1>6 DEF HandlerStep

LEMMA RemoteAccount ==
    ASSUME PeerType, PeerType', PipeType, PipeType', NEW p \in Peers,
           Account(p), Room(p), Tried(p), Remote(p)
    PROVE  Account(p)' /\ Room(p)' /\ Tried(p)'
<1>0. /\ blocks_in_queue[p] \in 0 .. Most /\ Cardinality(Answers(p)) \in Nat /\ Cardinality(Answers(p)') \in Nat
      /\ Len(outbox[p]) \in Nat /\ Len(outbox'[p]) \in Nat /\ dropped[p].number \in Nat
      /\ outbox[p] \in Seq(Blocks) /\ UNCHANGED <<blocks_in_queue, attempt, pc, scan>>
  <2>1. /\ Len(outbox[p]) \in Nat /\ Len(outbox'[p]) \in Nat /\ dropped[p].number \in Nat
        /\ outbox[p] \in Seq(Blocks)
    BY DEF PeerType, PipeType
  <2>2. UNCHANGED <<blocks_in_queue, attempt, pc, scan>>
    BY DEF Remote, RemoteBitfield, RemoteHave, RemoteUnchoke, RemoteChoke, RemoteAnswer,
           RemoteDrop, Break, ourVars, peerVars, handlerVars
  <2> QED
    BY <2>1, <2>2, AnswersCounted DEF Room
<1>01. /\ Cardinality(Answers(p)) \in Nat /\ Len(outbox[p]) \in Nat /\ dropped[p].number \in Nat
  BY <1>0
<1>1. Room(p)' /\ Tried(p)'
  BY <1>0 DEF Room, Tried
<1>2. SUFFICES Len(outbox'[p]) + Cardinality(Answers(p)') + dropped'[p].number
                 = Len(outbox[p]) + Cardinality(Answers(p)) + dropped[p].number
  BY <1>0, <1>1 DEF Account
<1>3. ASSUME NEW m \in Messages, m.type # "piece", Send(p, m), UNCHANGED <<outbox, dropped>>
      PROVE  Len(outbox'[p]) + Cardinality(Answers(p)') + dropped'[p].number
               = Len(outbox[p]) + Cardinality(Answers(p)) + dropped[p].number
  <2>1. Cardinality(Answers(p)') = Cardinality(Answers(p))
    BY <1>0, <1>3, AnswerSent
  <2> QED
    BY <1>3, <2>1
<1>4. ASSUME NEW S \in SUBSET Pieces, RemoteBitfield(p, S)
      PROVE  \E m \in Messages : m.type # "piece" /\ Send(p, m) /\ UNCHANGED <<outbox, dropped>>
  <2>1. [type |-> "bitfield", pieces |-> S] \in Messages
    BY DEF Messages
  <2> QED
    BY <1>4, <2>1 DEF RemoteBitfield
<1>5. ASSUME NEW i \in Pieces, RemoteHave(p, i)
      PROVE  \E m \in Messages : m.type # "piece" /\ Send(p, m) /\ UNCHANGED <<outbox, dropped>>
  <2>1. [type |-> "have", piece |-> i] \in Messages
    BY DEF Messages
  <2> QED
    BY <1>5, <2>1 DEF RemoteHave
<1>6. RemoteUnchoke(p) \/ RemoteChoke(p) =>
        \E m \in Messages : m.type # "piece" /\ Send(p, m) /\ UNCHANGED <<outbox, dropped>>
  <2>1. [type |-> "unchoke"] \in Messages /\ [type |-> "choke"] \in Messages
    BY DEF Messages
  <2> QED
    BY <2>1 DEF RemoteUnchoke, RemoteChoke
<1>7. ASSUME RemoteAnswer(p)
      PROVE  Len(outbox'[p]) + Cardinality(Answers(p)') + dropped'[p].number
               = Len(outbox[p]) + Cardinality(Answers(p)) + dropped[p].number
  <2> DEFINE m == [type |-> "piece", block |-> Head(outbox[p])]
  <2>1. m \in Messages /\ Send(p, m) /\ outbox[p] # <<>> /\ outbox'[p] = Tail(outbox[p]) /\ UNCHANGED dropped
    BY <1>0, <1>7 DEF RemoteAnswer, Messages, PeerType
  <2>2. Len(outbox'[p]) = Len(outbox[p]) - 1
    BY <1>0, <2>1
  <2>3. m.type = "piece"
    OBVIOUS
  <2>4. Cardinality(Answers(p)') = Cardinality(Answers(p)) + 1
    <3> HIDE DEF m
    <3> QED
      BY <2>1, <2>3, AnswerSent
  <2>5. dropped'[p] = dropped[p]
    BY <2>1
  <2> QED
    BY <1>01, <2>2, <2>4, <2>5
<1>8. ASSUME RemoteDrop(p)
      PROVE  Len(outbox'[p]) + Cardinality(Answers(p)') + dropped'[p].number
               = Len(outbox[p]) + Cardinality(Answers(p)) + dropped[p].number
  <2>1. outbox[p] # <<>> /\ outbox'[p] = Tail(outbox[p]) /\ UNCHANGED inbox
    BY <1>8 DEF RemoteDrop, PeerType
  <2>2. Len(outbox'[p]) = Len(outbox[p]) - 1
    BY <1>0, <2>1
  <2>3. dropped'[p].number = dropped[p].number + 1
    BY <1>8 DEF RemoteDrop, Drop, PipeType
  <2>4. Answers(p)' = Answers(p)
    BY <2>1 DEF Answers
  <2> QED
    BY <1>01, <2>2, <2>3, <2>4, SMTT(30)
<1>9. ASSUME Break(p)
      PROVE  Len(outbox'[p]) + Cardinality(Answers(p)') + dropped'[p].number
               = Len(outbox[p]) + Cardinality(Answers(p)) + dropped[p].number
  <2>1. inbox'[p] = <<>> /\ UNCHANGED outbox
    BY <1>9 DEF Break, PeerType
  <2>2. dropped'[p].number = dropped[p].number + Cardinality(Answers(p))
    BY <1>9 DEF Break, Drop, PipeType
  <2>3. Cardinality(Answers(p)') = 0
    BY <2>1, AnswersCounted, CountEmpty
  <2> QED
    BY <1>0, <2>1, <2>2, <2>3
<1> QED
  BY <1>3, <1>4, <1>5, <1>6, <1>7, <1>8, <1>9 DEF Remote

LEMMA PipeKept ==
    ASSUME PeerInv, PeerInv', PipeInv, [Next]_vars
    PROVE  PipeInv'
<1>0. PeerType /\ PeerType' /\ PipeType /\ \A p \in Peers : Claiming(p) /\ Account(p) /\ Room(p) /\ Tried(p)
  BY DEF PeerInv, PipeInv, Welcomed
<1>1. PipeType'
  BY <1>0, PipeTypesKept
<1>2. ASSUME Strand \/ PickerRace \/ UNCHANGED vars, NEW q \in Peers
      PROVE  Account(q)' /\ Room(q)' /\ Tried(q)'
  <2>1. UNCHANGED <<blocks_in_queue, pc, scan, inbox, outbox>>
    BY <1>0, <1>2, StrandSteps
  <2>2. UNCHANGED <<attempt, dropped>>
    BY <1>2 DEF Strand, PickerRace, BlockWritten, PieceVerified, PieceFailed, StorageFails, vars,
                handlerVars
  <2>3. Answers(q)' = Answers(q)
    BY <2>1 DEF Answers
  <2> QED
    BY <1>0, <2>1, <2>2, <2>3 DEF Account, Room, Tried
<1>3. ASSUME NEW p \in Peers, Handler(p) \/ HandlerStep(p) \/ Remote(p), NEW q \in Peers
      PROVE  Account(q)' /\ Room(q)' /\ Tried(q)'
  <2>1. CASE q = p
    BY <1>0, <1>1, <1>3, <2>1, HandlerAccount, StepAccount, RemoteAccount
  <2>2. CASE q # p
    <3>1. UNCHANGED <<blocks_in_queue[q], pc[q], scan[q], inbox[q], outbox[q], attempt[q], dropped[q]>>
      BY <1>0, <1>3, <2>2, OthersKept, OthersTried DEF Mine
    <3>2. Answers(q)' = Answers(q)
      BY <3>1 DEF Answers
    <3> QED
      BY <1>0, <3>1, <3>2 DEF Account, Room, Tried
  <2> QED
    BY <2>1, <2>2
<1> QED
  BY <1>1, <1>2, <1>3 DEF Next, PipeInv

\* At every moment each peer's counter stands for requests that are somewhere, there
\* is room for the blocks its handler is looking at, and it has tried no more pieces
\* than there are.
THEOREM PipeInvariant == Spec => []PipeInv
<1>1. Init => PipeInv
  <2> SUFFICES ASSUME Init PROVE PipeInv
    OBVIOUS
  <2>1. PipeType
    <3>1. /\ 0 \in Nat /\ [number |-> 0, blocks |-> {}] \in [number : Nat, blocks : SUBSET Blocks]
          /\ <<>> \in Seq(Pieces) /\ Len(<<>>) = 0
      OBVIOUS
    <3>2. requested_ \in [Blocks -> BOOLEAN] /\ attempt \in [Peers -> Nat]
      BY <3>1 DEF Init
    <3>3. dropped \in [Peers -> [number : Nat, blocks : SUBSET Blocks]]
      BY <3>1, Zenon DEF Init
    <3>4. buckets \in Seq(Pieces) /\ Len(buckets) <= Cardinality(Pieces)
      BY <3>1, PieceNumbers DEF Init
    <3> QED
      BY <3>2, <3>3, <3>4 DEF PipeType
  <2>2. ASSUME NEW p \in Peers PROVE Account(p) /\ Room(p) /\ Tried(p)
    <3>1. /\ inbox[p] = <<>> /\ Len(outbox[p]) = 0 /\ blocks_in_queue[p] = 0 /\ pc[p] = "idle"
          /\ attempt[p] = 0 /\ dropped[p].number = 0
      BY DEF Init
    <3>2. Answers(p) = {}
      BY <3>1 DEF Answers
    <3>3. Cardinality(Answers(p)) = 0
      BY <3>2, FS_EmptySet
    <3>4. Most \in Nat
      BY MostBlocks, BoundsAssumption DEF Most
    <3> QED
      BY <3>1, <3>3, <3>4, PieceNumbers DEF Account, Room, Tried
  <2> QED
    BY <2>1, <2>2 DEF PipeInv
<1>2. PeerInv /\ PeerInv' /\ PipeInv /\ [Next]_vars => PipeInv'
  BY PipeKept
<1> QED
  BY <1>1, <1>2, PeerInvariant, PTL DEF Spec

\* blocks_in_queue is the number of requests on the wire, being answered, discarded or
\* lost, so no PIECE is counted twice and the counter never wraps, on any number of
\* threads.
THEOREM PipelineAccountHolds == Spec => []PipelineAccount
<1>1. PipeInv => PipelineAccount
  BY DEF PipeInv, Account, PipelineAccount
<1> QED
  BY <1>1, PipeInvariant, PTL

-----------------------------------------------------------------------------
(* How far the counters of the availability go.                             *)

\* The peers whose piece i has been counted, or was to be.
Counters(i) == {p \in Peers : i \in piece_present[p] \ todo[p]}

\* A HAVE on its way is news, and no other message tells of the piece.
News(p) ==
    \A k \in DOMAIN inbox[p] : inbox[p][k].type = "have" =>
        /\ inbox[p][k].piece \notin piece_present[p]
        /\ \A j \in DOMAIN inbox[p] \ {k} :
              inbox[p][j].type = "have" => inbox[p][j].piece # inbox[p][k].piece

\* A BITFIELD on its way is the first message of all.
First(p) ==
    \A k \in DOMAIN inbox[p] : inbox[p][k].type = "bitfield" =>
        /\ k = 1 /\ piece_present[p] = {} /\ choked[p]
        /\ \A j \in DOMAIN inbox[p] :
              inbox[p][j].type = "have" => inbox[p][j].piece \notin inbox[p][k].pieces

Begun(p) ==
    /\ ~greeted[p] => inbox[p] = <<>> /\ piece_present[p] = {} /\ choked[p]
    /\ pc[p] \in {"bitfield", "bitfield+"} => choked[p]

\* What is to be counted is present, and only while the handler counts.
Todo(p) ==
    /\ todo[p] \subseteq piece_present[p]
    /\ pc[p] \notin {"have", "have+", "bitfield", "bitfield+"} => todo[p] = {}

\* What a handler has read is not more than there are to count.
Seen(p) ==
    pc[p] \in {"have+", "bitfield+"} =>
        /\ todo[p] # {} /\ seen[p] \in Nat
        /\ seen[p] <= Cardinality(Counters(Counts(p)))

CountInv ==
    /\ \A i \in Pieces : availability[i] <= Cardinality(Counters(i))
    /\ \A p \in Peers : News(p) /\ First(p) /\ Begun(p) /\ Todo(p) /\ Seen(p)

\* on_bitfield counts a piece it has to count.
LEMMA CountsOne ==
    ASSUME PeerType, NEW p \in Peers, todo[p] # {}
    PROVE  Counts(p) \in todo[p] /\ Counts(p) \in Pieces
<1>1. todo[p] \in SUBSET Nat /\ todo[p] \subseteq Pieces
  BY PieceNumbers DEF PeerType
<1>2. \E i \in todo[p] : \A j \in todo[p] : i <= j
  BY <1>1, SmallestElement
<1> QED
  BY <1>1, <1>2 DEF Counts

LEMMA CountersNumber ==
    \A i : /\ IsFiniteSet(Counters(i)) /\ IsFiniteSet(Counters(i)')
           /\ Cardinality(Counters(i)) \in Nat /\ Cardinality(Counters(i)') \in Nat
           /\ Cardinality(Counters(i)) <= Cardinality(Peers)
           /\ Cardinality(Peers) \in Nat
<1>1. TAKE i
<1>2. Counters(i) \subseteq Peers /\ Counters(i)' \subseteq Peers /\ IsFiniteSet(Peers)
  BY PiecesAssumption DEF Counters
<1> QED
  BY <1>2, FS_Subset, FS_CardinalityType

\* News stay news, whatever is sent and read.
LEMMA NewsKept ==
    ASSUME PeerType, PeerType', NEW p \in Peers, Told(p), News(p), First(p), Begun(p),
           Handler(p) \/ HandlerStep(p) \/ Remote(p)
    PROVE  News(p)' /\ First(p)'
<1>0. inbox[p] \in Seq(Messages)
  BY DEF PeerType
<1>1. CASE Handler(p)
  <2>1. inbox[p] # <<>> /\ inbox'[p] = Tail(inbox[p])
    BY <1>1 DEF Handler, ReceiveChoke, ReceiveUnchoke, ReceiveHave, ReceiveBitfield, ReceivePiece,
                Receive, PeerType
  <2>2. /\ 1 \in DOMAIN inbox[p] /\ inbox[p][1] = Head(inbox[p])
        /\ \A k \in DOMAIN inbox'[p] : k \in Nat \ {0} /\ k + 1 \in DOMAIN inbox[p] /\ inbox'[p][k] = inbox[p][k + 1]
    BY <1>0, <2>1
  <2>3. First(p)'
    <3>1. \A k \in DOMAIN inbox'[p] : inbox'[p][k].type # "bitfield"
      BY <2>2 DEF First
    <3> QED
      BY <3>1 DEF First
  <2>4. ASSUME NEW k \in DOMAIN inbox'[p], inbox'[p][k].type = "have"
        PROVE  /\ inbox'[p][k].piece \notin piece_present'[p]
               /\ \A j \in DOMAIN inbox'[p] \ {k} :
                     inbox'[p][j].type = "have" => inbox'[p][j].piece # inbox'[p][k].piece
    <3>1. k + 1 \in DOMAIN inbox[p] /\ inbox[p][k + 1] = inbox'[p][k] /\ k + 1 # 1
          /\ inbox[p][k + 1].piece \notin piece_present[p]
      BY <2>2, <2>4 DEF News
    <3>2. \A j \in DOMAIN inbox'[p] \ {k} :
            inbox'[p][j].type = "have" => inbox'[p][j].piece # inbox'[p][k].piece
      BY <2>2, <2>4, <3>1 DEF News
    <3>3. inbox'[p][k].piece \notin piece_present'[p]
      <4>1. CASE ReceiveHave(p)
        <5>1. /\ Head(inbox[p]).type = "have"
              /\ piece_present'[p] = piece_present[p] \cup {Head(inbox[p]).piece}
          BY <4>1 DEF ReceiveHave, Receive, PeerType
        <5> QED
          BY <2>2, <2>4, <3>1, <5>1 DEF News
      <4>2. CASE ReceiveBitfield(p)
        <5>1. /\ Head(inbox[p]).type = "bitfield"
              /\ piece_present'[p] = piece_present[p] \cup Head(inbox[p]).pieces
          BY <4>2 DEF ReceiveBitfield, Receive, PeerType
        <5> QED
          BY <2>2, <2>4, <3>1, <5>1 DEF First
      <4>3. CASE ReceiveChoke(p) \/ ReceiveUnchoke(p) \/ ReceivePiece(p)
        BY <3>1, <4>3 DEF ReceiveChoke, ReceiveUnchoke, ReceivePiece
      <4> QED
        BY <1>1, <4>1, <4>2, <4>3 DEF Handler
    <3> QED
      BY <3>2, <3>3
  <2> QED
    BY <2>3, <2>4 DEF News
<1>2. CASE HandlerStep(p)
  <2>1. UNCHANGED <<inbox, piece_present, choked>>
    BY <1>2 DEF HandlerStep, ReadAvailability, WriteAvailability, FinishBitfield, FinishHave, StorePiece,
                Pick, Scan, Claim, SkipLocked, NextAttempt, peerVars
  <2> QED
    BY <2>1 DEF News, First
<1>3. CASE Remote(p)
  <2>1. UNCHANGED <<piece_present, choked>>
    BY <1>3 DEF Remote, RemoteBitfield, RemoteHave, RemoteUnchoke, RemoteChoke, RemoteAnswer,
                RemoteDrop, Break, ourVars, peerVars
  <2>2. CASE UNCHANGED inbox
    BY <2>1, <2>2 DEF News, First
  <2>3. CASE Break(p)
    <3>1. inbox'[p] = <<>>
      BY <2>3 DEF Break, PeerType
    <3> QED
      BY <3>1 DEF News, First
  <2>4. ASSUME NEW m, Send(p, m)
        PROVE  \A k \in DOMAIN inbox'[p] :
                 \/ k \in DOMAIN inbox[p] /\ inbox'[p][k] = inbox[p][k]
                 \/ k = Len(inbox[p]) + 1 /\ inbox'[p][k] = m /\ k \notin DOMAIN inbox[p]
    <3>1. inbox'[p] = Append(inbox[p], m)
      BY <2>4 DEF Send, PeerType
    <3> QED
      BY <1>0, <3>1
  <2>5. CASE RemoteUnchoke(p) \/ RemoteChoke(p) \/ RemoteAnswer(p)
    <3>1. PICK m : Send(p, m) /\ m.type \notin {"have", "bitfield"}
      BY <2>5 DEF RemoteUnchoke, RemoteChoke, RemoteAnswer
    <3>2. \A k \in DOMAIN inbox'[p] : inbox'[p][k].type \in {"have", "bitfield"} =>
            k \in DOMAIN inbox[p] /\ inbox'[p][k] = inbox[p][k]
      BY <2>4, <3>1
    <3>3. News(p)'
      BY <2>1, <3>2 DEF News
    <3>4. First(p)'
      BY <2>1, <3>2 DEF First
    <3> QED
      BY <3>3, <3>4
  <2>6. ASSUME NEW S \in SUBSET Pieces, RemoteBitfield(p, S) PROVE News(p)' /\ First(p)'
    <3> DEFINE m == [type |-> "bitfield", pieces |-> S]
    <3>1. inbox[p] = <<>> /\ piece_present[p] = {} /\ choked[p] /\ Send(p, m)
      BY <2>6 DEF RemoteBitfield, Begun
    <3>2. \A k \in DOMAIN inbox'[p] : k = 1 /\ inbox'[p][k] = m
      BY <2>4, <3>1
    <3> QED
      BY <2>1, <3>1, <3>2 DEF News, First
  <2>7. ASSUME NEW i \in Pieces, RemoteHave(p, i) PROVE News(p)' /\ First(p)'
    <3> DEFINE m == [type |-> "have", piece |-> i]
    <3>1. i \notin offered[p] /\ Send(p, m) /\ m.type = "have" /\ m.piece = i
      BY <2>7 DEF RemoteHave
    <3>2. i \notin piece_present[p]
      BY <3>1 DEF Told
    <3>3. \A k \in DOMAIN inbox[p] :
            /\ inbox[p][k].type = "have" => inbox[p][k].piece # i
            /\ inbox[p][k].type = "bitfield" => i \notin inbox[p][k].pieces
      BY <3>1 DEF Told, Honest
    <3>4. \A k \in DOMAIN inbox'[p] :
            \/ k \in DOMAIN inbox[p] /\ inbox'[p][k] = inbox[p][k]
            \/ k = Len(inbox[p]) + 1 /\ inbox'[p][k] = m /\ k \notin DOMAIN inbox[p]
      BY <2>4, <3>1
    <3> HIDE DEF m
    <3>5. News(p)'
      BY <2>1, <3>1, <3>2, <3>3, <3>4 DEF News
    <3>6. First(p)'
      BY <2>1, <3>1, <3>3, <3>4 DEF First
    <3> QED
      BY <3>5, <3>6
  <2>8. CASE RemoteDrop(p)
    BY <2>2, <2>8 DEF RemoteDrop
  <2> QED
    BY <1>3, <2>3, <2>5, <2>6, <2>7, <2>8 DEF Remote
<1> QED
  BY <1>1, <1>2, <1>3

LEMMA BegunKept ==
    ASSUME PeerType, NEW p \in Peers, First(p), Begun(p), Todo(p), Handler(p) \/ HandlerStep(p) \/ Remote(p)
    PROVE  Begun(p)' /\ Todo(p)'
<1>1. CASE Handler(p)
  <2>1. /\ inbox[p] # <<>> /\ inbox[p] \in Seq(Messages) /\ pc[p] = "idle" /\ UNCHANGED greeted
    BY <1>1 DEF Handler, ReceiveChoke, ReceiveUnchoke, ReceiveHave, ReceiveBitfield, ReceivePiece,
                Receive, PeerType, remoteVars
  <2>2. greeted'[p] /\ todo[p] = {}
    BY <2>1 DEF Begun, Todo
  <2>3. pc'[p] \in {"bitfield", "bitfield+"} => choked'[p]
    <3>1. CASE ReceiveBitfield(p)
      <4>1. 1 \in DOMAIN inbox[p] /\ inbox[p][1].type = "bitfield"
        BY <2>1, <3>1 DEF ReceiveBitfield, Receive
      <4> QED
        BY <3>1, <4>1 DEF ReceiveBitfield, First
    <3>2. CASE ReceiveChoke(p) \/ ReceiveUnchoke(p) \/ ReceiveHave(p) \/ ReceivePiece(p)
      BY <2>1, <3>2 DEF ReceiveChoke, ReceiveUnchoke, ReceiveHave, ReceivePiece, StartRequests, Goto,
                        handlerVars, PeerType
    <3> QED
      BY <1>1, <3>1, <3>2 DEF Handler
  <2>4. Todo(p)'
    <3>1. CASE ReceiveHave(p) \/ ReceiveBitfield(p)
      BY <3>1 DEF ReceiveHave, ReceiveBitfield, Goto, Todo, PeerType
    <3>2. CASE ReceiveChoke(p) \/ ReceiveUnchoke(p) \/ ReceivePiece(p)
      BY <2>2, <3>2 DEF ReceiveChoke, ReceiveUnchoke, ReceivePiece, StartRequests, handlerVars, Todo
    <3> QED
      BY <1>1, <3>1, <3>2 DEF Handler
  <2> QED
    BY <2>2, <2>3, <2>4 DEF Begun
<1>2. CASE HandlerStep(p)
  <2>1. UNCHANGED <<inbox, piece_present, choked, greeted>>
    BY <1>2 DEF HandlerStep, ReadAvailability, WriteAvailability, FinishBitfield, FinishHave, StorePiece,
                Pick, Scan, Claim, SkipLocked, NextAttempt, peerVars, remoteVars
  <2>2. CASE ReadAvailability(p) \/ WriteAvailability(p)
    <3>1. /\ pc[p] \in {"bitfield", "bitfield+"} <=> pc'[p] \in {"bitfield", "bitfield+"}
          /\ pc'[p] \in {"have", "have+", "bitfield", "bitfield+"}
          /\ todo'[p] \subseteq todo[p]
      BY <2>2 DEF ReadAvailability, WriteAvailability, PeerType
    <3> QED
      BY <2>1, <3>1 DEF Begun, Todo
  <2>3. CASE FinishBitfield(p) \/ FinishHave(p)
    <3>1. todo'[p] = {} /\ pc'[p] \in {"idle", "pick"}
      BY <2>3 DEF FinishBitfield, FinishHave, Return, StartRequests, Goto, PeerType
    <3> QED
      BY <2>1, <3>1 DEF Begun, Todo
  <2>4. CASE StorePiece(p) \/ Pick(p) \/ Scan(p) \/ Claim(p) \/ SkipLocked(p) \/ NextAttempt(p)
    <3>1. pc[p] \in {"store", "pick", "scan", "claim"} /\ UNCHANGED todo
      BY <2>4 DEF StorePiece, Pick, Scan, Claim, SkipLocked, NextAttempt, StartRequests, Return
    <3>2. pc'[p] \in {"idle", "pick", "scan", "claim"}
      BY <2>4 DEF StorePiece, Pick, Scan, Claim, SkipLocked, NextAttempt, StartRequests, Return, Goto, PeerType
    <3> QED
      BY <2>1, <3>1, <3>2 DEF Begun, Todo
  <2> QED
    BY <1>2, <2>2, <2>3, <2>4 DEF HandlerStep
<1>3. CASE Remote(p)
  <2>1. UNCHANGED <<piece_present, choked, pc, todo>>
    BY <1>3 DEF Remote, RemoteBitfield, RemoteHave, RemoteUnchoke, RemoteChoke, RemoteAnswer,
                RemoteDrop, Break, ourVars, peerVars, handlerVars
  <2>2. greeted'[p] \/ (~greeted[p] /\ (inbox[p] = <<>> => inbox'[p] = <<>>))
    BY <1>3 DEF Remote, RemoteBitfield, RemoteHave, RemoteUnchoke, RemoteChoke, RemoteAnswer,
                RemoteDrop, Break, Send, remoteVars, PeerType
  <2> QED
    BY <2>1, <2>2 DEF Begun, Todo
<1> QED
  BY <1>1, <1>2, <1>3

\* Who has been counted for a piece stays counted.
LEMMA CountersGrow ==
    ASSUME PeerType, \A q \in Peers : News(q) /\ First(q) /\ Todo(q), [Next]_vars, NEW i
    PROVE  Counters(i) \subseteq Counters(i)'
<1> SUFFICES ASSUME NEW q \in Peers, i \in piece_present[q], i \notin todo[q]
             PROVE  i \in piece_present'[q] /\ i \notin todo'[q]
  BY DEF Counters
<1>1. CASE UNCHANGED <<piece_present[q], todo[q]>>
  BY <1>1
<1>2. CASE ReceiveHave(q) \/ ReceiveBitfield(q)
  <2>1. inbox[q] # <<>> /\ inbox[q] \in Seq(Messages) /\ 1 \in DOMAIN inbox[q] /\ inbox[q][1] = Head(inbox[q])
    BY <1>2 DEF ReceiveHave, ReceiveBitfield, Receive, PeerType
  <2>2. CASE ReceiveHave(q)
    BY <2>1, <2>2 DEF ReceiveHave, Receive, News, PeerType
  <2>3. CASE ReceiveBitfield(q)
    BY <2>1, <2>3 DEF ReceiveBitfield, Receive, First
  <2> QED
    BY <1>2, <2>2, <2>3
<1>3. CASE WriteAvailability(q)
  BY <1>3 DEF WriteAvailability, peerVars, PeerType
<1>4. Handler(q) => ReceiveHave(q) \/ ReceiveBitfield(q) \/ UNCHANGED <<piece_present[q], todo[q]>>
  BY DEF Handler, ReceiveChoke, ReceiveUnchoke, ReceivePiece, StartRequests, handlerVars
<1>5. HandlerStep(q) => WriteAvailability(q) \/ UNCHANGED <<piece_present[q], todo[q]>>
  BY DEF HandlerStep, ReadAvailability, FinishBitfield, FinishHave, StorePiece,
         Pick, Scan, Claim, SkipLocked, NextAttempt, StartRequests, Return, peerVars
<1>6. Remote(q) => UNCHANGED <<piece_present[q], todo[q]>>
  BY DEF Remote, RemoteBitfield, RemoteHave, RemoteUnchoke, RemoteChoke, RemoteAnswer,
         RemoteDrop, Break, ourVars, peerVars, handlerVars
<1>7. Strand \/ PickerRace \/ UNCHANGED vars => UNCHANGED <<piece_present[q], todo[q]>>
  BY StrandSteps
<1>8. ASSUME NEW p \in Peers, Handler(p) \/ HandlerStep(p) \/ Remote(p), p # q
      PROVE  UNCHANGED <<piece_present[q], todo[q]>>
  BY <1>8, OthersKept DEF Mine
<1> QED
  BY <1>1, <1>2, <1>3, <1>4, <1>5, <1>6, <1>7, <1>8 DEF Next

LEMMA MoreCounters ==
    ASSUME PeerType, \A q \in Peers : News(q) /\ First(q) /\ Todo(q), [Next]_vars, NEW i
    PROVE  Cardinality(Counters(i)) <= Cardinality(Counters(i)')
  BY CountersGrow, CountersNumber, FS_Subset

LEMMA SeenKept ==
    ASSUME PeerType, PeerType', CountInv, [Next]_vars, NEW q \in Peers
    PROVE  Seen(q)'
<1>0. \A p \in Peers : News(p) /\ First(p) /\ Todo(p)
  BY DEF CountInv
<1>1. CASE UNCHANGED <<pc[q], todo[q], seen[q]>>
  <2> SUFFICES ASSUME pc'[q] \in {"have+", "bitfield+"}
               PROVE  /\ todo'[q] # {} /\ seen'[q] \in Nat
                      /\ seen'[q] <= Cardinality(Counters(Counts(q))')
    BY DEF Seen
  <2>1. todo[q] # {} /\ seen[q] \in Nat /\ seen[q] <= Cardinality(Counters(Counts(q)))
    BY <1>1 DEF CountInv, Seen
  <2>2. Counts(q)' = Counts(q)
    BY <1>1 DEF Counts
  <2>3. PICK i : i = Counts(q)
    OBVIOUS
  <2>4. Cardinality(Counters(i)) <= Cardinality(Counters(i)')
    BY <1>0, MoreCounters
  <2>5. Cardinality(Counters(i)) \in Nat /\ Cardinality(Counters(i)') \in Nat
    BY CountersNumber
  <2>6. Cardinality(Counters(Counts(q))) = Cardinality(Counters(i))
    BY <2>3
  <2>7. Cardinality(Counters(Counts(q))') = Cardinality(Counters(i)')
    BY <2>2, <2>3 DEF Counters
  <2> QED
    BY <1>1, <2>1, <2>4, <2>5, <2>6, <2>7
<1>2. CASE ReadAvailability(q)
  <2>1. /\ todo[q] # {} /\ UNCHANGED <<piece_present, todo>> /\ seen'[q] = availability[Counts(q)]
    BY <1>2 DEF ReadAvailability, PeerType, peerVars
  <2>2. Counts(q) \in Pieces
    BY <2>1, CountsOne
  <2>3. availability[Counts(q)] \in Nat /\ availability[Counts(q)] <= Cardinality(Counters(Counts(q)))
    BY <2>2 DEF PeerType, CountInv
  <2>4. Counters(Counts(q))' = Counters(Counts(q))
    BY <2>1 DEF Counters, Counts
  <2> QED
    BY <2>1, <2>3, <2>4 DEF Seen
<1>3. CASE pc'[q] \notin {"have+", "bitfield+"}
  BY <1>3 DEF Seen
<1>4. Handler(q) => pc'[q] \notin {"have+", "bitfield+"}
  BY ZenonT(40) DEF Handler, ReceiveChoke, ReceiveUnchoke, ReceiveHave, ReceiveBitfield, ReceivePiece, Receive,
         StartRequests, Goto, handlerVars, PeerType
<1>5. HandlerStep(q) => ReadAvailability(q) \/ pc'[q] \notin {"have+", "bitfield+"}
  <2>1. WriteAvailability(q) \/ FinishBitfield(q) \/ FinishHave(q) \/ StorePiece(q) => pc'[q] \notin {"have+", "bitfield+"}
    BY DEF WriteAvailability, FinishBitfield, FinishHave, StorePiece, StartRequests, Return, Goto, PeerType
  <2>2. Pick(q) \/ Scan(q) \/ Claim(q) \/ SkipLocked(q) \/ NextAttempt(q) => pc'[q] \notin {"have+", "bitfield+"}
    BY DEF Pick, Scan, Claim, SkipLocked, NextAttempt, Return, Goto, PeerType
  <2> QED
    BY <2>1, <2>2 DEF HandlerStep
<1>6. Remote(q) => UNCHANGED <<pc[q], todo[q], seen[q]>>
  BY DEF Remote, RemoteBitfield, RemoteHave, RemoteUnchoke, RemoteChoke, RemoteAnswer,
         RemoteDrop, Break, ourVars, handlerVars
<1>7. Strand \/ PickerRace \/ UNCHANGED vars => UNCHANGED <<pc[q], todo[q], seen[q]>>
  BY StrandSteps
<1>8. ASSUME NEW p \in Peers, Handler(p) \/ HandlerStep(p) \/ Remote(p), p # q
      PROVE  UNCHANGED <<pc[q], todo[q], seen[q]>>
  BY <1>8, OthersKept DEF Mine
<1> QED
  BY <1>1, <1>2, <1>3, <1>4, <1>5, <1>6, <1>7, <1>8 DEF Next

\* A lost increment leaves a counter short, and none makes it exceed who was counted.
LEMMA BoundKept ==
    ASSUME PeerType, PeerType', CountInv, [Next]_vars, NEW i \in Pieces
    PROVE  availability'[i] <= Cardinality(Counters(i)')
<1>0. /\ \A p \in Peers : News(p) /\ First(p) /\ Todo(p)
      /\ availability[i] \in Nat /\ availability[i] <= Cardinality(Counters(i))
      /\ Cardinality(Counters(i)) \in Nat /\ Cardinality(Counters(i)') \in Nat
  BY CountersNumber DEF CountInv, PeerType
<1>1. Cardinality(Counters(i)) <= Cardinality(Counters(i)')
  BY <1>0, MoreCounters
<1>2. CASE UNCHANGED availability[i]
  BY <1>0, <1>1, <1>2
<1>3. ASSUME NEW p \in Peers, WriteAvailability(p), i = Counts(p)
      PROVE  availability'[i] <= Cardinality(Counters(i)')
  <2>1. /\ todo[p] # {} /\ seen[p] \in Nat /\ seen[p] <= Cardinality(Counters(i))
        /\ availability'[i] = seen[p] + 1
    BY <1>3 DEF WriteAvailability, CountInv, Seen, PeerType
  <2>2. i \in todo[p] /\ i \in piece_present[p]
    BY <1>3, <2>1, CountsOne DEF CountInv, Todo
  <2>3. p \in Counters(i)' /\ p \notin Counters(i)
    BY <1>3, <2>2 DEF WriteAvailability, Counters, peerVars, PeerType
  <2>4. Counters(i) \cup {p} \subseteq Counters(i)'
    BY <1>0, <2>3, CountersGrow
  <2>5. Cardinality(Counters(i) \cup {p}) = Cardinality(Counters(i)) + 1
    BY <2>3, CountersNumber, FS_AddElement
  <2>6. Cardinality(Counters(i) \cup {p}) <= Cardinality(Counters(i)')
    BY <2>4, CountersNumber, FS_Subset
  <2> QED
    BY <1>0, <2>1, <2>5, <2>6
<1>4. UNCHANGED availability[i] \/ \E p \in Peers : WriteAvailability(p) /\ i = Counts(p)
  <2>1. Strand \/ PickerRace \/ UNCHANGED vars => UNCHANGED availability
    BY StrandSteps
  <2>2. ASSUME NEW p \in Peers, Handler(p) PROVE UNCHANGED availability
    BY <2>2 DEF Handler, ReceiveChoke, ReceiveUnchoke, ReceiveHave, ReceiveBitfield, ReceivePiece, pickerVars
  <2>3. ASSUME NEW p \in Peers, HandlerStep(p) PROVE UNCHANGED availability[i] \/ (WriteAvailability(p) /\ i = Counts(p))
    <3>1. UNCHANGED availability \/ WriteAvailability(p)
      BY <2>3 DEF HandlerStep, ReadAvailability, FinishBitfield, FinishHave, StorePiece, Pick, Scan,
                  Claim, SkipLocked, NextAttempt, pickerVars
    <3>2. WriteAvailability(p) => availability' = [availability EXCEPT ![Counts(p)] = seen[p] + 1]
      BY DEF WriteAvailability
    <3> QED
      BY <3>1, <3>2 DEF PeerType
  <2>4. ASSUME NEW p \in Peers, Remote(p) PROVE UNCHANGED availability
    BY <2>4 DEF Remote, RemoteBitfield, RemoteHave, RemoteUnchoke, RemoteChoke, RemoteAnswer,
                RemoteDrop, Break, ourVars, pickerVars
  <2> QED
    BY <2>1, <2>2, <2>3, <2>4 DEF Next
<1> QED
  BY <1>2, <1>3, <1>4

LEMMA CountKept ==
    ASSUME PeerInv, PeerInv', CountInv, [Next]_vars
    PROVE  CountInv'
<1>0. PeerType /\ PeerType' /\ \A p \in Peers : Told(p) /\ News(p) /\ First(p) /\ Begun(p) /\ Todo(p)
  BY DEF PeerInv, CountInv, Welcomed
<1>1. \A i \in Pieces : availability'[i] <= Cardinality(Counters(i)')
  BY <1>0, BoundKept
<1>2. \A q \in Peers : Seen(q)'
  BY <1>0, SeenKept
<1>3. ASSUME NEW q \in Peers, UNCHANGED <<inbox[q], piece_present[q], choked[q], greeted[q], pc[q], todo[q]>>
      PROVE  News(q)' /\ First(q)' /\ Begun(q)' /\ Todo(q)'
  <2>1. News(q)'
    BY <1>0, <1>3 DEF News
  <2>2. First(q)'
    BY <1>0, <1>3 DEF First
  <2>3. Begun(q)' /\ Todo(q)'
    BY <1>0, <1>3 DEF Begun, Todo
  <2> QED
    BY <2>1, <2>2, <2>3
<1>4. \A q \in Peers : News(q)' /\ First(q)' /\ Begun(q)' /\ Todo(q)'
  <2>1. CASE Strand \/ PickerRace \/ UNCHANGED vars
    BY <1>0, <1>3, <2>1, StrandSteps
  <2>2. ASSUME NEW p \in Peers, Handler(p) \/ HandlerStep(p) \/ Remote(p), NEW q \in Peers
        PROVE  News(q)' /\ First(q)' /\ Begun(q)' /\ Todo(q)'
    <3>1. CASE q = p
      BY <1>0, <2>2, <3>1, NewsKept, BegunKept
    <3>2. CASE q # p
      BY <1>0, <1>3, <2>2, <3>2, OthersKept DEF Mine
    <3> QED
      BY <3>1, <3>2
  <2> QED
    BY <2>1, <2>2 DEF Next
<1> QED
  BY <1>1, <1>2, <1>4 DEF CountInv

\* Every message about a piece is counted once.
THEOREM CountInvariant == Spec => []CountInv
<1>1. Init => CountInv
  <2> SUFFICES ASSUME Init PROVE CountInv
    OBVIOUS
  <2>1. ASSUME NEW i \in Pieces PROVE availability[i] <= Cardinality(Counters(i))
    <3>1. availability[i] = 0
      BY DEF Init
    <3> QED
      BY <3>1, CountersNumber
  <2>2. ASSUME NEW p \in Peers PROVE News(p) /\ First(p) /\ Begun(p) /\ Todo(p) /\ Seen(p)
    <3>1. inbox[p] = <<>> /\ piece_present[p] = {} /\ choked[p] /\ pc[p] = "idle" /\ todo[p] = {}
      BY DEF Init
    <3> QED
      BY <3>1 DEF News, First, Begun, Todo, Seen
  <2> QED
    BY <2>1, <2>2 DEF CountInv
<1>2. PeerInv /\ PeerInv' /\ CountInv /\ [Next]_vars => CountInv'
  BY CountKept
<1> QED
  BY <1>1, <1>2, PeerInvariant, PTL DEF Spec

\* The types, with their bounds: a pipeline overshoots by less than one piece, no more
\* pieces are tried than there are, and no piece is more available than there are peers,
\* on any number of threads.
THEOREM TypesAndBounds == Spec => []TypeOK
<1>1. PeerInv /\ PipeInv /\ CountInv => TypeOK
  <2> SUFFICES ASSUME PeerInv, PipeInv, CountInv PROVE TypeOK
    OBVIOUS
  <2>1. PeerType /\ PipeType
    BY DEF PeerInv, PipeInv
  <2>2. blocks_in_queue \in [Peers -> 0 .. PipelineSize + MaxBlocks - 1]
    BY <2>1 DEF PipeInv, Room, Most, PeerType
  <2>3. attempt \in [Peers -> 0 .. Cardinality(Pieces)]
    BY <2>1, PieceNumbers DEF PipeInv, Tried, PipeType
  <2>4. availability \in [Pieces -> 0 .. Cardinality(Peers)]
    <3>1. ASSUME NEW i \in Pieces PROVE availability[i] \in 0 .. Cardinality(Peers)
      <4>1. availability[i] \in Nat /\ availability[i] <= Cardinality(Counters(i))
        BY <2>1 DEF PeerType, CountInv
      <4>2. Cardinality(Counters(i)) \in Nat /\ Cardinality(Counters(i)) <= Cardinality(Peers) /\ Cardinality(Peers) \in Nat
        BY CountersNumber
      <4> QED
        BY <4>1, <4>2
    <3>2. DOMAIN availability = Pieces /\ availability = [i \in Pieces |-> availability[i]]
      BY <2>1 DEF PeerType
    <3> QED
      BY <3>1, <3>2
  <2> QED
    BY <2>1, <2>2, <2>3, <2>4 DEF TypeOK, PeerType, PipeType
<1> QED
  BY <1>1, PeerInvariant, PipeInvariant, CountInvariant, PTL

-----------------------------------------------------------------------------
(* The marks on the blocks, while the pieces stand in order.                *)

\* The blocks asked of p, and those on their way from it.
Wanted(p) == {outbox[p][k] : k \in DOMAIN outbox[p]}
Arriving(p) == {inbox[p][k].block : k \in Answers(p)}

LEMMA OutstandingSomewhere ==
    ASSUME NEW b
    PROVE  Outstanding(b) # {} <=> \E p \in Peers : b \in Wanted(p) \cup Arriving(p)
<1>1. ASSUME NEW p \in Peers, b \in Wanted(p) PROVE Outstanding(b) # {}
  <2>1. PICK k \in DOMAIN outbox[p] : outbox[p][k] = b
    BY <1>1 DEF Wanted
  <2>2. <<p, "asked", k>> \in Outstanding(b)
    BY <2>1 DEF Outstanding, RequestsFor
  <2> QED
    BY <2>2
<1>2. ASSUME NEW p \in Peers, b \in Arriving(p) PROVE Outstanding(b) # {}
  <2>1. PICK k \in Answers(p) : inbox[p][k].block = b
    BY <1>2 DEF Arriving
  <2>2. <<p, "answered", k>> \in Outstanding(b)
    BY <2>1 DEF Outstanding, AnswersWith
  <2> QED
    BY <2>2
<1>3. ASSUME NEW x \in Outstanding(b) PROVE \E p \in Peers : b \in Wanted(p) \cup Arriving(p)
  <2>1. PICK p \in Peers : RequestsFor(p, b) # {} \/ AnswersWith(p, b) # {}
    BY <1>3 DEF Outstanding
  <2> QED
    BY <2>1 DEF RequestsFor, AnswersWith, Wanted, Arriving
<1> QED
  BY <1>1, <1>2, <1>3

\* get_piece finds the piece, and the block in it.
LEMMA InPlace ==
    ASSUME InOrder, NEW b \in Blocks
    PROVE  LET there == BlockList[pieces[PieceOf[b] + 1]]
           IN  Position(b) <= Len(there) /\ there[Position(b)] = b
<1> DEFINE list == BlockList[PieceOf[b]]
<1>1. PieceOf[b] \in Pieces
  BY PiecesAssumption
<1>2. pieces[PieceOf[b] + 1] = PieceOf[b]
  BY <1>1 DEF InOrder
<1>3. list \in Seq(BlocksOf(PieceOf[b])) /\ ToSet(list) = BlocksOf(PieceOf[b]) /\ b \in BlocksOf(PieceOf[b])
  BY <1>1, BlockListAssumption DEF BlocksOf
<1>4. \E k \in DOMAIN list : list[k] = b
  BY <1>3 DEF ToSet
<1>5. Position(b) \in DOMAIN list /\ list[Position(b)] = b
  BY <1>4 DEF Position
<1> QED
  BY <1>2, <1>3, <1>5

\* In order, the flag that is cleared is that of the block that has come.
LEMMA PieceInOrder ==
    ASSUME PeerType, InOrder, NEW p \in Peers, ReceivePiece(p)
    PROVE  LET b == Head(inbox[p]).block IN
           /\ b \in Blocks /\ Head(inbox[p]).type = "piece"
           /\ requested_' = [requested_ EXCEPT ![b] = FALSE]
           /\ Goto(p, "store", <<b>>)
           /\ UNCHANGED storageVars
<1>1. Receive(p, "piece")
  BY DEF ReceivePiece
<1>2. Head(inbox[p]).block \in Blocks /\ Head(inbox[p]).type = "piece"
  BY <1>1, Received, Fields
<1> QED
  BY <1>2, InPlace DEF ReceivePiece

\* What a step does to the requests and the answers of its peer.
LEMMA RequestSteps ==
    ASSUME PeerType, PipeType, InOrder, NEW p \in Peers, Claiming(p), Handler(p) \/ HandlerStep(p) \/ Remote(p)
    PROVE  \/ /\ ReceivePiece(p)
              /\ UNCHANGED <<outbox, dropped>>
              /\ inbox[p] # <<>> /\ inbox'[p] = Tail(inbox[p]) /\ IsPiece(Head(inbox[p]))
              /\ requested_' = [requested_ EXCEPT ![Head(inbox[p]).block] = FALSE]
           \/ /\ Claim(p)
              /\ Head(scan[p]) \in Blocks
              /\ outbox'[p] = Append(outbox[p], Head(scan[p])) /\ UNCHANGED <<inbox, dropped>>
              /\ requested_' = [requested_ EXCEPT ![Head(scan[p])] = TRUE]
           \/ /\ UNCHANGED <<requested_, outbox, dropped>>
              /\ inbox[p] # <<>> /\ inbox'[p] = Tail(inbox[p]) /\ ~IsPiece(Head(inbox[p]))
           \/ UNCHANGED <<requested_, inbox, outbox, dropped>>
           \/ \E m : /\ UNCHANGED <<requested_, outbox, dropped>> /\ ~IsPiece(m)
                     /\ inbox'[p] = Append(inbox[p], m)
           \/ /\ UNCHANGED <<requested_, dropped>>
              /\ outbox[p] # <<>> /\ outbox'[p] = Tail(outbox[p])
              /\ inbox'[p] = Append(inbox[p], [type |-> "piece", block |-> Head(outbox[p])])
           \/ /\ UNCHANGED <<requested_, inbox>>
              /\ outbox[p] # <<>> /\ outbox'[p] = Tail(outbox[p])
              /\ dropped'[p].blocks = dropped[p].blocks \cup {Head(outbox[p])}
           \/ /\ UNCHANGED <<requested_, outbox>> /\ inbox'[p] = <<>>
              /\ dropped'[p].blocks = dropped[p].blocks \cup Arriving(p)
<1>1. CASE ReceivePiece(p)
  BY <1>1, PieceInOrder DEF ReceivePiece, Receive, IsPiece, PeerType
<1>2. CASE ReceiveChoke(p) \/ ReceiveUnchoke(p) \/ ReceiveHave(p) \/ ReceiveBitfield(p)
  BY <1>2 DEF ReceiveChoke, ReceiveUnchoke, ReceiveHave, ReceiveBitfield, Receive, IsPiece, PeerType
<1>3. CASE Claim(p)
  <2>1. Head(scan[p]) \in Blocks
    BY <1>3 DEF Claim, Claiming, PeerType
  <2> QED
    BY <1>3, <2>1 DEF Claim, PeerType
<1>4. CASE HandlerStep(p) /\ ~Claim(p)
  BY <1>4 DEF HandlerStep, ReadAvailability, WriteAvailability, FinishBitfield, FinishHave, StorePiece,
              Pick, Scan, SkipLocked, NextAttempt
<1>5. CASE (\E S \in SUBSET Pieces : RemoteBitfield(p, S)) \/ (\E i \in Pieces : RemoteHave(p, i))
           \/ RemoteUnchoke(p) \/ RemoteChoke(p)
  BY <1>5 DEF RemoteBitfield, RemoteHave, RemoteUnchoke, RemoteChoke, Send, ourVars, IsPiece, PeerType
<1>6. CASE RemoteAnswer(p)
  BY <1>6 DEF RemoteAnswer, Send, ourVars, PeerType
<1>7. CASE RemoteDrop(p)
  BY <1>7 DEF RemoteDrop, Drop, ourVars, PeerType, PipeType
<1>8. CASE Break(p)
  BY <1>8 DEF Break, Drop, ourVars, PeerType, PipeType, Arriving
<1> QED
  BY <1>1, <1>2, <1>3, <1>4, <1>5, <1>6, <1>7, <1>8 DEF Handler, Remote

LEMMA AsideRequests ==
    ASSUME PeerType, Strand \/ PickerRace \/ UNCHANGED vars
    PROVE  UNCHANGED <<requested_, inbox, outbox, dropped>>
<1>1. UNCHANGED <<inbox, outbox>>
  BY StrandSteps
<1>2. UNCHANGED <<requested_, dropped>>
  BY DEF Strand, PickerRace, BlockWritten, PieceVerified, PieceFailed, StorageFails, vars
<1> QED
  BY <1>1, <1>2

\* No block is asked for twice, and none that is on its way.
AskedOnce(p) == \A k, l \in DOMAIN outbox[p] : outbox[p][k] = outbox[p][l] => k = l
ArrivesOnce(p) == \A k, l \in Answers(p) : inbox[p][k].block = inbox[p][l].block => k = l
Once(p) == AskedOnce(p) /\ ArrivesOnce(p) /\ Wanted(p) \cap Arriving(p) = {}

\* A request leaves its queue at the front ...
LEMMA WantedTail ==
    ASSUME PeerType, NEW p \in Peers, outbox[p] # <<>>, outbox'[p] = Tail(outbox[p])
    PROVE  /\ Wanted(p) = Wanted(p)' \cup {Head(outbox[p])}
           /\ AskedOnce(p) => AskedOnce(p)' /\ Head(outbox[p]) \notin Wanted(p)'
<1>1. outbox[p] \in Seq(Blocks)
  BY DEF PeerType
<1>2. /\ 1 \in DOMAIN outbox[p] /\ outbox[p][1] = Head(outbox[p])
      /\ \A k \in DOMAIN outbox'[p] : k \in Nat \ {0} /\ k + 1 \in DOMAIN outbox[p] /\ outbox'[p][k] = outbox[p][k + 1]
      /\ \A k \in DOMAIN outbox[p] : k = 1 \/ (k - 1 \in DOMAIN outbox'[p] /\ outbox'[p][k - 1] = outbox[p][k])
  <2>1. /\ outbox[p] = <<Head(outbox[p])>> \o outbox'[p] /\ outbox'[p] \in Seq(Blocks)
        /\ Len(outbox[p]) = Len(outbox'[p]) + 1 /\ Len(outbox'[p]) \in Nat
    BY <1>1
  <2> QED
    BY <1>1, <2>1
<1>3. Wanted(p)' \subseteq Wanted(p) /\ Head(outbox[p]) \in Wanted(p)
  BY <1>2 DEF Wanted
<1>4. Wanted(p) \subseteq Wanted(p)' \cup {Head(outbox[p])}
  <2>1. ASSUME NEW k \in DOMAIN outbox[p], k # 1 PROVE outbox[p][k] \in Wanted(p)'
    <3>1. k - 1 \in DOMAIN outbox'[p] /\ outbox'[p][k - 1] = outbox[p][k]
      BY <1>2, <2>1
    <3> QED
      BY <3>1 DEF Wanted
  <2> QED
    BY <1>2, <2>1 DEF Wanted
<1>5. ASSUME AskedOnce(p) PROVE AskedOnce(p)' /\ Head(outbox[p]) \notin Wanted(p)'
  <2>1. ASSUME NEW k \in DOMAIN outbox'[p], NEW l \in DOMAIN outbox'[p], outbox'[p][k] = outbox'[p][l]
        PROVE  k = l
    <3>1. k + 1 = l + 1
      BY <1>2, <1>5, <2>1 DEF AskedOnce
    <3> QED
      BY <1>2, <3>1
  <2>2. ASSUME NEW k \in DOMAIN outbox'[p] PROVE outbox'[p][k] # Head(outbox[p])
    <3>1. k + 1 # 1
      BY <1>2
    <3> QED
      BY <1>2, <1>5, <3>1 DEF AskedOnce
  <2> QED
    BY <2>1, <2>2 DEF AskedOnce, Wanted
<1> QED
  BY <1>3, <1>4, <1>5

\* ... and enters it at the end.
LEMMA WantedAppend ==
    ASSUME PeerType, NEW p \in Peers, NEW b \in Blocks, outbox'[p] = Append(outbox[p], b)
    PROVE  /\ Wanted(p)' = Wanted(p) \cup {b}
           /\ AskedOnce(p) /\ b \notin Wanted(p) => AskedOnce(p)'
<1>1. outbox[p] \in Seq(Blocks)
  BY DEF PeerType
<1>2. /\ \A k \in DOMAIN outbox[p] : k \in DOMAIN outbox'[p] /\ outbox'[p][k] = outbox[p][k]
      /\ \A k \in DOMAIN outbox'[p] : \/ k \in DOMAIN outbox[p] /\ outbox'[p][k] = outbox[p][k]
                                      \/ k = Len(outbox[p]) + 1 /\ outbox'[p][k] = b
      /\ Len(outbox[p]) + 1 \in DOMAIN outbox'[p] /\ outbox'[p][Len(outbox[p]) + 1] = b
  BY <1>1
<1>3. Wanted(p)' = Wanted(p) \cup {b}
  BY <1>2 DEF Wanted
<1>4. ASSUME AskedOnce(p), b \notin Wanted(p) PROVE AskedOnce(p)'
  <2>1. \A k \in DOMAIN outbox[p] : outbox[p][k] # b
    BY <1>4 DEF Wanted
  <2> QED
    BY <1>2, <1>4, <2>1 DEF AskedOnce
<1> QED
  BY <1>3, <1>4

LEMMA ArrivingTail ==
    ASSUME PeerType, NEW p \in Peers, inbox[p] # <<>>, inbox'[p] = Tail(inbox[p])
    PROVE  LET m == Head(inbox[p]) IN
           /\ Arriving(p) = Arriving(p)' \cup (IF IsPiece(m) THEN {m.block} ELSE {})
           /\ ArrivesOnce(p) => ArrivesOnce(p)' /\ (IsPiece(m) => m.block \notin Arriving(p)')
<1> DEFINE m == Head(inbox[p])
<1>1. inbox[p] \in Seq(Messages)
  BY DEF PeerType
<1>2. /\ 1 \in DOMAIN inbox[p] /\ inbox[p][1] = m
      /\ \A k \in DOMAIN inbox'[p] : k \in Nat \ {0} /\ k + 1 \in DOMAIN inbox[p] /\ inbox'[p][k] = inbox[p][k + 1]
      /\ \A k \in DOMAIN inbox[p] : k = 1 \/ (k - 1 \in DOMAIN inbox'[p] /\ inbox'[p][k - 1] = inbox[p][k])
  BY <1>1
<1>3. /\ \A k \in Answers(p)' : k \in Nat \ {0} /\ k + 1 \in Answers(p) /\ inbox'[p][k] = inbox[p][k + 1]
      /\ \A k \in Answers(p) : k = 1 \/ (k - 1 \in Answers(p)' /\ inbox'[p][k - 1] = inbox[p][k])
      /\ 1 \in Answers(p) <=> IsPiece(m)
  BY <1>2 DEF Answers
<1>4. Arriving(p) = Arriving(p)' \cup (IF IsPiece(m) THEN {m.block} ELSE {})
  <2>1. Arriving(p)' \subseteq Arriving(p)
    BY <1>3, ZenonT(40) DEF Arriving
  <2>2. IsPiece(m) => m.block \in Arriving(p)
    BY <1>2, <1>3 DEF Arriving
  <2>3. ASSUME NEW k \in Answers(p)
        PROVE  inbox[p][k].block \in Arriving(p)' \cup (IF IsPiece(m) THEN {m.block} ELSE {})
    <3>1. CASE k = 1
      BY <1>2, <1>3, <2>3, <3>1
    <3>2. CASE k # 1
      <4>1. k - 1 \in Answers(p)' /\ inbox'[p][k - 1].block = inbox[p][k].block
        BY <1>3, <2>3, <3>2
      <4> QED
        BY <4>1 DEF Arriving
    <3> QED
      BY <3>1, <3>2
  <2>4. Arriving(p) \subseteq Arriving(p)' \cup (IF IsPiece(m) THEN {m.block} ELSE {})
    BY <2>3 DEF Arriving
  <2> QED
    BY <2>1, <2>2, <2>4
<1>5. ASSUME ArrivesOnce(p) PROVE ArrivesOnce(p)' /\ (IsPiece(m) => m.block \notin Arriving(p)')
  <2>1. ASSUME NEW k \in Answers(p)', NEW l \in Answers(p)', inbox'[p][k].block = inbox'[p][l].block
        PROVE  k = l
    <3>1. /\ k + 1 \in Answers(p) /\ inbox[p][k + 1].block = inbox'[p][k].block
          /\ l + 1 \in Answers(p) /\ inbox[p][l + 1].block = inbox'[p][l].block
      BY <1>3
    <3>2. k + 1 = l + 1
      BY <1>5, <2>1, <3>1 DEF ArrivesOnce
    <3> QED
      BY <1>3, <3>2
  <2>2. ASSUME IsPiece(m), NEW k \in Answers(p)' PROVE inbox'[p][k].block # m.block
    <3>1. k + 1 # 1 /\ k + 1 \in Answers(p) /\ 1 \in Answers(p)
      BY <1>3, <2>2
    <3> QED
      BY <1>2, <1>3, <1>5, <3>1 DEF ArrivesOnce
  <2> QED
    BY <2>1, <2>2 DEF ArrivesOnce, Arriving
<1> QED
  BY <1>4, <1>5

LEMMA ArrivingAppend ==
    ASSUME PeerType, NEW p \in Peers, NEW m, inbox'[p] = Append(inbox[p], m)
    PROVE  /\ Arriving(p)' = Arriving(p) \cup (IF IsPiece(m) THEN {m.block} ELSE {})
           /\ ArrivesOnce(p) /\ (IsPiece(m) => m.block \notin Arriving(p)) => ArrivesOnce(p)'
<1>1. inbox[p] \in Seq(Messages)
  BY DEF PeerType
<1>2. /\ \A k \in DOMAIN inbox[p] : k \in DOMAIN inbox'[p] /\ inbox'[p][k] = inbox[p][k]
      /\ \A k \in DOMAIN inbox'[p] : \/ k \in DOMAIN inbox[p] /\ inbox'[p][k] = inbox[p][k]
                                     \/ k = Len(inbox[p]) + 1 /\ inbox'[p][k] = m
      /\ Len(inbox[p]) + 1 \in DOMAIN inbox'[p] /\ inbox'[p][Len(inbox[p]) + 1] = m
  BY <1>1
<1>3. /\ \A k \in Answers(p) : k \in Answers(p)' /\ inbox'[p][k] = inbox[p][k]
      /\ \A k \in Answers(p)' : \/ k \in Answers(p) /\ inbox'[p][k] = inbox[p][k]
                                \/ k = Len(inbox[p]) + 1 /\ inbox'[p][k] = m /\ IsPiece(m)
      /\ IsPiece(m) => Len(inbox[p]) + 1 \in Answers(p)' /\ inbox'[p][Len(inbox[p]) + 1] = m
  BY <1>2 DEF Answers
<1>4. Arriving(p)' = Arriving(p) \cup (IF IsPiece(m) THEN {m.block} ELSE {})
  <2>1. Arriving(p) \subseteq Arriving(p)'
    BY <1>3 DEF Arriving
  <2>2. IsPiece(m) => m.block \in Arriving(p)'
    BY <1>3 DEF Arriving
  <2>3. Arriving(p)' \subseteq Arriving(p) \cup (IF IsPiece(m) THEN {m.block} ELSE {})
    BY <1>3 DEF Arriving
  <2> QED
    BY <2>1, <2>2, <2>3
<1>5. ASSUME ArrivesOnce(p), IsPiece(m) => m.block \notin Arriving(p) PROVE ArrivesOnce(p)'
  <2>1. IsPiece(m) => \A k \in Answers(p) : inbox[p][k].block # m.block
    BY <1>5 DEF Arriving
  <2> QED
    BY <1>3, <1>5, <2>1 DEF ArrivesOnce
<1> QED
  BY <1>4, <1>5

-----------------------------------------------------------------------------
\* The blocks a peer was asked for and has not delivered.
Owed(p) == Wanted(p) \cup Arriving(p) \cup dropped[p].blocks

\* A block is owed until it is delivered and its mark cleared.
LEMMA OwedKept ==
    ASSUME PeerType, PipeType, InOrder, NEW p \in Peers, Claiming(p), Handler(p) \/ HandlerStep(p) \/ Remote(p),
           NEW b \in Blocks, requested_'[b], requested_[b] => b \in Owed(p)
    PROVE  b \in Owed(p)'
<1> DEFINE m == Head(inbox[p])
<1>0. requested_ \in [Blocks -> BOOLEAN] /\ inbox[p] \in Seq(Messages) /\ outbox[p] \in Seq(Blocks)
  BY DEF PeerType, PipeType
<1>1. CASE /\ UNCHANGED <<outbox, dropped>>
           /\ inbox[p] # <<>> /\ inbox'[p] = Tail(inbox[p]) /\ IsPiece(m)
           /\ requested_' = [requested_ EXCEPT ![m.block] = FALSE]
  <2>1. b # m.block /\ requested_[b]
    BY <1>0, <1>1
  <2>2. Arriving(p) \subseteq Arriving(p)' \cup {m.block} /\ Wanted(p)' = Wanted(p)
    BY <1>1, ArrivingTail DEF Wanted
  <2> QED
    BY <1>1, <2>1, <2>2 DEF Owed
<1>2. CASE \E c \in Blocks : /\ outbox'[p] = Append(outbox[p], c) /\ UNCHANGED <<inbox, dropped>>
                             /\ requested_' = [requested_ EXCEPT ![c] = TRUE]
  <2>1. PICK c \in Blocks : /\ outbox'[p] = Append(outbox[p], c) /\ UNCHANGED <<inbox, dropped>>
                           /\ requested_' = [requested_ EXCEPT ![c] = TRUE]
    BY <1>2
  <2>2. Wanted(p)' = Wanted(p) \cup {c} /\ Arriving(p)' = Arriving(p)
    BY <2>1, WantedAppend DEF Arriving, Answers
  <2>3. b = c \/ requested_[b]
    BY <1>0, <2>1
  <2> QED
    BY <2>1, <2>2, <2>3 DEF Owed
<1>3. CASE /\ UNCHANGED <<requested_, outbox, dropped>>
           /\ inbox[p] # <<>> /\ inbox'[p] = Tail(inbox[p]) /\ ~IsPiece(m)
  <2>1. Arriving(p) = Arriving(p)' /\ Wanted(p)' = Wanted(p)
    BY <1>3, ArrivingTail DEF Wanted
  <2> QED
    BY <1>3, <2>1 DEF Owed
<1>4. CASE UNCHANGED <<requested_, inbox, outbox, dropped>>
  BY <1>4 DEF Owed, Wanted, Arriving, Answers
<1>5. CASE \E n : /\ UNCHANGED <<requested_, outbox, dropped>> /\ ~IsPiece(n)
                 /\ inbox'[p] = Append(inbox[p], n)
  <2>1. Arriving(p) = Arriving(p)' /\ Wanted(p)' = Wanted(p)
    BY <1>5, ArrivingAppend DEF Wanted
  <2> QED
    BY <1>5, <2>1 DEF Owed
<1>6. CASE /\ UNCHANGED <<requested_, dropped>>
           /\ outbox[p] # <<>> /\ outbox'[p] = Tail(outbox[p])
           /\ inbox'[p] = Append(inbox[p], [type |-> "piece", block |-> Head(outbox[p])])
  <2>1. Wanted(p) = Wanted(p)' \cup {Head(outbox[p])}
    BY <1>6, WantedTail
  <2>2. Arriving(p)' = Arriving(p) \cup {Head(outbox[p])}
    BY <1>6, ArrivingAppend DEF IsPiece
  <2> QED
    BY <1>6, <2>1, <2>2 DEF Owed
<1>7. CASE /\ UNCHANGED <<requested_, inbox>>
           /\ outbox[p] # <<>> /\ outbox'[p] = Tail(outbox[p])
           /\ dropped'[p].blocks = dropped[p].blocks \cup {Head(outbox[p])}
  <2>1. Wanted(p) = Wanted(p)' \cup {Head(outbox[p])} /\ Arriving(p)' = Arriving(p)
    BY <1>7, WantedTail DEF Arriving, Answers
  <2> QED
    BY <1>7, <2>1 DEF Owed
<1>8. CASE /\ UNCHANGED <<requested_, outbox>>
           /\ dropped'[p].blocks = dropped[p].blocks \cup Arriving(p)
  BY <1>8 DEF Owed, Wanted
<1> QED
  BY <1>1, <1>2, <1>3, <1>4, <1>5, <1>6, <1>7, <1>8, RequestSteps

\* What is owed by one peer is not lost by a step of another.
LEMMA OwedAside ==
    ASSUME PeerType, PipeType, NEW p \in Peers, NEW q \in Peers, q # p,
           Handler(p) \/ HandlerStep(p) \/ Remote(p)
    PROVE  Owed(q)' = Owed(q)
<1>1. UNCHANGED <<inbox[q], outbox[q], dropped[q]>>
  BY OthersKept, OthersTried DEF Mine
<1> QED
  BY <1>1 DEF Owed, Wanted, Arriving, Answers

LEMMA AskedWhileMarked ==
    ASSUME PeerInv, PipeInv, InOrder, RequestedIsAsked, [Next]_vars
    PROVE  RequestedIsAsked'
<1>0. PeerType /\ PipeType /\ \A p \in Peers : Claiming(p)
  BY DEF PeerInv, PipeInv, Welcomed
<1>1. ASSUME NEW b \in Blocks, requested_[b] PROVE \E p \in Peers : b \in Owed(p)
  BY <1>1, OutstandingSomewhere DEF RequestedIsAsked, Owed
<1>2. ASSUME NEW b \in Blocks, requested_'[b] PROVE \E p \in Peers : b \in Owed(p)'
  <2>1. CASE Strand \/ PickerRace \/ UNCHANGED vars
    <3>1. UNCHANGED <<requested_, inbox, outbox, dropped>>
      BY <1>0, <2>1, AsideRequests
    <3> QED
      BY <1>1, <1>2, <3>1 DEF Owed, Wanted, Arriving, Answers
  <2>2. ASSUME NEW p \in Peers, Handler(p) \/ HandlerStep(p) \/ Remote(p)
        PROVE  \E q \in Peers : b \in Owed(q)'
    <3>1. CASE requested_[b] => b \in Owed(p)
      BY <1>0, <1>2, <2>2, <3>1, OwedKept
    <3>2. CASE \E q \in Peers : q # p /\ b \in Owed(q)
      BY <1>0, <2>2, <3>2, OwedAside
    <3> QED
      BY <1>1, <3>1, <3>2
  <2> QED
    BY <2>1, <2>2 DEF Next
<1>3. ASSUME NEW b \in Blocks, requested_'[b]
      PROVE  Outstanding(b)' # {} \/ \E p \in Peers : b \in dropped'[p].blocks
  <2>1. (Outstanding(b) # {} <=> \E p \in Peers : b \in Wanted(p) \cup Arriving(p))'
    BY OutstandingSomewhere, PTL
  <2> QED
    BY <1>2, <1>3, <2>1 DEF Owed
<1> QED
  BY <1>3 DEF RequestedIsAsked

\* While the pieces stand in order, a block marked requested is being fetched or its
\* request was lost, on any number of threads: PIECE clears the mark of the block that
\* came and of no other.
THEOREM MarkedIsAsked == Spec /\ []InOrder => []RequestedIsAsked
<1>1. Init => RequestedIsAsked
  BY DEF Init, RequestedIsAsked
<1>2. PeerInv /\ PipeInv /\ InOrder /\ RequestedIsAsked /\ [Next]_vars => RequestedIsAsked'
  BY AskedWhileMarked
<1> QED
  BY <1>1, <1>2, PeerInvariant, PipeInvariant, PTL DEF Spec

-----------------------------------------------------------------------------
(* One thread.                                                              *)

\* One handler runs at a time, and nothing marks the block it is about to claim.
OneRuns == \A p, q \in Peers : pc[p] # "idle" /\ pc[q] # "idle" => p = q
ClaimFree(p) == pc[p] = "claim" => ~requested_[Head(scan[p])]
Alone == OneRuns /\ \A p \in Peers : ClaimFree(p)

LEMMA NoneRuns ==
    ASSUME NumThreads = 1, FreeThread
    PROVE  \A p \in Peers : pc[p] = "idle"
<1>1. IsFiniteSet(Running) /\ Cardinality(Running) < 1
  BY PiecesAssumption, FS_Subset DEF Running, FreeThread
<1>2. Cardinality(Running) = 0
  BY <1>1, FS_CardinalityType
<1>3. Running = {}
  BY <1>1, <1>2, FS_EmptySet
<1> QED
  BY <1>3 DEF Running

LEMMA HandlerStarts ==
    ASSUME NEW p \in Peers, Handler(p)
    PROVE  FreeThread
  BY DEF Handler, ReceiveChoke, ReceiveUnchoke, ReceiveHave, ReceiveBitfield, ReceivePiece, Receive

LEMMA HandlerRuns ==
    ASSUME NEW p \in Peers, HandlerStep(p)
    PROVE  pc[p] # "idle"
  BY DEF HandlerStep, ReadAvailability, WriteAvailability, FinishBitfield, FinishHave, StorePiece,
         Pick, Scan, Claim, SkipLocked, NextAttempt

LEMMA RemoteAside ==
    ASSUME NEW p \in Peers, Remote(p)
    PROVE  UNCHANGED <<storageVars, requested_, peerVars, handlerVars, pickerVars>>
  BY DEF Remote, RemoteBitfield, RemoteHave, RemoteUnchoke, RemoteChoke, RemoteAnswer,
         RemoteDrop, Break, ourVars

LEMMA AloneKept ==
    ASSUME NumThreads = 1, PeerType, PipeType, \A p \in Peers : Claiming(p), Alone, [Next]_vars
    PROVE  Alone'
<1>1. CASE UNCHANGED <<pc, scan, requested_>>
  BY <1>1 DEF Alone, OneRuns, ClaimFree
<1>2. Strand \/ PickerRace \/ UNCHANGED vars => UNCHANGED <<pc, scan, requested_>>
  BY StrandSteps, AsideRequests
<1>3. ASSUME NEW p \in Peers, Remote(p) PROVE UNCHANGED <<pc, scan, requested_>>
  BY <1>3, RemoteAside DEF handlerVars
<1>4. ASSUME NEW p \in Peers, Handler(p) \/ HandlerStep(p) PROVE OneRuns'
  <2>1. \A q \in Peers \ {p} : pc[q] = "idle"
    BY <1>4, HandlerStarts, NoneRuns, HandlerRuns DEF Alone, OneRuns
  <2>2. \A q \in Peers \ {p} : pc'[q] = "idle"
    BY <1>4, <2>1, OthersKept DEF Mine
  <2> QED
    BY <2>2 DEF OneRuns
<1>5. ASSUME NEW p \in Peers, Handler(p) \/ HandlerStep(p), NEW q \in Peers PROVE ClaimFree(q)'
  <2>1. CASE q # p
    BY <1>5, <2>1, HandlerStarts, NoneRuns, HandlerRuns, OthersKept DEF Alone, OneRuns, Mine, ClaimFree
  <2>2. CASE q = p /\ Handler(p)
    BY <2>2 DEF Handler, ReceiveChoke, ReceiveUnchoke, ReceiveHave, ReceiveBitfield, ReceivePiece, Receive,
                StartRequests, Goto, handlerVars, PeerType, ClaimFree
  <2>3. CASE q = p /\ Scan(p)
    BY <2>3 DEF Scan, PeerType, ClaimFree
  <2>4. CASE q = p /\ HandlerStep(p) /\ ~Scan(p)
    <3>1. ReadAvailability(p) \/ WriteAvailability(p) => pc'[p] # "claim"
      BY DEF ReadAvailability, WriteAvailability, PeerType
    <3>2. FinishBitfield(p) \/ FinishHave(p) \/ StorePiece(p) \/ Pick(p) => pc'[p] # "claim"
      BY DEF FinishBitfield, FinishHave, StorePiece, Pick, StartRequests, Return, Goto, PeerType
    <3>3. Claim(p) \/ SkipLocked(p) \/ NextAttempt(p) => pc'[p] # "claim"
      BY DEF Claim, SkipLocked, NextAttempt, Goto, PeerType
    <3> QED
      BY <2>4, <3>1, <3>2, <3>3 DEF HandlerStep, ClaimFree
  <2> QED
    BY <1>5, <2>1, <2>2, <2>3, <2>4
<1> QED
  BY <1>1, <1>2, <1>3, <1>4, <1>5 DEF Next, Alone

\* What is under way with a peer.
On(p) == Wanted(p) \cup Arriving(p)

\* Each block is under way once, and is marked meanwhile.
OnceInv ==
    /\ \A p \in Peers : Once(p) /\ \A b \in On(p) : requested_[b]
    /\ \A p, q \in Peers : p # q => On(p) \cap On(q) = {}

\* A step of p that brings nothing new and clears no mark it needs.
LEMMA OnceStep ==
    ASSUME PeerType, PipeType, InOrder, OnceInv, Alone, NEW p \in Peers, Claiming(p),
           Handler(p) \/ HandlerStep(p) \/ Remote(p)
    PROVE  /\ Once(p)'
           /\ On(p)' \subseteq On(p) \cup {b \in Blocks : ~requested_[b]}
           /\ \A b \in On(p)' : requested_'[b]
           /\ \A b \in Blocks \ On(p) : requested_[b] => requested_'[b]
<1> DEFINE m == Head(inbox[p])
<1>0. /\ requested_ \in [Blocks -> BOOLEAN] /\ inbox[p] \in Seq(Messages) /\ outbox[p] \in Seq(Blocks)
      /\ AskedOnce(p) /\ ArrivesOnce(p) /\ Wanted(p) \cap Arriving(p) = {} /\ \A b \in On(p) : requested_[b]
  BY DEF PeerType, PipeType, OnceInv, Once
<1>00. Wanted(p) \subseteq Blocks /\ Arriving(p) \subseteq Blocks
  <2>1. Wanted(p) \subseteq Blocks
    BY <1>0 DEF Wanted
  <2>2. ASSUME NEW k \in Answers(p) PROVE inbox[p][k].block \in Blocks
    BY <1>0, Fields DEF Answers, IsPiece
  <2> QED
    BY <2>1, <2>2 DEF Arriving
<1>1. CASE /\ UNCHANGED <<outbox, dropped>>
           /\ inbox[p] # <<>> /\ inbox'[p] = Tail(inbox[p]) /\ IsPiece(m)
           /\ requested_' = [requested_ EXCEPT ![m.block] = FALSE]
  <2>1. Arriving(p) = Arriving(p)' \cup {m.block} /\ ArrivesOnce(p)' /\ m.block \notin Arriving(p)'
    BY <1>0, <1>1, ArrivingTail
  <2>2. Wanted(p)' = Wanted(p) /\ AskedOnce(p)'
    BY <1>0, <1>1 DEF Wanted, AskedOnce
  <2>3. On(p)' \subseteq On(p) \ {m.block} /\ m.block \in On(p)
    BY <1>0, <2>1, <2>2 DEF On
  <2> QED
    BY <1>0, <1>00, <1>1, <2>1, <2>2, <2>3 DEF Once, On
<1>2. CASE /\ Claim(p) /\ Head(scan[p]) \in Blocks
           /\ outbox'[p] = Append(outbox[p], Head(scan[p])) /\ UNCHANGED <<inbox, dropped>>
           /\ requested_' = [requested_ EXCEPT ![Head(scan[p])] = TRUE]
  <2> DEFINE c == Head(scan[p])
  <2>1. ~requested_[c]
    BY <1>2 DEF Claim, Alone, ClaimFree
  <2>2. c \notin On(p)
    BY <1>0, <2>1
  <2>3. Wanted(p)' = Wanted(p) \cup {c} /\ AskedOnce(p)'
    BY <1>0, <1>2, <2>2, WantedAppend DEF On
  <2>4. Arriving(p)' = Arriving(p) /\ ArrivesOnce(p)'
    BY <1>0, <1>2 DEF Arriving, Answers, ArrivesOnce
  <2>5. Once(p)' /\ On(p)' = On(p) \cup {c}
    BY <1>0, <2>2, <2>3, <2>4 DEF Once, On
  <2> QED
    BY <1>0, <1>00, <1>2, <2>1, <2>5 DEF On
<1>3. CASE /\ UNCHANGED <<requested_, outbox, dropped>>
           /\ inbox[p] # <<>> /\ inbox'[p] = Tail(inbox[p]) /\ ~IsPiece(m)
  <2>1. Arriving(p) = Arriving(p)' /\ ArrivesOnce(p)'
    BY <1>0, <1>3, ArrivingTail
  <2>2. Wanted(p)' = Wanted(p) /\ AskedOnce(p)'
    BY <1>0, <1>3 DEF Wanted, AskedOnce
  <2> QED
    BY <1>0, <1>3, <2>1, <2>2 DEF Once, On
<1>4. CASE UNCHANGED <<requested_, inbox, outbox, dropped>>
  <2>1. Arriving(p)' = Arriving(p) /\ ArrivesOnce(p)' /\ Wanted(p)' = Wanted(p) /\ AskedOnce(p)'
    BY <1>0, <1>4 DEF Wanted, AskedOnce, Arriving, Answers, ArrivesOnce
  <2> QED
    BY <1>0, <1>4, <2>1 DEF Once, On
<1>5. CASE \E n : /\ UNCHANGED <<requested_, outbox, dropped>> /\ ~IsPiece(n)
                  /\ inbox'[p] = Append(inbox[p], n)
  <2>1. Arriving(p)' = Arriving(p) /\ ArrivesOnce(p)'
    BY <1>0, <1>5, ArrivingAppend
  <2>2. Wanted(p)' = Wanted(p) /\ AskedOnce(p)'
    BY <1>0, <1>5 DEF Wanted, AskedOnce
  <2> QED
    BY <1>0, <1>5, <2>1, <2>2 DEF Once, On
<1>6. CASE /\ UNCHANGED <<requested_, dropped>>
           /\ outbox[p] # <<>> /\ outbox'[p] = Tail(outbox[p])
           /\ inbox'[p] = Append(inbox[p], [type |-> "piece", block |-> Head(outbox[p])])
  <2> DEFINE c == Head(outbox[p])
  <2>1. Wanted(p) = Wanted(p)' \cup {c} /\ AskedOnce(p)' /\ c \notin Wanted(p)'
    BY <1>0, <1>6, WantedTail
  <2>2. c \notin Arriving(p)
    BY <1>0, <2>1
  <2>3. Arriving(p)' = Arriving(p) \cup {c} /\ ArrivesOnce(p)'
    BY <1>0, <1>6, <2>2, ArrivingAppend DEF IsPiece
  <2> QED
    BY <1>0, <1>6, <2>1, <2>2, <2>3 DEF Once, On
<1>7. CASE /\ UNCHANGED <<requested_, inbox>>
           /\ outbox[p] # <<>> /\ outbox'[p] = Tail(outbox[p])
  <2>1. Wanted(p) = Wanted(p)' \cup {Head(outbox[p])} /\ AskedOnce(p)'
    BY <1>0, <1>7, WantedTail
  <2>2. Arriving(p)' = Arriving(p) /\ ArrivesOnce(p)'
    BY <1>0, <1>7 DEF Arriving, Answers, ArrivesOnce
  <2> QED
    BY <1>0, <1>7, <2>1, <2>2 DEF Once, On
<1>8. CASE UNCHANGED <<requested_, outbox>> /\ inbox'[p] = <<>>
  <2>1. Arriving(p)' = {} /\ ArrivesOnce(p)'
    BY <1>8 DEF Arriving, Answers, ArrivesOnce
  <2>2. Wanted(p)' = Wanted(p) /\ AskedOnce(p)'
    BY <1>0, <1>8 DEF Wanted, AskedOnce
  <2> QED
    BY <1>0, <1>8, <2>1, <2>2 DEF Once, On
<1> QED
  BY <1>1, <1>2, <1>3, <1>4, <1>5, <1>6, <1>7, <1>8, RequestSteps

LEMMA OnceKept ==
    ASSUME PeerType, PipeType, InOrder, Alone, \A p \in Peers : Claiming(p), OnceInv, [Next]_vars
    PROVE  OnceInv'
<1>1. CASE Strand \/ PickerRace \/ UNCHANGED vars
  <2>1. UNCHANGED <<requested_, inbox, outbox>>
    BY <1>1, AsideRequests
  <2>2. ASSUME NEW p \in Peers PROVE On(p)' = On(p) /\ (Once(p) => Once(p)')
    BY <2>1 DEF Once, AskedOnce, ArrivesOnce, On, Wanted, Arriving, Answers
  <2> QED
    BY <2>1, <2>2 DEF OnceInv
<1>2. ASSUME NEW p \in Peers, Handler(p) \/ HandlerStep(p) \/ Remote(p)
      PROVE  OnceInv'
  <2>1. /\ Once(p)'
        /\ On(p)' \subseteq On(p) \cup {b \in Blocks : ~requested_[b]}
        /\ \A b \in On(p)' : requested_'[b]
        /\ \A b \in Blocks \ On(p) : requested_[b] => requested_'[b]
    BY <1>2, OnceStep
  <2>2. ASSUME NEW q \in Peers, q # p
        PROVE  On(q)' = On(q) /\ Once(q)'
    <3>1. UNCHANGED <<inbox[q], outbox[q]>>
      BY <1>2, <2>2, OthersKept DEF Mine
    <3>2. Wanted(q)' = Wanted(q) /\ Arriving(q)' = Arriving(q) /\ AskedOnce(q)' /\ ArrivesOnce(q)'
      BY <3>1 DEF OnceInv, Once, AskedOnce, ArrivesOnce, Wanted, Arriving, Answers
    <3> QED
      BY <3>2 DEF On, Once, OnceInv
  <2>3. ASSUME NEW q \in Peers PROVE On(q) \subseteq Blocks /\ \A b \in On(q) : requested_[b]
    <3>1. inbox[q] \in Seq(Messages) /\ outbox[q] \in Seq(Blocks)
      BY DEF PeerType
    <3>2. \A k \in Answers(q) : inbox[q][k].block \in Blocks
      BY <3>1, Fields DEF Answers, IsPiece
    <3> QED
      BY <3>1, <3>2 DEF On, Wanted, Arriving, OnceInv
  <2>4. ASSUME NEW q \in Peers, q # p PROVE \A b \in On(q)' : requested_'[b]
    <3>1. On(q) \cap On(p) = {}
      BY <2>4 DEF OnceInv
    <3> QED
      BY <2>1, <2>2, <2>3, <2>4, <3>1
  <2>5. ASSUME NEW q \in Peers, q # p PROVE On(q)' \cap On(p)' = {}
    <3>1. On(q) \cap On(p) = {}
      BY <2>5 DEF OnceInv
    <3> QED
      BY <2>1, <2>2, <2>3, <2>5, <3>1
  <2>6. ASSUME NEW q \in Peers, NEW r \in Peers, q # r PROVE On(q)' \cap On(r)' = {}
    <3>1. CASE q # p /\ r # p
      BY <2>2, <2>6, <3>1 DEF OnceInv
    <3> QED
      BY <2>5, <2>6, <3>1
  <2> QED
    BY <2>1, <2>2, <2>4, <2>6 DEF OnceInv
<1> QED
  BY <1>1, <1>2 DEF Next

\* On one thread one handler runs, and no other marks the block it is about to claim.
THEOREM OneAlone ==
    ASSUME NumThreads = 1
    PROVE  Spec => []Alone
<1>1. Init => Alone
  BY DEF Init, Alone, OneRuns, ClaimFree
<1>2. PeerInv /\ PipeInv /\ Alone /\ [Next]_vars => Alone'
  BY AloneKept DEF PeerInv, PipeInv, Welcomed
<1> QED
  BY <1>1, <1>2, PeerInvariant, PipeInvariant, PTL DEF Spec

LEMMA OneAtMost ==
    ASSUME OnceInv, NEW b \in Blocks
    PROVE  Cardinality(Outstanding(b)) <= 1
<1>1. ASSUME NEW x \in Outstanding(b)
      PROVE  \E p \in Peers : \/ \E k \in RequestsFor(p, b) : x = <<p, "asked", k>>
                              \/ \E k \in AnswersWith(p, b) : x = <<p, "answered", k>>
  BY <1>1 DEF Outstanding
<1>2. \A p \in Peers : /\ RequestsFor(p, b) # {} => b \in Wanted(p)
                       /\ AnswersWith(p, b) # {} => b \in Arriving(p)
  BY DEF RequestsFor, AnswersWith, Wanted, Arriving
<1>3. ASSUME NEW x \in Outstanding(b), NEW y \in Outstanding(b) PROVE x = y
  <2>1. PICK p \in Peers : \/ \E k \in RequestsFor(p, b) : x = <<p, "asked", k>>
                           \/ \E k \in AnswersWith(p, b) : x = <<p, "answered", k>>
    BY <1>1
  <2>2. PICK q \in Peers : \/ \E k \in RequestsFor(q, b) : y = <<q, "asked", k>>
                           \/ \E k \in AnswersWith(q, b) : y = <<q, "answered", k>>
    BY <1>1
  <2>3. p = q
    BY <1>2, <2>1, <2>2 DEF OnceInv, On
  <2>4. \A k, l \in RequestsFor(p, b) : k = l
    BY DEF RequestsFor, OnceInv, Once, AskedOnce
  <2>5. \A k, l \in AnswersWith(p, b) : k = l
    BY DEF AnswersWith, OnceInv, Once, ArrivesOnce
  <2>6. RequestsFor(p, b) = {} \/ AnswersWith(p, b) = {}
    BY <1>2 DEF OnceInv, Once
  <2> QED
    BY <2>1, <2>2, <2>3, <2>4, <2>5, <2>6
<1>4. CASE Outstanding(b) = {}
  BY <1>4, FS_EmptySet
<1>5. ASSUME NEW x \in Outstanding(b) PROVE Cardinality(Outstanding(b)) <= 1
  <2>1. Outstanding(b) = {x}
    BY <1>3, <1>5
  <2>2. Cardinality(Outstanding(b)) = 1
    BY <2>1, FS_Singleton
  <2> QED
    BY <2>2
<1> QED
  BY <1>4, <1>5

\* On one thread, and while the pieces stand in order, no block is fetched twice at a
\* time: the mark set under the lock is not tested again, and need not be.
THEOREM BlocksFetchedOnce ==
    ASSUME NumThreads = 1
    PROVE  Spec /\ []InOrder => []FetchedOnce
<1>1. Init => OnceInv
  BY DEF Init, OnceInv, Once, AskedOnce, ArrivesOnce, On, Wanted, Arriving, Answers
<1>2. PeerInv /\ PipeInv /\ InOrder /\ Alone /\ OnceInv /\ [Next]_vars => OnceInv'
  BY OnceKept DEF PeerInv, PipeInv, Welcomed
<1>3. OnceInv => FetchedOnce
  BY OneAtMost DEF FetchedOnce
<1> QED
  BY <1>1, <1>2, <1>3, PeerInvariant, PipeInvariant, OneAlone, PTL DEF Spec

-----------------------------------------------------------------------------
(* Blocks that are free.                                                    *)

Free(b) == ~requested_[b] /\ ~complete_[b]

\* The candidates next() passes over on its way to place k.
Ahead(p, order, k) == {j \in 1 .. k - 1 : Candidate(p, order[j])}

\* No piece passed over in earlier attempts has a free block ...
Passed(p) ==
    \A k \in DOMAIN buckets :
        Candidate(p, buckets[k]) /\ Cardinality(Ahead(p, buckets, k)) < attempt[p] =>
            \A b \in BlocksOf(buckets[k]) : ~Free(b)

\* ... and those of the piece at hand are still to be looked at.
Looking(p) ==
    \A k \in DOMAIN buckets :
        Candidate(p, buckets[k]) /\ Cardinality(Ahead(p, buckets, k)) = attempt[p] =>
            \A b \in BlocksOf(buckets[k]) : Free(b) => \E j \in DOMAIN scan[p] : scan[p][j] = b

Visited(p) ==
    pc[p] \in {"pick", "scan", "claim"} =>
        /\ dirty => pc[p] = "pick" /\ attempt[p] = 0
        /\ Passed(p)
        /\ pc[p] # "pick" => Looking(p)

\* The picker's vector, once it is sorted, holds every piece.
Sorted == ~dirty => \A i \in Pieces : \E k \in DOMAIN buckets : buckets[k] = i

StoreType ==
    /\ complete_ \in [Blocks -> BOOLEAN]
    /\ complete_blocks \in [Pieces -> Nat]
    /\ pending \in [Blocks -> Nat]
    /\ \A b \in Blocks : complete_[b] => complete_blocks[PieceOf[b]] > 0

VisitInv == StoreType /\ Sorted /\ \A p \in Peers : Visited(p)

LEMMA AheadNumber ==
    ASSUME NEW p \in Peers, NEW order \in Seq(Pieces), NEW k \in DOMAIN order
    PROVE  IsFiniteSet(Ahead(p, order, k)) /\ Cardinality(Ahead(p, order, k)) \in Nat
<1>1. k \in Nat /\ Ahead(p, order, k) \subseteq 1 .. k - 1
  BY DEF Ahead
<1>2. IsFiniteSet(1 .. k - 1)
  BY <1>1, FS_Interval
<1> QED
  BY <1>1, <1>2, FS_Subset, FS_CardinalityType

\* Of two candidates the later has more ahead.
LEMMA MoreAhead ==
    ASSUME NEW p \in Peers, NEW order \in Seq(Pieces), NEW k \in DOMAIN order, NEW l \in DOMAIN order,
           k < l, Candidate(p, order[k])
    PROVE  Cardinality(Ahead(p, order, k)) + 1 <= Cardinality(Ahead(p, order, l))
<1>1. k \in Nat /\ l \in Nat /\ k >= 1
  OBVIOUS
<1>2. k \notin Ahead(p, order, k) /\ Ahead(p, order, k) \cup {k} \subseteq Ahead(p, order, l)
  BY <1>1 DEF Ahead
<1>3. Cardinality(Ahead(p, order, k) \cup {k}) = Cardinality(Ahead(p, order, k)) + 1
  BY <1>2, AheadNumber, FS_AddElement
<1>4. Cardinality(Ahead(p, order, k) \cup {k}) <= Cardinality(Ahead(p, order, l))
  BY <1>2, AheadNumber, FS_Subset
<1> QED
  BY <1>3, <1>4

LEMMA FoundOne ==
    ASSUME NEW p \in Peers, NEW order \in Seq(Pieces),
           NEW k \in Found(p, order), NEW l \in DOMAIN order, Candidate(p, order[l]),
           Cardinality(Ahead(p, order, l)) = attempt[p], attempt[p] \in Nat
    PROVE  l = k
<1>1. k \in DOMAIN order /\ Candidate(p, order[k]) /\ Cardinality(Ahead(p, order, k)) = attempt[p]
  BY DEF Found, Ahead
<1>2. k \in Nat /\ l \in Nat
  BY <1>1
<1>3. ~(k < l)
  BY <1>1, MoreAhead
<1>4. ~(l < k)
  BY <1>1, MoreAhead
<1> QED
  BY <1>2, <1>3, <1>4

\* next() finds a piece as long as there is a candidate it has not passed over: the
\* first such candidate has as many ahead as were tried.
LEMMA FindsNext ==
    ASSUME NEW p \in Peers, NEW order \in Seq(Pieces), attempt[p] \in Nat,
           NEW k \in DOMAIN order, Candidate(p, order[k]), attempt[p] <= Cardinality(Ahead(p, order, k))
    PROVE  Found(p, order) # {}
<1> DEFINE K == {l \in DOMAIN order : Candidate(p, order[l]) /\ attempt[p] <= Cardinality(Ahead(p, order, l))}
<1>1. K \in SUBSET Nat /\ K # {}
  OBVIOUS
<1>2. PICK l \in K : \A n \in K : l <= n
  BY <1>1, SmallestElement
<1>3. l \in Nat /\ l \in DOMAIN order /\ Cardinality(Ahead(p, order, l)) \in Nat
  BY <1>1, <1>2, AheadNumber
<1>4. CASE Cardinality(Ahead(p, order, l)) = attempt[p]
  BY <1>2, <1>4 DEF Found, Ahead
<1>5. CASE Cardinality(Ahead(p, order, l)) # attempt[p]
  <2>1. Ahead(p, order, l) # {} /\ Ahead(p, order, l) \in SUBSET Nat /\ \A j \in Ahead(p, order, l) : j <= l
    <3>1. Cardinality(Ahead(p, order, l)) # 0
      BY <1>2, <1>3, <1>5
    <3>2. Ahead(p, order, l) # {}
      BY <3>1, FS_EmptySet
    <3> QED
      BY <1>3, <3>2 DEF Ahead
  <2>2. PICK j \in Ahead(p, order, l) : \A n \in Ahead(p, order, l) : n <= j
    BY <1>3, <2>1, LargestElement
  <2>3. j \in DOMAIN order /\ j < l /\ Candidate(p, order[j]) /\ j \in Nat
    BY <1>3, <2>2 DEF Ahead
  <2>4. Ahead(p, order, l) = Ahead(p, order, j) \cup {j} /\ j \notin Ahead(p, order, j)
    <3>1. Ahead(p, order, j) \cup {j} \subseteq Ahead(p, order, l)
      BY <1>3, <2>3 DEF Ahead
    <3>2. ASSUME NEW n \in Ahead(p, order, l) PROVE n \in Ahead(p, order, j) \cup {j}
      <4>1. n \in Nat /\ n >= 1 /\ n <= j /\ Candidate(p, order[n])
        BY <1>3, <2>2, <3>2 DEF Ahead
      <4> QED
        BY <2>3, <4>1 DEF Ahead
    <3> QED
      BY <2>3, <3>1, <3>2 DEF Ahead
  <2>5. Cardinality(Ahead(p, order, l)) = Cardinality(Ahead(p, order, j)) + 1
    BY <2>3, <2>4, AheadNumber, FS_AddElement
  <2>6. attempt[p] <= Cardinality(Ahead(p, order, j))
    BY <1>2, <1>3, <1>5, <2>3, <2>5, AheadNumber
  <2>7. l <= j
    BY <1>2, <2>3, <2>6
  <2> QED
    BY <1>3, <2>3, <2>7
<1> QED
  BY <1>4, <1>5

\* Every order std::sort can leave holds every piece.
LEMMA SortHoldsAll ==
    ASSUME NEW a, NEW order \in SortedBy(a)
    PROVE  order \in Seq(Pieces) /\ \A i \in Pieces : \E k \in DOMAIN order : order[k] = i
<1> DEFINE n == Cardinality(Pieces)
<1>1. order \in [1 .. n -> Pieces] /\ IsInjective(order) /\ n \in Nat
  BY PieceNumbers DEF SortedBy
<1>2. order \in Injection(1 .. n, Pieces)
  BY <1>1 DEF Injection
<1>3. Cardinality(1 .. n) = Cardinality(Pieces)
  <2>1. Cardinality(1 .. n) = IF 1 > n THEN 0 ELSE n - 1 + 1
    BY <1>1, FS_Interval
  <2> QED
    BY <1>1, <2>1
<1>4. order \in Surjection(1 .. n, Pieces)
  BY <1>2, <1>3, PiecesAssumption, FS_Injection
<1> QED
  BY <1>1, <1>4 DEF Surjection

\* What the strand does to the storage.
LEMMA StoreSteps ==
    ASSUME StoreType, [Next]_vars
    PROVE  StoreType'
<1>1. CASE UNCHANGED <<complete_, complete_blocks, pending>>
  BY <1>1 DEF StoreType
<1>2. ASSUME NEW c \in Blocks, Write(c) PROVE StoreType'
  BY <1>2 DEF Write, StoreType
<1>3. ASSUME NEW c \in Blocks, Written(c) PROVE StoreType'
  <2>1. PieceOf[c] \in Pieces /\ \A b \in Blocks : PieceOf[b] \in Pieces
    BY PiecesAssumption
  <2>2. /\ pending' = [pending EXCEPT ![c] = @ - 1] /\ pending[c] > 0
        /\ complete_' = [complete_ EXCEPT ![c] = TRUE]
        /\ complete_blocks' = [complete_blocks EXCEPT ![PieceOf[c]] = @ + 1]
    BY <1>3 DEF Written
  <2>3. pending' \in [Blocks -> Nat] /\ complete_' \in [Blocks -> BOOLEAN]
    BY <2>2 DEF StoreType
  <2>4. complete_blocks' \in [Pieces -> Nat]
    BY <2>1, <2>2 DEF StoreType
  <2>5. ASSUME NEW b \in Blocks, complete_'[b] PROVE complete_blocks'[PieceOf[b]] > 0
    <3>1. complete_blocks[PieceOf[b]] \in Nat /\ complete_blocks[PieceOf[c]] \in Nat
      BY <2>1 DEF StoreType
    <3>2. CASE PieceOf[b] = PieceOf[c]
      BY <2>1, <2>2, <3>1, <3>2 DEF StoreType
    <3>3. CASE PieceOf[b] # PieceOf[c]
      BY <2>1, <2>2, <2>5, <3>3 DEF StoreType
    <3> QED
      BY <3>2, <3>3
  <2> QED
    BY <2>3, <2>4, <2>5 DEF StoreType
<1>4. ASSUME NEW i \in Pieces, Reset(i) PROVE StoreType'
  <2>1. \A b \in Blocks : PieceOf[b] \in Pieces
    BY PiecesAssumption
  <2>2. /\ complete_' = [b \in Blocks |-> IF PieceOf[b] = i THEN FALSE ELSE complete_[b]]
        /\ complete_blocks' = [complete_blocks EXCEPT ![i] = 0]
        /\ UNCHANGED pending
    BY <1>4 DEF Reset
  <2>3. complete_' \in [Blocks -> BOOLEAN] /\ complete_blocks' \in [Pieces -> Nat]
    BY <2>2 DEF StoreType
  <2>4. ASSUME NEW b \in Blocks, complete_'[b] PROVE complete_blocks'[PieceOf[b]] > 0
    BY <2>1, <2>2, <2>4 DEF StoreType
  <2> QED
    BY <2>2, <2>3, <2>4 DEF StoreType
<1>5. Strand => \/ UNCHANGED <<complete_, complete_blocks, pending>>
                \/ \E c \in Blocks : Written(c)
                \/ \E i \in Pieces : Reset(i)
  BY DEF Strand, BlockWritten, PieceVerified, PieceFailed, StorageFails, Accept, WriteError
<1>6. PickerRace \/ UNCHANGED vars => UNCHANGED <<complete_, complete_blocks, pending>>
  BY DEF PickerRace, vars, storageVars
<1>7. ASSUME NEW p \in Peers, Handler(p) PROVE UNCHANGED <<complete_, complete_blocks, pending>>
  BY <1>7 DEF Handler, ReceiveChoke, ReceiveUnchoke, ReceiveHave, ReceiveBitfield, ReceivePiece, storageVars
<1>8. ASSUME NEW p \in Peers, HandlerStep(p)
      PROVE  UNCHANGED <<complete_, complete_blocks, pending>> \/ Write(Head(scan[p]))
  BY <1>8 DEF HandlerStep, ReadAvailability, WriteAvailability, FinishBitfield, FinishHave, StorePiece,
              Pick, Scan, Claim, SkipLocked, NextAttempt, storageVars
<1>9. ASSUME NEW b, Write(b), b \notin Blocks PROVE UNCHANGED <<complete_, complete_blocks>> /\ (StoreType => pending' = pending)
  BY <1>9 DEF Write, StoreType
<1>10. ASSUME NEW p \in Peers, Remote(p) PROVE UNCHANGED <<complete_, complete_blocks, pending>>
  BY <1>10, RemoteAside DEF storageVars
<1> QED
  BY <1>1, <1>2, <1>3, <1>4, <1>5, <1>6, <1>7, <1>8, <1>9, <1>10 DEF Next

\* A handler looks at pieces with nobody in between.
LEMMA VisitStep ==
    ASSUME NumThreads = 1, PeerType, PipeType, Alone, Sorted, NEW p \in Peers, Claiming(p), Visited(p),
           HandlerStep(p)
    PROVE  Visited(p)'
<1>0. /\ attempt[p] \in Nat /\ buckets \in Seq(Pieces) /\ scan[p] \in Seq(Blocks)
      /\ requested_ \in [Blocks -> BOOLEAN]
  BY DEF PeerType, PipeType
<1>1. CASE pc'[p] \notin {"pick", "scan", "claim"}
  BY <1>1 DEF Visited
<1>2. CASE FinishHave(p) \/ StorePiece(p)
  <2>1. pc'[p] \in {"idle", "pick"}
    BY <1>2 DEF FinishHave, StorePiece, StartRequests, Return, Goto, PeerType
  <2>2. pc'[p] = "pick" => attempt'[p] = 0
    BY <1>2 DEF FinishHave, StorePiece, StartRequests, Return, Goto, PeerType, PipeType
  <2>3. UNCHANGED buckets
    BY <1>2 DEF FinishHave, StorePiece, pickerVars
  <2>4. \A k \in DOMAIN buckets : ~(Cardinality(Ahead(p, buckets, k))' < 0)
    <3>1. ASSUME NEW k \in DOMAIN buckets PROVE Cardinality(Ahead(p, buckets, k))' \in Nat
      <4>1. k \in Nat /\ Ahead(p, buckets, k)' \subseteq 1 .. k - 1
        BY <1>0 DEF Ahead
      <4>2. IsFiniteSet(1 .. k - 1)
        BY <4>1, FS_Interval
      <4> QED
        BY <4>1, <4>2, FS_Subset, FS_CardinalityType
    <3> QED
      BY <3>1
  <2> QED
    BY <2>1, <2>2, <2>3, <2>4 DEF Visited, Passed
<1>3. CASE Pick(p) /\ pc'[p] = "scan"
  <2>1. /\ HasRoom(p) /\ dirty' = FALSE /\ pc[p] = "pick"
        /\ UNCHANGED <<requested_, complete_, complete_blocks, piece_present, availability, attempt>>
        /\ \E k \in Found(p, buckets') : Goto(p, "scan", BlockList[buckets'[k]])
        /\ IF dirty THEN buckets' \in SortedBy(availability) ELSE UNCHANGED buckets
    BY <1>3 DEF Pick, Return, Goto, PeerType, storageVars, peerVars
  <2>2. \A q \in Peers, i \in Pieces : Candidate(q, i)' <=> Candidate(q, i)
    BY <2>1 DEF Candidate, PieceComplete
  <2>3. PICK k \in Found(p, buckets') : scan'[p] = BlockList[buckets'[k]]
    BY <2>1 DEF Goto, PeerType
  <2>4. buckets' \in Seq(Pieces)
    BY <1>0, <2>1, SortHoldsAll
  <2>5. ASSUME NEW l \in DOMAIN buckets'
        PROVE  /\ Candidate(p, buckets[l])' <=> Candidate(p, buckets'[l])
               /\ Ahead(p, buckets, l)' = Ahead(p, buckets', l)
    <3>1. buckets'[l] \in Pieces /\ \A j \in 1 .. l - 1 : buckets'[j] \in Pieces
      BY <2>4
    <3> QED
      BY <2>1, <3>1 DEF Candidate, PieceComplete, Ahead
  <2>6. Passed(p)'
    <3>1. CASE dirty
      <4>1. attempt'[p] = 0
        BY <2>1, <3>1 DEF Visited
      <4>2. \A l \in DOMAIN buckets' : Cardinality(Ahead(p, buckets', l)) \in Nat
        BY <2>4, AheadNumber
      <4> QED
        BY <2>5, <4>1, <4>2 DEF Passed
    <3>2. CASE ~dirty
      <4>1. UNCHANGED buckets /\ Passed(p)
        BY <2>1, <3>2 DEF Visited
      <4> QED
        BY <2>1, <4>1 DEF Passed, Candidate, PieceComplete, Ahead, Free
    <3> QED
      BY <3>1, <3>2
  <2>7. Looking(p)'
    <3> SUFFICES ASSUME NEW l \in DOMAIN buckets', Candidate(p, buckets'[l]),
                        Cardinality(Ahead(p, buckets', l)) = attempt[p],
                        NEW b \in BlocksOf(buckets'[l])
                 PROVE  \E j \in DOMAIN scan'[p] : scan'[p][j] = b
      BY <2>1, <2>5 DEF Looking
    <3>1. l = k
      BY <1>0, <2>4, FoundOne
    <3>2. buckets'[l] \in Pieces
      BY <2>4
    <3>3. ToSet(BlockList[buckets'[l]]) = BlocksOf(buckets'[l])
      BY <3>2, BlockListAssumption
    <3> QED
      BY <2>3, <3>1, <3>3 DEF ToSet
  <2> QED
    BY <2>1, <2>6, <2>7 DEF Visited
<1>4. CASE Scan(p)
  <2>1. /\ pc[p] = "scan" /\ scan[p] # <<>>
        /\ UNCHANGED <<requested_, complete_, complete_blocks, piece_present, availability, attempt, buckets, dirty>>
        /\ scan'[p] = scan[p] \/ (scan'[p] = Tail(scan[p]) /\ ~Free(Head(scan[p])))
    BY <1>4 DEF Scan, Free, PeerType, storageVars, peerVars, pickerVars
  <2>2. Passed(p)'
    BY <2>1 DEF Visited, Passed, Candidate, PieceComplete, Ahead, Free
  <2>3. ASSUME NEW b, Free(b), NEW j \in DOMAIN scan[p], scan[p][j] = b
        PROVE  \E l \in DOMAIN scan'[p] : scan'[p][l] = b
    <3>1. CASE scan'[p] = scan[p]
      BY <2>3, <3>1
    <3>2. CASE scan'[p] = Tail(scan[p]) /\ ~Free(Head(scan[p]))
      <4>1. j # 1
        BY <1>0, <2>1, <2>3, <3>2
      <4>2. j - 1 \in DOMAIN scan'[p] /\ scan'[p][j - 1] = b
        BY <1>0, <2>1, <2>3, <3>2, <4>1, SMTT(30)
      <4> QED
        BY <4>2
    <3> QED
      BY <2>1, <3>1, <3>2
  <2>4. Looking(p)'
    BY <2>1, <2>3 DEF Visited, Looking, Candidate, PieceComplete, Ahead, Free
  <2> QED
    BY <2>1, <2>2, <2>4 DEF Visited
<1>5. CASE Claim(p)
  <2> DEFINE c == Head(scan[p])
  <2>1. /\ pc[p] = "claim" /\ scan[p] # <<>> /\ scan'[p] = Tail(scan[p]) /\ c \in Blocks
        /\ UNCHANGED <<complete_, complete_blocks, piece_present, availability, attempt, buckets, dirty>>
        /\ requested_' = [requested_ EXCEPT ![c] = TRUE]
    BY <1>5 DEF Claim, Claiming, PeerType, storageVars, pickerVars
  <2>2. \A b \in Blocks : Free(b)' => Free(b) /\ b # c
    BY <1>0, <2>1 DEF Free
  <2>3. \A i : BlocksOf(i) \subseteq Blocks
    BY DEF BlocksOf
  <2>4. Passed(p)'
    BY <2>1, <2>2, <2>3 DEF Visited, Passed, Candidate, PieceComplete, Ahead
  <2>5. ASSUME NEW b, b # c, NEW j \in DOMAIN scan[p], scan[p][j] = b
        PROVE  \E l \in DOMAIN scan'[p] : scan'[p][l] = b
    <3>1. j # 1
      BY <1>0, <2>1, <2>5
    <3>2. j - 1 \in DOMAIN scan'[p] /\ scan'[p][j - 1] = b
      BY <1>0, <2>1, <2>5, <3>1, SMTT(30)
    <3> QED
      BY <3>2
  <2>6. Looking(p)'
    BY <2>1, <2>2, <2>3, <2>5 DEF Visited, Looking, Candidate, PieceComplete, Ahead
  <2> QED
    BY <2>1, <2>4, <2>6 DEF Visited
<1>6. ~SkipLocked(p)
  BY HandlerRuns DEF SkipLocked, MayBeLocked, Alone, OneRuns
<1>7. CASE NextAttempt(p)
  <2>1. /\ pc[p] = "scan" /\ scan[p] = <<>> /\ pc'[p] = "pick" /\ attempt'[p] = attempt[p] + 1
        /\ UNCHANGED <<requested_, complete_, complete_blocks, piece_present, availability, buckets, dirty>>
    BY <1>7 DEF NextAttempt, Goto, PeerType, PipeType, storageVars, peerVars, pickerVars
  <2>2. ~dirty /\ Passed(p) /\ Looking(p)
    BY <2>1 DEF Visited
  <2>3. ASSUME NEW k \in DOMAIN buckets, Candidate(p, buckets[k]), Cardinality(Ahead(p, buckets, k)) < attempt[p] + 1,
               NEW b \in BlocksOf(buckets[k])
        PROVE  ~Free(b)
    <3>1. Cardinality(Ahead(p, buckets, k)) < attempt[p] \/ Cardinality(Ahead(p, buckets, k)) = attempt[p]
      BY <1>0, <2>3, AheadNumber
    <3> QED
      BY <2>1, <2>2, <2>3, <3>1 DEF Passed, Looking
  <2>4. Passed(p)'
    BY <2>1, <2>3 DEF Passed, Candidate, PieceComplete, Ahead, Free
  <2> QED
    BY <2>1, <2>2, <2>4 DEF Visited
<1>8. ReadAvailability(p) \/ WriteAvailability(p) \/ FinishBitfield(p) => pc'[p] \notin {"pick", "scan", "claim"}
  BY DEF ReadAvailability, WriteAvailability, FinishBitfield, Return, Goto, PeerType
<1>9. Pick(p) => pc'[p] \in {"idle", "scan"}
  BY DEF Pick, Return, Goto, PeerType
<1> QED
  BY <1>1, <1>2, <1>3, <1>4, <1>5, <1>6, <1>7, <1>8, <1>9 DEF HandlerStep

LEMMA SortedKept ==
    ASSUME PeerType, PipeType, Sorted, [Next]_vars
    PROVE  Sorted'
<1>1. CASE UNCHANGED <<dirty, buckets>> \/ dirty'
  BY <1>1 DEF Sorted
<1>2. ASSUME NEW p \in Peers, Pick(p), ~dirty' PROVE Sorted'
  <2>1. CASE ~HasRoom(p)
    BY <1>1, <1>2, <2>1 DEF Pick
  <2>2. CASE HasRoom(p) /\ dirty
    BY <1>2, <2>2, SortHoldsAll DEF Pick, Sorted
  <2>3. CASE HasRoom(p) /\ ~dirty
    BY <1>2, <2>3 DEF Pick, Sorted
  <2> QED
    BY <2>1, <2>2, <2>3
<1>3. Strand \/ PickerRace \/ UNCHANGED vars => UNCHANGED <<dirty, buckets>>
  BY DEF Strand, PickerRace, BlockWritten, PieceVerified, PieceFailed, StorageFails, vars, pickerVars
<1>4. ASSUME NEW p \in Peers, Handler(p) PROVE UNCHANGED <<dirty, buckets>>
  BY <1>4 DEF Handler, ReceiveChoke, ReceiveUnchoke, ReceiveHave, ReceiveBitfield, ReceivePiece, pickerVars
<1>5. ASSUME NEW p \in Peers, HandlerStep(p) PROVE UNCHANGED <<dirty, buckets>> \/ dirty' \/ Pick(p)
  BY <1>5 DEF HandlerStep, ReadAvailability, WriteAvailability, FinishBitfield, FinishHave, StorePiece,
              Scan, Claim, SkipLocked, NextAttempt, pickerVars
<1>6. ASSUME NEW p \in Peers, Remote(p) PROVE UNCHANGED <<dirty, buckets>>
  BY <1>6, RemoteAside DEF pickerVars
<1> QED
  BY <1>1, <1>2, <1>3, <1>4, <1>5, <1>6 DEF Next

LEMMA VisitKept ==
    ASSUME NumThreads = 1, PeerType, PipeType, Alone, \A p \in Peers : Claiming(p), Sorted,
           \A p \in Peers : Visited(p), [Next]_vars, NEW q \in Peers
    PROVE  Visited(q)'
<1>1. CASE pc'[q] = "idle"
  BY <1>1 DEF Visited
<1>2. CASE UNCHANGED <<complete_, complete_blocks, requested_, piece_present, pc, attempt, scan, pickerVars>>
  BY <1>2 DEF Visited, Passed, Looking, Candidate, PieceComplete, Ahead, Free, pickerVars
<1>3. ASSUME Strand PROVE pc'[q] = "idle"
  <2>1. FreeThread
    BY <1>3 DEF Strand, BlockWritten, PieceVerified, PieceFailed, StorageFails
  <2> QED
    BY <1>3, <2>1, NoneRuns, StrandSteps
<1>4. PickerRace \/ UNCHANGED vars =>
        UNCHANGED <<complete_, complete_blocks, requested_, piece_present, pc, attempt, scan, pickerVars>>
  BY DEF PickerRace, vars, storageVars, peerVars, handlerVars
<1>5. ASSUME NEW p \in Peers, Remote(p)
      PROVE  UNCHANGED <<complete_, complete_blocks, requested_, piece_present, pc, attempt, scan, pickerVars>>
  BY <1>5, RemoteAside DEF storageVars, peerVars, handlerVars
<1>6. ASSUME NEW p \in Peers, p # q, Handler(p) \/ HandlerStep(p) PROVE pc'[q] = "idle"
  BY <1>6, HandlerStarts, NoneRuns, HandlerRuns, OthersKept DEF Alone, OneRuns, Mine
<1>7. CASE HandlerStep(q)
  BY <1>7, VisitStep
<1>8. CASE Handler(q)
  <2>1. CASE ~ReceiveUnchoke(q)
    <3>1. pc'[q] \notin {"pick", "scan", "claim"}
      BY <1>8, <2>1, ZenonT(40) DEF Handler, ReceiveChoke, ReceiveHave, ReceiveBitfield, ReceivePiece, Receive,
                        Goto, handlerVars, PeerType
    <3> QED
      BY <3>1 DEF Visited
  <2>2. CASE ReceiveUnchoke(q)
    <3>1. /\ pc'[q] = "pick" /\ attempt'[q] = 0
          /\ UNCHANGED <<complete_, complete_blocks, piece_present, pickerVars>>
      BY <2>2 DEF ReceiveUnchoke, StartRequests, Goto, PeerType, PipeType, storageVars
    <3>2. \A k \in DOMAIN buckets : Ahead(q, buckets, k)' = Ahead(q, buckets, k)
      BY <3>1 DEF Ahead, Candidate, PieceComplete, pickerVars
    <3>3. \A k \in DOMAIN buckets : Cardinality(Ahead(q, buckets, k)) \in Nat
      BY AheadNumber DEF PipeType
    <3>4. Passed(q)'
      BY <3>1, <3>2, <3>3 DEF Passed, pickerVars
    <3> QED
      BY <3>1, <3>4 DEF Visited
  <2> QED
    BY <2>1, <2>2
<1> QED
  BY <1>1, <1>2, <1>3, <1>4, <1>5, <1>6, <1>7, <1>8 DEF Next

\* On one thread a handler passes over no piece in which a block is free.
THEOREM VisitInvariant ==
    ASSUME NumThreads = 1
    PROVE  Spec => []VisitInv
<1>1. Init => VisitInv
  <2> SUFFICES ASSUME Init PROVE VisitInv
    OBVIOUS
  <2>1. StoreType
    <3>1. 0 \in Nat
      OBVIOUS
    <3> QED
      BY <3>1 DEF Init, StorageInit, StoreType
  <2>2. Sorted /\ \A p \in Peers : Visited(p)
    BY DEF Init, Sorted, Visited
  <2> QED
    BY <2>1, <2>2 DEF VisitInv
<1>2. PeerInv /\ PipeInv /\ Alone /\ VisitInv /\ [Next]_vars => VisitInv'
  BY StoreSteps, SortedKept, VisitKept DEF PeerInv, PipeInv, Welcomed, VisitInv
<1> QED
  BY <1>1, <1>2, PeerInvariant, PipeInvariant, OneAlone, PTL DEF Spec

\* What makes b free, and what makes p leave it.
Unclaimed(b) ==
    /\ ~requested_[b] /\ ~complete_[b] /\ pending[b] = 0
    /\ complete_blocks[PieceOf[b]] < Cardinality(BlocksOf(PieceOf[b]))
    /\ \A q \in Peers : pc[q] = "store" => Head(scan[q]) # b
Resting(p, b) ==
    /\ ~terminated /\ p \notin broken /\ pc[p] = "idle"
    /\ inbox[p] = <<>> /\ ~choked[p] /\ HasRoom(p) /\ PieceOf[b] \in piece_present[p]

LEMMA ForgottenParts ==
    ASSUME NEW p, NEW b
    PROVE  Forgotten(p, b) <=> Resting(p, b) /\ Unclaimed(b)
  BY DEF Forgotten, Resting, Unclaimed

\* A block becomes free by the failure of a validation only: the PIECE that clears
\* its mark is stored at once.
LEMMA FreedByReset ==
    ASSUME PeerType, PipeType, StoreType, InOrder, [Next]_vars,
           NEW b \in Blocks, Unclaimed(b)'
    PROVE  Unclaimed(b) \/ complete_blocks'[PieceOf[b]] < complete_blocks[PieceOf[b]]
<1> DEFINE i == PieceOf[b]
<1>0. /\ i \in Pieces /\ \A c \in Blocks : PieceOf[c] \in Pieces
      /\ complete_blocks[i] \in Nat /\ pending[b] \in Nat
      /\ Cardinality(BlocksOf(i)) = Len(BlockList[i]) /\ Len(BlockList[i]) \in Nat
  BY PiecesAssumption, BlockListAssumption, MostBlocks DEF StoreType
<1>1. CASE UNCHANGED <<requested_, complete_, complete_blocks, pending, pc, scan>>
  BY <1>1 DEF Unclaimed
<1>2. CASE Strand \/ PickerRace \/ UNCHANGED vars
  <2>1. UNCHANGED <<requested_, pc, scan>>
    BY <1>2, AsideRequests, StrandSteps
  <2>2. ASSUME NEW c \in Blocks, Written(c) PROVE Unclaimed(b)
    <3>1. /\ complete_' = [complete_ EXCEPT ![c] = TRUE]
          /\ pending' = [pending EXCEPT ![c] = @ - 1]
          /\ complete_blocks' = [complete_blocks EXCEPT ![PieceOf[c]] = @ + 1]
      BY <2>2 DEF Written
    <3>2. c # b
      BY <3>1 DEF Unclaimed, StoreType
    <3>3. ~complete_[b] /\ pending[b] = 0
      BY <3>1, <3>2 DEF Unclaimed, StoreType
    <3>4. complete_blocks[i] <= complete_blocks'[i] /\ complete_blocks'[i] \in Nat
      BY <1>0, <3>1 DEF StoreType
    <3>5. complete_blocks'[i] < Cardinality(BlocksOf(i))
      BY DEF Unclaimed
    <3> QED
      BY <1>0, <2>1, <3>3, <3>4, <3>5 DEF Unclaimed
  <2>3. ASSUME NEW j \in Pieces, Reset(j)
        PROVE  Unclaimed(b) \/ complete_blocks'[i] < complete_blocks[i]
    <3>1. /\ complete_' = [c \in Blocks |-> IF PieceOf[c] = j THEN FALSE ELSE complete_[c]]
          /\ complete_blocks' = [complete_blocks EXCEPT ![j] = 0]
          /\ UNCHANGED pending
      BY <2>3 DEF Reset
    <3>2. CASE i # j
      BY <1>0, <2>1, <3>1, <3>2 DEF Unclaimed, StoreType
    <3>3. CASE i = j /\ complete_blocks[i] > 0
      BY <1>0, <3>1, <3>3 DEF StoreType
    <3>4. CASE i = j /\ complete_blocks[i] = 0
      <4>1. ~complete_[b] /\ complete_blocks'[i] = complete_blocks[i]
        BY <1>0, <3>1, <3>4 DEF StoreType
      <4> QED
        BY <2>1, <3>1, <4>1 DEF Unclaimed
    <3> QED
      BY <1>0, <3>2, <3>3, <3>4
  <2>4. Strand => \/ UNCHANGED <<complete_, complete_blocks, pending>>
                  \/ \E c \in Blocks : Written(c)
                  \/ \E j \in Pieces : Reset(j)
    BY DEF Strand, BlockWritten, PieceVerified, PieceFailed, StorageFails, Accept, WriteError
  <2>5. PickerRace \/ UNCHANGED vars => UNCHANGED <<complete_, complete_blocks, pending>>
    BY DEF PickerRace, vars, storageVars
  <2> QED
    BY <1>1, <1>2, <2>1, <2>2, <2>3, <2>4, <2>5
<1>3. ASSUME NEW p \in Peers, Handler(p) PROVE Unclaimed(b)
  <2>1. pc[p] = "idle" /\ \A q \in Peers \ {p} : pc'[q] = pc[q] /\ scan'[q] = scan[q]
    BY <1>3, OthersKept DEF Handler, ReceiveChoke, ReceiveUnchoke, ReceiveHave, ReceiveBitfield, ReceivePiece,
                            Receive, Mine
  <2>2. \A q \in Peers : pc[q] = "store" => Head(scan[q]) # b
    BY <2>1 DEF Unclaimed
  <2>3. CASE ReceivePiece(p)
    <3> DEFINE c == Head(inbox[p]).block
    <3>1. /\ requested_' = [requested_ EXCEPT ![c] = FALSE] /\ Goto(p, "store", <<c>>)
          /\ UNCHANGED storageVars
      BY <2>3, PieceInOrder
    <3>2. pc'[p] = "store" /\ Head(scan'[p]) = c
      BY <3>1 DEF Goto, PeerType
    <3>3. c # b
      BY <3>2 DEF Unclaimed
    <3> QED
      BY <2>2, <3>1, <3>3 DEF Unclaimed, PipeType, storageVars
  <2>4. CASE ~ReceivePiece(p)
    <3>1. UNCHANGED <<requested_, storageVars>>
      BY <1>3, <2>4 DEF Handler, ReceiveChoke, ReceiveUnchoke, ReceiveHave, ReceiveBitfield
    <3> QED
      BY <2>2, <3>1 DEF Unclaimed, storageVars
  <2> QED
    BY <2>3, <2>4
<1>4. ASSUME NEW p \in Peers, HandlerStep(p) PROVE Unclaimed(b)
  <2>0. \A q \in Peers \ {p} : pc'[q] = pc[q] /\ scan'[q] = scan[q]
    BY <1>4, OthersKept DEF Mine
  <2>1. CASE StorePiece(p)
    <3>1. /\ pc[p] = "store" /\ UNCHANGED <<requested_, complete_, complete_blocks>>
          /\ pending' = [pending EXCEPT ![Head(scan[p])] = @ + 1]
      BY <2>1 DEF StorePiece, Write
    <3>2. Head(scan[p]) # b
      BY <1>0, <3>1 DEF Unclaimed, StoreType
    <3> QED
      BY <2>0, <3>1, <3>2 DEF Unclaimed, StoreType
  <2>2. CASE ~StorePiece(p)
    <3>1. pc[p] # "store" /\ UNCHANGED storageVars
      BY <1>4, <2>2 DEF HandlerStep, ReadAvailability, WriteAvailability, FinishBitfield, FinishHave,
                        Pick, Scan, Claim, SkipLocked, NextAttempt
    <3>2. requested_[b] => requested_'[b]
      <4>1. UNCHANGED requested_ \/ requested_' = [requested_ EXCEPT ![Head(scan[p])] = TRUE]
        BY <1>4, <2>2 DEF HandlerStep, ReadAvailability, WriteAvailability, FinishBitfield, FinishHave,
                          Pick, Scan, Claim, SkipLocked, NextAttempt
      <4> QED
        BY <4>1 DEF PipeType
    <3> QED
      BY <2>0, <3>1, <3>2 DEF Unclaimed, storageVars
  <2> QED
    BY <2>1, <2>2
<1>5. ASSUME NEW p \in Peers, Remote(p) PROVE Unclaimed(b)
  <2>1. UNCHANGED <<requested_, complete_, complete_blocks, pending, pc, scan>>
    BY <1>5, RemoteAside DEF storageVars, handlerVars
  <2> QED
    BY <2>1 DEF Unclaimed
<1> QED
  BY <1>2, <1>3, <1>4, <1>5 DEF Next

\* A handler that finds no piece leaves no free block.
LEMMA NothingLeft ==
    ASSUME PeerInv, PipeInv, CountInv, VisitInv, NEW p \in Peers, Pick(p), HasRoom(p), pc'[p] = "idle",
           NEW b \in Blocks, Unclaimed(b), PieceOf[b] \in piece_present[p]
    PROVE  FALSE
<1> DEFINE i == PieceOf[b]
<1>0. PeerType /\ PipeType /\ Known(p) /\ Todo(p) /\ Visited(p) /\ Sorted /\ StoreType
  BY DEF PeerInv, Counted, PipeInv, CountInv, VisitInv
<1>1. pc[p] = "pick" /\ attempt[p] \in Nat /\ i \in Pieces
  BY <1>0, PiecesAssumption DEF Pick, PipeType
<1>2. Candidate(p, i)
  <2>1. availability[i] > 0 /\ availability[i] \in Nat
    BY <1>0, <1>1 DEF Known, PeerType
  <2>2. complete_blocks[i] # Cardinality(BlocksOf(i))
    <3>1. complete_blocks[i] \in Nat /\ complete_blocks[i] < Cardinality(BlocksOf(i))
      BY <1>0, <1>1 DEF StoreType, Unclaimed
    <3> QED
      BY <3>1
  <2> QED
    BY <2>1, <2>2 DEF Candidate, PieceComplete
<1>3. /\ Found(p, buckets') = {}
      /\ IF dirty THEN buckets' \in SortedBy(availability) ELSE UNCHANGED buckets
  BY <1>0, <1>1 DEF Pick, Goto, PeerType
<1>4. buckets' \in Seq(Pieces) /\ \E k \in DOMAIN buckets' : buckets'[k] = i
  <2>1. CASE dirty
    BY <1>1, <1>3, <2>1, SortHoldsAll
  <2>2. CASE ~dirty
    BY <1>0, <1>1, <1>3, <2>2 DEF PipeType, Sorted
  <2> QED
    BY <2>1, <2>2
<1>5. PICK k \in DOMAIN buckets' : buckets'[k] = i
  BY <1>4
<1>6. attempt[p] <= Cardinality(Ahead(p, buckets', k))
  <2>1. Cardinality(Ahead(p, buckets', k)) \in Nat
    BY <1>4, AheadNumber
  <2>2. CASE dirty
    <3>1. attempt[p] = 0
      BY <1>0, <1>1, <2>2 DEF Visited
    <3> QED
      BY <2>1, <3>1
  <2>3. CASE ~dirty
    <3>1. UNCHANGED buckets /\ Passed(p)
      BY <1>0, <1>1, <1>3, <2>3 DEF Visited
    <3>2. b \in BlocksOf(i) /\ Free(b)
      BY DEF BlocksOf, Free, Unclaimed
    <3>3. ~(Cardinality(Ahead(p, buckets', k)) < attempt[p])
      BY <1>2, <1>5, <3>1, <3>2 DEF Passed
    <3> QED
      BY <1>1, <2>1, <3>3
  <2> QED
    BY <2>2, <2>3
<1>7. Found(p, buckets') # {}
  BY <1>1, <1>2, <1>4, <1>5, <1>6, FindsNext
<1> QED
  BY <1>3, <1>7

\* A peer that comes to rest has looked at every piece it knows of.
LEMMA RestsWhenDone ==
    ASSUME PeerInv, PipeInv, CountInv, VisitInv, InOrder, [Next]_vars,
           NEW p \in Peers, NEW b \in Blocks, Resting(p, b)', Unclaimed(b)'
    PROVE  Resting(p, b)
<1>0. PeerType /\ PipeType
  BY DEF PeerInv, PipeInv
<1>1. CASE UNCHANGED Mine(p) /\ (terminated => terminated') /\ (p \in broken => p \in broken')
  BY <1>1 DEF Resting, HasRoom, Mine
<1>2. ASSUME Strand \/ PickerRace \/ UNCHANGED vars
      PROVE  /\ UNCHANGED <<pc, inbox, choked, blocks_in_queue, piece_present>>
             /\ (terminated => terminated') /\ (p \in broken => p \in broken')
  <2>1. UNCHANGED <<pc, inbox, choked, blocks_in_queue, piece_present>>
    BY <1>0, <1>2, StrandSteps
  <2>2. UNCHANGED broken
    BY <1>2 DEF Strand, PickerRace, BlockWritten, PieceVerified, PieceFailed, StorageFails, vars, remoteVars
  <2>3. terminated => terminated'
    <3>1. Strand => ~terminated
      BY DEF Strand, BlockWritten, PieceVerified, PieceFailed, StorageFails, FreeThread
    <3>2. PickerRace => ~terminated
      BY DEF PickerRace
    <3> QED
      BY <1>2, <3>1, <3>2 DEF vars, storageVars
  <2> QED
    BY <2>1, <2>2, <2>3
<1>3. ASSUME NEW q \in Peers, Handler(q) \/ HandlerStep(q) \/ Remote(q)
      PROVE  (terminated => terminated') /\ (p \in broken => p \in broken')
  <2>1. CASE Handler(q)
    BY <2>1, HandlerStarts DEF FreeThread, Handler, ReceiveChoke, ReceiveUnchoke, ReceiveHave, ReceiveBitfield,
                ReceivePiece, remoteVars
  <2>2. CASE HandlerStep(q)
    BY <2>2 DEF HandlerStep, ReadAvailability, WriteAvailability, FinishBitfield, FinishHave, StorePiece, Write,
                Pick, Scan, Claim, SkipLocked, NextAttempt, remoteVars
  <2>3. CASE Remote(q)
    BY <2>3 DEF Remote, RemoteBitfield, RemoteHave, RemoteUnchoke, RemoteChoke, RemoteAnswer,
                RemoteDrop, Break, Send, remoteVars, ourVars, storageVars
  <2> QED
    BY <1>3, <2>1, <2>2, <2>3
<1>4. ASSUME NEW q \in Peers, q # p, Handler(q) \/ HandlerStep(q) \/ Remote(q)
      PROVE  Resting(p, b)
  BY <1>0, <1>1, <1>3, <1>4, OthersKept
<1>5. ~Handler(p)
  <2>1. ~ReceiveChoke(p)
    BY <1>0 DEF ReceiveChoke, Resting, PeerType
  <2>2. ~ReceivePiece(p)
    BY <1>0, PieceInOrder DEF Resting, Goto, PeerType
  <2>3. ~ReceiveUnchoke(p) /\ ~ReceiveHave(p) /\ ~ReceiveBitfield(p)
    BY <1>0 DEF ReceiveUnchoke, ReceiveHave, ReceiveBitfield, StartRequests, Goto, Resting, PeerType
  <2> QED
    BY <2>1, <2>2, <2>3 DEF Handler
<1>6. ~HandlerStep(p)
  <2>0. pc'[p] = "idle" /\ ~choked'[p] /\ HasRoom(p)' /\ PieceOf[b] \in piece_present'[p]
    BY DEF Resting
  <2>1. ~FinishBitfield(p)
    BY <2>0 DEF FinishBitfield, CountInv, Begun, peerVars
  <2>2. ~FinishHave(p)
    BY <1>0, <2>0 DEF FinishHave, StartRequests, Goto, Interesting, HaveBitfield, PeerType
  <2>3. ~Pick(p)
    <3> SUFFICES ASSUME Pick(p) PROVE FALSE
      OBVIOUS
    <3>1. UNCHANGED <<requested_, storageVars, piece_present, blocks_in_queue>>
      BY DEF Pick, peerVars
    <3>2. pc[p] = "pick" /\ \A q \in Peers \ {p} : pc'[q] = pc[q] /\ scan'[q] = scan[q]
      BY <1>0, OthersKept DEF Pick, HandlerStep, Mine
    <3>3. Unclaimed(b)
      BY <3>1, <3>2 DEF Unclaimed, storageVars
    <3>4. HasRoom(p) /\ PieceOf[b] \in piece_present[p]
      BY <2>0, <3>1 DEF HasRoom
    <3> QED
      BY <2>0, <3>3, <3>4, NothingLeft
  <2>4. ~StorePiece(p) /\ ~NextAttempt(p) /\ ~Scan(p) /\ ~Claim(p) /\ ~SkipLocked(p)
    BY <1>0, <2>0 DEF StorePiece, NextAttempt, Scan, Claim, SkipLocked, StartRequests, Goto, PeerType
  <2>5. ~ReadAvailability(p) /\ ~WriteAvailability(p)
    BY <1>0, <2>0 DEF ReadAvailability, WriteAvailability, PeerType
  <2> QED
    BY <2>1, <2>2, <2>3, <2>4, <2>5 DEF HandlerStep
<1>7. CASE Remote(p)
  <2>1. UNCHANGED <<pc, choked, blocks_in_queue, piece_present>>
    BY <1>7, RemoteAside DEF peerVars, handlerVars
  <2>2. inbox[p] = <<>>
    <3>1. p \notin broken' /\ inbox'[p] = <<>> /\ inbox[p] \in Seq(Messages)
      BY <1>0 DEF Resting, PeerType
    <3>2. \A m : inbox' # [inbox EXCEPT ![p] = Append(@, m)]
      BY <1>0, <3>1 DEF PeerType
    <3> QED
      BY <1>7, <3>1, <3>2 DEF Remote, RemoteBitfield, RemoteHave, RemoteUnchoke, RemoteChoke, RemoteAnswer,
                            RemoteDrop, Break, Send
  <2> QED
    BY <1>3, <1>7, <2>1, <2>2 DEF Resting, HasRoom
<1>8. CASE Strand \/ PickerRace \/ UNCHANGED vars
  BY <1>2, <1>8 DEF Resting, HasRoom
<1> QED
  BY <1>4, <1>5, <1>6, <1>7, <1>8 DEF Next

\* On one thread, and while the pieces stand in order, a peer with room goes idle
\* leaving a free block behind only when a validation fails, whatever the order its
\* messages come in.
THEOREM NothingIsForgotten ==
    ASSUME NumThreads = 1
    PROVE  Spec /\ []InOrder => NothingForgotten
<1>1. PeerInv /\ PipeInv /\ CountInv /\ VisitInv /\ InOrder /\ [Next]_vars =>
        [\A p \in Peers, b \in Blocks :
           Forgotten(p, b)' => Forgotten(p, b) \/ complete_blocks'[PieceOf[b]] < complete_blocks[PieceOf[b]]]_vars
  <2> SUFFICES ASSUME PeerInv, PipeInv, CountInv, VisitInv, InOrder, [Next]_vars,
                      NEW p \in Peers, NEW b \in Blocks, Forgotten(p, b)'
               PROVE  Forgotten(p, b) \/ complete_blocks'[PieceOf[b]] < complete_blocks[PieceOf[b]]
    OBVIOUS
  <2>1. Resting(p, b)' /\ Unclaimed(b)'
    BY DEF Forgotten, Resting, Unclaimed
  <2>2. Resting(p, b)
    BY <2>1, RestsWhenDone
  <2>3. Unclaimed(b) \/ complete_blocks'[PieceOf[b]] < complete_blocks[PieceOf[b]]
    BY <2>1, FreedByReset DEF PeerInv, PipeInv, VisitInv
  <2> QED
    BY <2>2, <2>3, ForgottenParts
<1> QED
  BY <1>1, PeerInvariant, PipeInvariant, CountInvariant, VisitInvariant, PTL DEF Spec, NothingForgotten

\* With one piece the pieces always stand in order.
THEOREM OnePieceInOrder ==
    ASSUME Cardinality(Pieces) = 1
    PROVE  Spec => []InOrder
<1> DEFINE Inv == pieces \in [1 .. Cardinality(Pieces) -> Pieces]
<1>0. Pieces = {0}
  BY PiecesAssumption
<1>1. Init => Inv
  BY <1>0 DEF Init
<1>2. Inv /\ [Next]_vars => Inv'
  <2> SUFFICES ASSUME Inv, [Next]_vars PROVE Inv'
    OBVIOUS
  <2>1. Strand \/ PickerRace \/ UNCHANGED vars => UNCHANGED pieces
    BY DEF Strand, PickerRace, BlockWritten, PieceVerified, PieceFailed, StorageFails, vars, pickerVars
  <2>2. ASSUME NEW p \in Peers, Handler(p) PROVE UNCHANGED pieces
    BY <2>2 DEF Handler, ReceiveChoke, ReceiveUnchoke, ReceiveHave, ReceiveBitfield, ReceivePiece, pickerVars
  <2>3. ASSUME NEW p \in Peers, HandlerStep(p) PROVE UNCHANGED pieces \/ pieces' \in SortedBy(availability)
    BY <2>3 DEF HandlerStep, ReadAvailability, WriteAvailability, FinishBitfield, FinishHave, StorePiece,
                Pick, Scan, Claim, SkipLocked, NextAttempt, pickerVars
  <2>4. ASSUME NEW p \in Peers, Remote(p) PROVE UNCHANGED pieces
    BY <2>4, RemoteAside DEF pickerVars
  <2> QED
    BY <2>1, <2>2, <2>3, <2>4 DEF Next, SortedBy
<1>3. Inv => InOrder
  BY <1>0 DEF InOrder
<1> QED
  BY <1>1, <1>2, <1>3, PTL DEF Spec
=============================================================================
