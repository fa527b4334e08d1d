----------------------------- MODULE LeechChoker -----------------------------
(***************************************************************************)
(* LeechChoker (leech_choker.cpp): every ten seconds select() chooses the  *)
(* peers that may download from us.  select() runs on the strand of the    *)
(* timer; the handlers of the peers change their interest beside it, and   *)
(* PeerHandler adds peers to the vector without synchronisation.           *)
(*                                                                         *)
(* The download rates are outside the model: they change by themselves     *)
(* from one selection to the next, so the sort may leave any order, and    *)
(* the vector of peers is the set of its elements until select() orders it. *)
(***************************************************************************)
EXTENDS Naturals, Sequences, FiniteSets, SequencesExt

CONSTANTS
    Peers,
    ActiveSize,   \* LeechChoker::active_size
    Operations    \* of "remove" and "stop", which the program never calls

ASSUME ChokerAssumption ==
    /\ IsFiniteSet(Peers)
    /\ ActiveSize \in Nat \ {0}
    /\ Operations \subseteq {"remove", "stop"}

VARIABLES
    peers,       \* the elements of the vector of peers
    active,      \* those of the last selection; a peer may be in it twice
    iteration,
    armed,       \* the timer waits
    pc,          \* where select() is
    result, next,\* its locals: the new selection, the position in a loop
    interested,  \* per peer, DataChannel::interested of the upload
    choked,      \* per peer, DataChannel::choked of the upload
    crashed,     \* the vector was changed under select()
    wanted       \* history: the interested peers select() found

vars == <<peers, active, iteration, armed, pc, result, next, interested, choked, crashed, wanted>>

TypeOK ==
    /\ peers \in SUBSET Peers
    /\ active \in Seq(Peers) /\ result \in Seq(Peers)
    /\ iteration \in 0 .. 2 /\ next \in Nat \ {0}
    /\ armed \in BOOLEAN /\ crashed \in BOOLEAN
    /\ pc \in {"idle", "ordering", "choking", "unchoking"}
    /\ interested \in [Peers -> BOOLEAN] /\ choked \in [Peers -> BOOLEAN]
    /\ wanted \in SUBSET Peers

Init ==
    /\ peers = {} /\ active = <<>> /\ result = <<>>
    /\ iteration = 0 /\ next = 1
    /\ armed = TRUE /\ pc = "idle" /\ crashed = FALSE
    /\ interested = [p \in Peers |-> FALSE]
    /\ choked = [p \in Peers |-> TRUE]
    /\ wanted = {}

-----------------------------------------------------------------------------
(* The handlers of the peers and of PeerHandler.                            *)

SetInterested(p) ==
    /\ ~crashed
    /\ p \in peers
    /\ interested' = [interested EXCEPT ![p] = ~@]
    /\ UNCHANGED <<peers, active, iteration, armed, pc, result, next, choked, crashed, wanted>>

\* The vector changes under the sort or the copy of select(), or not.
ChangePeers(S) ==
    /\ ~crashed
    /\ \/ peers' = S /\ UNCHANGED crashed
       \/ pc = "ordering" /\ crashed' = TRUE /\ UNCHANGED peers
    /\ UNCHANGED <<active, iteration, armed, pc, result, next, interested, choked, wanted>>

AddPeer(p) ==
    /\ p \notin peers
    /\ ChangePeers(peers \cup {p})

RemovePeer(p) ==
    /\ "remove" \in Operations
    /\ p \in peers
    /\ ChangePeers(peers \ {p})

\* Cancels the wait; a handler that is running arms the timer again.
Stop ==
    /\ "stop" \in Operations /\ ~crashed
    /\ armed' = FALSE
    /\ UNCHANGED <<peers, active, iteration, pc, result, next, interested, choked, crashed, wanted>>

-----------------------------------------------------------------------------
(* timer_handler and select().                                              *)

NextIterationStuck == 1
NextIteration == (iteration + 1) % 3

TimerFires ==
    /\ ~crashed /\ armed /\ pc = "idle"
    /\ armed' = FALSE
    /\ pc' = "ordering"
    /\ iteration' = NextIteration
    /\ UNCHANGED <<peers, active, result, next, interested, choked, crashed, wanted>>

\* The optimistic unchoke, every third time: one of the interested peers, if
\* there is one, before the regular slots.
Optimistic(candidates) ==
    IF iteration = 0 /\ candidates # <<>>
    THEN {<<candidates[i]>> : i \in DOMAIN candidates}
    ELSE {<<>>}

\* The regular slots: the first ones of the sorted order.
Lesser(m, n) == IF m < n THEN m ELSE n

RegularAll(candidates, chosen) ==
    SubSeq(candidates, 1, Lesser(Len(candidates), ActiveSize))

Regular(candidates, chosen) ==
    SubSeq(candidates, 1, Lesser(Len(candidates), ActiveSize - Len(chosen)))

CandidatesOfAll == peers

Candidates == {p \in peers : interested[p]}

Collect ==
    /\ ~crashed /\ pc = "ordering"
    /\ \E candidates \in SetToSeqs(Candidates) :
         \E chosen \in Optimistic(candidates) :
            result' = chosen \o Regular(candidates, chosen)
    /\ wanted' = {p \in peers : interested[p]}
    /\ pc' = "choking" /\ next' = 1
    /\ UNCHANGED <<peers, active, iteration, armed, interested, choked, crashed>>

\* find() searches result and its answer is compared with active.end(): they
\* never agree, so each active peer is choked, selected again or not.
ChokeOneKept ==
    /\ ~crashed /\ pc = "choking" /\ next <= Len(active)
    /\ choked' = [choked EXCEPT ![active[next]] = @ \/ active[next] \in ToSet(result)]
    /\ next' = next + 1
    /\ UNCHANGED <<peers, active, iteration, armed, pc, result, interested, crashed, wanted>>

ChokeOne ==
    /\ ~crashed /\ pc = "choking" /\ next <= Len(active)
    /\ choked' = [choked EXCEPT ![active[next]] = TRUE]
    /\ next' = next + 1
    /\ UNCHANGED <<peers, active, iteration, armed, pc, result, interested, crashed, wanted>>

Activate ==
    /\ ~crashed /\ pc = "choking" /\ next > Len(active)
    /\ active' = result
    /\ pc' = "unchoking" /\ next' = 1
    /\ UNCHANGED <<peers, iteration, armed, result, interested, choked, crashed, wanted>>

UnchokeOne ==
    /\ ~crashed /\ pc = "unchoking" /\ next <= Len(active)
    /\ choked' = [choked EXCEPT ![active[next]] = FALSE]
    /\ next' = next + 1
    /\ UNCHANGED <<peers, active, iteration, armed, pc, result, interested, crashed, wanted>>

Rearm ==
    /\ ~crashed /\ pc = "unchoking" /\ next > Len(active)
    /\ pc' = "idle" /\ armed' = TRUE
    /\ UNCHANGED <<peers, active, iteration, result, next, interested, choked, crashed, wanted>>

Select == TimerFires \/ Collect \/ ChokeOne \/ Activate \/ UnchokeOne \/ Rearm

Next ==
    \/ Select
    \/ \E p \in Peers : SetInterested(p) \/ AddPeer(p) \/ RemovePeer(p)
    \/ Stop

Spec == Init /\ [][Next]_vars

\* The timer expires and its handler runs; random sampling picks, again and
\* again, each peer it may pick.
Sampled(p) == Collect /\ result' # <<>> /\ iteration = 0 /\ Head(result') = p

FairSpec == Spec /\ WF_vars(Select) /\ \A p \in Peers : SF_vars(Sampled(p))

-----------------------------------------------------------------------------
(* Properties.                                                              *)

Unchoked == {p \in Peers : ~choked[p]}

\* At no time, not even between the two loops of select(), do more than
\* active_size peers hold an unchoke, although the slots change hands and
\* peers come and go.
UnchokedBound == Cardinality(Unchoked) <= ActiveSize

\* Between selections the unchoked peers are those of active: nobody keeps a
\* slot select() no longer knows of, and nobody it chose was left choked.
UnchokedAreActive == pc = "idle" => Unchoked = ToSet(active)

\* select() leaves at most one slot free that an interested peer could have,
\* and that only in the round of the optimistic unchoke, which may choose a
\* peer of the regular slots; no slot goes to a peer not interested.
SlotsUsed ==
    pc = "idle" =>
        /\ Unchoked \subseteq wanted
        /\ LET slots == IF iteration = 0 THEN ActiveSize - 1 ELSE ActiveSize
           IN  Cardinality(Unchoked) >= Lesser(Cardinality(wanted), slots)

\* A peer that stays interested is unchoked again and again, whatever the
\* order of the rates, unless the choker is stopped: the optimistic unchoke
\* starves nobody.
NobodyStarves ==
    \A p \in Peers :
        <>[](p \in peers /\ interested[p] /\ ~crashed /\ (pc = "idle" => armed))
            => []<>~choked[p]

=============================================================================
