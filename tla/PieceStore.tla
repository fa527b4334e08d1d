----------------------------- MODULE PieceStore -----------------------------
(***************************************************************************)
(* What the storage of a download promises about its pieces, whatever the  *)
(* peers, the disk and the completion handlers do: a piece is being        *)
(* filled, is being checked by one validation, or is verified for good,    *)
(* and Torrent::validated counts the verified pieces.  Torrent implements  *)
(* this specification.                                                     *)
(***************************************************************************)
EXTENDS Integers

CONSTANT Pieces

VARIABLES
    stage,      \* stage[i] of piece i
    count,      \* the number of verified pieces reported so far
    stopped     \* the process has ended

vars == <<stage, count, stopped>>

Init ==
    /\ stage = [i \in Pieces |-> "filling"]
    /\ count = 0
    /\ stopped = FALSE

\* All blocks of the piece have been written: its validation starts.
Check(i) ==
    /\ ~stopped
    /\ stage[i] = "filling"
    /\ stage' = [stage EXCEPT ![i] = "checking"]
    /\ UNCHANGED <<count, stopped>>

\* The hash matches: the piece is announced and counted.
Verify(i) ==
    /\ ~stopped
    /\ stage[i] = "checking"
    /\ stage' = [stage EXCEPT ![i] = "verified"]
    /\ count' = count + 1
    /\ UNCHANGED stopped

\* The hash does not match: the piece starts again from nothing.
Reject(i) ==
    /\ ~stopped
    /\ stage[i] = "checking"
    /\ stage' = [stage EXCEPT ![i] = "filling"]
    /\ UNCHANGED <<count, stopped>>

\* An exception ends the process.
Stop ==
    /\ ~stopped
    /\ stopped' = TRUE
    /\ UNCHANGED <<stage, count>>

Next == \/ \E i \in Pieces : Check(i) \/ Verify(i) \/ Reject(i)
        \/ Stop

Spec == Init /\ [][Next]_vars

\* A validation that has started is decided, unless the process ends.
FairSpec == Spec /\ \A i \in Pieces : WF_vars(Verify(i) \/ Reject(i))

=============================================================================
