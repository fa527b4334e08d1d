------------------------------ MODULE Storage ------------------------------
(***************************************************************************)
(* The storage as the peers see it: which blocks are complete, how many    *)
(* writes a piece has counted, which writes are under way.  The buffers,   *)
(* the file and the hash are left out: the verdict of a validation is any. *)
(* Torrent is shown to implement this module; Download builds on it.       *)
(***************************************************************************)
EXTENDS Integers, FiniteSets

CONSTANTS Pieces, Blocks, PieceOf

VARIABLES
    complete_,        \* Block::complete_
    complete_blocks,  \* Piece::complete_blocks
    pending,          \* pending[b]: write_block calls whose handler has not run
    validating,       \* validations under way per piece
    terminated        \* an exception has left an io_context::run thread

storageVars == <<complete_, complete_blocks, pending, validating, terminated>>

BlocksOf(i) == {b \in Blocks : PieceOf[b] = i}

StorageInit ==
    /\ complete_ = [b \in Blocks |-> FALSE]
    /\ complete_blocks = [i \in Pieces |-> 0]
    /\ pending = [b \in Blocks |-> 0]
    /\ validating = [i \in Pieces |-> 0]
    /\ terminated = FALSE

\* Piece::complete()
PieceComplete(i, count) == count = Cardinality(BlocksOf(i))

\* Torrent::write_block
Write(b) ==
    /\ ~terminated
    /\ pending' = [pending EXCEPT ![b] = @ + 1]
    /\ UNCHANGED <<complete_, complete_blocks, validating, terminated>>

\* The handler of write_block: block_written, then validate_piece if full.
Written(b) ==
    LET i == PieceOf[b] IN
    /\ ~terminated
    /\ pending[b] > 0
    /\ pending' = [pending EXCEPT ![b] = @ - 1]
    /\ complete_' = [complete_ EXCEPT ![b] = TRUE]
    /\ complete_blocks' = [complete_blocks EXCEPT ![i] = @ + 1]
    /\ validating' = IF PieceComplete(i, complete_blocks[i] + 1)
                     THEN [validating EXCEPT ![i] = @ + 1] ELSE validating
    /\ UNCHANGED terminated

\* The handler of validate_piece when the hash matches...
Accept(i) ==
    /\ ~terminated
    /\ validating[i] > 0
    /\ validating' = [validating EXCEPT ![i] = @ - 1]
    /\ UNCHANGED <<complete_, complete_blocks, pending, terminated>>

\* ... and when it does not: Piece::reset.
Reset(i) ==
    /\ ~terminated
    /\ validating[i] > 0
    /\ validating' = [validating EXCEPT ![i] = @ - 1]
    /\ complete_' = [b \in Blocks |-> IF PieceOf[b] = i THEN FALSE ELSE complete_[b]]
    /\ complete_blocks' = [complete_blocks EXCEPT ![i] = 0]
    /\ UNCHANGED <<pending, terminated>>

\* A write ends with an error.
WriteError ==
    /\ ~terminated
    /\ \E b \in Blocks : pending[b] > 0
    /\ terminated' = TRUE
    /\ UNCHANGED <<complete_, complete_blocks, pending, validating>>

StorageNext ==
    \/ \E b \in Blocks : Write(b) \/ Written(b)
    \/ \E i \in Pieces : Accept(i) \/ Reset(i)
    \/ WriteError

StorageSpec == StorageInit /\ [][StorageNext]_storageVars

=============================================================================
