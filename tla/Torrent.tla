------------------------------ MODULE Torrent ------------------------------
(***************************************************************************)
(* The storage side of a download: Torrent::write_block,                   *)
(* Piece::block_written, Torrent::validate_piece and Piece::reset          *)
(* (torrent.cpp, piece.cpp, piece.h, block.cpp).                           *)
(*                                                                         *)
(* Who runs what.  write_block is called on the thread that handles a      *)
(* peer's PIECE message, so calls of different peers interleave.  The      *)
(* completion handlers of writes and of validation reads are bound to one  *)
(* strand: each of them is one atomic step here.  The file I/O itself is   *)
(* done by the kernel (io_uring) at any moment between the submission and  *)
(* the completion.                                                         *)
(*                                                                         *)
(* Block::mut guards requested_, complete_ and write_buf, and is held only *)
(* inside single steps, so it needs no variable of its own.                *)
(***************************************************************************)
EXTENDS Integers, FiniteSets

LOCAL INSTANCE FiniteSetsExt

CONSTANTS
    Pieces,       \* the indices of the pieces vector
    Blocks,       \* all blocks of all pieces
    PieceOf,      \* PieceOf[b]: the piece whose blocks vector holds b
    Peers,        \* the peers, one running message handler each
    MaxWrites     \* bound on the write_block calls not yet undone by a reset

ASSUME PiecesAssumption == IsFiniteSet(Pieces)
ASSUME BlocksAssumption == IsFiniteSet(Blocks)
ASSUME PeersAssumption == IsFiniteSet(Peers)
ASSUME PieceOfAssumption == PieceOf \in [Blocks -> Pieces]
ASSUME MaxWritesAssumption == MaxWrites \in Nat

\* Piece::blocks.  A torrent has no empty piece, so the vector is not empty.
BlocksOf(i) == {b \in Blocks : PieceOf[b] = i}

ASSUME NonEmptyAssumption == \A i \in Pieces : BlocksOf(i) # {}

NumBlocks(i) == Cardinality(BlocksOf(i))

\* What a block-sized stretch of memory or of the file holds, compared with
\* the data the metainfo's hash was computed from.
Content == {"good", "bad"}
Empty   == "empty"      \* the empty vector: no storage at all
Unread  == "unread"     \* a stretch of validation_buf not read yet
NoBlock == <<>>         \* the peer's thread is not inside write_block

ASSUME NoBlockAssumption == NoBlock \notin Blocks

VARIABLES
    complete_,        \* Block::complete_
    complete_blocks,  \* Piece::complete_blocks
    write_buf,        \* Block::write_buf
    storing,          \* the block a peer's write_block has buffered, not yet submitted
    writing,          \* submitted writes whose buffer is the current write_buf
    dangling,         \* submitted writes whose buffer has been freed meanwhile
    written,          \* writes the kernel has done, completion handler to run
    file,             \* out_file, one entry per block
    validating,       \* validation reads in flight per piece
    validation_buf,   \* Piece::validation_buf, one entry per block
    validated,        \* Torrent::validated
    terminated,       \* an exception has left an io_context::run thread
    announced,        \* history: how often piece_complete(i) was called
    late              \* history: a write was under way during or after the validation

bufVars  == <<write_buf, storing, writing, dangling, written>>
pieceVars == <<complete_, complete_blocks>>
checkVars == <<validating, validation_buf, validated, announced>>
vars == <<complete_, complete_blocks, write_buf, storing, writing, dangling,
          written, file, validating, validation_buf, validated, terminated,
          announced, late>>

(***************************************************************************)
(* The constructors: no block is complete, nothing is in flight.  out_file *)
(* is opened with create but without truncate, so an output file that is   *)
(* already there keeps its bytes: any content is possible.                 *)
(***************************************************************************)
Init ==
    /\ complete_ = [b \in Blocks |-> FALSE]
    /\ complete_blocks = [i \in Pieces |-> 0]
    /\ write_buf = [b \in Blocks |-> Empty]
    /\ storing = [p \in Peers |-> NoBlock]
    /\ writing = [b \in Blocks |-> 0]
    /\ dangling = [b \in Blocks |-> 0]
    /\ written = [b \in Blocks |-> 0]
    /\ file \in [Blocks -> Content]
    /\ validating = [i \in Pieces |-> 0]
    /\ validation_buf = [b \in Blocks |-> Unread]
    /\ validated = 0
    /\ terminated = FALSE
    /\ announced = [i \in Pieces |-> 0]
    /\ late = [i \in Pieces |-> FALSE]

-----------------------------------------------------------------------------
(***************************************************************************)
(* Torrent::write_block, on the thread of peer p.                          *)
(***************************************************************************)

\* Some write of a block of piece i is between its write_block and its
\* completion handler.
Busy(i) ==
    \/ \E b \in BlocksOf(i) : writing[b] > 0 \/ dangling[b] > 0 \/ written[b] > 0
    \/ \E p \in Peers : storing[p] \in BlocksOf(i)

\* The write_block calls for piece i that its last reset has not wiped out.
Calls(i) ==
    complete_blocks[i]
      + MapThenSumSet(LAMBDA b : writing[b] + dangling[b] + written[b], BlocksOf(i))
      + Cardinality({p \in Peers : storing[p] \in BlocksOf(i)})

\* Bound of the model: over all pieces, so many calls and no more.
MayStore == MapThenSumSet(Calls, Pieces) < MaxWrites

\* lock; write_buf = data; unlock.  The vector keeps its storage, so writes
\* already submitted from it now read the new bytes.
StoreBlock(p, b, d) ==
    /\ ~terminated
    /\ storing[p] = NoBlock
    /\ MayStore
    /\ write_buf' = [write_buf EXCEPT ![b] = d]
    /\ storing' = [storing EXCEPT ![p] = b]
    /\ LET i == PieceOf[b] IN
       late' = [late EXCEPT ![i] = @ \/ validating[i] > 0 \/ announced[i] > 0]
    /\ UNCHANGED <<pieceVars, writing, dangling, written, file, checkVars, terminated>>

\* async_write_at(buffer(block->write_buf)), evaluated after the unlock: the
\* handler of an earlier write may have emptied write_buf by now, and a write
\* of no bytes completes at once.
SubmitWrite(p) ==
    /\ ~terminated
    /\ storing[p] # NoBlock
    /\ LET b == storing[p] IN
       IF write_buf[b] = Empty
       THEN /\ written' = [written EXCEPT ![b] = @ + 1]
            /\ UNCHANGED writing
       ELSE /\ writing' = [writing EXCEPT ![b] = @ + 1]
            /\ UNCHANGED written
    /\ storing' = [storing EXCEPT ![p] = NoBlock]
    /\ UNCHANGED <<pieceVars, write_buf, dangling, file, checkVars, terminated, late>>

-----------------------------------------------------------------------------
(***************************************************************************)
(* The kernel: it reads the buffer and writes the file.                    *)
(***************************************************************************)
PerformWrite(b) ==
    /\ ~terminated
    /\ writing[b] > 0
    /\ file' = [file EXCEPT ![b] = write_buf[b]]
    /\ writing' = [writing EXCEPT ![b] = @ - 1]
    /\ written' = [written EXCEPT ![b] = @ + 1]
    /\ UNCHANGED <<pieceVars, write_buf, storing, dangling, checkVars, terminated, late>>

\* The storage of the buffer was freed by the swap in Piece::block_written:
\* whatever that memory holds now goes to the file.
PerformDanglingWrite(b) ==
    /\ ~terminated
    /\ dangling[b] > 0
    /\ \E c \in Content : file' = [file EXCEPT ![b] = c]
    /\ dangling' = [dangling EXCEPT ![b] = @ - 1]
    /\ written' = [written EXCEPT ![b] = @ + 1]
    /\ UNCHANGED <<pieceVars, write_buf, storing, writing, checkVars, terminated, late>>

\* A write ends with an error: block_written throws, nobody catches it, and
\* the exception leaves io_context::run.
WriteFails(b) ==
    /\ ~terminated
    /\ writing[b] > 0 \/ dangling[b] > 0
    /\ terminated' = TRUE
    /\ UNCHANGED <<pieceVars, bufVars, file, checkVars, late>>

-----------------------------------------------------------------------------
(***************************************************************************)
(* The completion handlers, on the strand.                                 *)
(***************************************************************************)

\* Mutant of Complete: a piece counts as full from n blocks on.
CompleteAtLeast(i, count) == count >= NumBlocks(i)

\* Piece::complete()
Complete(i, count) == count = NumBlocks(i)

\* validate_piece: resize validation_buf, submit the read of the whole piece.
StartValidation(i) ==
    /\ validating' = [validating EXCEPT ![i] = @ + 1]
    /\ validation_buf' = [b \in Blocks |->
                             IF PieceOf[b] = i THEN Unread ELSE validation_buf[b]]

\* Mutant of BlockWritten: it takes the emptied buffer as a sign that the other
\* writes of the block are done with.
BlockWrittenForAll(b) ==
    LET i == PieceOf[b]
        n == complete_blocks[i] + 1
    IN  /\ ~terminated
        /\ written[b] > 0
        /\ written' = [written EXCEPT ![b] = @ - 1]
        /\ complete_' = [complete_ EXCEPT ![b] = TRUE]
        /\ write_buf' = [write_buf EXCEPT ![b] = Empty]
        /\ writing' = [writing EXCEPT ![b] = 0]
        /\ complete_blocks' = [complete_blocks EXCEPT ![i] = n]
        /\ UNCHANGED <<storing, dangling>>
        /\ IF Complete(i, n)
           THEN StartValidation(i) /\ late' = [late EXCEPT ![i] = Busy(i)']
           ELSE UNCHANGED <<validating, validation_buf, late>>
        /\ UNCHANGED <<file, validated, terminated, announced>>

\* Handler of write_block.  Piece::block_written marks the block complete,
\* swaps write_buf with an empty vector (freeing the storage under any other
\* write of the block) and counts the write; a full piece is then validated.
BlockWritten(b) ==
    LET i == PieceOf[b]
        n == complete_blocks[i] + 1
    IN  /\ ~terminated
        /\ written[b] > 0
        /\ written' = [written EXCEPT ![b] = @ - 1]
        /\ complete_' = [complete_ EXCEPT ![b] = TRUE]
        /\ write_buf' = [write_buf EXCEPT ![b] = Empty]
        /\ dangling' = [dangling EXCEPT ![b] = @ + writing[b]]
        /\ writing' = [writing EXCEPT ![b] = 0]
        /\ complete_blocks' = [complete_blocks EXCEPT ![i] = n]
        /\ UNCHANGED storing
        /\ IF Complete(i, n)
           THEN /\ StartValidation(i)
                /\ late' = [late EXCEPT ![i] = Busy(i)']
           ELSE UNCHANGED <<validating, validation_buf, late>>
        /\ UNCHANGED <<file, validated, terminated, announced>>

\* The kernel fills one block of validation_buf.
ReadForValidation(b) ==
    /\ ~terminated
    /\ validating[PieceOf[b]] > 0
    /\ validation_buf[b] = Unread
    /\ validation_buf' = [validation_buf EXCEPT ![b] = file[b]]
    /\ UNCHANGED <<pieceVars, bufVars, file, validating, validated, announced,
                   terminated, late>>

\* A failed or short read leaves zeros in the rest of the buffer; the handler
\* ignores the error code.
ValidationReadFails(b) ==
    /\ ~terminated
    /\ validating[PieceOf[b]] > 0
    /\ validation_buf[b] = Unread
    /\ validation_buf' = [validation_buf EXCEPT ![b] = "bad"]
    /\ UNCHANGED <<pieceVars, bufVars, file, validating, validated, announced,
                   terminated, late>>

\* Mutant of HashValid: part of the buffer is not hashed.
HashValidOfPart(i) == \E b \in BlocksOf(i) : validation_buf[b] = "good"

\* sha1::hashValid(validation_buf, hash)
HashValid(i) == \A b \in BlocksOf(i) : validation_buf[b] = "good"

\* Mutant of ResetPiece: the blocks stay complete.
ResetCountOnly(i) ==
    /\ UNCHANGED complete_
    /\ complete_blocks' = [complete_blocks EXCEPT ![i] = 0]

\* Piece::reset: the blocks are no longer complete, the count is zero.
ResetPiece(i) ==
    /\ complete_' = [b \in Blocks |-> IF PieceOf[b] = i THEN FALSE ELSE complete_[b]]
    /\ complete_blocks' = [complete_blocks EXCEPT ![i] = 0]

\* Handler of validate_piece.
ValidatePiece(i) ==
    /\ ~terminated
    /\ validating[i] > 0
    /\ \A b \in BlocksOf(i) : validation_buf[b] # Unread
    /\ IF HashValid(i)
       THEN /\ announced' = [announced EXCEPT ![i] = @ + 1]
            /\ validated' = validated + 1
            /\ UNCHANGED pieceVars
       ELSE /\ ResetPiece(i)
            /\ UNCHANGED <<announced, validated>>
    /\ validating' = [validating EXCEPT ![i] = @ - 1]
    /\ validation_buf' = [b \in Blocks |->
                             IF PieceOf[b] = i THEN Unread ELSE validation_buf[b]]
    /\ UNCHANGED <<bufVars, file, terminated, late>>

-----------------------------------------------------------------------------
Store  == \E p \in Peers, b \in Blocks, d \in Content : StoreBlock(p, b, d)
Submit == \E p \in Peers : SubmitWrite(p)
Kernel == \E b \in Blocks : \/ PerformWrite(b) \/ PerformDanglingWrite(b)
                            \/ WriteFails(b)
                            \/ ReadForValidation(b) \/ ValidationReadFails(b)
Strand == \/ \E b \in Blocks : BlockWritten(b)
          \/ \E i \in Pieces : ValidatePiece(i)

Next == Store \/ Submit \/ Kernel \/ Strand

\* A thread inside write_block goes on, submitted I/O ends and queued handlers
\* run; nothing obliges a peer to send a block.
Fairness ==
    /\ \A p \in Peers : WF_vars(SubmitWrite(p))
    /\ \A b \in Blocks : /\ WF_vars(PerformWrite(b) \/ PerformDanglingWrite(b) \/ WriteFails(b))
                         /\ WF_vars(ReadForValidation(b) \/ ValidationReadFails(b))
                         /\ WF_vars(BlockWritten(b))
    /\ \A i \in Pieces : WF_vars(ValidatePiece(i))

Spec == Init /\ [][Next]_vars
FairSpec == Spec /\ Fairness

-----------------------------------------------------------------------------
(***************************************************************************)
(* Properties.                                                             *)
(***************************************************************************)

\* Every variable keeps its type: counters stay natural numbers, buffers hold
\* block contents and the file has a content for every block.
TypeOK ==
    /\ complete_ \in [Blocks -> BOOLEAN]
    /\ complete_blocks \in [Pieces -> Nat]
    /\ write_buf \in [Blocks -> Content \cup {Empty}]
    /\ storing \in [Peers -> Blocks \cup {NoBlock}]
    /\ writing \in [Blocks -> Nat]
    /\ dangling \in [Blocks -> Nat]
    /\ written \in [Blocks -> Nat]
    /\ file \in [Blocks -> Content]
    /\ validating \in [Pieces -> Nat]
    /\ validation_buf \in [Blocks -> Content \cup {Unread}]
    /\ validated \in Nat
    /\ terminated \in BOOLEAN
    /\ announced \in [Pieces -> Nat]
    /\ late \in [Pieces -> BOOLEAN]

\* The pieces piece_complete has been called for.
Verified == {i \in Pieces : announced[i] > 0}

\* Piece::validation_buf belongs to one validation at a time: validate_piece
\* never resizes, and its handler never clears, the buffer of another read in
\* flight, however many duplicate writes of the piece complete meanwhile.
SingleValidation == \A i \in Pieces : validating[i] <= 1

\* validated == pieces.size() (the "COMPLETE!!!" test of validate_piece) means
\* what it says: validated is the number of distinct pieces whose hash matched,
\* and piece_complete is called at most once for each of them.
CountedOnce ==
    /\ \A i \in Pieces : announced[i] <= 1
    /\ validated = Cardinality(Verified)

\* A piece all of whose blocks are marked complete is verified or is being
\* validated: the test complete_blocks == blocks.size() cannot be stepped over
\* by duplicate writes, although complete_blocks counts them too.
NoStrandedPiece ==
    \A i \in Pieces :
        (\A b \in BlocksOf(i) : complete_[b]) => validating[i] > 0 \/ i \in Verified

\* The hash protects the file: once piece_complete(i) has been called the file
\* holds the right bytes of piece i, whatever wrong, overlapping or dangling
\* writes came before, provided no write of the piece was still under way when
\* its validation read was submitted and none was begun after that.
VerifiedIsGood ==
    \A i \in Verified : ~late[i] => \A b \in BlocksOf(i) : file[b] = "good"

\* A verified piece is never reset: a late duplicate write cannot bring it back
\* to validation and lose its blocks (Piece::reset after piece_complete).
VerifiedNeverReset ==
    [][\A i \in Verified : complete_blocks'[i] >= complete_blocks[i]]_vars

(***************************************************************************)
(* Torrent implements PieceStore and Storage.                              *)
(***************************************************************************)
Stage(i) == IF i \in Verified THEN "verified"
            ELSE IF validating[i] > 0 THEN "checking" ELSE "filling"

Store_ == INSTANCE PieceStore WITH stage <- [i \in Pieces |-> Stage(i)],
                                   count <- validated,
                                   stopped <- terminated

\* Every step of the storage is a step of PieceStore or leaves it unchanged, and
\* every validation that was started is decided: the piece is announced or its
\* blocks are free again, unless a failing write ends the process.
ImplementsPieceStore == Store_!FairSpec

\* write_block calls for block b whose completion handler has not run.
Storing(b) == {p \in Peers : storing[p] = b}
Pending(b) == Cardinality(Storing(b)) + writing[b] + dangling[b] + written[b]

View == INSTANCE Storage WITH pending <- [b \in Blocks |-> Pending(b)]

\* The buffers, the kernel and the file are invisible to the peers: every step is
\* a step of Storage or a stutter.  In particular no write is lost or counted
\* twice between write_block and its handler.
ImplementsStorage == View!StorageSpec

=============================================================================
