--------------------------- MODULE TorrentProofs ---------------------------
(***************************************************************************)
(* Proofs about Torrent, for every number of pieces, blocks, peers and     *)
(* duplicate writes.                                                       *)
(***************************************************************************)
EXTENDS Torrent, FiniteSetTheorems, TLAPS

(***************************************************************************)
(* Facts about the constants.                                              *)
(***************************************************************************)

\* Piece::blocks.size() is a positive number: a piece has at least one block.
LEMMA NumBlocksType == \A i \in Pieces : /\ IsFiniteSet(BlocksOf(i))
                                         /\ NumBlocks(i) \in Nat
                                         /\ NumBlocks(i) > 0
<1> SUFFICES ASSUME NEW i \in Pieces
             PROVE  IsFiniteSet(BlocksOf(i)) /\ NumBlocks(i) \in Nat /\ NumBlocks(i) > 0
  OBVIOUS
<1>1. BlocksOf(i) \subseteq Blocks
  BY DEF BlocksOf
<1>2. IsFiniteSet(BlocksOf(i))
  BY <1>1, BlocksAssumption, FS_Subset
<1>3. NumBlocks(i) \in Nat
  BY <1>2, FS_CardinalityType DEF NumBlocks
<1>4. NumBlocks(i) # 0
  BY <1>2, NonEmptyAssumption, FS_EmptySet DEF NumBlocks
<1> QED
  BY <1>2, <1>3, <1>4

-----------------------------------------------------------------------------
(***************************************************************************)
(* Type correctness.  The file stays well typed only because a live write  *)
(* never reads an emptied buffer.                                          *)
(***************************************************************************)

\* A submitted write that still reads write_buf finds storage there:
\* Piece::block_written turns the writes it strips of their buffer into
\* dangling ones.
LiveBuffer == \A b \in Blocks : writing[b] > 0 => write_buf[b] \in Content

TypeInv == TypeOK /\ LiveBuffer

\* Init establishes the types.
LEMMA TypeInit == Init => TypeInv
<1> SUFFICES ASSUME Init PROVE TypeInv
  OBVIOUS
<1>1. TypeOK
  BY DEF Init, TypeOK
<1>2. LiveBuffer
  BY DEF Init, LiveBuffer
<1> QED
  BY <1>1, <1>2 DEF TypeInv

\* Every step of the storage preserves the types and the live buffers.
LEMMA TypeStep == TypeInv /\ [Next]_vars => TypeInv'
<1> SUFFICES ASSUME TypeInv, [Next]_vars PROVE TypeInv'
  OBVIOUS
<1> USE PieceOfAssumption DEF TypeInv, TypeOK, LiveBuffer
<1>1. ASSUME NEW p \in Peers, NEW b \in Blocks, NEW d \in Content, StoreBlock(p, b, d)
      PROVE  TypeInv'
  BY <1>1 DEF StoreBlock, pieceVars, checkVars
<1>2. ASSUME NEW p \in Peers, SubmitWrite(p) PROVE TypeInv'
  BY <1>2 DEF SubmitWrite, pieceVars, checkVars, Content, Empty
<1>3. ASSUME NEW b \in Blocks, PerformWrite(b) PROVE TypeInv'
  BY <1>3 DEF PerformWrite, pieceVars, checkVars
<1>4. ASSUME NEW b \in Blocks, PerformDanglingWrite(b) PROVE TypeInv'
  BY <1>4 DEF PerformDanglingWrite, pieceVars, checkVars
<1>5. ASSUME NEW b \in Blocks, WriteFails(b) PROVE TypeInv'
  BY <1>5 DEF WriteFails, pieceVars, bufVars, checkVars
<1>6. ASSUME NEW b \in Blocks, ReadForValidation(b) PROVE TypeInv'
  BY <1>6 DEF ReadForValidation, pieceVars, bufVars
<1>7. ASSUME NEW b \in Blocks, ValidationReadFails(b) PROVE TypeInv'
  BY <1>7 DEF ValidationReadFails, pieceVars, bufVars, Content
<1>8. ASSUME NEW b \in Blocks, BlockWritten(b) PROVE TypeInv'
  <2>1. /\ complete_' \in [Blocks -> BOOLEAN]
        /\ complete_blocks' \in [Pieces -> Nat]
        /\ write_buf' \in [Blocks -> Content \cup {Empty}]
        /\ storing' \in [Peers -> Blocks \cup {NoBlock}]
        /\ writing' \in [Blocks -> Nat]
        /\ dangling' \in [Blocks -> Nat]
        /\ written' \in [Blocks -> Nat]
    BY <1>8 DEF BlockWritten
  <2>2. /\ file' \in [Blocks -> Content]
        /\ validated' \in Nat
        /\ terminated' \in BOOLEAN
        /\ announced' \in [Pieces -> Nat]
    BY <1>8 DEF BlockWritten
  <2>3. /\ validating' \in [Pieces -> Nat]
        /\ validation_buf' \in [Blocks -> Content \cup {Unread}]
    BY <1>8 DEF BlockWritten, StartValidation
  <2>4. late' \in [Pieces -> BOOLEAN]
    BY <1>8 DEF BlockWritten, Busy
  <2>5. LiveBuffer'
    BY <1>8 DEF BlockWritten
  <2> QED
    BY <2>1, <2>2, <2>3, <2>4, <2>5
<1>9. ASSUME NEW i \in Pieces, ValidatePiece(i) PROVE TypeInv'
  <2>1. /\ validating' \in [Pieces -> Nat]
        /\ validation_buf' \in [Blocks -> Content \cup {Unread}]
        /\ UNCHANGED <<bufVars, file, terminated, late>>
    BY <1>9 DEF ValidatePiece
  <2>2. /\ complete_' \in [Blocks -> BOOLEAN]
        /\ complete_blocks' \in [Pieces -> Nat]
        /\ validated' \in Nat
        /\ announced' \in [Pieces -> Nat]
    <3>1. CASE HashValid(i)
      BY <1>9, <3>1 DEF ValidatePiece, pieceVars
    <3>2. CASE ~HashValid(i)
      <4>1. ResetPiece(i) /\ UNCHANGED <<announced, validated>>
        BY <1>9, <3>2 DEF ValidatePiece
      <4>2. complete_' \in [Blocks -> BOOLEAN]
        BY <4>1 DEF ResetPiece
      <4>3. complete_blocks' \in [Pieces -> Nat]
        BY <4>1 DEF ResetPiece
      <4> QED
        BY <4>1, <4>2, <4>3
    <3> QED
      BY <3>1, <3>2
  <2> QED
    BY <2>1, <2>2 DEF bufVars
<1>10. CASE UNCHANGED vars
  BY <1>10 DEF vars
<1> QED
  BY <1>1, <1>2, <1>3, <1>4, <1>5, <1>6, <1>7, <1>8, <1>9, <1>10
  DEF Next, Store, Submit, Kernel, Strand

\* The types hold in every reachable state of the storage.
THEOREM TypeCorrect == Spec => []TypeOK
<1>1. TypeInv => TypeOK
  BY DEF TypeInv
<1> QED
  BY <1>1, TypeInit, TypeStep, PTL DEF Spec

-----------------------------------------------------------------------------
(***************************************************************************)
(* The accounting of pieces.  The invariant that carries the safety        *)
(* properties ties the three stages of a piece to complete_blocks: below   *)
(* blocks.size() the piece is being filled; from there on it is either     *)
(* under its only validation or verified.  The == in Piece::complete is    *)
(* what makes it inductive: the count passes blocks.size() once between    *)
(* two resets, and a reset happens only at the end of a validation.        *)
(***************************************************************************)
FlaggedIn(i) == {b \in BlocksOf(i) : complete_[b]}

CheckingInv(i) == validating[i] > 0 => /\ validating[i] = 1
                                       /\ announced[i] = 0
                                       /\ complete_blocks[i] >= NumBlocks(i)

AnnouncedInv(i) == announced[i] > 0 => /\ announced[i] = 1
                                       /\ complete_blocks[i] >= NumBlocks(i)

FullInv(i) == complete_blocks[i] >= NumBlocks(i) => validating[i] > 0 \/ announced[i] > 0

FlagsInv(i) == Cardinality(FlaggedIn(i)) <= complete_blocks[i]

CountInv == validated = Cardinality(Verified)

PieceInv == /\ \A i \in Pieces : CheckingInv(i) /\ AnnouncedInv(i) /\ FullInv(i) /\ FlagsInv(i)
            /\ CountInv

accountVars == <<complete_, complete_blocks, validating, announced, validated>>

\* Only the two completion handlers touch the accounting of pieces.
LEMMA AccountSteps ==
    ASSUME [Next]_vars
    PROVE  \/ UNCHANGED accountVars
           \/ \E b \in Blocks : BlockWritten(b)
           \/ \E i \in Pieces : ValidatePiece(i)
<1> USE DEF accountVars, pieceVars, checkVars, bufVars
<1>1. CASE Store
  BY <1>1 DEF Store, StoreBlock
<1>2. CASE Submit
  BY <1>2 DEF Submit, SubmitWrite
<1>3. CASE Kernel
  <2>1. ASSUME NEW b \in Blocks, PerformWrite(b) PROVE UNCHANGED accountVars
    BY <2>1 DEF PerformWrite
  <2>2. ASSUME NEW b \in Blocks, PerformDanglingWrite(b) PROVE UNCHANGED accountVars
    BY <2>2 DEF PerformDanglingWrite
  <2>3. ASSUME NEW b \in Blocks, WriteFails(b) PROVE UNCHANGED accountVars
    BY <2>3 DEF WriteFails
  <2>4. ASSUME NEW b \in Blocks, ReadForValidation(b) PROVE UNCHANGED accountVars
    BY <2>4 DEF ReadForValidation
  <2>5. ASSUME NEW b \in Blocks, ValidationReadFails(b) PROVE UNCHANGED accountVars
    BY <2>5 DEF ValidationReadFails
  <2> QED
    BY <1>3, <2>1, <2>2, <2>3, <2>4, <2>5 DEF Kernel
<1>4. CASE Strand
  BY <1>4 DEF Strand
<1>5. CASE UNCHANGED vars
  BY <1>5 DEF vars
<1> QED
  BY <1>1, <1>2, <1>3, <1>4, <1>5 DEF Next

\* What a write handler does to the accounting: it counts the write, and starts
\* a validation exactly when the count reaches the number of blocks.
LEMMA WriteAccount ==
    ASSUME TypeOK, NEW b \in Blocks, BlockWritten(b)
    PROVE  LET i == PieceOf[b] IN
           /\ i \in Pieces
           /\ complete_' = [complete_ EXCEPT ![b] = TRUE]
           /\ complete_blocks' = [complete_blocks EXCEPT ![i] = @ + 1]
           /\ UNCHANGED <<announced, validated>>
           /\ \/ /\ complete_blocks[i] + 1 = NumBlocks(i)
                 /\ validating' = [validating EXCEPT ![i] = @ + 1]
              \/ /\ complete_blocks[i] + 1 # NumBlocks(i)
                 /\ UNCHANGED validating
<1>1. PieceOf[b] \in Pieces /\ PieceOf[b] \in DOMAIN complete_blocks
  BY PieceOfAssumption DEF TypeOK
<1>2. CASE complete_blocks[PieceOf[b]] + 1 = NumBlocks(PieceOf[b])
  BY <1>1, <1>2 DEF BlockWritten, Complete, StartValidation
<1>3. CASE complete_blocks[PieceOf[b]] + 1 # NumBlocks(PieceOf[b])
  BY <1>1, <1>3 DEF BlockWritten, Complete
<1> QED
  BY <1>2, <1>3

\* What a validation handler does to the accounting: it either announces and
\* counts the piece or resets it.
LEMMA ValidateAccount ==
    ASSUME TypeOK, NEW i \in Pieces, ValidatePiece(i)
    PROVE  /\ validating[i] > 0
           /\ validating' = [validating EXCEPT ![i] = @ - 1]
           /\ \/ /\ announced' = [announced EXCEPT ![i] = @ + 1]
                 /\ validated' = validated + 1
                 /\ UNCHANGED <<complete_, complete_blocks>>
              \/ /\ complete_' = [b \in Blocks |->
                                     IF PieceOf[b] = i THEN FALSE ELSE complete_[b]]
                 /\ complete_blocks' = [complete_blocks EXCEPT ![i] = 0]
                 /\ UNCHANGED <<announced, validated>>
<1>1. CASE HashValid(i)
  BY <1>1 DEF ValidatePiece, pieceVars
<1>2. CASE ~HashValid(i)
  BY <1>2 DEF ValidatePiece, ResetPiece
<1> QED
  BY <1>1, <1>2

\* The flags of a piece are a finite set, so its cardinality is a number.
LEMMA FlaggedFinite == \A i \in Pieces : /\ IsFiniteSet(FlaggedIn(i))
                                         /\ Cardinality(FlaggedIn(i)) \in Nat
BY NumBlocksType, FS_Subset, FS_CardinalityType DEF FlaggedIn

\* The verified pieces are a finite set.
LEMMA VerifiedFinite == IsFiniteSet(Verified) /\ Cardinality(Verified) \in Nat
BY PiecesAssumption, FS_Subset, FS_CardinalityType DEF Verified

\* Nothing is counted, validated or announced initially.
LEMMA PieceInit == Init => PieceInv
<1> SUFFICES ASSUME Init PROVE PieceInv
  OBVIOUS
<1>1. ASSUME NEW i \in Pieces
      PROVE  CheckingInv(i) /\ AnnouncedInv(i) /\ FullInv(i) /\ FlagsInv(i)
  <2>1. CheckingInv(i) /\ AnnouncedInv(i) /\ FullInv(i)
    BY NumBlocksType DEF Init, CheckingInv, AnnouncedInv, FullInv
  <2>2. FlaggedIn(i) = {}
    BY DEF Init, FlaggedIn, BlocksOf
  <2>3. FlagsInv(i)
    BY <2>2, FS_EmptySet DEF Init, FlagsInv
  <2> QED
    BY <2>1, <2>3
<1>2. CountInv
  <2>1. Verified = {}
    BY DEF Init, Verified
  <2> QED
    BY <2>1, FS_EmptySet DEF Init, CountInv
<1> QED
  BY <1>1, <1>2 DEF PieceInv

\* A write handler keeps the accounting: the count moves past blocks.size() only
\* when the piece is already being validated or verified.
LEMMA PieceStepWrite ==
    ASSUME TypeInv, PieceInv, NEW b \in Blocks, BlockWritten(b)
    PROVE  PieceInv'
<1> DEFINE i == PieceOf[b]
<1>1. /\ i \in Pieces
      /\ complete_' = [complete_ EXCEPT ![b] = TRUE]
      /\ complete_blocks' = [complete_blocks EXCEPT ![i] = @ + 1]
      /\ UNCHANGED <<announced, validated>>
      /\ \/ /\ complete_blocks[i] + 1 = NumBlocks(i)
            /\ validating' = [validating EXCEPT ![i] = @ + 1]
         \/ /\ complete_blocks[i] + 1 # NumBlocks(i)
            /\ UNCHANGED validating
  BY WriteAccount DEF TypeInv
<1>2. /\ complete_ \in [Blocks -> BOOLEAN]
      /\ complete_blocks \in [Pieces -> Nat]
      /\ validating \in [Pieces -> Nat]
      /\ announced \in [Pieces -> Nat]
  BY DEF TypeInv, TypeOK
<1> HIDE DEF i
<1>3. ASSUME NEW j \in Pieces
      PROVE  (CheckingInv(j) /\ AnnouncedInv(j) /\ FullInv(j))'
  <2>1. NumBlocks(j) \in Nat /\ NumBlocks(j) > 0
    BY NumBlocksType
  <2>2. CheckingInv(j) /\ AnnouncedInv(j) /\ FullInv(j)
    BY DEF PieceInv
  <2>3. CASE j = i
    BY <1>1, <1>2, <2>1, <2>2, <2>3 DEF CheckingInv, AnnouncedInv, FullInv
  <2>4. CASE j # i
    BY <1>1, <1>2, <2>1, <2>2, <2>4 DEF CheckingInv, AnnouncedInv, FullInv
  <2> QED
    BY <2>3, <2>4
<1>4. ASSUME NEW j \in Pieces PROVE FlagsInv(j)'
  <2>1. IsFiniteSet(FlaggedIn(j)) /\ Cardinality(FlaggedIn(j)) \in Nat
    BY FlaggedFinite
  <2>2. Cardinality(FlaggedIn(j)) <= complete_blocks[j]
    BY DEF PieceInv, FlagsInv
  <2>3. CASE j = i
    <3>1. FlaggedIn(j)' \subseteq FlaggedIn(j) \cup {b}
      BY <1>1, <1>2 DEF FlaggedIn, BlocksOf
    <3>2. /\ IsFiniteSet(FlaggedIn(j) \cup {b})
          /\ Cardinality(FlaggedIn(j) \cup {b}) <= Cardinality(FlaggedIn(j)) + 1
      BY <2>1, FS_AddElement
    <3>3. /\ Cardinality(FlaggedIn(j)') <= Cardinality(FlaggedIn(j) \cup {b})
          /\ Cardinality(FlaggedIn(j)') \in Nat
          /\ Cardinality(FlaggedIn(j) \cup {b}) \in Nat
      BY <3>1, <3>2, FS_Subset, FS_CardinalityType
    <3>4. complete_blocks'[j] = complete_blocks[j] + 1
      BY <1>1, <1>2, <2>3
    <3> QED
      BY <1>2, <2>1, <2>2, <3>2, <3>3, <3>4 DEF FlagsInv
  <2>4. CASE j # i
    <3>1. FlaggedIn(j)' = FlaggedIn(j)
      BY <1>1, <1>2, <2>4 DEF FlaggedIn, BlocksOf, i
    <3>2. complete_blocks'[j] = complete_blocks[j]
      BY <1>1, <1>2, <2>4
    <3> QED
      BY <2>2, <3>1, <3>2 DEF FlagsInv
  <2> QED
    BY <2>3, <2>4
<1>5. CountInv'
  BY <1>1 DEF PieceInv, CountInv, Verified
<1> QED
  BY <1>3, <1>4, <1>5 DEF PieceInv

\* A validation handler keeps the accounting: it counts a piece that was not
\* counted before, or returns it to the state of a new piece.
LEMMA PieceStepValidate ==
    ASSUME TypeInv, PieceInv, NEW i \in Pieces, ValidatePiece(i)
    PROVE  PieceInv'
<1>1. /\ validating[i] > 0
      /\ validating' = [validating EXCEPT ![i] = @ - 1]
      /\ \/ /\ announced' = [announced EXCEPT ![i] = @ + 1]
            /\ validated' = validated + 1
            /\ UNCHANGED <<complete_, complete_blocks>>
         \/ /\ complete_' = [b \in Blocks |->
                                IF PieceOf[b] = i THEN FALSE ELSE complete_[b]]
            /\ complete_blocks' = [complete_blocks EXCEPT ![i] = 0]
            /\ UNCHANGED <<announced, validated>>
  BY ValidateAccount DEF TypeInv
<1>2. /\ complete_ \in [Blocks -> BOOLEAN]
      /\ complete_blocks \in [Pieces -> Nat]
      /\ validating \in [Pieces -> Nat]
      /\ announced \in [Pieces -> Nat]
  BY DEF TypeInv, TypeOK
<1>3. validating[i] = 1 /\ announced[i] = 0
  BY <1>1 DEF PieceInv, CheckingInv
<1>4. ASSUME NEW j \in Pieces
      PROVE  (CheckingInv(j) /\ AnnouncedInv(j) /\ FullInv(j))'
  <2>1. NumBlocks(j) \in Nat /\ NumBlocks(j) > 0
    BY NumBlocksType
  <2>2. CheckingInv(j) /\ AnnouncedInv(j) /\ FullInv(j)
    BY DEF PieceInv
  <2>3. CASE j = i
    <3>1. validating'[j] = 0 /\ complete_blocks[j] >= NumBlocks(j)
      BY <1>1, <1>2, <1>3, <2>2, <2>3 DEF CheckingInv
    <3>2. \/ announced'[j] = 1 /\ complete_blocks'[j] = complete_blocks[j]
          \/ announced'[j] = 0 /\ complete_blocks'[j] = 0
      <4>1. CASE /\ announced' = [announced EXCEPT ![i] = @ + 1]
                 /\ UNCHANGED complete_blocks
        BY <1>2, <1>3, <2>3, <4>1
      <4>2. CASE /\ complete_blocks' = [complete_blocks EXCEPT ![i] = 0]
                 /\ UNCHANGED announced
        BY <1>2, <1>3, <2>3, <4>2
      <4> QED
        BY <1>1, <4>1, <4>2
    <3> QED
      BY <1>2, <2>1, <2>3, <3>1, <3>2 DEF CheckingInv, AnnouncedInv, FullInv
  <2>4. CASE j # i
    BY <1>1, <1>2, <2>1, <2>2, <2>4 DEF CheckingInv, AnnouncedInv, FullInv
  <2> QED
    BY <2>3, <2>4
<1>5. ASSUME NEW j \in Pieces PROVE FlagsInv(j)'
  <2>1. FlagsInv(j)
    BY DEF PieceInv
  <2>2. CASE UNCHANGED <<complete_, complete_blocks>>
    <3>1. FlaggedIn(j)' = FlaggedIn(j)
      BY <2>2 DEF FlaggedIn, BlocksOf
    <3> QED
      BY <2>1, <2>2, <3>1 DEF FlagsInv
  <2>3. CASE /\ complete_' = [b \in Blocks |->
                                IF PieceOf[b] = i THEN FALSE ELSE complete_[b]]
             /\ complete_blocks' = [complete_blocks EXCEPT ![i] = 0]
    <3>1. CASE j = i
      <4>1. FlaggedIn(j)' = {}
        BY <2>3, <3>1 DEF FlaggedIn, BlocksOf
      <4> QED
        BY <1>2, <2>3, <3>1, <4>1, FS_EmptySet DEF FlagsInv
    <3>2. CASE j # i
      <4>1. FlaggedIn(j)' = FlaggedIn(j)
        BY <2>3, <3>2 DEF FlaggedIn, BlocksOf
      <4>2. complete_blocks'[j] = complete_blocks[j]
        BY <1>2, <2>3, <3>2
      <4> QED
        BY <2>1, <4>1, <4>2 DEF FlagsInv
    <3> QED
      BY <3>1, <3>2
  <2> QED
    BY <1>1, <2>2, <2>3
<1>6. CountInv'
  <2>1. CASE /\ announced' = [announced EXCEPT ![i] = @ + 1]
             /\ validated' = validated + 1
    <3>1. i \notin Verified
      BY <1>3 DEF Verified
    <3>2. Verified' = Verified \cup {i}
      BY <1>2, <1>3, <2>1 DEF Verified
    <3>3. Cardinality(Verified \cup {i}) = Cardinality(Verified) + 1
      BY <3>1, VerifiedFinite, FS_AddElement
    <3> QED
      BY <2>1, <3>2, <3>3 DEF PieceInv, CountInv
  <2>2. CASE UNCHANGED <<announced, validated>>
    BY <2>2 DEF PieceInv, CountInv, Verified
  <2> QED
    BY <1>1, <2>1, <2>2
<1> QED
  BY <1>4, <1>5, <1>6 DEF PieceInv

\* Every step of the storage keeps the accounting.
LEMMA PieceStep == TypeInv /\ PieceInv /\ [Next]_vars => PieceInv'
<1> SUFFICES ASSUME TypeInv, PieceInv, [Next]_vars PROVE PieceInv'
  OBVIOUS
<1>1. CASE UNCHANGED accountVars
  BY <1>1 DEF accountVars, PieceInv, CheckingInv, AnnouncedInv, FullInv, FlagsInv,
              FlaggedIn, CountInv, Verified
<1> QED
  BY <1>1, AccountSteps, PieceStepWrite, PieceStepValidate

\* The types and the accounting hold in every reachable state.
LEMMA Accounting == Spec => [](TypeInv /\ PieceInv)
<1>1. Init => TypeInv /\ PieceInv
  BY TypeInit, PieceInit
<1>2. TypeInv /\ PieceInv /\ [Next]_vars => (TypeInv /\ PieceInv)'
  BY TypeStep, PieceStep
<1> QED
  BY <1>1, <1>2, PTL DEF Spec

\* validate_piece never runs twice at once for a piece, so validation_buf is
\* never resized or cleared under a read in flight.
THEOREM SingleValidationHolds == Spec => []SingleValidation
<1>1. TypeInv /\ PieceInv => SingleValidation
  BY DEF TypeInv, TypeOK, PieceInv, CheckingInv, SingleValidation
<1> QED
  BY <1>1, Accounting, PTL

\* piece_complete is called once per verified piece and validated counts these
\* pieces: the test validated == pieces.size() is true only of a whole file.
THEOREM CountedOnceHolds == Spec => []CountedOnce
<1>1. TypeInv /\ PieceInv => CountedOnce
  BY DEF TypeInv, TypeOK, PieceInv, AnnouncedInv, CountInv, CountedOnce
<1> QED
  BY <1>1, Accounting, PTL

\* A piece whose blocks are all marked complete is verified or under
\* validation: no sequence of duplicate writes strands it.
THEOREM NoStrandedPieceHolds == Spec => []NoStrandedPiece
<1>1. TypeInv /\ PieceInv => NoStrandedPiece
  <2> SUFFICES ASSUME TypeInv, PieceInv, NEW i \in Pieces,
                      \A b \in BlocksOf(i) : complete_[b]
               PROVE  validating[i] > 0 \/ i \in Verified
    BY DEF NoStrandedPiece
  <2>1. FlaggedIn(i) = BlocksOf(i)
    BY DEF FlaggedIn
  <2>2. complete_blocks[i] >= NumBlocks(i)
    BY <2>1, NumBlocksType DEF PieceInv, FlagsInv, NumBlocks, TypeInv, TypeOK
  <2> QED
    BY <2>2 DEF PieceInv, FullInv, Verified
<1> QED
  BY <1>1, Accounting, PTL

\* A verified piece is never reset.
THEOREM VerifiedNeverResetHolds == Spec => VerifiedNeverReset
<1>1. TypeInv /\ PieceInv /\ [Next]_vars
      => [\A i \in Verified : complete_blocks'[i] >= complete_blocks[i]]_vars
  <2> SUFFICES ASSUME TypeInv, PieceInv, [Next]_vars, NEW i \in Verified
               PROVE  complete_blocks'[i] >= complete_blocks[i]
    OBVIOUS
  <2>1. /\ i \in Pieces /\ complete_blocks \in [Pieces -> Nat]
        /\ announced[i] > 0 /\ announced \in [Pieces -> Nat]
    BY DEF Verified, TypeInv, TypeOK
  <2>2. CASE UNCHANGED accountVars
    BY <2>1, <2>2 DEF accountVars
  <2>3. ASSUME NEW b \in Blocks, BlockWritten(b)
        PROVE  complete_blocks'[i] >= complete_blocks[i]
    BY <2>1, <2>3, WriteAccount DEF TypeInv
  <2>4. ASSUME NEW j \in Pieces, ValidatePiece(j)
        PROVE  complete_blocks'[i] >= complete_blocks[i]
    <3>1. validating[j] > 0
      BY <2>4, ValidateAccount DEF TypeInv
    <3>2. j # i
      BY <2>1, <3>1 DEF PieceInv, CheckingInv
    <3>3. \/ UNCHANGED complete_blocks
          \/ complete_blocks' = [complete_blocks EXCEPT ![j] = 0]
      BY <2>4, ValidateAccount DEF TypeInv
    <3> QED
      BY <2>1, <3>2, <3>3
  <2> QED
    BY <2>2, <2>3, <2>4, AccountSteps
<1> QED
  BY <1>1, Accounting, PTL DEF Spec, VerifiedNeverReset

-----------------------------------------------------------------------------
(***************************************************************************)
(* The bytes of a verified piece.  While a piece whose history is not late *)
(* is validated or verified, nothing is writing to it, so the file agrees  *)
(* with what the validation has read of it and later with the hash.        *)
(***************************************************************************)
Guarded(i) == ~late[i] /\ (validating[i] > 0 \/ announced[i] > 0)

ReadInv(i) == validating[i] > 0 =>
                 \A b \in BlocksOf(i) : validation_buf[b] = "good" => file[b] = "good"

GoodInv(i) == announced[i] > 0 => \A b \in BlocksOf(i) : file[b] = "good"

ContentInv == \A i \in Pieces : Guarded(i) => ~Busy(i) /\ ReadInv(i) /\ GoodInv(i)

\* No piece is guarded initially.
LEMMA ContentInit == Init => ContentInv
BY DEF Init, ContentInv, Guarded

\* The steps of a write_block call concern one piece, and make it late if it is
\* already being validated or verified.
LEMMA ContentStepCall ==
    ASSUME TypeInv, ContentInv, NEW p \in Peers,
           \/ \E b \in Blocks, d \in Content : StoreBlock(p, b, d)
           \/ SubmitWrite(p)
    PROVE  ContentInv'
<1> SUFFICES ASSUME NEW i \in Pieces, Guarded(i)'
             PROVE  ~Busy(i)' /\ ReadInv(i)' /\ GoodInv(i)'
  BY DEF ContentInv
<1> USE PieceOfAssumption, NoBlockAssumption DEF TypeInv, TypeOK
<1>1. ASSUME NEW b \in Blocks, NEW d \in Content, StoreBlock(p, b, d)
      PROVE  ~Busy(i)' /\ ReadInv(i)' /\ GoodInv(i)'
  <2>1. UNCHANGED <<writing, dangling, written, file, validating, validation_buf, announced>>
    BY <1>1 DEF StoreBlock, checkVars
  <2>2. PieceOf[b] # i /\ Guarded(i)
    BY <1>1, <2>1 DEF StoreBlock, Guarded
  <2>3. ~Busy(i) /\ ReadInv(i) /\ GoodInv(i)
    BY <2>2 DEF ContentInv
  <2>4. \A q \in Peers : storing'[q] \notin BlocksOf(i)
    BY <1>1, <2>2, <2>3 DEF StoreBlock, Busy, BlocksOf
  <2>5. ~Busy(i)'
    BY <2>1, <2>3, <2>4 DEF Busy, BlocksOf
  <2>6. ReadInv(i)' /\ GoodInv(i)'
    BY <2>1, <2>3 DEF ReadInv, GoodInv, BlocksOf
  <2> QED
    BY <2>5, <2>6
<1>2. ASSUME SubmitWrite(p)
      PROVE  ~Busy(i)' /\ ReadInv(i)' /\ GoodInv(i)'
  <2>1. UNCHANGED <<dangling, file, validating, validation_buf, announced, late>>
    BY <1>2 DEF SubmitWrite, checkVars
  <2>2. Guarded(i)
    BY <2>1 DEF Guarded
  <2>3. ~Busy(i) /\ ReadInv(i) /\ GoodInv(i)
    BY <2>2 DEF ContentInv
  <2>4. storing[p] \in Blocks /\ storing[p] \notin BlocksOf(i)
    BY <1>2, <2>3 DEF SubmitWrite, Busy
  <2>5. /\ \A b \in BlocksOf(i) : writing'[b] = writing[b] /\ written'[b] = written[b]
        /\ \A q \in Peers : storing'[q] \notin BlocksOf(i)
    <3>1. storing' = [storing EXCEPT ![p] = NoBlock]
      BY <1>2 DEF SubmitWrite
    <3>2. /\ writing' = writing \/ writing' = [writing EXCEPT ![storing[p]] = @ + 1]
          /\ written' = written \/ written' = [written EXCEPT ![storing[p]] = @ + 1]
      BY <1>2 DEF SubmitWrite
    <3>3. \A b \in BlocksOf(i) : writing'[b] = writing[b] /\ written'[b] = written[b]
      BY <2>4, <3>2 DEF BlocksOf
    <3>4. \A q \in Peers : storing'[q] \notin BlocksOf(i)
      BY <2>3, <3>1 DEF Busy, BlocksOf
    <3> QED
      BY <3>3, <3>4
  <2>6. ~Busy(i)'
    BY <2>1, <2>3, <2>5 DEF Busy, BlocksOf
  <2>7. ReadInv(i)' /\ GoodInv(i)'
    BY <2>1, <2>3 DEF ReadInv, GoodInv, BlocksOf
  <2> QED
    BY <2>6, <2>7
<1> QED
  BY <1>1, <1>2

\* The kernel writes only to pieces that have a write under way, and a read
\* copies what the file holds.
LEMMA ContentStepKernel ==
    ASSUME TypeInv, ContentInv, Kernel
    PROVE  ContentInv'
<1> SUFFICES ASSUME NEW i \in Pieces, Guarded(i)'
             PROVE  ~Busy(i)' /\ ReadInv(i)' /\ GoodInv(i)'
  BY DEF ContentInv
<1> USE PieceOfAssumption DEF TypeInv, TypeOK
<1>1. UNCHANGED <<storing, validating, announced, late>>
  BY DEF Kernel, PerformWrite, PerformDanglingWrite, WriteFails, ReadForValidation,
         ValidationReadFails, checkVars, bufVars
<1>2. Guarded(i)
  BY <1>1 DEF Guarded
<1>3. ~Busy(i) /\ ReadInv(i) /\ GoodInv(i)
  BY <1>2 DEF ContentInv
<1>4. ASSUME NEW b \in Blocks, PerformWrite(b) \/ PerformDanglingWrite(b)
      PROVE  ~Busy(i)' /\ ReadInv(i)' /\ GoodInv(i)'
  <2>1. b \notin BlocksOf(i)
    BY <1>3, <1>4 DEF PerformWrite, PerformDanglingWrite, Busy
  <2>2. \A c \in BlocksOf(i) : /\ file'[c] = file[c]
                               /\ writing'[c] = writing[c]
                               /\ dangling'[c] = dangling[c]
                               /\ written'[c] = written[c]
    BY <1>4, <2>1 DEF PerformWrite, PerformDanglingWrite, BlocksOf
  <2>3. UNCHANGED validation_buf
    BY <1>4 DEF PerformWrite, PerformDanglingWrite, checkVars
  <2>4. ~Busy(i)'
    BY <1>1, <1>3, <2>2 DEF Busy, BlocksOf
  <2>5. ReadInv(i)' /\ GoodInv(i)'
    BY <1>1, <1>3, <2>2, <2>3 DEF ReadInv, GoodInv, BlocksOf
  <2> QED
    BY <2>4, <2>5
<1>5. ASSUME NEW b \in Blocks, WriteFails(b)
      PROVE  ~Busy(i)' /\ ReadInv(i)' /\ GoodInv(i)'
  BY <1>1, <1>3, <1>5 DEF WriteFails, bufVars, checkVars, Busy, ReadInv, GoodInv, BlocksOf
<1>6. ASSUME NEW b \in Blocks, ReadForValidation(b) \/ ValidationReadFails(b)
      PROVE  ~Busy(i)' /\ ReadInv(i)' /\ GoodInv(i)'
  <2>1. UNCHANGED <<writing, dangling, written, file>>
    BY <1>6 DEF ReadForValidation, ValidationReadFails, bufVars
  <2>2. ~Busy(i)' /\ GoodInv(i)'
    BY <1>1, <1>3, <2>1 DEF Busy, GoodInv, BlocksOf
  <2>3. \A c \in Blocks : \/ validation_buf'[c] = validation_buf[c]
                         \/ validation_buf'[c] = file[c]
                         \/ validation_buf'[c] = "bad"
    BY <1>6 DEF ReadForValidation, ValidationReadFails
  <2>4. ReadInv(i)'
    BY <1>1, <1>3, <2>1, <2>3 DEF ReadInv, BlocksOf
  <2> QED
    BY <2>2, <2>4
<1> QED
  BY <1>4, <1>5, <1>6 DEF Kernel

\* A write handler: its piece has a write under way, so it is not guarded; the
\* validation it may start is guarded only if that was the last write.
LEMMA ContentStepWrite ==
    ASSUME TypeInv, PieceInv, ContentInv, NEW b \in Blocks, BlockWritten(b)
    PROVE  ContentInv'
<1> SUFFICES ASSUME NEW i \in Pieces, Guarded(i)'
             PROVE  ~Busy(i)' /\ ReadInv(i)' /\ GoodInv(i)'
  BY DEF ContentInv
<1> USE PieceOfAssumption DEF TypeInv, TypeOK
<1>1. UNCHANGED <<file, announced, storing>>
  BY DEF BlockWritten
<1>2. /\ written[b] > 0
      /\ \A c \in Blocks : c # b => /\ writing'[c] = writing[c]
                                   /\ dangling'[c] = dangling[c]
                                   /\ written'[c] = written[c]
  BY DEF BlockWritten
<1>3. CASE PieceOf[b] = i
  <2>1. Busy(i) /\ ~Guarded(i)
    <3>1. Busy(i)
      BY <1>2, <1>3 DEF Busy, BlocksOf
    <3> QED
      BY <3>1 DEF ContentInv
  <2>2. CASE Complete(i, complete_blocks[i] + 1)
    <3>1. complete_blocks[i] < NumBlocks(i)
      BY <2>2, NumBlocksType DEF Complete
    <3>2. announced[i] = 0
      BY <3>1, NumBlocksType DEF PieceInv, AnnouncedInv
    <3>3. late' = [late EXCEPT ![i] = Busy(i)'] /\ StartValidation(i)
      BY <1>3, <2>2 DEF BlockWritten
    <3>4. ~Busy(i)'
      BY <3>3 DEF Guarded
    <3>5. \A c \in BlocksOf(i) : validation_buf'[c] = Unread
      BY <3>3 DEF StartValidation, BlocksOf
    <3>6. ReadInv(i)'
      BY <3>5 DEF ReadInv, BlocksOf, Unread
    <3>7. GoodInv(i)'
      BY <1>1, <3>2 DEF GoodInv
    <3> QED
      BY <3>4, <3>6, <3>7
  <2>3. CASE ~Complete(i, complete_blocks[i] + 1)
    <3>1. UNCHANGED <<validating, late>>
      BY <1>3, <2>3 DEF BlockWritten
    <3> QED
      BY <1>1, <2>1, <3>1 DEF Guarded
  <2> QED
    BY <2>2, <2>3
<1>4. CASE PieceOf[b] # i
  <2>1. /\ validating'[i] = validating[i]
        /\ late'[i] = late[i]
        /\ \A c \in BlocksOf(i) : validation_buf'[c] = validation_buf[c]
    <3>1. CASE Complete(PieceOf[b], complete_blocks[PieceOf[b]] + 1)
      BY <1>4, <3>1 DEF BlockWritten, StartValidation, BlocksOf
    <3>2. CASE ~Complete(PieceOf[b], complete_blocks[PieceOf[b]] + 1)
      BY <1>4, <3>2 DEF BlockWritten
    <3> QED
      BY <3>1, <3>2
  <2>2. ~Busy(i) /\ ReadInv(i) /\ GoodInv(i)
    BY <1>1, <2>1 DEF ContentInv, Guarded
  <2>3. ~Busy(i)'
    BY <1>1, <1>2, <1>4, <2>2 DEF Busy, BlocksOf
  <2>4. ReadInv(i)' /\ GoodInv(i)'
    BY <1>1, <2>1, <2>2 DEF ReadInv, GoodInv, BlocksOf
  <2> QED
    BY <2>3, <2>4
<1> QED
  BY <1>3, <1>4

\* A validation handler: the hash matches only if every block read is right,
\* and then, the piece being guarded, so is every block of the file.
LEMMA ContentStepValidate ==
    ASSUME TypeInv, PieceInv, ContentInv, NEW j \in Pieces, ValidatePiece(j)
    PROVE  ContentInv'
<1> SUFFICES ASSUME NEW i \in Pieces, Guarded(i)'
             PROVE  ~Busy(i)' /\ ReadInv(i)' /\ GoodInv(i)'
  BY DEF ContentInv
<1> USE PieceOfAssumption DEF TypeInv, TypeOK
<1>1. UNCHANGED <<file, storing, writing, dangling, written, late>>
  BY DEF ValidatePiece, bufVars
<1>2. Busy(i)' <=> Busy(i)
  BY <1>1 DEF Busy, BlocksOf
<1>3. CASE i = j
  <2>1. validating[i] = 1 /\ announced[i] = 0
    BY <1>3, ValidateAccount DEF PieceInv, CheckingInv
  <2>2. validating'[i] = 0
    <3>1. validating' = [validating EXCEPT ![i] = @ - 1]
      BY <1>3, ValidateAccount
    <3> QED
      BY <2>1, <3>1
  <2>3. Guarded(i)
    BY <1>1, <2>1 DEF Guarded
  <2>4. ~Busy(i) /\ ReadInv(i)
    BY <2>3 DEF ContentInv
  <2>5. ReadInv(i)'
    BY <2>2 DEF ReadInv
  <2>6. HashValid(i)
    BY <1>3, <2>1, <2>2 DEF Guarded, ValidatePiece
  <2>7. GoodInv(i)'
    BY <1>1, <2>1, <2>4, <2>6 DEF HashValid, ReadInv, GoodInv, BlocksOf
  <2> QED
    BY <1>2, <2>4, <2>5, <2>7
<1>4. CASE i # j
  <2>1. validating'[i] = validating[i]
    BY <1>4, ValidateAccount
  <2>2. announced'[i] = announced[i]
    <3>1. \/ announced' = [announced EXCEPT ![j] = @ + 1]
          \/ announced' = announced
      BY ValidateAccount
    <3> QED
      BY <1>4, <3>1
  <2>3. \A c \in BlocksOf(i) : validation_buf'[c] = validation_buf[c]
    BY <1>4 DEF ValidatePiece, BlocksOf
  <2>4. ~Busy(i) /\ ReadInv(i) /\ GoodInv(i)
    BY <1>1, <2>1, <2>2 DEF ContentInv, Guarded
  <2> QED
    BY <1>1, <1>2, <2>1, <2>2, <2>3, <2>4 DEF ReadInv, GoodInv, BlocksOf
<1> QED
  BY <1>3, <1>4

\* Every step keeps the bytes of guarded pieces.
LEMMA ContentStep == TypeInv /\ PieceInv /\ ContentInv /\ [Next]_vars => ContentInv'
<1> SUFFICES ASSUME TypeInv, PieceInv, ContentInv, [Next]_vars PROVE ContentInv'
  OBVIOUS
<1>1. CASE UNCHANGED vars
  BY <1>1 DEF vars, ContentInv, Guarded, Busy, ReadInv, GoodInv, BlocksOf
<1> QED
  BY <1>1, ContentStepCall, ContentStepKernel, ContentStepWrite, ContentStepValidate
  DEF Next, Store, Submit, Strand

\* Once piece_complete(i) was called the file holds the right bytes of piece i,
\* unless a write of the piece was under way or came later.
THEOREM VerifiedIsGoodHolds == Spec => []VerifiedIsGood
<1>1. Init => ContentInv
  BY ContentInit
<1>2. TypeInv /\ PieceInv /\ ContentInv /\ [Next]_vars => ContentInv'
  BY ContentStep
<1>3. TypeInv /\ ContentInv => VerifiedIsGood
  BY DEF TypeInv, TypeOK, ContentInv, Guarded, GoodInv, VerifiedIsGood, Verified
<1> QED
  BY <1>1, <1>2, <1>3, Accounting, PTL DEF Spec

-----------------------------------------------------------------------------
(***************************************************************************)
(* Torrent implements PieceStore: the initial states correspond and every  *)
(* step is a step of PieceStore or a stutter.  (That a started validation  *)
(* is decided is model-checked: it needs fairness.)                        *)
(***************************************************************************)
\* The abstract stages change at one piece when Stage does.
LEMMA StageUpdate ==
    ASSUME NEW i \in Pieces, NEW v, Stage(i)' = v,
           \A j \in Pieces : j # i => Stage(j)' = Stage(j)
    PROVE  [j \in Pieces |-> Stage(j)]' = [[j \in Pieces |-> Stage(j)] EXCEPT ![i] = v]
<1>1. \A j \in Pieces : Stage(j)' = IF j = i THEN v ELSE Stage(j)
  OBVIOUS
<1> QED
  BY <1>1, Zenon

\* A validation starts for a piece that is being filled, and is decided once.
LEMMA StoreStep ==
    ASSUME TypeInv, PieceInv, [Next]_vars
    PROVE  [Store_!Next]_(Store_!vars)
<1> USE DEF TypeInv, TypeOK
<1>1. CASE UNCHANGED <<validating, announced, validated, terminated>>
  BY <1>1 DEF Store_!vars, Stage, Verified
<1>2. ASSUME NEW b \in Blocks, WriteFails(b) PROVE Store_!Next
  <2>1. UNCHANGED <<validating, announced, validated>> /\ ~terminated /\ terminated'
    BY <1>2 DEF WriteFails, checkVars
  <2>2. Store_!Stop
    BY <2>1 DEF Store_!Stop, Stage, Verified
  <2> QED
    BY <2>2 DEF Store_!Next
<1>3. ASSUME NEW b \in Blocks, BlockWritten(b) PROVE [Store_!Next]_(Store_!vars)
  <2> DEFINE i == PieceOf[b]
  <2>1. /\ i \in Pieces
        /\ UNCHANGED <<announced, validated, terminated>> /\ ~terminated
        /\ \/ /\ complete_blocks[i] + 1 = NumBlocks(i)
              /\ validating' = [validating EXCEPT ![i] = @ + 1]
           \/ UNCHANGED validating
    BY <1>3, WriteAccount DEF BlockWritten
  <2> HIDE DEF i
  <2>2. CASE UNCHANGED validating
    BY <1>1, <2>1, <2>2
  <2>3. CASE /\ complete_blocks[i] + 1 = NumBlocks(i)
             /\ validating' = [validating EXCEPT ![i] = @ + 1]
    <3>1. complete_blocks[i] < NumBlocks(i)
      BY <2>1, <2>3, NumBlocksType
    <3>2. announced[i] = 0 /\ validating[i] = 0
      BY <2>1, <3>1, NumBlocksType DEF PieceInv, AnnouncedInv, CheckingInv
    <3>3. Stage(i) = "filling" /\ Stage(i)' = "checking"
      BY <2>1, <2>3, <3>2 DEF Stage, Verified
    <3>4. \A j \in Pieces : j # i => Stage(j)' = Stage(j)
      BY <2>1, <2>3 DEF Stage, Verified
    <3>5. Store_!Check(i)
      BY <2>1, <3>3, <3>4, StageUpdate DEF Store_!Check
    <3> QED
      BY <2>1, <3>5 DEF Store_!Next
  <2> QED
    BY <2>1, <2>2, <2>3
<1>4. ASSUME NEW i \in Pieces, ValidatePiece(i) PROVE Store_!Next
  <2>1. validating[i] = 1 /\ announced[i] = 0
    BY <1>4, ValidateAccount DEF PieceInv, CheckingInv
  <2>2. /\ validating' = [validating EXCEPT ![i] = 0]
        /\ ~terminated /\ UNCHANGED terminated
    BY <1>4, <2>1, ValidateAccount DEF ValidatePiece
  <2>3. CASE /\ announced' = [announced EXCEPT ![i] = @ + 1]
             /\ validated' = validated + 1
    <3>1. Stage(i) = "checking" /\ Stage(i)' = "verified"
      BY <2>1, <2>2, <2>3 DEF Stage, Verified
    <3>2. \A j \in Pieces : j # i => Stage(j)' = Stage(j)
      BY <2>2, <2>3 DEF Stage, Verified
    <3>3. Store_!Verify(i)
      BY <2>2, <2>3, <3>1, <3>2, StageUpdate DEF Store_!Verify
    <3> QED
      BY <3>3 DEF Store_!Next
  <2>4. CASE UNCHANGED <<announced, validated>>
    <3>1. Stage(i) = "checking" /\ Stage(i)' = "filling"
      BY <2>1, <2>2, <2>4 DEF Stage, Verified
    <3>2. \A j \in Pieces : j # i => Stage(j)' = Stage(j)
      BY <2>2, <2>4 DEF Stage, Verified
    <3>3. Store_!Reject(i)
      BY <2>2, <2>4, <3>1, <3>2, StageUpdate DEF Store_!Reject
    <3> QED
      BY <3>3 DEF Store_!Next
  <2> QED
    BY <1>4, <2>3, <2>4, ValidateAccount
<1>5. ASSUME NEW p \in Peers, NEW b \in Blocks, NEW d \in Content, StoreBlock(p, b, d)
      PROVE  UNCHANGED <<validating, announced, validated, terminated>>
  BY <1>5 DEF StoreBlock, checkVars
<1>6. ASSUME NEW p \in Peers, SubmitWrite(p)
      PROVE  UNCHANGED <<validating, announced, validated, terminated>>
  BY <1>6 DEF SubmitWrite, checkVars
<1>7. ASSUME NEW b \in Blocks,
             \/ PerformWrite(b) \/ PerformDanglingWrite(b)
             \/ ReadForValidation(b) \/ ValidationReadFails(b)
      PROVE  UNCHANGED <<validating, announced, validated, terminated>>
  BY <1>7 DEF PerformWrite, PerformDanglingWrite, ReadForValidation,
              ValidationReadFails, checkVars
<1>8. CASE UNCHANGED vars
  BY <1>1, <1>8 DEF vars
<1> QED
  BY <1>1, <1>2, <1>3, <1>4, <1>5, <1>6, <1>7, <1>8
  DEF Next, Store, Submit, Kernel, Strand

\* The storage is a PieceStore: whatever the peers and the disk do, a piece goes
\* from filling to checking and from there to verified, for good, or back.
THEOREM StorageImplementsPieceStore == Spec => Store_!Spec
<1>1. Init => Store_!Init
  BY DEF Init, Store_!Init, Stage, Verified
<1>2. TypeInv /\ PieceInv /\ [Next]_vars => [Store_!Next]_(Store_!vars)
  BY StoreStep
<1> QED
  BY <1>1, <1>2, Accounting, PTL DEF Spec, Store_!Spec

-----------------------------------------------------------------------------
(***************************************************************************)
(* Torrent implements Storage: between write_block and its handler a write *)
(* is counted exactly once, wherever it is: not yet submitted, live,       *)
(* dangling, or done.                                                      *)
(***************************************************************************)
\* The threads inside a write_block of b are finitely many.
LEMMA StoringFinite == \A b : IsFiniteSet(Storing(b)) /\ Cardinality(Storing(b)) \in Nat
BY PeersAssumption, FS_Subset, FS_CardinalityType DEF Storing

\* The pending writes change at one block when Pending does.
LEMMA PendingUpdate ==
    ASSUME NEW b \in Blocks, NEW v, Pending(b)' = v,
           \A c \in Blocks : c # b => Pending(c)' = Pending(c)
    PROVE  [c \in Blocks |-> Pending(c)]' = [[c \in Blocks |-> Pending(c)] EXCEPT ![b] = v]
<1>1. \A c \in Blocks : Pending(c)' = IF c = b THEN v ELSE Pending(c)
  OBVIOUS
<1> QED
  BY <1>1, Zenon

\* write_block adds one pending write to its block.
LEMMA ViewStore ==
    ASSUME TypeInv, NEW p \in Peers, NEW b \in Blocks, NEW d \in Content, StoreBlock(p, b, d)
    PROVE  View!Write(b)
<1> USE NoBlockAssumption DEF TypeInv, TypeOK
<1>1. /\ storing[p] = NoBlock /\ storing' = [storing EXCEPT ![p] = b] /\ ~terminated
      /\ UNCHANGED <<writing, dangling, written>>
      /\ UNCHANGED <<complete_, complete_blocks, validating, terminated>>
  BY DEF StoreBlock, checkVars, pieceVars
<1>2. \A c \in Blocks : c # b => Storing(c)' = Storing(c)
  BY <1>1 DEF Storing
<1>3. Storing(b)' = Storing(b) \cup {p} /\ p \notin Storing(b)
  BY <1>1 DEF Storing
<1>4. Cardinality(Storing(b)') = Cardinality(Storing(b)) + 1
  <2> HIDE DEF TypeInv, TypeOK
  <2>1. IsFiniteSet(Storing(b))
    BY StoringFinite
  <2>2. Cardinality(Storing(b) \cup {p}) = Cardinality(Storing(b)) + 1
    BY <1>3, <2>1, FS_AddElement
  <2> QED
    BY <1>3, <2>2
<1>5. Pending(b)' = Pending(b) + 1
  BY <1>1, <1>4, StoringFinite DEF Pending
<1>6. \A c \in Blocks : c # b => Pending(c)' = Pending(c)
  BY <1>1, <1>2 DEF Pending
<1> QED
  BY <1>1, <1>5, <1>6, PendingUpdate DEF View!Write

\* Submitting a write moves it, it does not change their number.
LEMMA ViewSubmit ==
    ASSUME TypeInv, NEW p \in Peers, SubmitWrite(p)
    PROVE  UNCHANGED View!storageVars
<1> USE NoBlockAssumption DEF TypeInv, TypeOK
<1>0. PICK b \in Blocks : storing[p] = b
  BY DEF SubmitWrite
<1>1. /\ storing' = [storing EXCEPT ![p] = NoBlock]
      /\ UNCHANGED <<dangling, complete_, complete_blocks, validating, terminated>>
      /\ \/ written' = [written EXCEPT ![b] = @ + 1] /\ writing' = writing
         \/ writing' = [writing EXCEPT ![b] = @ + 1] /\ written' = written
  BY <1>0 DEF SubmitWrite, pieceVars, checkVars
<1>2. \A c \in Blocks : c # b => Storing(c)' = Storing(c)
  BY <1>0, <1>1 DEF Storing
<1>3. Storing(b)' = Storing(b) \ {p} /\ p \in Storing(b)
  BY <1>0, <1>1 DEF Storing
<1>4. Cardinality(Storing(b)') = Cardinality(Storing(b)) - 1
  BY <1>3, StoringFinite, FS_RemoveElement
<1>5. writing'[b] + written'[b] = writing[b] + written[b] + 1
  BY <1>1
<1>6. /\ writing[b] \in Nat /\ written[b] \in Nat /\ dangling[b] \in Nat
      /\ writing'[b] \in Nat /\ written'[b] \in Nat /\ dangling'[b] = dangling[b]
  BY <1>1
<1>7. Pending(b)' = Pending(b)
  BY <1>4, <1>5, <1>6, StoringFinite DEF Pending
<1>8. \A c \in Blocks : c # b => Pending(c)' = Pending(c)
  BY <1>1, <1>2 DEF Pending
<1>9. [c \in Blocks |-> Pending(c)]' = [c \in Blocks |-> Pending(c)]
  BY <1>7, <1>8
<1> QED
  BY <1>1, <1>9 DEF View!storageVars

\* The kernel's writes and reads are invisible, a failing write ends the process.
LEMMA ViewKernel ==
    ASSUME TypeInv, Kernel
    PROVE  View!StorageNext \/ UNCHANGED View!storageVars
<1> USE DEF TypeInv, TypeOK
<1>1. ASSUME NEW b \in Blocks, PerformWrite(b) \/ PerformDanglingWrite(b)
      PROVE  UNCHANGED View!storageVars
  <2>1. UNCHANGED <<storing, complete_, complete_blocks, validating, terminated>>
    BY <1>1 DEF PerformWrite, PerformDanglingWrite, pieceVars, checkVars
  <2>2. \A c \in Blocks : Cardinality(Storing(c)) \in Nat /\ Storing(c)' = Storing(c)
    BY <2>1, StoringFinite DEF Storing
  <2>3. \A c \in Blocks : writing'[c] + dangling'[c] + written'[c]
                            = writing[c] + dangling[c] + written[c]
    BY <1>1 DEF PerformWrite, PerformDanglingWrite
  <2>4. \A c \in Blocks : /\ writing[c] \in Nat /\ dangling[c] \in Nat /\ written[c] \in Nat
                         /\ writing'[c] \in Nat /\ dangling'[c] \in Nat /\ written'[c] \in Nat
    BY <1>1 DEF PerformWrite, PerformDanglingWrite
  <2>5. \A c \in Blocks : Pending(c)' = Pending(c)
    <3> SUFFICES ASSUME NEW c \in Blocks PROVE Pending(c)' = Pending(c)
      OBVIOUS
    <3>1. Cardinality(Storing(c))' = Cardinality(Storing(c))
      BY <2>2
    <3> QED
      BY <2>2, <2>3, <2>4, <3>1 DEF Pending
  <2>6. [c \in Blocks |-> Pending(c)]' = [c \in Blocks |-> Pending(c)]
    BY <2>5
  <2> QED
    BY <2>1, <2>6 DEF View!storageVars
<1>2. ASSUME NEW b \in Blocks, WriteFails(b) PROVE View!StorageNext
  <2>1. /\ UNCHANGED <<storing, writing, dangling, written, complete_, complete_blocks, validating>>
        /\ ~terminated /\ terminated' = TRUE
        /\ writing[b] > 0 \/ dangling[b] > 0
    BY <1>2 DEF WriteFails, bufVars, pieceVars, checkVars
  <2>2. Pending(b) > 0
    BY <2>1, StoringFinite DEF Pending
  <2>3. View!WriteError
    BY <2>1, <2>2 DEF View!WriteError, Pending, Storing
  <2> QED
    BY <2>3 DEF View!StorageNext
<1>3. ASSUME NEW b \in Blocks, ReadForValidation(b) \/ ValidationReadFails(b)
      PROVE  UNCHANGED View!storageVars
  <2>1. UNCHANGED <<complete_, complete_blocks, validating, terminated, writing, dangling, written, storing>>
    BY <1>3 DEF ReadForValidation, ValidationReadFails, bufVars, pieceVars
  <2>2. \A c \in Blocks : Pending(c)' = Pending(c)
    BY <2>1 DEF Pending, Storing
  <2> QED
    BY <2>1, <2>2 DEF View!storageVars
<1> QED
  BY <1>1, <1>2, <1>3 DEF Kernel

\* A write handler takes one pending write off its block, the writes it strips of
\* their buffer stay pending.
LEMMA ViewWritten ==
    ASSUME TypeInv, NEW b \in Blocks, BlockWritten(b)
    PROVE  View!Written(b)
<1> USE DEF TypeInv, TypeOK
<1>1. /\ UNCHANGED <<storing, terminated>> /\ ~terminated
      /\ written[b] > 0 /\ written' = [written EXCEPT ![b] = @ - 1]
      /\ dangling' = [dangling EXCEPT ![b] = @ + writing[b]]
      /\ writing' = [writing EXCEPT ![b] = 0]
  BY DEF BlockWritten
<1>2. \A c \in Blocks : Cardinality(Storing(c)) \in Nat /\ Storing(c)' = Storing(c)
  BY <1>1, StoringFinite DEF Storing
<1>3. Pending(b)' = Pending(b) - 1 /\ Pending(b) > 0
  BY <1>1, <1>2 DEF Pending
<1>4. \A c \in Blocks : c # b => Pending(c)' = Pending(c)
  BY <1>1, <1>2 DEF Pending
<1>5. [c \in Blocks |-> Pending(c)]'
        = [[c \in Blocks |-> Pending(c)] EXCEPT ![b] = Pending(b) - 1]
  BY <1>3, <1>4, PendingUpdate
<1>6. validating' = IF complete_blocks[PieceOf[b]] + 1 = NumBlocks(PieceOf[b])
                    THEN [validating EXCEPT ![PieceOf[b]] = @ + 1] ELSE validating
  BY WriteAccount
<1>7. View!PieceComplete(PieceOf[b], complete_blocks[PieceOf[b]] + 1)
        <=> complete_blocks[PieceOf[b]] + 1 = NumBlocks(PieceOf[b])
  <2>1. View!BlocksOf(PieceOf[b]) = BlocksOf(PieceOf[b])
    BY DEF View!BlocksOf, BlocksOf
  <2> QED \* the instance brings its own copy of Cardinality
    BY <2>1, Zenon DEF View!PieceComplete, NumBlocks, View!Cardinality, Cardinality
<1>8. /\ complete_' = [complete_ EXCEPT ![b] = TRUE]
      /\ complete_blocks' = [complete_blocks EXCEPT ![PieceOf[b]] = @ + 1]
  BY WriteAccount
<1> QED
  BY <1>1, <1>3, <1>5, <1>6, <1>7, <1>8 DEF View!Written

\* A validation handler accepts or resets its piece.
LEMMA ViewValidate ==
    ASSUME TypeInv, NEW i \in Pieces, ValidatePiece(i)
    PROVE  View!Accept(i) \/ View!Reset(i)
<1>1. /\ UNCHANGED <<storing, writing, dangling, written, terminated>> /\ ~terminated
  BY DEF ValidatePiece, bufVars
<1>2. [c \in Blocks |-> Pending(c)]' = [c \in Blocks |-> Pending(c)]
  BY <1>1 DEF Pending, Storing
<1> QED
  BY <1>1, <1>2, ValidateAccount DEF View!Accept, View!Reset, TypeInv

\* What peers can observe of the storage is the Storage specification.
THEOREM StorageImplementsView == Spec => ImplementsStorage
<1>1. Init => View!StorageInit
  <2> SUFFICES ASSUME Init PROVE View!StorageInit
    OBVIOUS
  <2>1. \A b \in Blocks : Storing(b) = {}
    BY NoBlockAssumption DEF Init, Storing
  <2>2. \A b \in Blocks : Pending(b) = 0
    BY <2>1, FS_EmptySet DEF Init, Pending, Storing
  <2>3. [b \in Blocks |-> Pending(b)] = [b \in Blocks |-> 0]
    BY <2>2
  <2> QED
    BY <2>3 DEF Init, View!StorageInit
<1>2. TypeInv /\ [Next]_vars => [View!StorageNext]_(View!storageVars)
  <2> SUFFICES ASSUME TypeInv, [Next]_vars
               PROVE  View!StorageNext \/ UNCHANGED View!storageVars
    OBVIOUS
  <2>1. CASE UNCHANGED vars
    BY <2>1 DEF vars, View!storageVars, Pending, Storing
  <2>2. CASE Store
    BY <2>2, ViewStore DEF Store, View!StorageNext
  <2>3. CASE Submit
    BY <2>3, ViewSubmit DEF Submit
  <2>4. CASE Kernel
    BY <2>4, ViewKernel
  <2>5. CASE Strand
    BY <2>5, ViewWritten, ViewValidate DEF Strand, View!StorageNext
  <2> QED
    BY <2>1, <2>2, <2>3, <2>4, <2>5 DEF Next
<1> QED
  BY <1>1, <1>2, Accounting, PTL DEF Spec, ImplementsStorage, View!StorageSpec

=============================================================================
