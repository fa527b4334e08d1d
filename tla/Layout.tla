------------------------------- MODULE Layout -------------------------------
(***************************************************************************)
(* How a file is cut into pieces and pieces into blocks, and where a block *)
(* lies in the file (manager.cpp, piece.cpp, torrent.cpp): operators only, *)
(* used by Transfer.  A layout is a record of the two lengths the metainfo *)
(* gives; pieces and the blocks of a piece are numbered from 0.            *)
(***************************************************************************)
EXTENDS Integers

CONSTANTS
    NominalBlockSize,  \* Piece::nominal_block_size
    OffsetModulus      \* stands for 2^32: write_block keeps offsets in a uint32_t

ASSUME LayoutAssumption ==
    /\ NominalBlockSize \in Nat \ {0}
    /\ OffsetModulus \in Nat \ {0}

\* The lengths of a metainfo file that has at least one byte to share.
Lengths == [length : Nat \ {0}, pieceLength : Nat \ {0}]

\* The number of hashes in a metainfo file that fits its lengths.
NumPieces(l) == (l.length + l.pieceLength - 1) \div l.pieceLength

\* A slip of generate_pieces: the remainder, which is 0 for a last piece that is full.
PieceSizeRest(l, i) ==
    IF i = NumPieces(l) - 1 THEN l.length % l.pieceLength ELSE l.pieceLength

PieceSize(l, i) ==
    IF i = NumPieces(l) - 1 THEN l.length - (NumPieces(l) - 1) * l.pieceLength
                            ELSE l.pieceLength

NumBlocks(l, i) == (PieceSize(l, i) + NominalBlockSize - 1) \div NominalBlockSize

BlockOffset(k) == k * NominalBlockSize

BlockSize(l, i, k) ==
    IF k = NumBlocks(l, i) - 1 THEN PieceSize(l, i) - k * NominalBlockSize
                               ELSE NominalBlockSize

PieceSet(l)  == 0 .. NumPieces(l) - 1
BlockSet(l, i) == 0 .. NumBlocks(l, i) - 1

\* Piece::get_block_by_offset
BlockAt(begin) == begin \div NominalBlockSize

\* Where write_block puts a block and where validate_piece begins to read.
WriteOffset(l, i, begin) == (i * l.pieceLength + begin) % OffsetModulus
PieceOffset(l, i)        == i * l.pieceLength

=============================================================================
