\* A piece of two blocks beside a piece of one, and three writes at a time: room
\* for one superfluous write of the first piece or two of the second.
SPECIFICATION FairSpec
CONSTANTS
    p1 = p1
    p2 = p2
    Blocks  <- MCBlocks
    Pieces  <- MCPieces
    PieceOf <- MCPieceOf
    Peers   <- MCPeers
    MaxWrites = 3
CHECK_DEADLOCK FALSE
INVARIANTS
    SingleValidation
    CountedOnce
    NoStrandedPiece
    
PROPERTIES
    VerifiedNeverReset
    ImplementsStorage
    ImplementsPieceStore
