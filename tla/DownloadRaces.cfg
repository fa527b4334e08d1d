\* Two threads, two peers, two pieces of one block.
SPECIFICATION Spec
CONSTANTS
    p1 = p1
    p2 = p2
    Blocks  <- TwoPieces
    Pieces  <- MCPieces
    PieceOf <- MCPieceOf
    BlockList <- MCBlockList
    Peers   <- TwoPeers
    PipelineSize = 1
    NumThreads = 2
    Modulus = 8
    MaxChokes = 0
    MaxBreaks = 0
    MaxDuplicates = 0
SYMMETRY Symmetry
CHECK_DEADLOCK FALSE
INVARIANTS
    TypeOK
    
    AvailabilityKnown
