\* One thread, two peers that choke once, one connection that breaks, one piece of two blocks; handlers go on.
SPECIFICATION FairSpec
CONSTANTS
    p1 = p1
    p2 = p2
    Blocks  <- OnePiece
    Pieces  <- MCPieces
    PieceOf <- MCPieceOf
    BlockList <- MCBlockList
    Peers   <- TwoPeers
    PipelineSize = 1
    NumThreads = 1
    Modulus = 8
    MaxChokes = 1
    MaxBreaks = 1
    MaxDuplicates = 0
CHECK_DEADLOCK FALSE
INVARIANTS
    
    PipelineAccount
    RequestedIsAsked
PROPERTIES
    NothingForgotten
    HandlerReturns
