\* A remote that sends any three messages, of this torrent or another one.
SPECIFICATION Spec
CONSTANTS
    Layouts       <- MCLayouts
    ProtocolName  <- MCProtocolName
    PeerIdBytes   <- MCPeerIdBytes
    InfoHash      <- MCInfoHash
    OtherHash     <- MCOtherHash
    StalePrefix   <- MCStalePrefix
    NominalBlockSize = 256
    OffsetModulus = 600
    MaxSent = 3
CHECK_DEADLOCK FALSE
INVARIANTS
    ReceivedAsSent
    EndsOnBoundary
    OwnTorrentOnly
    ValidationReadsSource
