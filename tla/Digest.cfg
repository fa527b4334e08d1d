CONSTANTS
    init <- ProviderInit
    update <- ProviderUpdate
    final <- ProviderFinal
    squeeze <- ProviderSqueeze
    Vectors <- MCVectors
    Pieces = {64}
    Iterated = {40}
    Stale = {170}
    MaxRestarts = 1
SPECIFICATION Spec
CHECK_DEADLOCK FALSE
INVARIANT DigestAsPublished
