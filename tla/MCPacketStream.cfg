SPECIFICATION FairSpec
CONSTANTS
    Sizes = {2, 3}
    HeaderSize = 2
    Capacity = 9
    CompactBelow = 3
    AtStart = FALSE
    MaxPackets = 5
INVARIANTS
    PacketsIntact
    NeverOverlaps
    PeerKept
PROPERTY
    AllDelivered
