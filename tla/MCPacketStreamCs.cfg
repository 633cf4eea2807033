SPECIFICATION Spec
CONSTANTS
    Sizes = {2, 3}
    HeaderSize = 2
    Capacity = 9
    CompactBelow = 10
    AtStart = TRUE
    MaxPackets = 5
INVARIANT
    PacketsIntact
