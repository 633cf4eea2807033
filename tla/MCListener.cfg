SPECIFICATION FairSpec
CONSTANTS
    Events = {e1, e2}
    Workers = {w1, w2}
    Main = Main
    Sessions = {1, 2, 3, 4, 5, 6, 7, 8}
    Peers = {p1, p2}
    MaxDepth = 3
    MaxFails = 1
    None = None
INVARIANTS
    EventsKept
    SessionsOwned
PROPERTY
    PeersAccepted
CHECK_DEADLOCK FALSE
