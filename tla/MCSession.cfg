SPECIFICATION FairSpec
CONSTANTS
    Threads = {t1, t2}
    Msgs = {m1, m2, m3}
    NoThread = NoThread
    NoMsg = NoMsg
    MaxRecv = 2
INVARIANTS
    SendExclusive
    ReceiveExclusive
    PinnedWhilePending
    NoStrandedBuffers
    ReceiveArmed
    TearDownOnce
PROPERTIES
    ImplementsChannel
    QueueDrains
    SessionReclaimed
