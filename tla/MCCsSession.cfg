SPECIFICATION CsFairSpec
CONSTANTS
    Senders = {console, net}
    Continuation = Continuation
    Msgs = {m1, m2, m3}
    None = None
INVARIANT
    WritesInTurn
PROPERTIES
    QueueDrains
    ClosingNoticed
    ImplementsChannel
CHECK_DEADLOCK FALSE
