SPECIFICATION FairSpec
CONSTANTS
    Rooms = {1, 2}
    MaxInputs = 7
    MaxNews = 2
INVARIANTS
    OneReader
    RoomsAgree
    SaidWhereTyped
PROPERTY
    ConsoleComesBack
CHECK_DEADLOCK FALSE
