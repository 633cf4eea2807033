SPECIFICATION SettledSpec
CONSTANTS
    Sessions = {s1, s2, s3}
    Rooms = {r1,r2}
    MaxPlayers = 2
    MaxRequests = 2
    MaxTotal = 2
    MaxCloses = 1
    None = None
SYMMETRY Symmetry
INVARIANTS
    MembersAgree
    ChatsInOneOrder
    RostersAgree
