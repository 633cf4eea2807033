SPECIFICATION Spec
CONSTANTS
    Sessions = {s1, s2, s3}
    Rooms = {r1}
    MaxPlayers = 2
    MaxRequests = 2
    MaxTotal = 3
    MaxCloses = 1
    None = None
INVARIANT
    NoLockTimeout
