SPECIFICATION Spec
CONSTANTS
    Sessions = {s1, s2, s3}
    Names = {n1, n2}
    Connections = 1
    None = None
SYMMETRY Symmetry
INVARIANTS
    AccountsDistinct
    ConnectionsKept
    OneSessionUnlessMet
    AnnouncedIsStored
