SPECIFICATION Spec
CONSTANTS
    Threads = {t1, t2}
    Buffers = {b1, b2, b3}
    Chunks = {c1, c2, c3, c4}
    ChunkSize = 3
    None = None
SYMMETRY Symmetry
INVARIANTS
    BuffersIntact
    OpenSucceeds
    ChunksAccountedFor
