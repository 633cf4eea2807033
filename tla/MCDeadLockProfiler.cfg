SPECIFICATION ProfilerSpec
CONSTANTS
    a1 = a1
    a2 = a2
    b = b
    c = c
    Workers = {t1, t2, t3}
    Locks = {a1, a2, b, c}
    Class <- LockClass
    MaxNested = 3
    MaxLocked = 6
    Nobody = Nobody
SYMMETRY Symmetry
INVARIANTS
    CyclesReported
    DeadlocksForeseen
