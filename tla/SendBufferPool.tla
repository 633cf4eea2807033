---------------------------- MODULE SendBufferPool ----------------------------
(* The send buffers of ServerCore: packets are written into slices of a       *)
(* chunk that belongs to the writing thread; every slice keeps its chunk      *)
(* alive, and the last reference that goes, on whatever thread, gives the     *)
(* chunk back to the pool, from which another thread takes and resets it.     *)
(* A step is one use of the pool's lock or one change of a reference count.   *)
EXTENDS Naturals, FiniteSets

CONSTANTS
    Threads,               \* threads that open buffers and drop them
    Buffers,               \* BOUND: SendBuffer objects that exist at a time
    Chunks,                \* BOUND: SendBufferChunk objects ever allocated
    ChunkSize,             \* SEND_BUFFER_CHUNK_SIZE
    None                   \* the null reference

ASSUME SizeAssumption == ChunkSize \in Nat \ {0}
ASSUME NoneAssumption == None \notin Chunks \cup Buffers

VARIABLES
    pool,                  \* _sendBufferChunks; which one Pop takes is left open
    created,               \* chunks that xnew has returned
    open, used,            \* per chunk: _open, _usedSize
    bytes,                 \* history, per chunk: the live buffer that wrote each byte
    current,               \* per thread: LSendBufferChunk
    live,                  \* buffers that somebody still references
    chunk, from, size,     \* per buffer: _owner, _buffer, _allocSize or _writeSize
    pc, want,              \* per thread: statement, the size asked of Open
    hand,                  \* per thread: the chunk Pop returned, or the one
                           \* whose deleter is running
    writing,               \* per thread: the buffer it has not closed yet
    crashed                \* an ASSERT_CRASH has fired

poolVars == <<pool, created>>
chunkVars == <<open, used, bytes>>
bufferVars == <<live, chunk, from, size, writing>>
vars == <<poolVars, chunkVars, current, bufferVars, pc, want, hand, crashed>>

Offsets == 0..(ChunkSize - 1)
Range(b) == {i \in Offsets : from[b] <= i /\ i < from[b] + size[b]}

FreeSize(c) == ChunkSize - used[c]

Init ==
    /\ pool = {} /\ created = {}
    /\ open = [c \in Chunks |-> FALSE]
    /\ used = [c \in Chunks |-> 0]
    /\ bytes = [c \in Chunks |-> [i \in Offsets |-> None]]
    /\ current = [t \in Threads |-> None]
    /\ live = {}
    /\ chunk = [b \in Buffers |-> None]
    /\ from = [b \in Buffers |-> 0] /\ size = [b \in Buffers |-> 0]
    /\ pc = [t \in Threads |-> "run"]
    /\ want = [t \in Threads |-> 0]
    /\ hand = [t \in Threads |-> None] /\ writing = [t \in Threads |-> None]
    /\ crashed = FALSE

Advance(t, from_, to) ==
    /\ ~crashed
    /\ pc[t] = from_
    /\ pc' = [pc EXCEPT ![t] = to]

-----------------------------------------------------------------------------
(* SendBufferManager::Open and SendBuffer::Close, as MakeSendBuffer calls     *)
(* them.                                                                      *)

\* ASSERT_CRASH(LSendBufferChunk->IsOpen() == false).
FoundOpen(t) == current[t] # None /\ open[current[t]]

Fits(t, n) == current[t] # None /\ n <= FreeSize(current[t])

Opening(t) == pc[t] \in {"pop", "install", "recycleOld", "reset", "open"}

\* BOUND: there is a SendBuffer object left for every thread that opens one.
BufferLeft == Cardinality(live) + Cardinality({u \in Threads : Opening(u)}) < Cardinality(Buffers)

\* A packet larger than a chunk takes a second chunk first when the thread has
\* none yet; either way SendBufferChunk::Open ends the process.
Open(t, n) ==
    /\ BufferLeft
    /\ Advance(t, "run", IF Fits(t, n) THEN "open" ELSE "pop")
    /\ crashed' = FoundOpen(t)
    /\ want' = [want EXCEPT ![t] = n]
    /\ UNCHANGED <<poolVars, chunkVars, current, bufferVars, hand>>

\* Under the pool's lock: a chunk of the pool, or else a new one.
Pop(t, c) ==
    /\ Advance(t, "pop", "install")
    /\ IF pool # {} THEN c \in pool ELSE c \notin created
    /\ pool' = pool \ {c}
    /\ created' = created \cup {c}
    /\ hand' = [hand EXCEPT ![t] = c]
    /\ UNCHANGED <<chunkVars, current, bufferVars, want, crashed>>

\* Some buffer of bs holds a reference to chunk c.
HeldBy(c, bs) == \E b \in bs : chunk[b] = c

\* The thread's reference moves to the new chunk; the old one's count may
\* reach zero by that.
Install(t) ==
    LET old == current[t]
        last == old # None /\ ~HeldBy(old, live) IN
    /\ Advance(t, "install", IF last THEN "recycleOld" ELSE "reset")
    /\ current' = [current EXCEPT ![t] = hand[t]]
    /\ hand' = [hand EXCEPT ![t] = IF last THEN old ELSE None]
    /\ UNCHANGED <<poolVars, chunkVars, bufferVars, want, crashed>>

Reset(t) ==
    LET c == current[t] IN
    /\ Advance(t, "reset", "open")
    /\ open' = [open EXCEPT ![c] = FALSE]
    /\ used' = [used EXCEPT ![c] = 0]
    /\ UNCHANGED <<poolVars, bytes, current, bufferVars, want, hand, crashed>>

\* SendBufferChunk::Open, with its two assertions.
OpenSlice(t, b) ==
    LET c == current[t] IN
    /\ Advance(t, "open", "write")
    /\ b \in Buffers \ live
    /\ crashed' = (want[t] > ChunkSize \/ open[c])
    /\ open' = [open EXCEPT ![c] = TRUE]
    /\ live' = live \cup {b}
    /\ chunk' = [chunk EXCEPT ![b] = c]
    /\ from' = [from EXCEPT ![b] = used[c]]
    /\ size' = [size EXCEPT ![b] = want[t]]
    /\ writing' = [writing EXCEPT ![t] = b]
    /\ UNCHANGED <<poolVars, used, bytes, current, want, hand>>

\* MUTANT: the write does not move _usedSize.
Unmoved(c, n) == used[c]

UsedAfter(c, n) == used[c] + n

\* MUTANT: the chunk stays open.
LeftOpen == TRUE

OpenAfterClose == FALSE

\* SerializeToArray fills the slice, and Close gives back what it did not need.
WriteAndClose(t, n) ==
    LET b == writing[t]
        c == chunk[b] IN
    /\ Advance(t, "write", "run")
    /\ n \in 1..size[b]
    /\ bytes' = [bytes EXCEPT ![c] =
                    [i \in Offsets |-> IF from[b] <= i /\ i < from[b] + n THEN b ELSE @[i]]]
    /\ size' = [size EXCEPT ![b] = n]
    /\ used' = [used EXCEPT ![c] = UsedAfter(c, n)]
    /\ open' = [open EXCEPT ![c] = OpenAfterClose]
    /\ writing' = [writing EXCEPT ![t] = None]
    /\ want' = [want EXCEPT ![t] = 0]
    /\ UNCHANGED <<poolVars, current, live, chunk, from, hand, crashed>>

-----------------------------------------------------------------------------
(* The end of a buffer, after the last session has sent it, on any thread.    *)

IsCurrent(c) == \E u \in Threads : current[u] = c

DropLast(t, b) ==
    LET c == chunk[b]
        last == ~IsCurrent(c) /\ ~HeldBy(c, live \ {b}) IN
    /\ Advance(t, "run", IF last THEN "recycle" ELSE "run")
    /\ b \in live /\ \A u \in Threads : writing[u] # b
    /\ live' = live \ {b}
    /\ chunk' = [chunk EXCEPT ![b] = None]
    /\ from' = [from EXCEPT ![b] = 0] /\ size' = [size EXCEPT ![b] = 0]
    /\ bytes' = [bytes EXCEPT ![c] = [i \in Offsets |-> IF @[i] = b THEN None ELSE @[i]]]
    /\ hand' = [hand EXCEPT ![t] = IF last THEN c ELSE None]
    /\ UNCHANGED <<poolVars, open, used, current, writing, want, crashed>>

\* MUTANT: the deleter frees nothing and pushes nothing.
Forget(c) == pool

Pushed(c) == pool \cup {c}

\* The deleter, PushGlobal: the chunk goes back under the pool's lock.
PushGlobal(t, step, back) ==
    /\ Advance(t, step, back)
    /\ pool' = Pushed(hand[t])
    /\ hand' = [hand EXCEPT ![t] = None]
    /\ UNCHANGED <<created, chunkVars, current, bufferVars, want, crashed>>

-----------------------------------------------------------------------------
Finished == crashed /\ UNCHANGED vars

Step(t) ==
    \/ \E n \in 1..(ChunkSize + 1) : Open(t, n)
    \/ \E c \in Chunks : Pop(t, c)
    \/ Install(t) \/ Reset(t)
    \/ \E b \in Buffers : OpenSlice(t, b) \/ DropLast(t, b)
    \/ \E n \in 1..ChunkSize : WriteAndClose(t, n)
    \/ PushGlobal(t, "recycleOld", "reset") \/ PushGlobal(t, "recycle", "run")

Next ==
    \/ \E t \in Threads : Step(t)
    \/ Finished

Spec == Init /\ [][Next]_vars

-----------------------------------------------------------------------------
(* Properties.                                                                *)

FlagsOK == open \in [Chunks -> BOOLEAN] /\ crashed \in BOOLEAN

DataOK ==
    /\ pool \subseteq Chunks /\ created \subseteq Chunks
    /\ used \in [Chunks -> 0..ChunkSize]
    /\ bytes \in [Chunks -> [Offsets -> Buffers \cup {None}]]
    /\ current \in [Threads -> Chunks \cup {None}]
    /\ live \subseteq Buffers
    /\ chunk \in [Buffers -> Chunks \cup {None}]
    /\ from \in [Buffers -> 0..ChunkSize] /\ size \in [Buffers -> 0..(ChunkSize + 1)]
    /\ pc \in [Threads -> {"run", "pop", "install", "recycleOld", "reset", "open", "write",
                           "recycle"}]
    /\ want \in [Threads -> 0..(ChunkSize + 1)]
    /\ hand \in [Threads -> Chunks \cup {None}]
    /\ writing \in [Threads -> Buffers \cup {None}]

\* The types; a chunk never gives away more than it has.
TypeOK == FlagsOK /\ DataOK

\* What was written into a buffer is still there when it is sent: as long as
\* anybody holds the buffer, no other buffer's bytes come over it.
BuffersIntact ==
    \A b \in live : (\A t \in Threads : writing[t] # b) =>
        \A i \in Range(b) : bytes[chunk[b]][i] = b

\* MakeSendBuffer uses the buffer Open returns unchecked: unless the packet is
\* larger than a chunk, no assertion fires and the chunk has the room.
OpenSucceeds ==
    /\ crashed => \E t \in Threads : pc[t] = "write" /\ want[t] > ChunkSize
    /\ \A t \in Threads : pc[t] = "open" /\ want[t] <= ChunkSize =>
          want[t] <= FreeSize(current[t])

\* A chunk has one owner: it is in the pool, or in one thread's hands or use,
\* or only its buffers keep it; and none is lost.
ChunksAccountedFor ==
    /\ \A c \in pool : ~IsCurrent(c) /\ ~HeldBy(c, live)
    /\ \A t, u \in Threads : t # u /\ current[t] # None => current[t] # current[u]
    /\ \A t \in Threads : hand[t] # None => hand[t] \notin pool /\ ~HeldBy(hand[t], live)
    /\ \A c \in created : c \in pool \/ IsCurrent(c) \/ HeldBy(c, live)
                          \/ \E t \in Threads : hand[t] = c
=============================================================================
