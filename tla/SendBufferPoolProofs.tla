------------------------- MODULE SendBufferPoolProofs -------------------------
(* For every set of threads, chunks and buffers and every chunk size: a       *)
(* buffer that somebody holds keeps its bytes, Open succeeds, and every chunk *)
(* has one owner.                                                             *)
EXTENDS SendBufferPool, TLAPS

USE SizeAssumption, NoneAssumption
USE DEF Advance, poolVars, chunkVars, bufferVars, Offsets, FreeSize, UsedAfter,
        OpenAfterClose, Pushed

-----------------------------------------------------------------------------
(* Types.                                                                     *)

LEMMA TypeInit == Init => TypeOK
<1> SUFFICES ASSUME Init PROVE TypeOK
  OBVIOUS
<1>1. FlagsOK
  BY Zenon DEF Init, FlagsOK
<1>2. DataOK
  BY SizeAssumption DEF Init, DataOK
<1> QED
  BY <1>1, <1>2 DEF TypeOK

\* What a thread may give away of its chunk fits into it.
RoomInv ==
    /\ \A t \in Threads : pc[t] \in {"recycleOld", "reset", "open", "write"} => current[t] # None
    /\ \A t \in Threads : pc[t] \in {"install", "recycleOld", "recycle"} => hand[t] # None
    /\ \A t \in Threads : pc[t] = "open" /\ want[t] <= ChunkSize =>
          want[t] <= FreeSize(current[t])
    /\ \A t \in Threads : pc[t] = "write" =>
          /\ writing[t] # None /\ chunk[writing[t]] = current[t]
          /\ from[writing[t]] = used[current[t]] /\ size[writing[t]] = want[t]
          /\ crashed \/ want[t] <= FreeSize(current[t])

\* Whose a chunk is.
OwnerInv ==
    /\ pool \subseteq created
    /\ \A t \in Threads : current[t] \in created \cup {None} /\ hand[t] \in created \cup {None}
    /\ \A b \in live : chunk[b] \in created
    /\ \A t \in Threads : pc[t] \notin {"install", "recycleOld", "recycle"} => hand[t] = None
    /\ \A c \in pool : (\A t \in Threads : current[t] # c /\ hand[t] # c)
                        /\ \A b \in live : chunk[b] # c
    /\ \A t, u \in Threads : t # u /\ current[t] # None => current[t] # current[u]
    /\ \A t, u \in Threads : t # u /\ hand[t] # None => hand[t] # hand[u]
    /\ \A t, u \in Threads : hand[t] # None => hand[t] # current[u]
    /\ \A t \in Threads, b \in live : hand[t] # chunk[b]
    /\ \A t \in Threads, b \in live : pc[t] \in {"recycleOld", "reset"} => current[t] # chunk[b]

\* A buffer is written by the thread that opened it.
WriterInv ==
    /\ \A t \in Threads : pc[t] # "write" => writing[t] = None
    /\ \A t \in Threads : writing[t] # None => writing[t] \in live
    /\ \A t, u \in Threads : t # u /\ writing[t] # None => writing[t] # writing[u]

\* A chunk is open only while its thread writes.
OpenInv ==
    /\ ~crashed => \A t \in Threads :
          /\ pc[t] \notin {"recycleOld", "reset", "write"} /\ current[t] # None
                => ~open[current[t]]
          /\ pc[t] = "write" => want[t] <= ChunkSize
    /\ crashed => \E t \in Threads : pc[t] = "write" /\ want[t] > ChunkSize

\* Closed buffers lie below _usedSize and hold what was written into them.
LayoutInv ==
    \A b \in live : (\A t \in Threads : writing[t] # b) =>
        /\ from[b] + size[b] <= used[chunk[b]]
        /\ \A i \in Offsets : from[b] <= i /\ i < from[b] + size[b] => bytes[chunk[b]][i] = b

NoneLost ==
    \A c \in created : c \in pool \/ IsCurrent(c) \/ HeldBy(c, live)
                      \/ \E t \in Threads : hand[t] = c

PoolInv == TypeOK /\ RoomInv /\ OwnerInv /\ WriterInv /\ OpenInv /\ LayoutInv /\ NoneLost

LEMMA TypeStep == ASSUME TypeOK, RoomInv, OwnerInv, WriterInv, [Next]_vars PROVE TypeOK'
<1> USE DEF TypeOK, RoomInv, WriterInv
<1>1. ASSUME NEW t \in Threads, Step(t) PROVE TypeOK'
  <2>1. ASSUME NEW n \in 1..(ChunkSize + 1), Open(t, n) PROVE TypeOK'
    <3>1. FlagsOK'
      BY <2>1, Zenon DEF FlagsOK, Open, Fits, FoundOpen
    <3>2. DataOK'
      BY <2>1, SMT DEF DataOK, Open, Fits, FoundOpen
    <3> QED
      BY <3>1, <3>2
  <2>2. ASSUME NEW c \in Chunks, Pop(t, c) PROVE TypeOK'
    <3>1. FlagsOK'
      BY <2>2, Zenon DEF FlagsOK, Pop
    <3>2. DataOK'
      BY <2>2, SMT DEF DataOK, Pop
    <3> QED
      BY <3>1, <3>2
  <2>3. CASE Install(t)
    <3>1. FlagsOK'
      BY <2>3, Zenon DEF FlagsOK, Install, HeldBy
    <3>2. DataOK'
      BY <2>3, SMT DEF DataOK, Install, HeldBy
    <3> QED
      BY <3>1, <3>2
  <2>4. CASE Reset(t)
    <3>1. FlagsOK'
      BY <2>4, Zenon DEF FlagsOK, Reset
    <3>2. DataOK'
      BY <2>4, SMT DEF DataOK, Reset
    <3> QED
      BY <3>1, <3>2
  <2>5. ASSUME NEW b \in Buffers, OpenSlice(t, b) PROVE TypeOK'
    <3>1. FlagsOK'
      BY <2>5, Zenon DEF FlagsOK, OpenSlice
    <3>2. DataOK'
      BY <2>5, SMT DEF DataOK, OpenSlice
    <3> QED
      BY <3>1, <3>2
  <2>6. ASSUME NEW b \in Buffers, DropLast(t, b) PROVE TypeOK'
    <3>1. FlagsOK'
      BY <2>6, Zenon DEF FlagsOK, DropLast, HeldBy, IsCurrent
    <3>2. DataOK'
      <4> DEFINE c == chunk[b]
                 row == [i \in Offsets |-> IF bytes[c][i] = b THEN None ELSE bytes[c][i]]
      <4>1. c \in Chunks
        BY <2>6 DEF DropLast, OwnerInv, DataOK
      <4>2. row \in [Offsets -> Buffers \cup {None}]
        BY <4>1 DEF DataOK
      <4>3. bytes' = [bytes EXCEPT ![c] = row]
        BY <2>6, <4>1 DEF DropLast, DataOK
      <4>4. bytes' \in [Chunks -> [Offsets -> Buffers \cup {None}]]
        <5> HIDE DEF row, c
        <5> QED
          BY <4>1, <4>2, <4>3 DEF DataOK
      <4>5. hand' \in [Threads -> Chunks \cup {None}]
        BY <2>6, <4>1 DEF DropLast, DataOK
      <4> QED
        BY <2>6, <4>1, <4>4, <4>5 DEF DropLast, DataOK
    <3> QED
      BY <3>1, <3>2
  <2>7. ASSUME NEW n \in 1..ChunkSize, WriteAndClose(t, n) PROVE TypeOK'
    <3>1. FlagsOK'
      BY <2>7, Zenon DEF FlagsOK, WriteAndClose
    <3>2. DataOK'
      BY <2>7, SMT DEF DataOK, WriteAndClose
    <3> QED
      BY <3>1, <3>2
  <2>8. CASE PushGlobal(t, "recycleOld", "reset")
    <3>1. FlagsOK'
      BY <2>8, Zenon DEF FlagsOK, PushGlobal
    <3>2. DataOK'
      BY <2>8, SMT DEF DataOK, PushGlobal
    <3> QED
      BY <3>1, <3>2
  <2>9. CASE PushGlobal(t, "recycle", "run")
    <3>1. FlagsOK'
      BY <2>9, Zenon DEF FlagsOK, PushGlobal
    <3>2. DataOK'
      BY <2>9, SMT DEF DataOK, PushGlobal
    <3> QED
      BY <3>1, <3>2
  <2> QED
    BY <1>1, <2>1, <2>2, <2>3, <2>4, <2>5, <2>6, <2>7, <2>8, <2>9 DEF Step
<1>2. CASE Finished \/ UNCHANGED vars
  <2>1. FlagsOK'
    BY <1>2, Zenon DEF FlagsOK, Finished, vars
  <2>2. DataOK'
    BY <1>2, SMT DEF DataOK, Finished, vars
  <2> QED
    BY <2>1, <2>2
<1> QED
  BY <1>1, <1>2 DEF Next
-----------------------------------------------------------------------------
(* The parts of the inductive invariant, action by action.                    *)

LEMMA RoomStep == ASSUME TypeOK, RoomInv, OwnerInv, WriterInv, [Next]_vars PROVE RoomInv'
<1> USE DEF TypeOK, DataOK, RoomInv, OwnerInv, WriterInv
<1>1. ASSUME NEW t \in Threads, Step(t) PROVE RoomInv'
  <2>1. ASSUME NEW n \in 1..(ChunkSize + 1), Open(t, n) PROVE RoomInv'
    BY <2>1 DEF Open, Fits, FoundOpen
  <2>2. ASSUME NEW c \in Chunks, Pop(t, c) PROVE RoomInv'
    BY <2>2 DEF Pop
  <2>3. CASE Install(t)
    BY <2>3 DEF Install, HeldBy
  <2>4. CASE Reset(t)
    BY <2>4 DEF Reset
  <2>5. ASSUME NEW b \in Buffers, OpenSlice(t, b) PROVE RoomInv'
    <3>1. ~crashed /\ pc[t] = "open" /\ pc' = [pc EXCEPT ![t] = "write"]
      BY <2>5, Zenon DEF OpenSlice
    <3>2. want[t] > ChunkSize => crashed'
      BY <2>5, Zenon DEF OpenSlice
    <3>3. /\ b \in Buffers \ live /\ UNCHANGED <<used, current, want, hand>>
          /\ chunk' = [chunk EXCEPT ![b] = current[t]] /\ from' = [from EXCEPT ![b] = used[current[t]]]
          /\ size' = [size EXCEPT ![b] = want[t]] /\ writing' = [writing EXCEPT ![t] = b]
      BY <2>5, Zenon DEF OpenSlice
    <3>4. b # None
      BY <3>3
    <3> QED
      BY <3>1, <3>2, <3>3, <3>4
  <2>6. ASSUME NEW b \in Buffers, DropLast(t, b) PROVE RoomInv'
    BY <2>6 DEF DropLast, HeldBy, IsCurrent
  <2>7. ASSUME NEW n \in 1..ChunkSize, WriteAndClose(t, n) PROVE RoomInv'
    BY <2>7 DEF WriteAndClose
  <2>8. CASE PushGlobal(t, "recycleOld", "reset")
    BY <2>8 DEF PushGlobal
  <2>9. CASE PushGlobal(t, "recycle", "run")
    BY <2>9 DEF PushGlobal
  <2> QED
    BY <1>1, <2>1, <2>2, <2>3, <2>4, <2>5, <2>6, <2>7, <2>8, <2>9 DEF Step
<1>2. CASE Finished \/ UNCHANGED vars
  BY <1>2 DEF Finished, vars
<1> QED
  BY <1>1, <1>2 DEF Next
LEMMA OwnerStep == ASSUME TypeOK, RoomInv, OwnerInv, [Next]_vars PROVE OwnerInv'
<1> USE DEF TypeOK, DataOK, RoomInv, OwnerInv
<1>1. ASSUME NEW t \in Threads, Step(t) PROVE OwnerInv'
  <2>1. ASSUME NEW n \in 1..(ChunkSize + 1), Open(t, n) PROVE OwnerInv'
    BY <2>1 DEF Open, Fits, FoundOpen
  <2>2. ASSUME NEW c \in Chunks, Pop(t, c) PROVE OwnerInv'
    BY <2>2 DEF Pop
  <2>3. CASE Install(t)
    BY <2>3 DEF Install, HeldBy
  <2>4. CASE Reset(t)
    BY <2>4 DEF Reset
  <2>5. ASSUME NEW b \in Buffers, OpenSlice(t, b) PROVE OwnerInv'
    BY <2>5 DEF OpenSlice
  <2>6. ASSUME NEW b \in Buffers, DropLast(t, b) PROVE OwnerInv'
    BY <2>6 DEF DropLast, HeldBy, IsCurrent
  <2>7. ASSUME NEW n \in 1..ChunkSize, WriteAndClose(t, n) PROVE OwnerInv'
    BY <2>7 DEF WriteAndClose
  <2>8. CASE PushGlobal(t, "recycleOld", "reset")
    BY <2>8 DEF PushGlobal
  <2>9. CASE PushGlobal(t, "recycle", "run")
    BY <2>9 DEF PushGlobal
  <2> QED
    BY <1>1, <2>1, <2>2, <2>3, <2>4, <2>5, <2>6, <2>7, <2>8, <2>9 DEF Step
<1>2. CASE Finished \/ UNCHANGED vars
  BY <1>2 DEF Finished, vars
<1> QED
  BY <1>1, <1>2 DEF Next
LEMMA WriterStep == ASSUME TypeOK, WriterInv, [Next]_vars PROVE WriterInv'
<1> USE DEF TypeOK, DataOK, WriterInv
<1>1. ASSUME NEW t \in Threads, Step(t) PROVE WriterInv'
  <2>1. ASSUME NEW n \in 1..(ChunkSize + 1), Open(t, n) PROVE WriterInv'
    BY <2>1 DEF Open, Fits, FoundOpen
  <2>2. ASSUME NEW c \in Chunks, Pop(t, c) PROVE WriterInv'
    BY <2>2 DEF Pop
  <2>3. CASE Install(t)
    BY <2>3 DEF Install, HeldBy
  <2>4. CASE Reset(t)
    BY <2>4 DEF Reset
  <2>5. ASSUME NEW b \in Buffers, OpenSlice(t, b) PROVE WriterInv'
    BY <2>5 DEF OpenSlice
  <2>6. ASSUME NEW b \in Buffers, DropLast(t, b) PROVE WriterInv'
    BY <2>6 DEF DropLast, HeldBy, IsCurrent
  <2>7. ASSUME NEW n \in 1..ChunkSize, WriteAndClose(t, n) PROVE WriterInv'
    BY <2>7 DEF WriteAndClose
  <2>8. CASE PushGlobal(t, "recycleOld", "reset")
    BY <2>8 DEF PushGlobal
  <2>9. CASE PushGlobal(t, "recycle", "run")
    BY <2>9 DEF PushGlobal
  <2> QED
    BY <1>1, <2>1, <2>2, <2>3, <2>4, <2>5, <2>6, <2>7, <2>8, <2>9 DEF Step
<1>2. CASE Finished \/ UNCHANGED vars
  BY <1>2 DEF Finished, vars
<1> QED
  BY <1>1, <1>2 DEF Next
LEMMA OpenStep == ASSUME TypeOK, RoomInv, OwnerInv, OpenInv, [Next]_vars PROVE OpenInv'
<1> USE DEF TypeOK, FlagsOK, DataOK, RoomInv, OwnerInv, OpenInv
<1>1. ASSUME NEW t \in Threads, Step(t) PROVE OpenInv'
  <2>1. ASSUME NEW n \in 1..(ChunkSize + 1), Open(t, n) PROVE OpenInv'
    BY <2>1 DEF Open, Fits, FoundOpen
  <2>2. ASSUME NEW c \in Chunks, Pop(t, c) PROVE OpenInv'
    BY <2>2 DEF Pop
  <2>3. CASE Install(t)
    BY <2>3 DEF Install, HeldBy
  <2>4. CASE Reset(t)
    BY <2>4 DEF Reset
  <2>5. ASSUME NEW b \in Buffers, OpenSlice(t, b) PROVE OpenInv'
    <3>1. ~crashed /\ pc[t] = "open" /\ pc' = [pc EXCEPT ![t] = "write"]
      BY <2>5, Zenon DEF OpenSlice
    <3>2. crashed' <=> (want[t] > ChunkSize \/ open[current[t]])
      BY <2>5, Zenon DEF OpenSlice
    <3>3. ~open[current[t]]
      BY <3>1
    <3>4. open' = [open EXCEPT ![current[t]] = TRUE] /\ UNCHANGED <<current, want>>
      BY <2>5, Zenon DEF OpenSlice
    <3>5. \A u \in Threads : u # t /\ current[u] # None => (open'[current[u]] <=> open[current[u]])
      BY <3>1, <3>4
    <3>6. crashed' <=> want[t] > ChunkSize
      BY <3>2, <3>3, Zenon
    <3> HIDE DEF OpenSlice
    <3> QED
      BY <3>1, <3>4, <3>5, <3>6
  <2>6. ASSUME NEW b \in Buffers, DropLast(t, b) PROVE OpenInv'
    BY <2>6 DEF DropLast, HeldBy, IsCurrent
  <2>7. ASSUME NEW n \in 1..ChunkSize, WriteAndClose(t, n) PROVE OpenInv'
    BY <2>7 DEF WriteAndClose
  <2>8. CASE PushGlobal(t, "recycleOld", "reset")
    BY <2>8 DEF PushGlobal
  <2>9. CASE PushGlobal(t, "recycle", "run")
    BY <2>9 DEF PushGlobal
  <2> QED
    BY <1>1, <2>1, <2>2, <2>3, <2>4, <2>5, <2>6, <2>7, <2>8, <2>9 DEF Step
<1>2. CASE Finished \/ UNCHANGED vars
  BY <1>2 DEF Finished, vars
<1> QED
  BY <1>1, <1>2 DEF Next
LEMMA LayoutStep == ASSUME TypeOK, RoomInv, OwnerInv, WriterInv, LayoutInv, [Next]_vars PROVE LayoutInv'
<1> USE DEF TypeOK, DataOK, RoomInv, OwnerInv, WriterInv, LayoutInv
<1>1. ASSUME NEW t \in Threads, Step(t) PROVE LayoutInv'
  <2>1. ASSUME NEW n \in 1..(ChunkSize + 1), Open(t, n) PROVE LayoutInv'
    BY <2>1 DEF Open, Fits, FoundOpen
  <2>2. ASSUME NEW c \in Chunks, Pop(t, c) PROVE LayoutInv'
    BY <2>2 DEF Pop
  <2>3. CASE Install(t)
    BY <2>3 DEF Install, HeldBy
  <2>4. CASE Reset(t)
    <3> SUFFICES ASSUME NEW x \in live', \A u \in Threads : writing'[u] # x
                 PROVE  /\ from'[x] + size'[x] <= used'[chunk'[x]]
                        /\ \A i \in Offsets : from'[x] <= i /\ i < from'[x] + size'[x]
                             => bytes'[chunk'[x]][i] = x
      OBVIOUS
    <3>1. /\ chunk[x] # current[t] /\ x \in live /\ chunk[x] \in Chunks
          /\ UNCHANGED <<bytes, chunk, from, size, writing>>
      BY <2>4 DEF Reset
    <3>2. used'[chunk[x]] = used[chunk[x]]
      BY <2>4, <3>1 DEF Reset
    <3> QED
      BY <3>1, <3>2
  <2>5. ASSUME NEW b \in Buffers, OpenSlice(t, b) PROVE LayoutInv'
    <3> SUFFICES ASSUME NEW x \in live', \A u \in Threads : writing'[u] # x
                 PROVE  /\ from'[x] + size'[x] <= used'[chunk'[x]]
                        /\ \A i \in Offsets : from'[x] <= i /\ i < from'[x] + size'[x]
                             => bytes'[chunk'[x]][i] = x
      OBVIOUS
    <3>1. x # b /\ x \in live /\ writing[t] = None
      BY <2>5 DEF OpenSlice
    <3>2. /\ UNCHANGED <<used, bytes>> /\ chunk'[x] = chunk[x]
          /\ from'[x] = from[x] /\ size'[x] = size[x]
      BY <2>5, <3>1 DEF OpenSlice
    <3>3. \A u \in Threads : writing[u] # x
      BY <2>5, <3>1 DEF OpenSlice
    <3> QED
      BY <3>1, <3>2, <3>3
  <2>6. ASSUME NEW b \in Buffers, DropLast(t, b) PROVE LayoutInv'
    BY <2>6 DEF DropLast, HeldBy, IsCurrent
  <2>7. ASSUME NEW n \in 1..ChunkSize, WriteAndClose(t, n) PROVE LayoutInv'
    <3> SUFFICES ASSUME NEW x \in live', \A u \in Threads : writing'[u] # x
                 PROVE  /\ from'[x] + size'[x] <= used'[chunk'[x]]
                        /\ \A i \in Offsets : from'[x] <= i /\ i < from'[x] + size'[x]
                             => bytes'[chunk'[x]][i] = x
      OBVIOUS
    <3> DEFINE y == writing[t]
               c == chunk[y]
               row == [i \in Offsets |->
                         IF from[y] <= i /\ i < from[y] + n THEN y ELSE bytes[c][i]]
    <3>1. /\ pc[t] = "write" /\ ~crashed /\ n \in 1..size[y] /\ UNCHANGED <<live, chunk, from>>
      BY <2>7 DEF WriteAndClose
    <3>2. /\ y \in live /\ c = current[t] /\ c \in Chunks
          /\ from[y] = used[c] /\ from[y] + n <= ChunkSize
      BY <3>1
    <3>3. /\ size' = [size EXCEPT ![y] = n] /\ used' = [used EXCEPT ![c] = used[c] + n]
          /\ writing' = [writing EXCEPT ![t] = None] /\ bytes' = [bytes EXCEPT ![c] = row]
      BY <2>7 DEF WriteAndClose
    <3>4. bytes'[c] = row /\ \A k \in Chunks : k # c => bytes'[k] = bytes[k]
      <4> HIDE DEF row, c
      <4> QED
        BY <3>2, <3>3
    <3>5. CASE x = y
      BY <3>1, <3>2, <3>3, <3>4, <3>5
    <3>6. CASE x # y
      <4>1. /\ \A u \in Threads : writing[u] # x
            /\ size'[x] = size[x] /\ chunk[x] \in Chunks
        BY <3>1, <3>3, <3>6
      <4>2. /\ from[x] + size[x] <= used[chunk[x]]
            /\ \A i \in Offsets : from[x] <= i /\ i < from[x] + size[x] => bytes[chunk[x]][i] = x
        BY <3>1, <4>1
      <4>3. used[chunk[x]] <= used'[chunk[x]]
        BY <3>1, <3>2, <3>3, <4>1
      <4>4. /\ from[x] \in Nat /\ size[x] \in Nat /\ from[y] \in Nat
            /\ used[chunk[x]] \in Nat /\ used'[chunk[x]] \in Nat
        BY <3>2, <3>3, <4>1, <3>1
      <4>5. from'[x] + size'[x] <= used'[chunk'[x]]
        BY <3>1, <4>1, <4>2, <4>3, <4>4
      <4>6. ASSUME NEW i \in Offsets, from[x] <= i, i < from[x] + size[x]
            PROVE  bytes'[chunk[x]][i] = x
        <5>1. bytes[chunk[x]][i] = x
          BY <4>2, <4>6
        <5>2. CASE chunk[x] = c
          <6>1. i < from[y]
            BY <3>2, <4>2, <4>4, <4>6, <5>2
          <6>2. row[i] = bytes[c][i]
            BY <6>1, <4>4, <4>6
          <6> HIDE DEF row
          <6> QED
            BY <3>4, <5>1, <5>2, <6>2
        <5>3. CASE chunk[x] # c
          BY <3>4, <4>1, <5>1, <5>3
        <5> QED
          BY <5>2, <5>3
      <4> QED
        BY <3>1, <4>1, <4>5, <4>6
    <3> QED
      BY <3>5, <3>6
  <2>8. CASE PushGlobal(t, "recycleOld", "reset")
    BY <2>8 DEF PushGlobal
  <2>9. CASE PushGlobal(t, "recycle", "run")
    BY <2>9 DEF PushGlobal
  <2> QED
    BY <1>1, <2>1, <2>2, <2>3, <2>4, <2>5, <2>6, <2>7, <2>8, <2>9 DEF Step
<1>2. CASE Finished \/ UNCHANGED vars
  <2>1. UNCHANGED <<pool, created, live, chunk, from, size, used, bytes, writing, current, hand>>
    BY <1>2 DEF Finished, vars
  <2> QED
    BY <2>1
<1> QED
  BY <1>1, <1>2 DEF Next
LEMMA NoneLostStep == ASSUME TypeOK, RoomInv, OwnerInv, NoneLost, [Next]_vars PROVE NoneLost'
<1> USE DEF TypeOK, DataOK, RoomInv, OwnerInv, NoneLost, HeldBy, IsCurrent
<1>1. ASSUME NEW t \in Threads, Step(t) PROVE NoneLost'
  <2>1. ASSUME NEW n \in 1..(ChunkSize + 1), Open(t, n) PROVE NoneLost'
    BY <2>1 DEF Open, Fits, FoundOpen
  <2>2. ASSUME NEW c \in Chunks, Pop(t, c) PROVE NoneLost'
    <3> SUFFICES ASSUME NEW x \in created'
                 PROVE  \/ x \in pool' \/ \E u \in Threads : current'[u] = x
                        \/ (\E y \in live' : chunk'[y] = x) \/ \E u \in Threads : hand'[u] = x
      OBVIOUS
    <3>1. hand[t] = None /\ UNCHANGED <<current, live, chunk>>
      BY <2>2 DEF Pop
    <3>4. x \in Chunks
      BY <2>2 DEF Pop
    <3>2. CASE x = c
      BY <2>2, <3>2 DEF Pop
    <3>3. CASE x # c
      <4>1. x \in created /\ (x \in pool => x \in pool')
        BY <2>2, <3>3 DEF Pop
      <4>2. \A u \in Threads : hand[u] = x => hand'[u] = x
        BY <2>2, <3>1, <3>4 DEF Pop
      <4> QED
        BY <3>1, <4>1, <4>2
    <3> QED
      BY <3>2, <3>3
  <2>3. CASE Install(t)
    <3> SUFFICES ASSUME NEW x \in created'
                 PROVE  \/ x \in pool' \/ \E u \in Threads : current'[u] = x
                        \/ (\E y \in live' : chunk'[y] = x) \/ \E u \in Threads : hand'[u] = x
      OBVIOUS
    <3>1. /\ x \in created /\ x \in Chunks /\ UNCHANGED <<pool, live, chunk>>
          /\ current' = [current EXCEPT ![t] = hand[t]]
      BY <2>3 DEF Install
    <3>2. CASE \E u \in Threads : hand[u] = x
      <4>1. PICK u \in Threads : hand[u] = x
        BY <3>2
      <4>2. u = t => current'[t] = x
        BY <3>1, <4>1
      <4>3. u # t => hand'[u] = x
        BY <2>3, <4>1 DEF Install
      <4> QED
        BY <4>2, <4>3
    <3>3. CASE \E u \in Threads : current[u] = x
      <4>1. PICK u \in Threads : current[u] = x
        BY <3>3
      <4>2. u # t => current'[u] = x
        BY <3>1, <4>1
      <4>3. u = t => hand'[t] = x \/ \E y \in live : chunk[y] = x
        BY <2>3, <3>1, <4>1 DEF Install
      <4> QED
        BY <3>1, <4>2, <4>3
    <3> QED
      BY <3>1, <3>2, <3>3
  <2>4. CASE Reset(t)
    BY <2>4 DEF Reset
  <2>5. ASSUME NEW b \in Buffers, OpenSlice(t, b) PROVE NoneLost'
    <3> SUFFICES ASSUME NEW x \in created'
                 PROVE  \/ x \in pool' \/ \E u \in Threads : current'[u] = x
                        \/ (\E y \in live' : chunk'[y] = x) \/ \E u \in Threads : hand'[u] = x
      OBVIOUS
    <3>1. /\ x \in created /\ UNCHANGED <<pool, current, hand>> /\ live' = live \cup {b}
          /\ b \notin live /\ chunk' = [chunk EXCEPT ![b] = current[t]]
      BY <2>5 DEF OpenSlice
    <3>2. \A y \in live : y \in live' /\ chunk'[y] = chunk[y]
      BY <3>1
    <3>3. CASE \E y \in live : chunk[y] = x
      BY <3>2, <3>3
    <3>4. CASE ~\E y \in live : chunk[y] = x
      BY <3>1, <3>4
    <3> QED
      BY <3>3, <3>4
  <2>6. ASSUME NEW b \in Buffers, DropLast(t, b) PROVE NoneLost'
    <3> SUFFICES ASSUME NEW x \in created'
                 PROVE  \/ x \in pool' \/ \E u \in Threads : current'[u] = x
                        \/ (\E y \in live' : chunk'[y] = x) \/ \E u \in Threads : hand'[u] = x
      OBVIOUS
    <3>1. /\ x \in created /\ x \in Chunks /\ UNCHANGED <<pool, current>>
          /\ live' = live \ {b} /\ chunk' = [chunk EXCEPT ![b] = None] /\ hand[t] = None
      BY <2>6 DEF DropLast
    <3>2. \A u \in Threads : hand[u] = x => hand'[u] = x
      BY <2>6, <3>1 DEF DropLast
    <3>3. \A y \in live : y # b => y \in live' /\ chunk'[y] = chunk[y]
      BY <3>1
    <3>4. chunk[b] = x => \/ hand'[t] = x \/ \E u \in Threads : current[u] = x
                         \/ \E y \in live \ {b} : chunk[y] = x
      BY <2>6 DEF DropLast
    <3>5. CASE \E y \in live : chunk[y] = x
      <4>1. PICK y \in live : chunk[y] = x
        BY <3>5
      <4>2. CASE y # b
        BY <3>3, <4>1, <4>2
      <4>3. CASE y = b
        BY <3>1, <3>3, <3>4, <4>1, <4>3
      <4> QED
        BY <4>2, <4>3
    <3>6. CASE ~\E y \in live : chunk[y] = x
      BY <3>1, <3>2, <3>6
    <3> QED
      BY <3>5, <3>6
  <2>7. ASSUME NEW n \in 1..ChunkSize, WriteAndClose(t, n) PROVE NoneLost'
    BY <2>7 DEF WriteAndClose
  <2>8. CASE PushGlobal(t, "recycleOld", "reset")
    BY <2>8 DEF PushGlobal
  <2>9. CASE PushGlobal(t, "recycle", "run")
    BY <2>9 DEF PushGlobal
  <2> QED
    BY <1>1, <2>1, <2>2, <2>3, <2>4, <2>5, <2>6, <2>7, <2>8, <2>9 DEF Step
<1>2. CASE Finished \/ UNCHANGED vars
  <2>1. UNCHANGED <<pool, created, live, chunk, from, size, used, bytes, writing, current, hand>>
    BY <1>2 DEF Finished, vars
  <2> QED
    BY <2>1
<1> QED
  BY <1>1, <1>2 DEF Next
-----------------------------------------------------------------------------
LEMMA PartsInit == Init => RoomInv /\ OwnerInv /\ WriterInv /\ OpenInv /\ LayoutInv /\ NoneLost
<1> SUFFICES ASSUME Init PROVE RoomInv /\ OwnerInv /\ WriterInv /\ OpenInv /\ LayoutInv /\ NoneLost
  OBVIOUS
<1>1. RoomInv /\ OwnerInv /\ WriterInv
  BY DEF Init, RoomInv, OwnerInv, WriterInv
<1>2. OpenInv
  BY Zenon DEF Init, OpenInv
<1>3. LayoutInv /\ NoneLost
  BY DEF Init, LayoutInv, NoneLost
<1> QED
  BY <1>1, <1>2, <1>3

THEOREM Invariance == Spec => []PoolInv
<1>1. Init => PoolInv
  BY TypeInit, PartsInit DEF PoolInv
<1>2. PoolInv /\ [Next]_vars => PoolInv'
  BY TypeStep, RoomStep, OwnerStep, WriterStep, OpenStep, LayoutStep, NoneLostStep DEF PoolInv
<1> QED
  BY <1>1, <1>2, PTL DEF Spec

\* The variables keep their types: no chunk gives away more than ChunkSize.
THEOREM TypeCorrect == Spec => []TypeOK
<1>1. PoolInv => TypeOK
  BY DEF PoolInv
<1> QED
  BY <1>1, Invariance, PTL

\* Nothing is written over a buffer that somebody holds (SendBuffer.cpp:32-48,
\* 57-74, 97-100: a chunk is reset only when its last buffer is gone).
THEOREM HeldBuffersAreIntact == Spec => []BuffersIntact
<1>1. PoolInv => BuffersIntact
  BY DEF PoolInv, LayoutInv, BuffersIntact, Range
<1> QED
  BY <1>1, Invariance, PTL

\* No assertion of SendBuffer.cpp fires and Open never returns null, but for a
\* packet larger than a chunk.
THEOREM OpenAlwaysSucceeds == Spec => []OpenSucceeds
<1>1. PoolInv => OpenSucceeds
  BY DEF PoolInv, RoomInv, OpenInv, OpenSucceeds
<1> QED
  BY <1>1, Invariance, PTL

\* A chunk has one owner, and none is lost.
THEOREM ChunksHaveOneOwner == Spec => []ChunksAccountedFor
<1>1. PoolInv => ChunksAccountedFor
  BY DEF PoolInv, TypeOK, DataOK, OwnerInv, NoneLost, ChunksAccountedFor, IsCurrent, HeldBy
<1> QED
  BY <1>1, Invariance, PTL
=============================================================================
