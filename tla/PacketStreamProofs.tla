-------------------------- MODULE PacketStreamProofs --------------------------
(* For every set of packet sizes and every capacity: the framing loop hands   *)
(* on exactly the packets the peer sent, the peer is never cut off, and       *)
(* compaction never overlaps.                                                 *)
EXTENDS PacketStream, SequenceTheorems, TLAPS

\* What RecvBuffer's constants give: a receive writes at the write cursor, a
\* packet is no larger than _bufferSize, and the buffer is at least three of
\* those (BUFFER_COUNT is 10).
Roomy ==
    /\ ~AtStart
    /\ CompactBelow > 0 /\ 3 * CompactBelow <= Capacity
    /\ HeaderSize <= CompactBelow /\ \A n \in Sizes : n <= CompactBelow

\* Where packet k starts in the stream.
StartOf(k) == IF k = 1 THEN 0 ELSE packets[k - 1].start + packets[k - 1].size

\* Packets follow one another in the stream.
StreamInv ==
    /\ \A k \in 1..Len(packets) : packets[k].start = StartOf(k)
    /\ \A k, l \in 1..Len(packets) :
          k < l => packets[k].start + packets[k].size <= packets[l].start

\* The bytes between the cursors are the last that arrived.
BufferInv ==
    \A i \in Cells : readPos <= i /\ i < writePos => buffer[i] = arrived - (writePos - i)

\* The loop stands at the start of the next packet.
PositionInv ==
    /\ Len(delivered) <= Len(packets)
    /\ arrived - DataSize + processLen = StartOf(Len(delivered) + 1)

\* When the loop ends less than a packet is left, and Clean makes room.
LoopInv ==
    /\ pc \in {"recv", "clean"} => processLen = 0 /\ DataSize < CompactBelow
    /\ pc = "read" => DataSize - processLen < CompactBelow
    /\ pc = "recv" => FreeSize >= CompactBelow

Inv ==
    /\ TypeOK /\ StreamInv /\ BufferInv /\ PositionInv /\ LoopInv
    /\ PacketsIntact /\ NeverOverlaps /\ PeerKept

USE CapacityAssumption, SizesAssumption, MaxAssumption

-----------------------------------------------------------------------------
\* A function on 1..n is a sequence of length n.
LEMMA Sequence ==
    ASSUME NEW S, NEW n \in Nat, NEW f \in [1..n -> S]
    PROVE  f \in Seq(S) /\ Len(f) = n
BY SeqDef, LenProperties

LEMMA PacketTypes ==
    ASSUME TypeOK
    PROVE  /\ Len(packets) \in Nat
           /\ \A k \in 1..Len(packets) : /\ packets[k].start \in Nat
                                        /\ packets[k].size \in Sizes /\ packets[k].size \in Nat
           /\ Sent = StartOf(Len(packets) + 1) /\ Sent \in Nat
PROOF
  <1>1. packets \in Seq([start : Nat, size : Sizes])
    BY DEF TypeOK
  <1>2. Len(packets) \in Nat
    BY <1>1, LenProperties
  <1>3. \A k \in 1..Len(packets) : packets[k] \in [start : Nat, size : Sizes]
    BY <1>1, ElementOfSeq
  <1>4. \A k \in 1..Len(packets) : packets[k].start \in Nat /\ packets[k].size \in Sizes
                                 /\ packets[k].size \in Nat
    BY <1>3
  <1>5. Sent = StartOf(Len(packets) + 1) /\ Sent \in Nat
    <2>1. packets = <<>> <=> Len(packets) = 0
      BY <1>1, EmptySeq
    <2>2. CASE Len(packets) = 0
      BY <2>1, <2>2 DEF Sent, StartOf
    <2>3. CASE Len(packets) # 0
      BY <2>1, <2>3, <1>2, <1>4 DEF Sent, StartOf
    <2> QED BY <2>2, <2>3
  <1> QED BY <1>2, <1>4, <1>5

\* The header at the loop's position is the next packet's, and no other's.
LEMMA NextHeader ==
    ASSUME Inv, pc = "frame", DataSize - processLen >= HeaderSize,
           NEW n \in SizesAt(readPos + processLen)
    PROVE  /\ Len(delivered) + 1 \in 1..Len(packets)
           /\ n = packets[Len(delivered) + 1].size
           /\ packets[Len(delivered) + 1].start = arrived - DataSize + processLen
PROOF
  <1> DEFINE k == Len(delivered) + 1
             at == readPos + processLen
             own == {h \in 1..Len(packets) :
                       \A j \in 0..(HeaderSize - 1) : buffer[at + j] = packets[h].start + j}
  <1>0. /\ Len(delivered) \in Nat /\ Len(packets) \in Nat
        /\ arrived \in Nat /\ arrived <= Sent /\ processLen \in Nat
        /\ readPos \in Nat /\ writePos \in Nat /\ writePos <= Capacity /\ DataSize \in Nat
    BY DEF Inv, TypeOK, DataSize
  <1>1. StartOf(k) + HeaderSize <= arrived
    BY <1>0 DEF Inv, PositionInv
  <1>2. Len(packets) # 0 => Sent = StartOf(Len(packets) + 1)
    BY PacketTypes DEF Inv
  <1>3. k \in 1..Len(packets)
    <2>1. CASE Len(packets) = 0
      <3>1. Sent = 0
        BY <2>1 DEF Inv, TypeOK, Sent
      <3> QED BY <3>1, <2>1, <1>0, <1>1 DEF Inv, PositionInv, StartOf
    <2>2. CASE Len(packets) # 0 /\ k = Len(packets) + 1
      BY <2>2, <1>0, <1>1, <1>2 DEF Inv, PositionInv
    <2> QED BY <2>1, <2>2, <1>0 DEF Inv, PositionInv
  <1>4. packets[k].start = arrived - DataSize + processLen
    BY <1>3 DEF Inv, StreamInv, PositionInv
  <1>5. \A h \in 1..Len(packets) : packets[h].start \in Nat /\ packets[h].size \in Sizes
    BY PacketTypes DEF Inv
  <1>6. k \in own
    <2>1. \A j \in 0..(HeaderSize - 1) : buffer[at + j] = packets[k].start + j
      <3> SUFFICES ASSUME NEW j \in 0..(HeaderSize - 1)
                   PROVE  buffer[at + j] = packets[k].start + j
        OBVIOUS
      <3>1. at + j \in Cells /\ readPos <= at + j /\ at + j < writePos
        BY <1>0 DEF Cells, DataSize
      <3>2. buffer[at + j] = arrived - (writePos - (at + j))
        BY <3>1 DEF Inv, BufferInv
      <3> QED BY <3>2, <1>4, <1>0 DEF DataSize
    <2> QED BY <2>1, <1>3
  <1>7. \A h \in own : h = k
    <2> SUFFICES ASSUME NEW h \in own PROVE h = k
      OBVIOUS
    <2>1. packets[h].start = packets[k].start
      <3>1. buffer[at + 0] = packets[h].start + 0 /\ buffer[at + 0] = packets[k].start + 0
        BY <1>6
      <3> QED BY <3>1, <1>3, <1>5
    <2>2. ~(h < k) /\ ~(k < h)
      BY <2>1, <1>3, <1>5 DEF Inv, StreamInv
    <2> QED BY <2>2, <1>3
  <1>8. n = packets[k].size
    <2>1. n \in {packets[h].size : h \in own}
      BY <1>6 DEF SizesAt
    <2> QED BY <2>1, <1>7
  <1> QED BY <1>3, <1>4, <1>8

-----------------------------------------------------------------------------
LEMMA InvInit == ASSUME Roomy, Init PROVE Inv
PROOF
  <1>1. TypeOK
    <2>1. packets \in Seq([start : Nat, size : Sizes]) /\ delivered \in Seq(Seq(Nat \cup {-1}))
      BY DEF Init
    <2>2. Sent = 0 /\ DataSize = 0
      BY DEF Init, Sent, DataSize
    <2>3. buffer \in [Cells -> Nat \cup {-1}]
      BY DEF Init
    <2>4. overlapped \in BOOLEAN
      BY DEF Init
    <2> QED BY <2>1, <2>2, <2>3, <2>4 DEF Init, TypeOK
  <1>2. StreamInv /\ BufferInv /\ PositionInv /\ PacketsIntact
    BY DEF Init, StreamInv, BufferInv, PositionInv, PacketsIntact, StartOf, DataSize, Cells
  <1> QED BY <1>1, <1>2 DEF Init, Inv, LoopInv, NeverOverlaps, PeerKept, DataSize, FreeSize, Roomy

LEMMA PeerSendsStep ==
    ASSUME Roomy, Inv, NEW n \in Sizes, PeerSends(n) PROVE Inv'
PROOF
  <1> USE DEF PeerSends
  <1> DEFINE new == [start |-> Sent, size |-> n]
  <1>0. /\ Len(packets) \in Nat /\ n \in Nat
        /\ \A k \in 1..Len(packets) : packets[k].start \in Nat /\ packets[k].size \in Nat
        /\ Sent = StartOf(Len(packets) + 1) /\ Sent \in Nat
    BY PacketTypes DEF Inv
  <1>1. /\ packets' \in Seq([start : Nat, size : Sizes]) /\ Len(packets') = Len(packets) + 1
        /\ packets'[Len(packets) + 1] = new
        /\ \A k \in 1..Len(packets) : packets'[k] = packets[k]
    BY <1>0 DEF Inv, TypeOK
  <1>2. \A k \in 1..Len(packets) + 1 : StartOf(k)' = StartOf(k)
    BY <1>1, <1>0 DEF StartOf
  <1>3. Sent' = Sent + n /\ Sent <= Sent'
    BY <1>0, <1>1 DEF Sent
  <1>4. TypeOK'
    BY <1>0, <1>1, <1>3 DEF Inv, TypeOK, DataSize
  <1>5. StreamInv'
    <2>1. \A k \in 1..Len(packets') : packets'[k].start = StartOf(k)'
      BY <1>0, <1>1, <1>2 DEF Inv, StreamInv
    <2>2. \A k \in 1..Len(packets) : packets[k].start + packets[k].size <= Sent
      <3> SUFFICES ASSUME NEW k \in 1..Len(packets)
                   PROVE  packets[k].start + packets[k].size <= Sent
        OBVIOUS
      <3>1. CASE k = Len(packets)
        BY <3>1, <1>0 DEF StartOf
      <3>2. CASE k < Len(packets)
        <4>1. packets[k].start + packets[k].size <= packets[Len(packets)].start
          BY <3>2, <1>0 DEF Inv, StreamInv
        <4>2. Sent = packets[Len(packets)].start + packets[Len(packets)].size
          BY <3>2, <1>0 DEF StartOf
        <4>3. /\ packets[Len(packets)].start \in Nat /\ packets[Len(packets)].size \in Nat
              /\ packets[k].start \in Nat /\ packets[k].size \in Nat
          BY <3>2, <1>0
        <4> QED BY ONLY <4>1, <4>2, <4>3
      <3> QED BY ONLY <3>1, <3>2, <1>0
    <2>3. \A k, l \in 1..Len(packets') :
            k < l => packets'[k].start + packets'[k].size <= packets'[l].start
      <3> SUFFICES ASSUME NEW k \in 1..Len(packets'), NEW l \in 1..Len(packets'), k < l
                   PROVE  packets'[k].start + packets'[k].size <= packets'[l].start
        OBVIOUS
      <3>1. k \in 1..Len(packets) /\ packets'[k] = packets[k]
        BY <1>0, <1>1
      <3>2. CASE l = Len(packets) + 1
        BY <3>1, <3>2, <2>2, <1>1
      <3>3. CASE l \in 1..Len(packets)
        BY <3>1, <3>3, <1>1 DEF Inv, StreamInv
      <3>4. l = Len(packets) + 1 \/ l \in 1..Len(packets)
        <4>1. l \in 1..(Len(packets) + 1)
          BY ONLY <1>1, l \in 1..Len(packets')
        <4> QED BY ONLY <4>1, <1>0
      <3> QED BY <3>2, <3>3, <3>4
    <2> QED BY <2>1, <2>3 DEF StreamInv
  <1>6. BufferInv' /\ LoopInv' /\ NeverOverlaps' /\ PeerKept'
    BY DEF Inv, BufferInv, LoopInv, NeverOverlaps, PeerKept, DataSize, FreeSize
  <1>7. PositionInv'
    BY <1>0, <1>1, <1>2 DEF Inv, PositionInv, DataSize, TypeOK
  <1>8. PacketsIntact'
    <2>1. \A k \in 1..Len(delivered) : k \in 1..Len(packets)
      <3>1. Len(delivered) \in Nat
        BY LenProperties DEF Inv, TypeOK
      <3>2. Len(delivered) <= Len(packets)
        BY DEF Inv, PositionInv
      <3> QED BY <3>1, <3>2, <1>0
    <2> SUFFICES ASSUME NEW k \in 1..Len(delivered)
                 PROVE  /\ k <= Len(packets')
                        /\ delivered[k] = [j \in 1..packets'[k].size |-> packets'[k].start + j - 1]
      BY DEF PacketsIntact
    <2>2. k \in 1..Len(packets) /\ packets'[k] = packets[k]
      BY <2>1, <1>1
    <2>3. delivered[k] = [j \in 1..packets[k].size |-> packets[k].start + j - 1]
      BY DEF Inv, PacketsIntact
    <2>4. k <= Len(packets')
      BY <2>2, <1>0, <1>1
    <2> QED BY ONLY <2>2, <2>3, <2>4
  <1> QED BY <1>4, <1>5, <1>6, <1>7, <1>8 DEF Inv

LEMMA ReceiveStep ==
    ASSUME Roomy, Inv, NEW n \in 0..Capacity, Receive(n) PROVE Inv'
PROOF
  <1> USE DEF Receive
  <1>0. /\ ReceiveAt = writePos /\ ReceiveLen = FreeSize /\ FreeSize > 0
        /\ n \in Nat /\ n # 0 /\ n <= FreeSize
        /\ arrived \in Nat /\ readPos \in Nat /\ writePos \in Nat /\ readPos <= writePos
    BY DEF Roomy, ReceiveAt, ReceiveLen, Inv, LoopInv, TypeOK, FreeSize
  <1>1. writePos' = writePos + n /\ pc' = "frame" /\ arrived' = arrived + n
    BY <1>0
  <1>2. Sent' = Sent /\ arrived' <= Sent
    <2>1. Sent' = Sent
      BY DEF Sent
    <2>2. Sent \in Nat
      BY PacketTypes DEF Inv
    <2> QED BY <2>1, <2>2, <1>0, <1>1
  <1>3. DataSize' = DataSize + n /\ DataSize \in Nat /\ writePos + n <= Capacity
    BY <1>0, <1>1 DEF DataSize, FreeSize
  <1>4. buffer' \in [Cells -> Nat \cup {-1}]
    BY <1>0 DEF Inv, TypeOK, Cells
  <1>5. TypeOK'
    BY <1>0, <1>1, <1>2, <1>3, <1>4 DEF Inv, TypeOK
  <1>6. StreamInv' /\ PositionInv' /\ PacketsIntact'
    <2>1. StartOf(Len(delivered) + 1)' = StartOf(Len(delivered) + 1)
      BY DEF StartOf
    <2>2. arrived' - DataSize' + processLen' = arrived - DataSize + processLen
      BY <1>0, <1>1, <1>3 DEF Inv, TypeOK
    <2> QED BY <2>1, <2>2 DEF Inv, StreamInv, StartOf, PositionInv, PacketsIntact
  <1>7. BufferInv'
    BY <1>0, <1>1 DEF Inv, BufferInv, Cells, TypeOK
  <1>8. LoopInv' /\ NeverOverlaps' /\ PeerKept'
    BY <1>1 DEF Inv, LoopInv, NeverOverlaps, PeerKept
  <1> QED BY <1>5, <1>6, <1>7, <1>8 DEF Inv

LEMMA FrameStep ==
    ASSUME Roomy, Inv, Frame PROVE Inv'
PROOF
  <1> USE DEF Frame
  <1>0. PICK n \in SizesAt(readPos + processLen) :
          IF Complete(n)
          THEN /\ delivered' = Append(delivered, BytesAt(readPos + processLen, n))
               /\ processLen' = processLen + n
               /\ pc' = "frame"
          ELSE /\ pc' = "read"
               /\ UNCHANGED <<delivered, processLen>>
    OBVIOUS
  <1> DEFINE k == Len(delivered) + 1
             at == readPos + processLen
  <1>1. /\ k \in 1..Len(packets) /\ n = packets[k].size
        /\ packets[k].start = arrived - DataSize + processLen
    BY <1>0, NextHeader
  <1>2. /\ n \in Sizes /\ n \in Nat /\ n <= CompactBelow
        /\ arrived \in Nat /\ readPos \in Nat /\ writePos \in Nat /\ readPos <= writePos
        /\ writePos <= Capacity /\ processLen \in Nat /\ processLen <= DataSize
        /\ DataSize = writePos - readPos /\ Len(delivered) \in Nat /\ Len(packets) \in Nat
    <2>1. n \in Sizes /\ n \in Nat /\ Len(packets) \in Nat
      BY <1>1, PacketTypes DEF Inv
    <2>2. Len(delivered) \in Nat
      BY LenProperties DEF Inv, TypeOK
    <2> QED BY <2>1, <2>2 DEF Inv, TypeOK, Roomy, DataSize
  <1>3. /\ DataSize' = DataSize /\ FreeSize' = FreeSize /\ Sent' = Sent
        /\ StreamInv' /\ BufferInv' /\ NeverOverlaps'
    BY DEF DataSize, FreeSize, Sent, StreamInv, StartOf, BufferInv, NeverOverlaps, Inv
  <1>4. CASE ~Complete(n)
    <2>1. pc' = "read" /\ delivered' = delivered /\ processLen' = processLen
      BY <1>0, <1>4
    <2>2. TypeOK' /\ PositionInv' /\ PacketsIntact'
      BY <2>1, <1>3 DEF Inv, TypeOK, PositionInv, PacketsIntact, StartOf
    <2>3. DataSize - processLen < CompactBelow
      BY <1>4, <1>2 DEF Complete
    <2>4. LoopInv' /\ PeerKept'
      BY <2>1, <2>3, <1>3 DEF LoopInv, PeerKept
    <2> QED BY <2>2, <2>4, <1>3 DEF Inv
  <1>5. CASE Complete(n)
    <2> DEFINE bytes == BytesAt(at, n)
    <2>1. pc' = "frame" /\ delivered' = Append(delivered, bytes) /\ processLen' = processLen + n
      BY <1>0, <1>5
    <2>2. \A j \in 1..n : at + j - 1 \in Cells /\ buffer[at + j - 1] \in Nat \cup {-1}
                          /\ buffer[at + j - 1] = packets[k].start + j - 1
      <3> SUFFICES ASSUME NEW j \in 1..n
                   PROVE  at + j - 1 \in Cells /\ buffer[at + j - 1] \in Nat \cup {-1}
                          /\ buffer[at + j - 1] = packets[k].start + j - 1
        OBVIOUS
      <3>1. at + j - 1 \in Cells /\ readPos <= at + j - 1 /\ at + j - 1 < writePos
        BY <1>2, <1>5 DEF Cells, Complete
      <3>2. buffer[at + j - 1] = arrived - (writePos - (at + j - 1))
        BY <3>1 DEF Inv, BufferInv
      <3>3. buffer[at + j - 1] \in Nat \cup {-1}
        BY <3>1 DEF Inv, TypeOK
      <3> QED BY <3>1, <3>2, <3>3, <1>1, <1>2
    <2>3. bytes = [j \in 1..n |-> packets[k].start + j - 1]
      BY <2>2 DEF BytesAt
    <2>4. bytes \in Seq(Nat \cup {-1})
      <3>1. bytes \in [1..n -> Nat \cup {-1}]
        BY <2>2 DEF BytesAt
      <3> HIDE DEF bytes
      <3> QED BY <3>1, <1>2, Sequence
    <2> HIDE DEF bytes
    <2>5. /\ delivered' \in Seq(Seq(Nat \cup {-1})) /\ Len(delivered') = k
          /\ delivered'[k] = bytes
          /\ \A h \in 1..Len(delivered) : delivered'[h] = delivered[h]
      BY <2>1, <2>4, <1>2 DEF Inv, TypeOK
    <2>6. TypeOK'
      BY <2>1, <2>5, <1>2, <1>3, <1>5 DEF Inv, TypeOK, Complete
    <2>7. PositionInv'
      <3>1. StartOf(Len(delivered) + 1)' = packets[k].start + packets[k].size
        <4>1. packets' = packets /\ Len(delivered') + 1 = k + 1 /\ k + 1 # 1 /\ (k + 1) - 1 = k
          BY <2>5, <1>2
        <4> QED BY ONLY <4>1 DEF StartOf
      <3>2. packets[k].start + packets[k].size = arrived - DataSize + (processLen + n)
        BY ONLY <1>1, <1>2
      <3>3. arrived' = arrived /\ DataSize' = DataSize /\ processLen' = processLen + n
        BY <2>1, <1>3
      <3>4. Len(delivered') <= Len(packets')
        BY <2>5, <1>1, <1>2
      <3> QED BY ONLY <3>1, <3>2, <3>3, <3>4 DEF PositionInv
    <2>8. PacketsIntact'
      <3> SUFFICES ASSUME NEW h \in 1..Len(delivered')
                   PROVE  /\ h <= Len(packets)
                          /\ delivered'[h] = [j \in 1..packets[h].size |->
                                                packets[h].start + j - 1]
        BY DEF PacketsIntact
      <3>1. CASE h = k
        BY <3>1, <2>3, <2>5, <1>1
      <3>2. CASE h \in 1..Len(delivered)
        BY <3>2, <2>5 DEF Inv, PacketsIntact
      <3>3. h = k \/ h \in 1..Len(delivered)
        BY <2>5, <1>2
      <3> QED BY <3>1, <3>2, <3>3
    <2>9. LoopInv' /\ PeerKept'
      BY <2>1 DEF LoopInv, PeerKept
    <2> QED BY <2>6, <2>7, <2>8, <2>9, <1>3 DEF Inv
  <1> QED BY <1>4, <1>5

\* The steps that neither receive nor hand on leave the packets alone.
LEMMA QuietStep ==
    ASSUME Roomy, Inv, NoHeader \/ OnRead \/ Finished PROVE Inv'
PROOF
  <1>0. /\ arrived \in Nat /\ readPos \in Nat /\ writePos \in Nat /\ readPos <= writePos
        /\ writePos <= Capacity /\ processLen \in Nat /\ processLen <= DataSize
        /\ DataSize = writePos - readPos
    BY DEF Inv, TypeOK, DataSize
  <1>1. /\ Sent' = Sent /\ UNCHANGED <<packets, arrived, buffer, writePos, delivered>>
        /\ StreamInv' /\ PacketsIntact' /\ NeverOverlaps'
    BY DEF NoHeader, OnRead, Finished, vars, Sent, StreamInv, StartOf, PacketsIntact,
           NeverOverlaps, Inv
  <1>2. CASE NoHeader
    BY <1>0, <1>1, <1>2 DEF NoHeader, Inv, TypeOK, BufferInv, PositionInv, StartOf, LoopInv,
           PeerKept, DataSize, FreeSize, Roomy
  <1>3. CASE OnRead
    <2>1. readPos' = readPos + processLen /\ pc' = "clean" /\ processLen' = 0
      BY <1>3, <1>0 DEF OnRead
    <2>2. DataSize' = DataSize - processLen /\ DataSize' \in Nat
      BY <2>1, <1>0, <1>1 DEF DataSize
    <2>3. TypeOK'
      BY <2>1, <2>2, <1>0, <1>1, <1>3 DEF Inv, TypeOK, OnRead
    <2>4. BufferInv'
      BY <2>1, <1>0, <1>1 DEF Inv, BufferInv, Cells
    <2>5. PositionInv'
      BY <2>1, <2>2, <1>0, <1>1 DEF Inv, PositionInv, StartOf
    <2>6. LoopInv' /\ PeerKept'
      BY <2>1, <2>2, <1>3 DEF Inv, LoopInv, PeerKept, OnRead
    <2> QED BY <2>3, <2>4, <2>5, <2>6, <1>1 DEF Inv
  <1>4. CASE Finished
    BY <1>1, <1>4 DEF Finished, vars, Inv, TypeOK, BufferInv, PositionInv, StartOf, LoopInv,
           PeerKept, DataSize, FreeSize
  <1> QED BY <1>2, <1>3, <1>4

LEMMA CleanStep ==
    ASSUME Roomy, Inv, Clean PROVE Inv'
PROOF
  <1> USE DEF Clean
  <1>0. /\ arrived \in Nat /\ readPos \in Nat /\ writePos \in Nat /\ readPos <= writePos
        /\ writePos <= Capacity /\ processLen = 0 /\ DataSize = writePos - readPos
        /\ DataSize \in Nat /\ DataSize < CompactBelow /\ pc' = "recv" /\ processLen' = 0
    BY DEF Inv, TypeOK, LoopInv, DataSize
  <1>1. /\ Sent' = Sent /\ StreamInv' /\ PacketsIntact' /\ PeerKept'
        /\ StartOf(Len(delivered) + 1)' = StartOf(Len(delivered) + 1)
    BY DEF Sent, StreamInv, StartOf, PacketsIntact, PeerKept, Inv
  <1>2. DataSize' = DataSize
    BY <1>0 DEF DataSize, Compact
  <1>3. PositionInv'
    BY <1>0, <1>1, <1>2 DEF Inv, PositionInv
  <1>4. CASE DataSize = 0
    <2>1. readPos' = 0 /\ writePos' = 0 /\ UNCHANGED <<buffer, overlapped>>
      BY <1>4
    <2> QED BY <2>1, <1>0, <1>1, <1>2, <1>3, <1>4 DEF Inv, TypeOK, BufferInv, LoopInv, NeverOverlaps,
                FreeSize, Roomy, DataSize
  <1>5. CASE DataSize # 0 /\ MustCompact
    <2>1. Compact
      BY <1>5
    <2>2. readPos >= DataSize
      BY <1>5, <1>0 DEF MustCompact, FreeSize, Roomy
    <2>3. buffer' \in [Cells -> Nat \cup {-1}]
      BY <2>1, <1>0 DEF Compact, Moved, Inv, TypeOK, Cells
    <2>4. BufferInv'
      <3> SUFFICES ASSUME NEW i \in Cells, i < DataSize
                   PROVE  buffer'[i] = arrived' - (writePos' - i)
        BY <2>1 DEF Compact, BufferInv
      <3>1. buffer'[i] = buffer[readPos + i]
        BY <2>1 DEF Compact, Moved
      <3>2. readPos + i \in Cells /\ readPos <= readPos + i /\ readPos + i < writePos
        BY <1>0 DEF Cells
      <3>3. buffer[readPos + i] = arrived - (writePos - (readPos + i))
        BY <3>2 DEF Inv, BufferInv
      <3> QED BY <3>1, <3>3, <2>1, <1>0, <1>1 DEF Compact, Cells
    <2>5. NeverOverlaps' /\ overlapped' \in BOOLEAN
      <3>1. ~(readPos < DataSize) /\ overlapped = FALSE
        BY <2>2, <1>0 DEF Inv, NeverOverlaps, TypeOK
      <3>2. overlapped' = (overlapped \/ readPos < DataSize)
        BY <2>1 DEF Compact
      <3>3. overlapped' = FALSE
        BY ONLY <3>1, <3>2, Zenon
      <3> QED BY ONLY <3>3 DEF NeverOverlaps
    <2>6. TypeOK'
      BY <2>1, <2>3, <2>5, <1>0, <1>1, <1>2 DEF Compact, Inv, TypeOK
    <2>7. LoopInv'
      BY <2>1, <1>0, <1>2 DEF Compact, LoopInv, FreeSize, Roomy
    <2> QED BY <2>4, <2>5, <2>6, <2>7, <1>1, <1>3 DEF Inv
  <1>6. CASE DataSize # 0 /\ ~MustCompact
    <2>1. UNCHANGED <<buffer, readPos, writePos, overlapped>>
      BY <1>6
    <2> QED BY <2>1, <1>0, <1>1, <1>2, <1>3, <1>6 DEF Inv, TypeOK, BufferInv, LoopInv, NeverOverlaps,
                FreeSize, MustCompact, DataSize
  <1> QED BY <1>4, <1>5, <1>6

LEMMA InvNext ==
    ASSUME Roomy, Inv, [Next]_vars PROVE Inv'
PROOF
  <1>1. ASSUME NEW n \in Sizes, PeerSends(n) PROVE Inv'
    BY <1>1, PeerSendsStep
  <1>2. CASE Receives
    BY <1>2, ReceiveStep DEF Receives
  <1>3. CASE Frame
    BY <1>3, FrameStep
  <1>4. CASE NoHeader \/ OnRead \/ Finished
    BY <1>4, QuietStep
  <1>5. CASE Clean
    BY <1>5, CleanStep
  <1>6. CASE UNCHANGED vars
    BY <1>6 DEF vars, Inv, TypeOK, StreamInv, StartOf, BufferInv, PositionInv, LoopInv, PacketsIntact,
        NeverOverlaps, PeerKept, DataSize, FreeSize, Sent
  <1> QED BY <1>1, <1>2, <1>3, <1>4, <1>5, <1>6 DEF Next

LEMMA Invariance == ASSUME Roomy PROVE Spec => []Inv
PROOF
  <1>1. Init => Inv
    BY InvInit
  <1>2. Inv /\ [Next]_vars => Inv'
    BY InvNext
  <1> QED BY <1>1, <1>2, PTL DEF Spec

-----------------------------------------------------------------------------
\* OnRecvPacket is given the peer's packets, whole, in order and once, for any
\* sizes and any way the network cuts the stream into receives.
THEOREM PacketsAreIntact == ASSUME Roomy PROVE Spec => []PacketsIntact
PROOF
  <1>1. Inv => PacketsIntact
    BY DEF Inv
  <1> QED BY <1>1, Invariance, PTL

\* RecvBuffer::Clean copies between ranges that do not overlap.
THEOREM CompactionNeverOverlaps == ASSUME Roomy PROVE Spec => []NeverOverlaps
PROOF
  <1>1. Inv => NeverOverlaps
    BY DEF Inv
  <1> QED BY <1>1, Invariance, PTL

\* No cursor is refused and a receive always has room, so that a peer that sends
\* packets the buffer can hold is never disconnected.
THEOREM PeerIsKept == ASSUME Roomy PROVE Spec => []PeerKept
PROOF
  <1>1. Inv => PeerKept
    BY DEF Inv
  <1> QED BY <1>1, Invariance, PTL

\* The cursors stay in order and inside the buffer.
THEOREM TypeCorrect == ASSUME Roomy PROVE Spec => []TypeOK
PROOF
  <1>1. Inv => TypeOK
    BY DEF Inv
  <1> QED BY <1>1, Invariance, PTL
=============================================================================
