----------------------------- MODULE PacketStream -----------------------------
(* Receiving packets from a byte stream: the cursors of RecvBuffer, its       *)
(* compaction, and the loop of PacketSession::OnRecv that cuts the bytes into *)
(* packets.  TCP delivers the bytes of the peer in order and in pieces of any *)
(* size.  A byte is represented by its position in the stream, so a packet    *)
(* that was put together wrongly differs from every packet sent.              *)
(*                                                                            *)
(* The receive path of one session is used by one thread at a time            *)
(* (Session!ReceiveExclusive), so it is a sequential process here.            *)
(* CSDummyClient's Network/RecvBuffer.cs and Session.cs are the same program  *)
(* with other constants.                                                      *)
EXTENDS Integers, Sequences

CONSTANTS
    Sizes,                 \* sizes of the packets peers send, header included
    HeaderSize,            \* sizeof(PacketHeader)
    Capacity,              \* _capacity
    CompactBelow,          \* Clean moves the data when FreeSize is below this
    AtStart,               \* does a receive write at the start of the array?
    MaxPackets             \* BOUND: packets the peer sends

ASSUME CapacityAssumption == Capacity \in Nat /\ CompactBelow \in Nat /\ HeaderSize \in Nat \ {0}
ASSUME SizesAssumption == \A n \in Sizes : n \in HeaderSize..Capacity
ASSUME MaxAssumption == MaxPackets \in Nat /\ AtStart \in BOOLEAN

VARIABLES
    packets,               \* what the peer has sent: [start, size] of each packet
    arrived,               \* bytes of the stream received so far
    buffer,                \* _buffer: position in the stream of each byte, or -1
    readPos, writePos,     \* the cursors
    processLen,            \* OnRecv's local
    pc,                    \* "recv", "frame", "read", "clean", or "closed"
    delivered,             \* history: the bytes of each call of OnRecvPacket
    overlapped             \* history: memcpy was given overlapping ranges

vars == <<packets, arrived, buffer, readPos, writePos, processLen, pc, delivered, overlapped>>

Cells == 0..(Capacity - 1)

DataSize == writePos - readPos
FreeSize == Capacity - writePos

\* The bytes of the stream the peer has sent.
Sent == IF packets = <<>> THEN 0
        ELSE packets[Len(packets)].start + packets[Len(packets)].size

Init ==
    /\ packets = <<>> /\ arrived = 0
    /\ buffer = [i \in Cells |-> -1]
    /\ readPos = 0 /\ writePos = 0 /\ processLen = 0
    /\ pc = "recv" /\ delivered = <<>> /\ overlapped = FALSE

\* The peer's Send of one packet.
PeerSends(n) ==
    /\ Len(packets) < MaxPackets
    /\ packets' = Append(packets, [start |-> Sent, size |-> n])
    /\ UNCHANGED <<arrived, buffer, readPos, writePos, processLen, pc, delivered, overlapped>>

-----------------------------------------------------------------------------
\* The array handed to WSARecv starts at the write cursor, ReceiveAsync's at 0.
ReceiveAt == IF AtStart THEN 0 ELSE writePos
ReceiveLen == IF AtStart THEN Capacity ELSE FreeSize

\* RegisterRecv and its completion.  An empty array completes with no bytes,
\* which ProcessRecv takes for a lost peer; OnWrite refuses what does not fit.
Receive(n) ==
    /\ pc = "recv"
    /\ n <= ReceiveLen /\ n <= Sent - arrived
    /\ n = 0 => ReceiveLen = 0
    /\ buffer' = [i \in Cells |-> IF ReceiveAt <= i /\ i < ReceiveAt + n
                                  THEN arrived + (i - ReceiveAt) ELSE buffer[i]]
    /\ arrived' = arrived + n
    /\ IF n # 0 /\ n <= FreeSize
       THEN writePos' = writePos + n /\ pc' = "frame"
       ELSE pc' = "closed" /\ UNCHANGED writePos
    /\ UNCHANGED <<packets, readPos, processLen, delivered, overlapped>>

\* What the size field of the header at i holds: the packet's size when the
\* header is a packet's own, some size when it was put together wrongly.
SizesAt(i) ==
    LET own == {k \in 1..Len(packets) :
                  \A j \in 0..(HeaderSize - 1) : buffer[i + j] = packets[k].start + j} IN
    IF own = {} THEN Sizes ELSE {packets[k].size : k \in own}

BytesAt(i, n) == [j \in 1..n |-> buffer[i + j - 1]]

\* MUTANT: a packet has to be followed by more.
Followed(n) == DataSize - processLen > n

Complete(n) == DataSize - processLen >= n

\* One turn of OnRecv's loop.
Frame ==
    /\ pc = "frame"
    /\ DataSize - processLen >= HeaderSize
    /\ \E n \in SizesAt(readPos + processLen) :
          IF Complete(n)
          THEN /\ delivered' = Append(delivered, BytesAt(readPos + processLen, n))
               /\ processLen' = processLen + n
               /\ pc' = "frame"
          ELSE /\ pc' = "read"
               /\ UNCHANGED <<delivered, processLen>>
    /\ UNCHANGED <<packets, arrived, buffer, readPos, writePos, overlapped>>

NoHeader ==
    /\ pc = "frame"
    /\ DataSize - processLen < HeaderSize
    /\ pc' = "read"
    /\ UNCHANGED <<packets, arrived, buffer, readPos, writePos, processLen, delivered, overlapped>>

\* OnRead, which refuses more than there is.
OnRead ==
    /\ pc = "read"
    /\ IF processLen <= DataSize
       THEN readPos' = readPos + processLen /\ pc' = "clean"
       ELSE pc' = "closed" /\ UNCHANGED readPos
    /\ processLen' = 0
    /\ UNCHANGED <<packets, arrived, buffer, writePos, delivered, overlapped>>

-----------------------------------------------------------------------------
\* MUTANT: the data is moved whenever there is some.
Always == TRUE

\* MUTANT: the data is never moved.
Never == FALSE

MustCompact == FreeSize < CompactBelow

\* MUTANT: the cursors move and the bytes stay.
Unmoved == buffer

Moved == [i \in Cells |-> IF i < DataSize THEN buffer[readPos + i] ELSE buffer[i]]

\* memcpy; what it would do to ranges that overlap is only recorded.
Compact ==
    /\ buffer' = Moved
    /\ readPos' = 0 /\ writePos' = DataSize
    /\ overlapped' = (overlapped \/ readPos < DataSize)

Clean ==
    /\ pc = "clean"
    /\ pc' = "recv"
    /\ \/ /\ DataSize = 0
          /\ readPos' = 0 /\ writePos' = 0
          /\ UNCHANGED <<buffer, overlapped>>
       \/ /\ DataSize # 0 /\ MustCompact
          /\ Compact
       \/ /\ DataSize # 0 /\ ~MustCompact
          /\ UNCHANGED <<buffer, readPos, writePos, overlapped>>
    /\ UNCHANGED <<packets, arrived, processLen, delivered>>

-----------------------------------------------------------------------------
\* The peer is quiet, or was cut off.
Finished ==
    /\ Len(packets) = MaxPackets
    /\ pc = "closed" \/ (pc = "recv" /\ arrived = Sent)
    /\ UNCHANGED vars

Receives == \E n \in 0..Capacity : Receive(n)

Next ==
    \/ \E n \in Sizes : PeerSends(n)
    \/ Receives
    \/ Frame \/ NoHeader \/ OnRead \/ Clean
    \/ Finished

Spec == Init /\ [][Next]_vars

\* The network delivers what the peer sent, and the worker goes on.
FairSpec == Spec /\ WF_vars(Receives) /\ WF_vars(Frame \/ NoHeader \/ OnRead \/ Clean)

-----------------------------------------------------------------------------
(* Properties.                                                                *)

\* The types; the cursors stay in order and inside the buffer, and OnRecv never
\* reads past what has arrived.
TypeOK ==
    /\ packets \in Seq([start : Nat, size : Sizes])
    /\ arrived \in Nat /\ arrived <= Sent
    /\ buffer \in [Cells -> Nat \cup {-1}]
    /\ readPos \in 0..Capacity /\ writePos \in readPos..Capacity
    /\ processLen \in 0..DataSize
    /\ pc \in {"recv", "frame", "read", "clean", "closed"}
    /\ delivered \in Seq(Seq(Nat \cup {-1}))
    /\ overlapped \in BOOLEAN

\* OnRecvPacket is called with the packets the peer sent, whole, in order and
\* once, however the stream was cut into receives.
PacketsIntact ==
    \A k \in 1..Len(delivered) :
        /\ k <= Len(packets)
        /\ delivered[k] = [j \in 1..packets[k].size |-> packets[k].start + j - 1]

\* Clean's memcpy is never given ranges that overlap.
NeverOverlaps == ~overlapped

\* A peer that sends packets the buffer can hold is never cut off: no cursor is
\* refused, and a receive always has room.
PeerKept == pc # "closed"

\* Every packet sent is handed on in the end; no tail waits for more to come.
AllDelivered ==
    \A k \in 1..MaxPackets : Len(packets) >= k ~> Len(delivered) >= k
=============================================================================
