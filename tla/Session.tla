------------------------------- MODULE Session -------------------------------
(* One Session of ServerCore: its connection state, the overlapped receive    *)
(* that is always re-armed, and the send path in which any number of threads  *)
(* call Send while at most one WSASend may be outstanding.                    *)
(*                                                                            *)
(* Threads are the workers that loop on IocpCore::Dispatch.  An idle worker   *)
(* takes a completion (ConnectDone, RecvDone, SendDone) or runs the handler   *)
(* of some other session that calls Send on this one.  Each step is one       *)
(* access to the state the threads share; pc names the statement a thread is  *)
(* at.                                                                        *)
EXTENDS Naturals, Sequences

CONSTANTS
    Threads,               \* worker threads
    Msgs,                  \* buffers callers pass to Send, each once
    NoThread,              \* the session lock is free
    NoMsg,                 \* the thread is not inside Send
    MaxRecv                \* BOUND: receives that deliver data

ASSUME ThreadsAssumption == NoThread \notin Threads
ASSUME MsgsAssumption == NoMsg \notin Msgs
ASSUME MaxRecvAssumption == MaxRecv \in Nat

VARIABLES
    connected,             \* _connected
    socket,                \* "up", or "down": closed, or never connected
    inService,             \* the service's _sessions holds the session
    published,             \* OnConnected has run: others can find the session
    connectOps,            \* connect/accept completions not yet dispatched
    connectOwner,          \* _connectEvent.owner is set
    lock,                  \* owner of the session's WRITE_LOCK
    sendQueue,             \* _sendQueue
    sendRegistered,        \* _sendRegistered
    eventBufs,             \* _sendEvent.sendBuffers
    sendOwner,             \* _sendEvent.owner is set
    sendOps,               \* WSASends outstanding in the kernel
    inflight,              \* the buffers the outstanding WSASend reads
    recvOwner,             \* _recvEvent.owner is set
    recvOps,               \* WSARecvs outstanding in the kernel
    pc, home, ret, msg,    \* per thread: statement; the callback that called
                           \* Send; where Disconnect returns; the buffer sent
    toSend, recvsLeft,     \* BOUNDS: calls of Send and receives still to come
    wire,                  \* history: buffers the kernel took, in order
    sendFailed,            \* history: a WSASend failed
    recvFailed,            \* history: a WSARecv failed without disconnecting
    disconnects            \* history: times the body of Disconnect was entered

connVars == <<connected, socket, inService, published, connectOps, connectOwner>>
sendVars == <<sendQueue, sendRegistered, eventBufs, sendOwner, sendOps, inflight>>
recvVars == <<recvOwner, recvOps>>
callVars == <<home, ret, msg>>
boundVars == <<toSend, recvsLeft>>
histVars == <<wire, sendFailed, recvFailed, disconnects>>
vars == <<connVars, lock, sendVars, recvVars, pc, callVars, boundVars, histVars>>

\* Frames: the steps of one path leave the state of the others alone.
ConnectFrame == UNCHANGED <<lock, sendVars, recvVars, callVars, boundVars, histVars>>
RecvFrame == UNCHANGED <<connVars, lock, sendVars, msg, toSend, wire, sendFailed, disconnects>>
SendFrame == UNCHANGED <<connVars, recvVars, recvsLeft, recvFailed, disconnects>>
LockFrame == UNCHANGED <<connVars, recvVars, callVars, boundVars, histVars>>
TeardownFrame == UNCHANGED <<published, connectOps, connectOwner, lock, sendVars, recvVars,
                             callVars, boundVars, wire, sendFailed, recvFailed>>

-----------------------------------------------------------------------------
Homes == {"idle", "onConnected", "onRecv"}         \* Send was called from here
DisconnectReturns == {"idle", "rsClear", "rrClear"}
ConnectSteps == {"pcAdd", "pcOnConnected", "onConnected"}
RecvSteps == {"rrCheck", "rrWsa", "rrClear", "onRecv"}
RegisterSendSteps == {"rsCheck", "rsDrain", "rsWsa", "rsClear", "rsStore"}
DisconnectSteps == {"disc", "onDisc", "close", "release"}

Steps == {"idle", "sendPush", "sendExchange", "psLock", "psDecide", "psUnlock"}
         \cup ConnectSteps \cup RecvSteps \cup RegisterSendSteps \cup DisconnectSteps

Goto(t, step) == pc' = [pc EXCEPT ![t] = step]

Advance(t, from, to) == pc[t] = from /\ Goto(t, to)

\* The thread goes to step, or calls Session::Disconnect, which returns to back.
DisconnectIf(t, failed, back, step) ==
    /\ Goto(t, IF failed THEN "disc" ELSE step)
    /\ ret' = [ret EXCEPT ![t] = back]

\* HandleError disconnects on a reset and only logs every other error.
HandleError(t, reset, step) == DisconnectIf(t, reset, step, step)

\* RegisterSend returns: to ProcessSend, which still holds the lock, or to the
\* caller of Send.
RegisterSendReturn(t) == IF lock = t THEN "psUnlock" ELSE home[t]

\* One completion is on its way: of an accept, whose socket is connected, or of
\* RegisterConnect's ConnectEx, which may have failed and for which the session
\* has made itself the owner of its own _connectEvent.
Connecting ==
    /\ connected = FALSE /\ connectOps = 1
    /\ connectOwner \in BOOLEAN
    /\ socket \in (IF connectOwner THEN {"up", "down"} ELSE {"up"})

Init ==
    /\ Connecting
    /\ inService = FALSE /\ published = FALSE
    /\ lock = NoThread
    /\ sendQueue = <<>> /\ sendRegistered = FALSE
    /\ eventBufs = <<>> /\ sendOwner = FALSE /\ sendOps = 0 /\ inflight = <<>>
    /\ recvOwner = FALSE /\ recvOps = 0
    /\ pc = [t \in Threads |-> "idle"]
    /\ home = [t \in Threads |-> "idle"]
    /\ ret = [t \in Threads |-> "idle"]
    /\ msg = [t \in Threads |-> NoMsg]
    /\ toSend = Msgs /\ recvsLeft = MaxRecv
    /\ wire = <<>> /\ sendFailed = FALSE /\ recvFailed = FALSE /\ disconnects = 0

-----------------------------------------------------------------------------
(* Connection: Listener::ProcessAccept, or the completion of ConnectEx, calls *)
(* ProcessConnect, which never looks at how the connect ended and, unlike     *)
(* ProcessRecv and ProcessSend, does not clear its event's owner.             *)

ConnectDone(t) ==
    /\ Advance(t, "idle", "pcAdd")
    /\ connectOps > 0 /\ connectOps' = connectOps - 1
    /\ connected' = TRUE
    /\ UNCHANGED <<socket, inService, published, connectOwner>> /\ ConnectFrame

AddSession(t) ==
    /\ Advance(t, "pcAdd", "pcOnConnected")
    /\ inService' = TRUE
    /\ UNCHANGED <<connected, socket, published, connectOps, connectOwner>> /\ ConnectFrame

\* OnConnected enters the session in a session manager, then may call Send.
OnConnected(t) ==
    /\ Advance(t, "pcOnConnected", "onConnected")
    /\ published' = TRUE
    /\ UNCHANGED <<connected, socket, inService, connectOps, connectOwner>> /\ ConnectFrame

OnConnectedReturns(t) ==
    /\ Advance(t, "onConnected", "rrCheck")
    /\ home' = [home EXCEPT ![t] = "idle"]
    /\ UNCHANGED <<recvVars, ret, recvsLeft, recvFailed>> /\ RecvFrame

-----------------------------------------------------------------------------
(* Receiving: RegisterRecv and ProcessRecv.                                   *)

RegisterRecv(t) ==
    /\ Advance(t, "rrCheck", IF connected THEN "rrWsa" ELSE "idle")
    /\ recvOwner' = (recvOwner \/ connected)
    /\ UNCHANGED <<recvOps, home, ret, recvsLeft, recvFailed>> /\ RecvFrame

WSARecvPending(t) ==
    /\ Advance(t, "rrWsa", "idle")
    /\ socket = "up"
    /\ recvOps' = recvOps + 1
    /\ UNCHANGED <<recvOwner, home, ret, recvsLeft, recvFailed>> /\ RecvFrame

WSARecvError(t, reset) ==
    /\ pc[t] = "rrWsa"
    /\ reset => socket = "up"
    /\ recvFailed' = (recvFailed \/ ~reset)
    /\ HandleError(t, reset, "rrClear")
    /\ UNCHANGED <<recvVars, home, recvsLeft>> /\ RecvFrame

ClearRecvOwner(t) ==
    /\ Advance(t, "rrClear", "idle")
    /\ recvOwner' = FALSE
    /\ UNCHANGED <<recvOps, home, ret, recvsLeft, recvFailed>> /\ RecvFrame

\* MUTANT: the next receive is issued before the data was processed.
RearmFirst(t, bytes) ==
    /\ Advance(t, "idle", "onRecv")
    /\ recvOps > 0 /\ bytes > 0 /\ recvsLeft > 0
    /\ recvsLeft' = recvsLeft - 1
    /\ UNCHANGED <<recvVars, home, ret, recvFailed>> /\ RecvFrame

\* Up to OnRecv; a completion of no bytes means that the peer is gone.
RecvDone(t, bytes) ==
    /\ pc[t] = "idle"
    /\ recvOps > 0 /\ recvOps' = recvOps - 1
    /\ recvOwner' = FALSE
    /\ bytes <= recvsLeft /\ recvsLeft' = recvsLeft - bytes
    /\ DisconnectIf(t, bytes = 0, "idle", "onRecv")
    /\ UNCHANGED <<home, recvFailed>> /\ RecvFrame

\* MUTANT: refused data is dropped without disconnecting.
IgnoreRefused(t, accepted) ==
    /\ Advance(t, "onRecv", IF accepted THEN "rrCheck" ELSE "idle")
    /\ home' = [home EXCEPT ![t] = "idle"]
    /\ UNCHANGED <<recvVars, ret, recvsLeft, recvFailed>> /\ RecvFrame

\* The rest of ProcessRecv: OnWrite, OnRecv and OnRead may refuse the data.
OnRecvReturns(t, accepted) ==
    /\ pc[t] = "onRecv"
    /\ home' = [home EXCEPT ![t] = "idle"]
    /\ DisconnectIf(t, ~accepted, "idle", "rrCheck")
    /\ UNCHANGED <<recvVars, recvsLeft, recvFailed>> /\ RecvFrame

-----------------------------------------------------------------------------
(* Session::Send.                                                             *)

\* A caller that finds the session disconnected drops its buffer.
SendCall(t, m) ==
    /\ pc[t] \in Homes
    /\ published
    /\ m \in toSend /\ toSend' = toSend \ {m}
    /\ Goto(t, IF connected THEN "sendPush" ELSE pc[t])
    /\ home' = [home EXCEPT ![t] = pc[t]]
    /\ msg' = [msg EXCEPT ![t] = IF connected THEN m ELSE NoMsg]
    /\ UNCHANGED <<lock, sendVars, ret, wire, sendFailed>> /\ SendFrame

Enqueue(q, m) == Append(q, m)

SendPush(t) ==
    /\ Advance(t, "sendPush", "sendExchange")
    /\ lock = NoThread /\ lock' = t
    /\ sendQueue' = Enqueue(sendQueue, msg[t])
    /\ msg' = [msg EXCEPT ![t] = NoMsg]
    /\ UNCHANGED <<sendRegistered, eventBufs, sendOwner, sendOps, inflight, home, ret,
                   toSend, wire, sendFailed>> /\ SendFrame

\* MUTANT: every Send registers, whatever the exchange returned.
ExchangeIgnored == TRUE

ExchangeWasFalse == sendRegistered = FALSE

SendExchange(t) ==
    /\ Advance(t, "sendExchange", IF ExchangeWasFalse THEN "rsCheck" ELSE home[t])
    /\ sendRegistered' = TRUE
    /\ lock' = NoThread
    /\ UNCHANGED <<sendQueue, eventBufs, sendOwner, sendOps, inflight>> /\ LockFrame

-----------------------------------------------------------------------------
(* RegisterSend, called by Send without the lock and by ProcessSend with it.  *)

\* A session that is no longer connected returns with _sendRegistered still set.
RegisterSend(t) ==
    /\ Advance(t, "rsCheck", IF connected THEN "rsDrain" ELSE RegisterSendReturn(t))
    /\ sendOwner' = (sendOwner \/ connected)
    /\ UNCHANGED <<lock, sendQueue, sendRegistered, eventBufs, sendOps, inflight>> /\ LockFrame

\* MUTANT: the queue is gathered in front of what was gathered, last first.
GatherReversed(bufs, q) == [i \in 1..Len(q) |-> q[Len(q) + 1 - i]] \o bufs

Gather(bufs, q) == bufs \o q

\* The lock is recursive: ProcessSend's thread already holds it.
DrainQueue(t) ==
    /\ Advance(t, "rsDrain", "rsWsa")
    /\ lock \in {NoThread, t}
    /\ eventBufs' = Gather(eventBufs, sendQueue)
    /\ sendQueue' = <<>>
    /\ UNCHANGED <<lock, sendRegistered, sendOwner, sendOps, inflight>> /\ LockFrame

ReleaseSendEvent == sendOwner' = FALSE /\ eventBufs' = <<>>

\* MUTANT: the error branch's clean-up is done for a pending WSASend too.
DropSendEvent == ReleaseSendEvent

KeepSendEvent == UNCHANGED <<sendOwner, eventBufs>>

WSASendPending(t) ==
    /\ Advance(t, "rsWsa", RegisterSendReturn(t))
    /\ socket = "up"
    /\ sendOps' = sendOps + 1
    /\ inflight' = eventBufs
    /\ wire' = wire \o eventBufs
    /\ KeepSendEvent
    /\ UNCHANGED <<lock, sendQueue, sendRegistered, callVars, toSend, sendFailed>> /\ SendFrame

WSASendError(t, reset) ==
    /\ pc[t] = "rsWsa"
    /\ reset => socket = "up"
    /\ sendFailed' = TRUE
    /\ HandleError(t, reset, "rsClear")
    /\ UNCHANGED <<lock, sendVars, home, msg, toSend, wire>> /\ SendFrame

\* MUTANT: the event keeps its reference to the session.
KeepOwner(t) ==
    /\ Advance(t, "rsClear", "rsStore")
    /\ eventBufs' = <<>>
    /\ UNCHANGED <<lock, sendQueue, sendRegistered, sendOwner, sendOps, inflight>> /\ LockFrame

ClearSendEvent(t) ==
    /\ Advance(t, "rsClear", "rsStore")
    /\ ReleaseSendEvent
    /\ UNCHANGED <<lock, sendQueue, sendRegistered, sendOps, inflight>> /\ LockFrame

StoreUnregistered(t) ==
    /\ Advance(t, "rsStore", RegisterSendReturn(t))
    /\ sendRegistered' = FALSE
    /\ UNCHANGED <<lock, sendQueue, eventBufs, sendOwner, sendOps, inflight>> /\ LockFrame

-----------------------------------------------------------------------------
(* ProcessSend: the completion of the outstanding WSASend.                    *)

\* A gathered write of no buffers completes with no bytes, like a lost peer.
SendDone(t, bytes) ==
    /\ pc[t] = "idle"
    /\ sendOps > 0 /\ sendOps' = sendOps - 1
    /\ bytes > 0 => inflight # <<>>
    /\ inflight' = <<>>
    /\ ReleaseSendEvent
    /\ DisconnectIf(t, bytes = 0, "idle", "psLock")
    /\ UNCHANGED <<lock, sendQueue, sendRegistered, home, msg, toSend, wire, sendFailed>>
    /\ SendFrame

ProcessSendLock(t) ==
    /\ Advance(t, "psLock", "psDecide")
    /\ lock = NoThread /\ lock' = t
    /\ UNCHANGED sendVars /\ LockFrame

\* MUTANT: the flag is not reset when the queue is empty.
ForgetReset(t) ==
    /\ Advance(t, "psDecide", IF sendQueue # <<>> THEN "rsCheck" ELSE "psUnlock")
    /\ UNCHANGED <<sendVars, lock>> /\ LockFrame

ProcessSendDecide(t) ==
    /\ Advance(t, "psDecide", IF sendQueue # <<>> THEN "rsCheck" ELSE "psUnlock")
    /\ sendRegistered' = (sendRegistered /\ sendQueue # <<>>)
    /\ UNCHANGED <<lock, sendQueue, eventBufs, sendOwner, sendOps, inflight>> /\ LockFrame

ProcessSendUnlock(t) ==
    /\ Advance(t, "psUnlock", home[t])
    /\ lock' = NoThread
    /\ UNCHANGED sendVars /\ LockFrame

-----------------------------------------------------------------------------
(* Session::Disconnect.                                                       *)

\* MUTANT: the old value of _connected is not looked at.
AnyDisconnect == TRUE

FirstDisconnect == connected

DisconnectExchange(t) ==
    /\ Advance(t, "disc", IF FirstDisconnect THEN "onDisc" ELSE ret[t])
    /\ connected' = FALSE
    /\ disconnects' = IF FirstDisconnect THEN disconnects + 1 ELSE disconnects
    /\ UNCHANGED <<socket, inService>> /\ TeardownFrame

\* What OnDisconnected does to players and rooms is not this module's.
OnDisconnected(t) ==
    /\ Advance(t, "onDisc", "close")
    /\ UNCHANGED <<connected, socket, inService, disconnects>> /\ TeardownFrame

CloseSocket(t) ==
    /\ Advance(t, "close", "release")
    /\ socket' = "down"
    /\ UNCHANGED <<connected, inService, disconnects>> /\ TeardownFrame

\* ASSERT_CRASH(_sessions.erase(session) != 0): otherwise the process ends.
ReleaseSession(t) ==
    /\ Advance(t, "release", ret[t])
    /\ inService /\ inService' = FALSE
    /\ UNCHANGED <<connected, socket, disconnects>> /\ TeardownFrame

-----------------------------------------------------------------------------
\* Every worker waits in IocpCore::Dispatch and nothing will complete.
Quiescent ==
    /\ \A t \in Threads : pc[t] = "idle"
    /\ connectOps + sendOps + recvOps = 0
    /\ toSend = {}

Finished == Quiescent /\ UNCHANGED vars

ProcessConnect(t) == AddSession(t) \/ OnConnected(t) \/ OnConnectedReturns(t)

Receive(t) ==
    \/ RegisterRecv(t) \/ WSARecvPending(t) \/ ClearRecvOwner(t)
    \/ \E reset \in BOOLEAN : WSARecvError(t, reset)
    \/ \E accepted \in BOOLEAN : OnRecvReturns(t, accepted)

Send(t) ==
    \/ SendPush(t) \/ SendExchange(t)
    \/ RegisterSend(t) \/ DrainQueue(t) \/ WSASendPending(t)
    \/ \E reset \in BOOLEAN : WSASendError(t, reset)
    \/ ClearSendEvent(t) \/ StoreUnregistered(t)

ProcessSend(t) == ProcessSendLock(t) \/ ProcessSendDecide(t) \/ ProcessSendUnlock(t)

Disconnect(t) ==
    DisconnectExchange(t) \/ OnDisconnected(t) \/ CloseSocket(t) \/ ReleaseSession(t)

\* What a thread that has begun an operation does next.
Continue(t) ==
    ProcessConnect(t) \/ Receive(t) \/ Send(t) \/ ProcessSend(t) \/ Disconnect(t)

\* What a thread takes up.
Begin(t) ==
    \/ ConnectDone(t)
    \/ \E bytes \in 0..1 : RecvDone(t, bytes) \/ SendDone(t, bytes)
    \/ \E m \in Msgs : SendCall(t, m)

Next ==
    \/ \E t \in Threads : Begin(t) \/ Continue(t)
    \/ Finished

Spec == Init /\ [][Next]_vars

\* A thread in an operation goes on; the peer keeps reading, so the outstanding
\* WSASend completes; closing the socket completes whatever is outstanding.
Fairness ==
    /\ \A t \in Threads : WF_vars(Continue(t))
    /\ WF_vars(\E t \in Threads, bytes \in 0..1 : SendDone(t, bytes))
    /\ WF_vars(\E t \in Threads : socket = "down" /\ RecvDone(t, 0))

FairSpec == Spec /\ Fairness

-----------------------------------------------------------------------------
(* Properties.                                                                *)

\* The thread that may touch _sendEvent and decides who does so next.
Sending(t) ==
    \/ pc[t] \in RegisterSendSteps \cup {"psLock", "psDecide"}
    \/ pc[t] \in DisconnectSteps /\ ret[t] = "rsClear"

\* The thread between taking a receive completion, or connecting, and
\* arming the next receive.
Receiving(t) ==
    \/ pc[t] \in ConnectSteps \cup RecvSteps
    \/ home[t] # "idle"
    \/ pc[t] \in DisconnectSteps /\ ret[t] = "rrClear"

FlagsOK ==
    /\ connected \in BOOLEAN /\ inService \in BOOLEAN /\ published \in BOOLEAN
    /\ connectOwner \in BOOLEAN
    /\ sendRegistered \in BOOLEAN /\ sendOwner \in BOOLEAN /\ recvOwner \in BOOLEAN
    /\ sendFailed \in BOOLEAN /\ recvFailed \in BOOLEAN

DataOK ==
    /\ socket \in {"up", "down"}
    /\ connectOps \in Nat /\ sendOps \in Nat /\ recvOps \in Nat
    /\ lock \in Threads \cup {NoThread}
    /\ sendQueue \in Seq(Msgs) /\ eventBufs \in Seq(Msgs) /\ inflight \in Seq(Msgs)
    /\ pc \in [Threads -> Steps]
    /\ home \in [Threads -> Homes]
    /\ ret \in [Threads -> DisconnectReturns]
    /\ msg \in [Threads -> Msgs \cup {NoMsg}]
    /\ \A t \in Threads : pc[t] = "sendPush" => msg[t] \in Msgs
    /\ toSend \subseteq Msgs /\ recvsLeft \in Nat
    /\ wire \in Seq(Msgs) /\ disconnects \in Nat

\* The types; a thread about to push has a buffer, no queue holds a null one.
TypeOK == FlagsOK /\ DataOK

\* At most one thread at a time works on _sendEvent, and none while a WSASend
\* reads its buffers: Session.cpp guards the event by _sendRegistered alone.
SendExclusive ==
    /\ \A t, u \in Threads : Sending(t) /\ Sending(u) => t = u
    /\ \A t \in Threads : Sending(t) => sendOps = 0
    /\ sendOps <= 1

\* At most one thread at a time works on _recvEvent and _recvBuffer, which have
\* no lock, and none while a WSARecv may write into the buffer.
ReceiveExclusive ==
    /\ \A t, u \in Threads : Receiving(t) /\ Receiving(u) => t = u
    /\ \A t \in Threads : Receiving(t) => connectOps + recvOps = 0
    /\ connectOps + recvOps <= 1

\* While the kernel holds an OVERLAPPED, its event keeps the session alive, and
\* a pending WSASend's buffers stay referenced until its completion is taken;
\* it has some, or ProcessSend would take its completion for a lost peer.
PinnedWhilePending ==
    /\ sendOps > 0 => sendOwner /\ eventBufs = inflight /\ inflight # <<>>
    /\ recvOps > 0 => recvOwner

\* No wake-up is lost: buffers wait in _sendQueue only while a completion is
\* outstanding or a thread is on its way to look at the queue.  One case is
\* excepted: what was pushed while a failed WSASend was being cleaned up waits,
\* with _sendRegistered false, until the next Send takes it along.
NoStrandedBuffers ==
    connected /\ sendQueue # <<>> /\ (sendRegistered \/ ~sendFailed) =>
        \/ sendOps = 1
        \/ \E t \in Threads : Sending(t) \/ pc[t] \in {"sendExchange", "disc"}

\* A connected session always has a receive outstanding or a thread about to
\* issue it, so a peer that leaves is noticed; a WSARecv that failed with an
\* error HandleError only logs is excepted.
ReceiveArmed ==
    connected /\ ~recvFailed =>
        \/ connectOps + recvOps = 1
        \/ \E t \in Threads : Receiving(t) \/ pc[t] = "disc"

\* However many threads see the connection fail, one of them tears it down:
\* OnDisconnected, closesocket and ReleaseSession run at most once, and the
\* session is still in the service's set, as ReleaseSession's ASSERT_CRASH wants.
TearDownOnce ==
    /\ disconnects <= 1
    /\ \A t \in Threads : pc[t] = "release" => inService

\* Send is a FIFO channel onto the socket.
Gathered == IF \E t \in Threads : pc[t] = "rsWsa" THEN eventBufs ELSE <<>>

Channel == INSTANCE FifoChannel WITH
    unsent <- Gathered \o sendQueue,
    sent <- wire,
    faulty <- sendFailed,
    open <- (socket = "up")

ImplementsChannel == Channel!Spec

\* A buffer that was queued is eventually handed to WSASend, unless the session
\* disconnects or a WSASend fails.
QueueDrains ==
    sendQueue # <<>> ~> (sendQueue = <<>> \/ ~connected \/ sendFailed)

\* Who keeps the session alive: the service, and the events it owns.
References ==
    LET holds == [service |-> inService, connect |-> connectOwner,
                  send |-> sendOwner, recv |-> recvOwner]
    IN  {r \in DOMAIN holds : holds[r]}

\* A session that disconnects is given back: its socket is closed, the service
\* forgets it, and neither its sends nor its receives keep a reference to it.
\* An accepted session is then free.  One that connected itself is not: nothing
\* clears the owner RegisterConnect gave _connectEvent, a member of the session,
\* so that one reference, the exception here, keeps it alive for ever.
SessionReclaimed ==
    (published /\ ~connected) ~>
        [](socket = "down" /\ sendOps + recvOps = 0 /\ References \subseteq {"connect"})
=============================================================================
