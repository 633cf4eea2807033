---------------------------- MODULE SessionProofs ----------------------------
(* What holds of Session for every set of threads and of messages: the types, *)
(* the exclusive use of the two events, the life of the session, that no      *)
(* wake-up is lost, and that Session implements FifoChannel.                  *)
EXTENDS Session, TLAPS

\* Frames, step names and one-line helpers are always visible.
USE DEF Goto, Advance, DisconnectIf, HandleError, ReleaseSendEvent, KeepSendEvent,
        Gather, Enqueue, ExchangeWasFalse, FirstDisconnect, Connecting,
        ConnectFrame, RecvFrame, SendFrame, LockFrame, TeardownFrame,
        connVars, sendVars, recvVars, callVars, boundVars, histVars,
        Steps, Homes, DisconnectReturns, ConnectSteps, RecvSteps,
        RegisterSendSteps, DisconnectSteps

-----------------------------------------------------------------------------
(* Types.                                                                     *)

LEMMA TypeInit == Init => TypeOK
<1> SUFFICES ASSUME Init PROVE TypeOK
  OBVIOUS
<1>1. FlagsOK
  BY Zenon DEF Init, FlagsOK
<1>2. DataOK
  BY ThreadsAssumption, MaxRecvAssumption DEF Init, DataOK
<1> QED
  BY <1>1, <1>2 DEF TypeOK

LEMMA TypeStep == ASSUME TypeOK, [Next]_vars PROVE TypeOK'
<1> USE DEF TypeOK
<1>1. ASSUME NEW t \in Threads, Begin(t) PROVE TypeOK'
    <2>1. CASE ConnectDone(t)
      <3>1. FlagsOK'
        BY <2>1, Zenon DEF FlagsOK, ConnectDone
      <3>2. DataOK'
        BY <2>1, SMT DEF DataOK, ConnectDone
      <3> QED
        BY <3>1, <3>2
    <2>2. ASSUME NEW bytes \in 0..1, RecvDone(t, bytes) PROVE TypeOK'
      <3>1. FlagsOK'
        BY <2>2, Zenon DEF FlagsOK, RecvDone
      <3>2. DataOK'
        BY <2>2, SMT DEF DataOK, RecvDone
      <3> QED
        BY <3>1, <3>2
    <2>3. ASSUME NEW bytes \in 0..1, SendDone(t, bytes) PROVE TypeOK'
      <3>1. FlagsOK'
        BY <2>3, Zenon DEF FlagsOK, SendDone
      <3>2. DataOK'
        BY <2>3, SMT DEF DataOK, SendDone
      <3> QED
        BY <3>1, <3>2
    <2>4. ASSUME NEW m \in Msgs, SendCall(t, m) PROVE TypeOK'
      <3>1. FlagsOK'
        BY <2>4, Zenon DEF FlagsOK, SendCall
      <3>2. DataOK'
        BY <2>4, SMT DEF DataOK, SendCall
      <3> QED
        BY <3>1, <3>2
  <2> QED
    BY <1>1, <2>1, <2>2, <2>3, <2>4 DEF Begin
<1>2. ASSUME NEW t \in Threads, Continue(t) PROVE TypeOK'
  <2>1. CASE ProcessConnect(t)
      <3>1. CASE AddSession(t)
        <4>1. FlagsOK'
          BY <3>1, Zenon DEF FlagsOK, AddSession
        <4>2. DataOK'
          BY <3>1, SMT DEF DataOK, AddSession
        <4> QED
          BY <4>1, <4>2
      <3>2. CASE OnConnected(t)
        <4>1. FlagsOK'
          BY <3>2, Zenon DEF FlagsOK, OnConnected
        <4>2. DataOK'
          BY <3>2, SMT DEF DataOK, OnConnected
        <4> QED
          BY <4>1, <4>2
      <3>3. CASE OnConnectedReturns(t)
        <4>1. FlagsOK'
          BY <3>3, Zenon DEF FlagsOK, OnConnectedReturns
        <4>2. DataOK'
          BY <3>3, SMT DEF DataOK, OnConnectedReturns
        <4> QED
          BY <4>1, <4>2
    <3> QED
      BY <2>1, <3>1, <3>2, <3>3 DEF ProcessConnect
  <2>2. CASE Receive(t)
      <3>1. CASE RegisterRecv(t)
        <4>1. FlagsOK'
          BY <3>1, Zenon DEF FlagsOK, RegisterRecv
        <4>2. DataOK'
          BY <3>1, SMT DEF DataOK, RegisterRecv
        <4> QED
          BY <4>1, <4>2
      <3>2. CASE WSARecvPending(t)
        <4>1. FlagsOK'
          BY <3>2, Zenon DEF FlagsOK, WSARecvPending
        <4>2. DataOK'
          BY <3>2, SMT DEF DataOK, WSARecvPending
        <4> QED
          BY <4>1, <4>2
      <3>3. CASE ClearRecvOwner(t)
        <4>1. FlagsOK'
          BY <3>3, Zenon DEF FlagsOK, ClearRecvOwner
        <4>2. DataOK'
          BY <3>3, SMT DEF DataOK, ClearRecvOwner
        <4> QED
          BY <4>1, <4>2
      <3>4. ASSUME NEW reset \in BOOLEAN, WSARecvError(t, reset) PROVE TypeOK'
        <4>1. FlagsOK'
          BY <3>4, Zenon DEF FlagsOK, WSARecvError
        <4>2. DataOK'
          BY <3>4, SMT DEF DataOK, WSARecvError
        <4> QED
          BY <4>1, <4>2
      <3>5. ASSUME NEW accepted \in BOOLEAN, OnRecvReturns(t, accepted) PROVE TypeOK'
        <4>1. FlagsOK'
          BY <3>5, Zenon DEF FlagsOK, OnRecvReturns
        <4>2. DataOK'
          BY <3>5, SMT DEF DataOK, OnRecvReturns
        <4> QED
          BY <4>1, <4>2
    <3> QED
      BY <2>2, <3>1, <3>2, <3>3, <3>4, <3>5 DEF Receive
  <2>3. CASE Send(t)
      <3>1. CASE SendPush(t)
        <4>1. FlagsOK'
          BY <3>1, Zenon DEF FlagsOK, SendPush
        <4>2. DataOK'
          BY <3>1, SMT DEF DataOK, SendPush
        <4> QED
          BY <4>1, <4>2
      <3>2. CASE SendExchange(t)
        <4>1. FlagsOK'
          BY <3>2, Zenon DEF FlagsOK, SendExchange
        <4>2. DataOK'
          BY <3>2, SMT DEF DataOK, SendExchange
        <4> QED
          BY <4>1, <4>2
      <3>3. CASE RegisterSend(t)
        <4>1. FlagsOK'
          BY <3>3, Zenon DEF FlagsOK, RegisterSend
        <4>2. DataOK'
          BY <3>3, SMT DEF DataOK, RegisterSendReturn, RegisterSend
        <4> QED
          BY <4>1, <4>2
      <3>4. CASE DrainQueue(t)
        <4>1. FlagsOK'
          BY <3>4, Zenon DEF FlagsOK, DrainQueue
        <4>2. DataOK'
          BY <3>4, SMT DEF DataOK, DrainQueue
        <4> QED
          BY <4>1, <4>2
      <3>5. CASE WSASendPending(t)
        <4>1. FlagsOK'
          BY <3>5, Zenon DEF FlagsOK, WSASendPending
        <4>2. DataOK'
          BY <3>5, SMT DEF DataOK, RegisterSendReturn, WSASendPending
        <4> QED
          BY <4>1, <4>2
      <3>6. ASSUME NEW reset \in BOOLEAN, WSASendError(t, reset) PROVE TypeOK'
        <4>1. FlagsOK'
          BY <3>6, Zenon DEF FlagsOK, WSASendError
        <4>2. DataOK'
          BY <3>6, SMT DEF DataOK, WSASendError
        <4> QED
          BY <4>1, <4>2
      <3>7. CASE ClearSendEvent(t)
        <4>1. FlagsOK'
          BY <3>7, Zenon DEF FlagsOK, ClearSendEvent
        <4>2. DataOK'
          BY <3>7, SMT DEF DataOK, ClearSendEvent
        <4> QED
          BY <4>1, <4>2
      <3>8. CASE StoreUnregistered(t)
        <4>1. FlagsOK'
          BY <3>8, Zenon DEF FlagsOK, StoreUnregistered
        <4>2. DataOK'
          BY <3>8, SMT DEF DataOK, RegisterSendReturn, StoreUnregistered
        <4> QED
          BY <4>1, <4>2
    <3> QED
      BY <2>3, <3>1, <3>2, <3>3, <3>4, <3>5, <3>6, <3>7, <3>8 DEF Send
  <2>4. CASE ProcessSend(t)
      <3>1. CASE ProcessSendLock(t)
        <4>1. FlagsOK'
          BY <3>1, Zenon DEF FlagsOK, ProcessSendLock
        <4>2. DataOK'
          BY <3>1, SMT DEF DataOK, ProcessSendLock
        <4> QED
          BY <4>1, <4>2
      <3>2. CASE ProcessSendDecide(t)
        <4>1. FlagsOK'
          BY <3>2, Zenon DEF FlagsOK, ProcessSendDecide
        <4>2. DataOK'
          BY <3>2, SMT DEF DataOK, ProcessSendDecide
        <4> QED
          BY <4>1, <4>2
      <3>3. CASE ProcessSendUnlock(t)
        <4>1. FlagsOK'
          BY <3>3, Zenon DEF FlagsOK, ProcessSendUnlock
        <4>2. DataOK'
          BY <3>3, SMT DEF DataOK, ProcessSendUnlock
        <4> QED
          BY <4>1, <4>2
    <3> QED
      BY <2>4, <3>1, <3>2, <3>3 DEF ProcessSend
  <2>5. CASE Disconnect(t)
      <3>1. CASE DisconnectExchange(t)
        <4>1. FlagsOK'
          BY <3>1, Zenon DEF FlagsOK, DisconnectExchange
        <4>2. DataOK'
          BY <3>1, SMT DEF DataOK, DisconnectExchange
        <4> QED
          BY <4>1, <4>2
      <3>2. CASE OnDisconnected(t)
        <4>1. FlagsOK'
          BY <3>2, Zenon DEF FlagsOK, OnDisconnected
        <4>2. DataOK'
          BY <3>2, SMT DEF DataOK, OnDisconnected
        <4> QED
          BY <4>1, <4>2
      <3>3. CASE CloseSocket(t)
        <4>1. FlagsOK'
          BY <3>3, Zenon DEF FlagsOK, CloseSocket
        <4>2. DataOK'
          BY <3>3, SMT DEF DataOK, CloseSocket
        <4> QED
          BY <4>1, <4>2
      <3>4. CASE ReleaseSession(t)
        <4>1. FlagsOK'
          BY <3>4, Zenon DEF FlagsOK, ReleaseSession
        <4>2. DataOK'
          BY <3>4, SMT DEF DataOK, ReleaseSession
        <4> QED
          BY <4>1, <4>2
    <3> QED
      BY <2>5, <3>1, <3>2, <3>3, <3>4 DEF Disconnect
  <2> QED
    BY <1>2, <2>1, <2>2, <2>3, <2>4, <2>5 DEF Continue
<1>3. CASE Finished \/ UNCHANGED vars
  BY <1>3 DEF Finished, vars, FlagsOK, DataOK
<1> QED
  BY <1>1, <1>2, <1>3 DEF Next

-----------------------------------------------------------------------------
(* The inductive invariant, one part for each of the three paths.             *)

TearingDown(t) == pc[t] \in {"onDisc", "close", "release"}
Entering(t) == pc[t] \in {"pcAdd", "pcOnConnected"}

\* Before OnConnected has published the session only the thread that took the
\* connect completion knows it; afterwards it is in the service's set until the
\* one thread that won Disconnect's exchange takes it out.
ConnectionInv ==
    /\ connectOps <= 1
    /\ ~published => /\ ~sendRegistered /\ sendQueue = <<>> /\ eventBufs = <<>>
                     /\ sendOps = 0 /\ recvOps = 0 /\ disconnects = 0
                     /\ \A t \in Threads : pc[t] = "idle" \/ Entering(t)
    /\ published => connectOps = 0 /\ (connected <=> disconnects = 0)
    /\ connectOps = 1 => ~published /\ ~connected /\ \A t \in Threads : pc[t] = "idle"
    /\ \A t, u \in Threads : Entering(t) /\ Entering(u) => t = u
    /\ \A t \in Threads : Entering(t) => ~published /\ connected
    /\ \A t \in Threads : pc[t] = "pcOnConnected" => inService
    /\ published /\ connected => inService
    /\ disconnects <= 1
    /\ \A t, u \in Threads : TearingDown(t) /\ TearingDown(u) => t = u
    /\ \A t \in Threads : TearingDown(t) => ~connected /\ inService

\* The right to the send event is held by one thread or by the kernel, and
\* _sendRegistered is true whenever somebody holds it.
SendInv ==
    /\ SendExclusive
    /\ \A t \in Threads : Sending(t) => sendRegistered
    /\ sendOps = 1 => sendRegistered /\ sendOwner /\ eventBufs = inflight /\ inflight # <<>>
    /\ ~sendRegistered => eventBufs = <<>>
    /\ \A t \in Threads : pc[t] \in {"sendExchange", "psDecide", "psUnlock"} => lock = t
    /\ \A t \in Threads : pc[t] \in {"sendExchange", "rsCheck", "rsDrain"} => sendQueue # <<>>
    /\ \A t \in Threads : pc[t] \in {"rsCheck", "rsDrain", "rsStore", "psLock", "psDecide"}
          => eventBufs = <<>>
    /\ \A t \in Threads : pc[t] = "rsWsa" => eventBufs # <<>>
    /\ \A t \in Threads : pc[t] \in {"rsDrain", "rsWsa"} => sendOwner
    /\ \A t \in Threads : pc[t] \in {"rsClear", "rsStore"} => sendFailed
    /\ \A t \in Threads : TearingDown(t) /\ ret[t] = "rsClear" => sendFailed
    /\ \A t \in Threads : pc[t] = "disc" /\ ret[t] = "rsClear" => sendFailed

\* Likewise for the receive event, without a flag: the right passes from the
\* completion to the thread that takes it and back with the next WSARecv.
RecvInv ==
    /\ ReceiveExclusive
    /\ \A t \in Threads : home[t] # "idle" =>
          \/ pc[t] \in {"onConnected", "onRecv", "sendPush", "sendExchange", "psUnlock"}
          \/ pc[t] \in RegisterSendSteps
          \/ pc[t] \in DisconnectSteps /\ ret[t] = "rsClear"
    /\ recvOps = 1 => recvOwner
    /\ \A t \in Threads : pc[t] = "rrWsa" => recvOwner
    /\ \A t \in Threads : pc[t] = "rrClear" => recvFailed \/ ~connected

SessionInv == TypeOK /\ ConnectionInv /\ SendInv /\ RecvInv

\* Somebody looks at the queue again: the holder of the right to send, or the
\* thread that has just pushed; a thread about to disconnect ends the matter.
WakeUpInv ==
    /\ connected /\ sendRegistered =>
          sendOps = 1 \/ \E t \in Threads : Sending(t) \/ pc[t] = "disc"
    /\ sendQueue # <<>> /\ ~sendRegistered /\ ~sendFailed =>
          \E t \in Threads : pc[t] = "sendExchange"

LEMMA ConnectionStep == ASSUME TypeOK, ConnectionInv, [Next]_vars PROVE ConnectionInv'
<1> USE DEF TypeOK, FlagsOK, DataOK, ConnectionInv, TearingDown, Entering
<1>1. ASSUME NEW t \in Threads, Begin(t) PROVE ConnectionInv'
    <2>1. CASE ConnectDone(t)
      BY <2>1 DEF ConnectDone
    <2>2. ASSUME NEW bytes \in 0..1, RecvDone(t, bytes) PROVE ConnectionInv'
      BY <2>2 DEF RecvDone
    <2>3. ASSUME NEW bytes \in 0..1, SendDone(t, bytes) PROVE ConnectionInv'
      BY <2>3 DEF SendDone
    <2>4. ASSUME NEW m \in Msgs, SendCall(t, m) PROVE ConnectionInv'
      BY <2>4 DEF SendCall
  <2> QED
    BY <1>1, <2>1, <2>2, <2>3, <2>4 DEF Begin
<1>2. ASSUME NEW t \in Threads, Continue(t) PROVE ConnectionInv'
  <2>1. CASE ProcessConnect(t)
      <3>1. CASE AddSession(t)
        BY <3>1 DEF AddSession
      <3>2. CASE OnConnected(t)
        BY <3>2 DEF OnConnected
      <3>3. CASE OnConnectedReturns(t)
        BY <3>3 DEF OnConnectedReturns
    <3> QED
      BY <2>1, <3>1, <3>2, <3>3 DEF ProcessConnect
  <2>2. CASE Receive(t)
      <3>1. CASE RegisterRecv(t)
        BY <3>1 DEF RegisterRecv
      <3>2. CASE WSARecvPending(t)
        BY <3>2 DEF WSARecvPending
      <3>3. CASE ClearRecvOwner(t)
        BY <3>3 DEF ClearRecvOwner
      <3>4. ASSUME NEW reset \in BOOLEAN, WSARecvError(t, reset) PROVE ConnectionInv'
        BY <3>4 DEF WSARecvError
      <3>5. ASSUME NEW accepted \in BOOLEAN, OnRecvReturns(t, accepted) PROVE ConnectionInv'
        BY <3>5 DEF OnRecvReturns
    <3> QED
      BY <2>2, <3>1, <3>2, <3>3, <3>4, <3>5 DEF Receive
  <2>3. CASE Send(t)
      <3>1. CASE SendPush(t)
        BY <3>1 DEF SendPush
      <3>2. CASE SendExchange(t)
        BY <3>2 DEF SendExchange
      <3>3. CASE RegisterSend(t)
      <4>1. \/ RegisterSendReturn(t) \in Homes
            \/ RegisterSendReturn(t) = "psUnlock" /\ lock = t
        BY DEF RegisterSendReturn
      <4> QED
        BY <3>3, <4>1 DEF RegisterSend
      <3>4. CASE DrainQueue(t)
        BY <3>4 DEF DrainQueue
      <3>5. CASE WSASendPending(t)
      <4>1. \/ RegisterSendReturn(t) \in Homes
            \/ RegisterSendReturn(t) = "psUnlock" /\ lock = t
        BY DEF RegisterSendReturn
      <4> QED
        BY <3>5, <4>1 DEF WSASendPending
      <3>6. ASSUME NEW reset \in BOOLEAN, WSASendError(t, reset) PROVE ConnectionInv'
        BY <3>6 DEF WSASendError
      <3>7. CASE ClearSendEvent(t)
        BY <3>7 DEF ClearSendEvent
      <3>8. CASE StoreUnregistered(t)
      <4>1. \/ RegisterSendReturn(t) \in Homes
            \/ RegisterSendReturn(t) = "psUnlock" /\ lock = t
        BY DEF RegisterSendReturn
      <4> QED
        BY <3>8, <4>1 DEF StoreUnregistered
    <3> QED
      BY <2>3, <3>1, <3>2, <3>3, <3>4, <3>5, <3>6, <3>7, <3>8 DEF Send
  <2>4. CASE ProcessSend(t)
      <3>1. CASE ProcessSendLock(t)
        BY <3>1 DEF ProcessSendLock
      <3>2. CASE ProcessSendDecide(t)
        BY <3>2 DEF ProcessSendDecide
      <3>3. CASE ProcessSendUnlock(t)
      <4>1. home[t] \in Homes
        OBVIOUS
      <4> QED
        BY <3>3, <4>1 DEF ProcessSendUnlock
    <3> QED
      BY <2>4, <3>1, <3>2, <3>3 DEF ProcessSend
  <2>5. CASE Disconnect(t)
      <3>1. CASE DisconnectExchange(t)
        BY <3>1 DEF DisconnectExchange
      <3>2. CASE OnDisconnected(t)
        BY <3>2 DEF OnDisconnected
      <3>3. CASE CloseSocket(t)
        BY <3>3 DEF CloseSocket
      <3>4. CASE ReleaseSession(t)
        BY <3>4 DEF ReleaseSession
    <3> QED
      BY <2>5, <3>1, <3>2, <3>3, <3>4 DEF Disconnect
  <2> QED
    BY <1>2, <2>1, <2>2, <2>3, <2>4, <2>5 DEF Continue
<1>3. CASE Finished \/ UNCHANGED vars
  BY <1>3 DEF Finished, vars
<1> QED
  BY <1>1, <1>2, <1>3 DEF Next

LEMMA SendStep == ASSUME TypeOK, ConnectionInv, SendInv, [Next]_vars PROVE SendInv'
<1> USE ThreadsAssumption DEF TypeOK, FlagsOK, DataOK, SendInv, SendExclusive, Sending, TearingDown
<1>1. ASSUME NEW t \in Threads, Begin(t) PROVE SendInv'
    <2>1. CASE ConnectDone(t)
      BY <2>1 DEF ConnectDone
    <2>2. ASSUME NEW bytes \in 0..1, RecvDone(t, bytes) PROVE SendInv'
      BY <2>2 DEF RecvDone
    <2>3. ASSUME NEW bytes \in 0..1, SendDone(t, bytes) PROVE SendInv'
      BY <2>3 DEF SendDone
    <2>4. ASSUME NEW m \in Msgs, SendCall(t, m) PROVE SendInv'
      BY <2>4 DEF SendCall
  <2> QED
    BY <1>1, <2>1, <2>2, <2>3, <2>4 DEF Begin
<1>2. ASSUME NEW t \in Threads, Continue(t) PROVE SendInv'
  <2>1. CASE ProcessConnect(t)
      <3>1. CASE AddSession(t)
        BY <3>1 DEF AddSession
      <3>2. CASE OnConnected(t)
        BY <3>2 DEF OnConnected
      <3>3. CASE OnConnectedReturns(t)
        BY <3>3 DEF OnConnectedReturns
    <3> QED
      BY <2>1, <3>1, <3>2, <3>3 DEF ProcessConnect
  <2>2. CASE Receive(t)
      <3>1. CASE RegisterRecv(t)
        BY <3>1 DEF RegisterRecv
      <3>2. CASE WSARecvPending(t)
        BY <3>2 DEF WSARecvPending
      <3>3. CASE ClearRecvOwner(t)
        BY <3>3 DEF ClearRecvOwner
      <3>4. ASSUME NEW reset \in BOOLEAN, WSARecvError(t, reset) PROVE SendInv'
        BY <3>4 DEF WSARecvError
      <3>5. ASSUME NEW accepted \in BOOLEAN, OnRecvReturns(t, accepted) PROVE SendInv'
        BY <3>5 DEF OnRecvReturns
    <3> QED
      BY <2>2, <3>1, <3>2, <3>3, <3>4, <3>5 DEF Receive
  <2>3. CASE Send(t)
      <3>1. CASE SendPush(t)
        <4>1. msg[t] \in Msgs /\ sendQueue' = Append(sendQueue, msg[t])
          BY <3>1 DEF SendPush
        <4>2. sendQueue' # <<>>
          BY <4>1
        <4>3. /\ pc'[t] = "sendExchange"
              /\ \A u \in Threads \ {t} : pc'[u] = pc[u] /\ lock # u
          BY <3>1 DEF SendPush
        <4> QED
          BY <3>1, <4>2, <4>3 DEF SendPush
      <3>2. CASE SendExchange(t)
      <4>1. home[t] \in Homes
        OBVIOUS
      <4>2. CASE sendRegistered = FALSE
        BY <3>2, <4>1, <4>2 DEF SendExchange
      <4>3. CASE sendRegistered = TRUE
        BY <3>2, <4>1, <4>3 DEF SendExchange
      <4> QED
        BY <4>2, <4>3
      <3>3. CASE RegisterSend(t)
      <4>1. \/ RegisterSendReturn(t) \in Homes
            \/ RegisterSendReturn(t) = "psUnlock" /\ lock = t
        BY DEF RegisterSendReturn
      <4> QED
        BY <3>3, <4>1 DEF RegisterSend
      <3>4. CASE DrainQueue(t)
        BY <3>4 DEF DrainQueue
      <3>5. CASE WSASendPending(t)
      <4>1. \/ RegisterSendReturn(t) \in Homes
            \/ RegisterSendReturn(t) = "psUnlock" /\ lock = t
        BY DEF RegisterSendReturn
      <4> QED
        BY <3>5, <4>1 DEF WSASendPending
      <3>6. ASSUME NEW reset \in BOOLEAN, WSASendError(t, reset) PROVE SendInv'
        BY <3>6 DEF WSASendError
      <3>7. CASE ClearSendEvent(t)
        BY <3>7 DEF ClearSendEvent
      <3>8. CASE StoreUnregistered(t)
      <4>1. \/ RegisterSendReturn(t) \in Homes
            \/ RegisterSendReturn(t) = "psUnlock" /\ lock = t
        BY DEF RegisterSendReturn
      <4> QED
        BY <3>8, <4>1 DEF StoreUnregistered
    <3> QED
      BY <2>3, <3>1, <3>2, <3>3, <3>4, <3>5, <3>6, <3>7, <3>8 DEF Send
  <2>4. CASE ProcessSend(t)
      <3>1. CASE ProcessSendLock(t)
        BY <3>1 DEF ProcessSendLock
      <3>2. CASE ProcessSendDecide(t)
        BY <3>2 DEF ProcessSendDecide
      <3>3. CASE ProcessSendUnlock(t)
      <4>1. home[t] \in Homes /\ home[t] \notin RegisterSendSteps
        BY DEF RegisterSendSteps, Homes
      <4> QED
        BY <3>3, <4>1, SMTT(30) DEF ProcessSendUnlock
    <3> QED
      BY <2>4, <3>1, <3>2, <3>3 DEF ProcessSend
  <2>5. CASE Disconnect(t)
      <3>1. CASE DisconnectExchange(t)
        BY <3>1 DEF DisconnectExchange
      <3>2. CASE OnDisconnected(t)
        BY <3>2 DEF OnDisconnected
      <3>3. CASE CloseSocket(t)
        BY <3>3 DEF CloseSocket
      <3>4. CASE ReleaseSession(t)
        BY <3>4 DEF ReleaseSession
    <3> QED
      BY <2>5, <3>1, <3>2, <3>3, <3>4 DEF Disconnect
  <2> QED
    BY <1>2, <2>1, <2>2, <2>3, <2>4, <2>5 DEF Continue
<1>3. CASE Finished \/ UNCHANGED vars
  BY <1>3 DEF Finished, vars
<1> QED
  BY <1>1, <1>2, <1>3 DEF Next

LEMMA RecvStep == ASSUME TypeOK, ConnectionInv, RecvInv, [Next]_vars PROVE RecvInv'
<1> USE DEF TypeOK, FlagsOK, DataOK, ConnectionInv, RecvInv, ReceiveExclusive, Receiving, Entering
<1>1. ASSUME NEW t \in Threads, Begin(t) PROVE RecvInv'
    <2>1. CASE ConnectDone(t)
      BY <2>1 DEF ConnectDone
    <2>2. ASSUME NEW bytes \in 0..1, RecvDone(t, bytes) PROVE RecvInv'
      BY <2>2 DEF RecvDone
    <2>3. ASSUME NEW bytes \in 0..1, SendDone(t, bytes) PROVE RecvInv'
      BY <2>3 DEF SendDone
    <2>4. ASSUME NEW m \in Msgs, SendCall(t, m) PROVE RecvInv'
      BY <2>4 DEF SendCall
  <2> QED
    BY <1>1, <2>1, <2>2, <2>3, <2>4 DEF Begin
<1>2. ASSUME NEW t \in Threads, Continue(t) PROVE RecvInv'
  <2>1. CASE ProcessConnect(t)
      <3>1. CASE AddSession(t)
        BY <3>1 DEF AddSession
      <3>2. CASE OnConnected(t)
        BY <3>2 DEF OnConnected
      <3>3. CASE OnConnectedReturns(t)
        BY <3>3 DEF OnConnectedReturns
    <3> QED
      BY <2>1, <3>1, <3>2, <3>3 DEF ProcessConnect
  <2>2. CASE Receive(t)
      <3>1. CASE RegisterRecv(t)
        BY <3>1 DEF RegisterRecv
      <3>2. CASE WSARecvPending(t)
        <4>0. pc[t] = "rrWsa" /\ Receiving(t) /\ home[t] = "idle"
          BY <3>2 DEF WSARecvPending
        <4>1. connectOps = 0 /\ recvOps = 0
          BY <4>0
        <4>2. \A u \in Threads : ~Receiving(u)'
          BY <3>2, <4>0 DEF WSARecvPending
        <4> QED
          BY <3>2, <4>0, <4>1, <4>2 DEF WSARecvPending
      <3>3. CASE ClearRecvOwner(t)
        BY <3>3 DEF ClearRecvOwner
      <3>4. ASSUME NEW reset \in BOOLEAN, WSARecvError(t, reset) PROVE RecvInv'
        BY <3>4 DEF WSARecvError
      <3>5. ASSUME NEW accepted \in BOOLEAN, OnRecvReturns(t, accepted) PROVE RecvInv'
        BY <3>5 DEF OnRecvReturns
    <3> QED
      BY <2>2, <3>1, <3>2, <3>3, <3>4, <3>5 DEF Receive
  <2>3. CASE Send(t)
      <3>1. CASE SendPush(t)
        BY <3>1 DEF SendPush
      <3>2. CASE SendExchange(t)
        BY <3>2 DEF SendExchange
      <3>3. CASE RegisterSend(t)
        BY <3>3 DEF RegisterSend,RegisterSendReturn
      <3>4. CASE DrainQueue(t)
        BY <3>4 DEF DrainQueue
      <3>5. CASE WSASendPending(t)
        BY <3>5 DEF WSASendPending,RegisterSendReturn
      <3>6. ASSUME NEW reset \in BOOLEAN, WSASendError(t, reset) PROVE RecvInv'
        BY <3>6 DEF WSASendError
      <3>7. CASE ClearSendEvent(t)
        BY <3>7 DEF ClearSendEvent
      <3>8. CASE StoreUnregistered(t)
        BY <3>8 DEF StoreUnregistered,RegisterSendReturn
    <3> QED
      BY <2>3, <3>1, <3>2, <3>3, <3>4, <3>5, <3>6, <3>7, <3>8 DEF Send
  <2>4. CASE ProcessSend(t)
      <3>1. CASE ProcessSendLock(t)
        BY <3>1 DEF ProcessSendLock
      <3>2. CASE ProcessSendDecide(t)
        BY <3>2 DEF ProcessSendDecide
      <3>3. CASE ProcessSendUnlock(t)
        BY <3>3 DEF ProcessSendUnlock
    <3> QED
      BY <2>4, <3>1, <3>2, <3>3 DEF ProcessSend
  <2>5. CASE Disconnect(t)
      <3>1. CASE DisconnectExchange(t)
      <4>1. ret[t] \in DisconnectReturns /\ (home[t] # "idle" => ret[t] = "rsClear")
        BY <3>1 DEF DisconnectExchange
      <4>2. CASE connected
        BY <3>1, <4>1, <4>2 DEF DisconnectExchange
      <4>3. CASE ~connected
        BY <3>1, <4>1, <4>3 DEF DisconnectExchange
      <4> QED
        BY <4>2, <4>3
      <3>2. CASE OnDisconnected(t)
        BY <3>2 DEF OnDisconnected
      <3>3. CASE CloseSocket(t)
        BY <3>3 DEF CloseSocket
      <3>4. CASE ReleaseSession(t)
        BY <3>4 DEF ReleaseSession,TearingDown
    <3> QED
      BY <2>5, <3>1, <3>2, <3>3, <3>4 DEF Disconnect
  <2> QED
    BY <1>2, <2>1, <2>2, <2>3, <2>4, <2>5 DEF Continue
<1>3. CASE Finished \/ UNCHANGED vars
  BY <1>3 DEF Finished, vars
<1> QED
  BY <1>1, <1>2, <1>3 DEF Next

LEMMA WakeUpStep == ASSUME TypeOK, ConnectionInv, SendInv, WakeUpInv, [Next]_vars PROVE WakeUpInv'
<1> USE DEF TypeOK, FlagsOK, DataOK, SendInv, SendExclusive, WakeUpInv, Sending, TearingDown
<1>1. ASSUME NEW t \in Threads, Begin(t) PROVE WakeUpInv'
    <2>1. CASE ConnectDone(t)
      BY <2>1 DEF ConnectDone,ConnectionInv
    <2>2. ASSUME NEW bytes \in 0..1, RecvDone(t, bytes) PROVE WakeUpInv'
      BY <2>2 DEF RecvDone
    <2>3. ASSUME NEW bytes \in 0..1, SendDone(t, bytes) PROVE WakeUpInv'
      BY <2>3 DEF SendDone
    <2>4. ASSUME NEW m \in Msgs, SendCall(t, m) PROVE WakeUpInv'
      BY <2>4 DEF SendCall
  <2> QED
    BY <1>1, <2>1, <2>2, <2>3, <2>4 DEF Begin
<1>2. ASSUME NEW t \in Threads, Continue(t) PROVE WakeUpInv'
  <2>1. CASE ProcessConnect(t)
      <3>1. CASE AddSession(t)
        BY <3>1 DEF AddSession
      <3>2. CASE OnConnected(t)
        BY <3>2 DEF OnConnected
      <3>3. CASE OnConnectedReturns(t)
        BY <3>3 DEF OnConnectedReturns
    <3> QED
      BY <2>1, <3>1, <3>2, <3>3 DEF ProcessConnect
  <2>2. CASE Receive(t)
      <3>1. CASE RegisterRecv(t)
        BY <3>1 DEF RegisterRecv
      <3>2. CASE WSARecvPending(t)
        BY <3>2 DEF WSARecvPending
      <3>3. CASE ClearRecvOwner(t)
        BY <3>3 DEF ClearRecvOwner
      <3>4. ASSUME NEW reset \in BOOLEAN, WSARecvError(t, reset) PROVE WakeUpInv'
        BY <3>4 DEF WSARecvError
      <3>5. ASSUME NEW accepted \in BOOLEAN, OnRecvReturns(t, accepted) PROVE WakeUpInv'
        BY <3>5 DEF OnRecvReturns
    <3> QED
      BY <2>2, <3>1, <3>2, <3>3, <3>4, <3>5 DEF Receive
  <2>3. CASE Send(t)
      <3>1. CASE SendPush(t)
        BY <3>1 DEF SendPush
      <3>2. CASE SendExchange(t)
        BY <3>2 DEF SendExchange
      <3>3. CASE RegisterSend(t)
        BY <3>3 DEF RegisterSend,RegisterSendReturn
      <3>4. CASE DrainQueue(t)
        BY <3>4 DEF DrainQueue
      <3>5. CASE WSASendPending(t)
        BY <3>5 DEF WSASendPending,RegisterSendReturn
      <3>6. ASSUME NEW reset \in BOOLEAN, WSASendError(t, reset) PROVE WakeUpInv'
        BY <3>6 DEF WSASendError
      <3>7. CASE ClearSendEvent(t)
        BY <3>7 DEF ClearSendEvent
      <3>8. CASE StoreUnregistered(t)
        BY <3>8 DEF StoreUnregistered,RegisterSendReturn
    <3> QED
      BY <2>3, <3>1, <3>2, <3>3, <3>4, <3>5, <3>6, <3>7, <3>8 DEF Send
  <2>4. CASE ProcessSend(t)
      <3>1. CASE ProcessSendLock(t)
        BY <3>1 DEF ProcessSendLock
      <3>2. CASE ProcessSendDecide(t)
        BY <3>2 DEF ProcessSendDecide
      <3>3. CASE ProcessSendUnlock(t)
        BY <3>3 DEF ProcessSendUnlock
    <3> QED
      BY <2>4, <3>1, <3>2, <3>3 DEF ProcessSend
  <2>5. CASE Disconnect(t)
      <3>1. CASE DisconnectExchange(t)
        BY <3>1 DEF DisconnectExchange
      <3>2. CASE OnDisconnected(t)
        BY <3>2 DEF OnDisconnected
      <3>3. CASE CloseSocket(t)
        BY <3>3 DEF CloseSocket
      <3>4. CASE ReleaseSession(t)
        BY <3>4 DEF ReleaseSession
    <3> QED
      BY <2>5, <3>1, <3>2, <3>3, <3>4 DEF Disconnect
  <2> QED
    BY <1>2, <2>1, <2>2, <2>3, <2>4, <2>5 DEF Continue
<1>3. CASE Finished \/ UNCHANGED vars
  BY <1>3 DEF Finished, vars
<1> QED
  BY <1>1, <1>2, <1>3 DEF Next

LEMMA ArmedStep == ASSUME TypeOK, ConnectionInv, RecvInv, ReceiveArmed, [Next]_vars PROVE ReceiveArmed'
<1> USE DEF TypeOK, FlagsOK, DataOK, ConnectionInv, RecvInv, ReceiveExclusive, ReceiveArmed, Receiving, Entering
<1>1. ASSUME NEW t \in Threads, Begin(t) PROVE ReceiveArmed'
    <2>1. CASE ConnectDone(t)
      <3>1. pc'[t] = "pcAdd"
        BY <2>1 DEF ConnectDone
      <3> QED
        BY <3>1
    <2>2. ASSUME NEW bytes \in 0..1, RecvDone(t, bytes) PROVE ReceiveArmed'
      BY <2>2 DEF RecvDone
    <2>3. ASSUME NEW bytes \in 0..1, SendDone(t, bytes) PROVE ReceiveArmed'
      BY <2>3 DEF SendDone
    <2>4. ASSUME NEW m \in Msgs, SendCall(t, m) PROVE ReceiveArmed'
      <3>1. \A u \in Threads : Receiving(u) => Receiving(u)'
        BY <2>4 DEF SendCall
      <3>2. \A u \in Threads : pc[u] = "disc" => pc'[u] = "disc"
        BY <2>4 DEF SendCall
      <3> QED
        BY <2>4, <3>1, <3>2 DEF SendCall
  <2> QED
    BY <1>1, <2>1, <2>2, <2>3, <2>4 DEF Begin
<1>2. ASSUME NEW t \in Threads, Continue(t) PROVE ReceiveArmed'
  <2>1. CASE ProcessConnect(t)
      <3>1. CASE AddSession(t)
        BY <3>1 DEF AddSession
      <3>2. CASE OnConnected(t)
        BY <3>2 DEF OnConnected
      <3>3. CASE OnConnectedReturns(t)
        BY <3>3 DEF OnConnectedReturns
    <3> QED
      BY <2>1, <3>1, <3>2, <3>3 DEF ProcessConnect
  <2>2. CASE Receive(t)
      <3>1. CASE RegisterRecv(t)
        BY <3>1 DEF RegisterRecv
      <3>2. CASE WSARecvPending(t)
        BY <3>2 DEF WSARecvPending
      <3>3. CASE ClearRecvOwner(t)
        BY <3>3 DEF ClearRecvOwner
      <3>4. ASSUME NEW reset \in BOOLEAN, WSARecvError(t, reset) PROVE ReceiveArmed'
        BY <3>4 DEF WSARecvError
      <3>5. ASSUME NEW accepted \in BOOLEAN, OnRecvReturns(t, accepted) PROVE ReceiveArmed'
        BY <3>5 DEF OnRecvReturns
    <3> QED
      BY <2>2, <3>1, <3>2, <3>3, <3>4, <3>5 DEF Receive
  <2>3. CASE Send(t)
      <3>1. CASE SendPush(t)
        BY <3>1 DEF SendPush
      <3>2. CASE SendExchange(t)
        BY <3>2 DEF SendExchange
      <3>3. CASE RegisterSend(t)
        BY <3>3 DEF RegisterSend,RegisterSendReturn
      <3>4. CASE DrainQueue(t)
        BY <3>4 DEF DrainQueue
      <3>5. CASE WSASendPending(t)
        BY <3>5 DEF WSASendPending,RegisterSendReturn
      <3>6. ASSUME NEW reset \in BOOLEAN, WSASendError(t, reset) PROVE ReceiveArmed'
        BY <3>6 DEF WSASendError
      <3>7. CASE ClearSendEvent(t)
        BY <3>7 DEF ClearSendEvent
      <3>8. CASE StoreUnregistered(t)
        BY <3>8 DEF StoreUnregistered,RegisterSendReturn
    <3> QED
      BY <2>3, <3>1, <3>2, <3>3, <3>4, <3>5, <3>6, <3>7, <3>8 DEF Send
  <2>4. CASE ProcessSend(t)
      <3>1. CASE ProcessSendLock(t)
        BY <3>1 DEF ProcessSendLock
      <3>2. CASE ProcessSendDecide(t)
        BY <3>2 DEF ProcessSendDecide
      <3>3. CASE ProcessSendUnlock(t)
        BY <3>3 DEF ProcessSendUnlock
    <3> QED
      BY <2>4, <3>1, <3>2, <3>3 DEF ProcessSend
  <2>5. CASE Disconnect(t)
      <3>1. CASE DisconnectExchange(t)
        BY <3>1 DEF DisconnectExchange
      <3>2. CASE OnDisconnected(t)
        BY <3>2 DEF OnDisconnected
      <3>3. CASE CloseSocket(t)
        BY <3>3 DEF CloseSocket
      <3>4. CASE ReleaseSession(t)
        BY <3>4 DEF ReleaseSession
    <3> QED
      BY <2>5, <3>1, <3>2, <3>3, <3>4 DEF Disconnect
  <2> QED
    BY <1>2, <2>1, <2>2, <2>3, <2>4, <2>5 DEF Continue
<1>3. CASE Finished \/ UNCHANGED vars
  BY <1>3 DEF Finished, vars
<1> QED
  BY <1>1, <1>2, <1>3 DEF Next

-----------------------------------------------------------------------------
(* The theorems.                                                              *)

\* Whatever the number of workers, the invariant holds throughout.
THEOREM Invariance == Spec => [](SessionInv /\ WakeUpInv /\ ReceiveArmed)
<1>1. Init => SessionInv /\ WakeUpInv /\ ReceiveArmed
  <2> SUFFICES ASSUME Init PROVE SessionInv /\ WakeUpInv /\ ReceiveArmed
    OBVIOUS
  <2>1. TypeOK
    BY TypeInit
  <2>2. ConnectionInv
    BY DEF Init, ConnectionInv, TearingDown, Entering
  <2>3. SendInv
    BY DEF Init, SendInv, SendExclusive, Sending, TearingDown
  <2>4. RecvInv
    BY DEF Init, RecvInv, ReceiveExclusive, Receiving
  <2>5. WakeUpInv /\ ReceiveArmed
    BY DEF Init, WakeUpInv, ReceiveArmed
  <2> QED
    BY <2>1, <2>2, <2>3, <2>4, <2>5 DEF SessionInv
<1>2. SessionInv /\ WakeUpInv /\ ReceiveArmed /\ [Next]_vars
        => (SessionInv /\ WakeUpInv /\ ReceiveArmed)'
  BY TypeStep, ConnectionStep, SendStep, RecvStep, WakeUpStep, ArmedStep DEF SessionInv
<1> QED
  BY <1>1, <1>2, PTL DEF Spec

\* The variables keep their types, and no null buffer is ever queued.
THEOREM TypeCorrect == Spec => []TypeOK
<1>1. SessionInv => TypeOK
  BY DEF SessionInv
<1> QED
  BY Invariance, <1>1, PTL

\* _sendRegistered is enough to give _sendEvent to one thread at a time, and to
\* none while a WSASend is outstanding.
THEOREM SendIsExclusive == Spec => []SendExclusive
<1>1. SessionInv => SendExclusive
  BY DEF SessionInv, SendInv
<1> QED
  BY Invariance, <1>1, PTL

\* The receive event and the receive buffer need no lock.
THEOREM ReceiveIsExclusive == Spec => []ReceiveExclusive
<1>1. SessionInv => ReceiveExclusive
  BY DEF SessionInv, RecvInv
<1> QED
  BY Invariance, <1>1, PTL

\* What the kernel still reads or will signal is kept alive.
THEOREM PendingIsPinned == Spec => []PinnedWhilePending
<1>1. SessionInv => PinnedWhilePending
  BY DEF SessionInv, TypeOK, DataOK, SendInv, SendExclusive, RecvInv, ReceiveExclusive,
         PinnedWhilePending
<1> QED
  BY Invariance, <1>1, PTL

\* No interleaving of Send with a completion loses the wake-up.
THEOREM NothingIsStranded == Spec => []NoStrandedBuffers
<1>1. SessionInv /\ WakeUpInv => NoStrandedBuffers
  BY DEF SessionInv, TypeOK, FlagsOK, WakeUpInv, NoStrandedBuffers
<1> QED
  BY Invariance, <1>1, PTL

\* A connected session keeps listening to its peer, unless a WSARecv failed with
\* an error that HandleError only logs (Session.cpp:128): it is then deaf.
THEOREM ReceiveStaysArmed == Spec => []ReceiveArmed
BY Invariance, PTL

\* A session is torn down at most once, and ReleaseSession finds it.
THEOREM TornDownOnce == Spec => []TearDownOnce
<1>1. SessionInv => TearDownOnce
  BY DEF SessionInv, ConnectionInv, TearingDown, TearDownOnce
<1> QED
  BY Invariance, <1>1, PTL

-----------------------------------------------------------------------------
(* Session implements FifoChannel: every step of a worker is one step of the  *)
(* channel or changes nothing the channel knows of.                           *)

\* The empty sequence on either side of a concatenation disappears.
LEMMA EmptyConcat ==
  ASSUME NEW S, NEW q \in Seq(S)
  PROVE  q \o <<>> = q /\ <<>> \o q = q
  OBVIOUS

\* Appending to the second part of a concatenation appends to the whole.
LEMMA ConcatAppend ==
  ASSUME NEW S, NEW p \in Seq(S), NEW q \in Seq(S), NEW e \in S
  PROVE  p \o Append(q, e) = Append(p \o q, e)
  OBVIOUS

\* A concatenation is cut where it was joined.
LEMMA ConcatCut ==
  ASSUME NEW S, NEW p \in Seq(S), NEW q \in Seq(S)
  PROVE  /\ SubSeq(p \o q, 1, Len(p)) = p
         /\ SubSeq(p \o q, Len(p) + 1, Len(p \o q)) = q
  OBVIOUS

-----------------------------------------------------------------------------
(* The batch between the drain and WSASend.                                   *)

\* While a thread is about to call WSASend, the batch is what it gathered.
LEMMA GatheredWhile ==
  ASSUME NEW t \in Threads, pc[t] = "rsWsa" PROVE Gathered = eventBufs
  BY DEF Gathered

\* Only the holder of the right to send can be about to call WSASend.
LEMMA GatheredByHolder ==
  ASSUME SendInv, NEW t \in Threads, Sending(t) \/ sendOps = 1, pc[t] # "rsWsa"
  PROVE  Gathered = <<>> /\ \A u \in Threads : pc[u] # "rsWsa"
<1>1. ASSUME NEW u \in Threads, pc[u] = "rsWsa" PROVE FALSE
  BY <1>1 DEF SendInv, SendExclusive, Sending
<1> QED
  BY <1>1 DEF Gathered

\* What the channel sees of a step that leaves these variables alone.
Unseen ==
    /\ UNCHANGED <<eventBufs, sendQueue, wire, sendFailed, socket>>
    /\ \A u \in Threads : (pc[u] = "rsWsa") = (pc'[u] = "rsWsa")

LEMMA UnseenStutters ==
  ASSUME Unseen PROVE UNCHANGED Channel!vars
<1>1. Gathered' = Gathered
  BY DEF Unseen, Gathered
<1> QED
  BY <1>1 DEF Unseen, Channel!vars

-----------------------------------------------------------------------------
(* The steps the channel sees.                                                *)

LEMMA PushAccepts ==
  ASSUME SessionInv, NEW t \in Threads, SendPush(t)
  PROVE  \E m \in Msgs : Channel!Accept(m)
<1> USE DEF SessionInv, TypeOK, DataOK, SendPush
<1>1. msg[t] \in Msgs /\ Gathered \in Seq(Msgs)
  BY DEF Gathered
<1>2. Gathered' = Gathered
  BY DEF Gathered
<1>3. Gathered \o Append(sendQueue, msg[t]) = Append(Gathered \o sendQueue, msg[t])
  BY <1>1, ConcatAppend
<1>4. Channel!Accept(msg[t])
  BY <1>2, <1>3 DEF Channel!Accept
<1> QED
  BY <1>1, <1>4

LEMMA WriteTransmits ==
  ASSUME SessionInv, NEW t \in Threads, WSASendPending(t)
  PROVE  \E k \in 1..Len(Gathered \o sendQueue) : Channel!Transmit(k)
<1> USE DEF SessionInv, TypeOK, DataOK, WSASendPending
<1>1. Gathered = eventBufs /\ eventBufs # <<>>
  BY GatheredWhile DEF SendInv
<1>2. \A u \in Threads : pc'[u] # "rsWsa"
  <2>1. \A u \in Threads : pc[u] = "rsWsa" => u = t
    BY DEF SendInv, SendExclusive, Sending
  <2>2. pc'[t] # "rsWsa"
    BY DEF RegisterSendReturn
  <2> QED
    BY <2>1, <2>2
<1>3. Gathered' = <<>>
  BY <1>2 DEF Gathered
<1>4. Len(eventBufs) \in 1..Len(eventBufs \o sendQueue)
  BY <1>1
<1>5. /\ SubSeq(Gathered \o sendQueue, 1, Len(eventBufs)) = eventBufs
      /\ SubSeq(Gathered \o sendQueue, Len(eventBufs) + 1, Len(Gathered \o sendQueue)) = sendQueue
      /\ Gathered' \o sendQueue = sendQueue
  BY <1>1, <1>3, ConcatCut, EmptyConcat
<1>6. Channel!Transmit(Len(eventBufs))
  BY <1>5 DEF Channel!Transmit
<1> QED
  BY <1>1, <1>4, <1>6

LEMMA FailedWriteLoses ==
  ASSUME SessionInv, NEW t \in Threads, NEW reset \in BOOLEAN, WSASendError(t, reset)
  PROVE  \E k \in 1..Len(Gathered \o sendQueue) : Channel!Lose(k)
<1> USE DEF SessionInv, TypeOK, DataOK, WSASendError
<1>1. Gathered = eventBufs /\ eventBufs # <<>>
  BY GatheredWhile DEF SendInv
<1>2. \A u \in Threads : pc'[u] # "rsWsa"
  BY DEF SendInv, SendExclusive, Sending
<1>3. Gathered' = <<>>
  BY <1>2 DEF Gathered
<1>4. Len(eventBufs) \in 1..Len(eventBufs \o sendQueue)
  BY <1>1
<1>5. Channel!Lose(Len(eventBufs))
  BY <1>1, <1>3, ConcatCut, EmptyConcat DEF Channel!Lose
<1> QED
  BY <1>1, <1>4, <1>5

LEMMA DrainStutters ==
  ASSUME SessionInv, NEW t \in Threads, DrainQueue(t)
  PROVE  UNCHANGED Channel!vars
<1> USE DEF SessionInv, TypeOK, DataOK, DrainQueue
<1>1. Gathered = <<>> /\ eventBufs = <<>>
  BY GatheredByHolder DEF SendInv, Sending
<1>2. Gathered' = sendQueue
  BY <1>1, EmptyConcat DEF Gathered
<1> QED
  BY <1>1, <1>2, EmptyConcat DEF Channel!vars

\* The event is cleared only by the holder of the right, after the batch left.
LEMMA ClearStutters ==
  ASSUME SessionInv, NEW t \in Threads,
         ClearSendEvent(t) \/ \E bytes \in 0..1 : SendDone(t, bytes)
  PROVE  UNCHANGED Channel!vars
<1> USE DEF SessionInv, TypeOK, DataOK, ClearSendEvent, SendDone
<1>1. Gathered = <<>> /\ \A u \in Threads : pc[u] # "rsWsa"
  BY GatheredByHolder DEF SendInv, SendExclusive, Sending
<1>2. \A u \in Threads : pc'[u] # "rsWsa"
  BY <1>1
<1>3. Gathered' = <<>>
  BY <1>2 DEF Gathered
<1> QED
  BY <1>1, <1>3 DEF Channel!vars

LEMMA CloseCloses ==
  ASSUME TypeOK, NEW t \in Threads, CloseSocket(t) PROVE Channel!Close
<1>1. Gathered' = Gathered
  BY DEF CloseSocket, TypeOK, DataOK, Gathered
<1> QED
  BY <1>1 DEF CloseSocket, Channel!Close
-----------------------------------------------------------------------------
\* The connection and receive paths are not seen.
LEMMA OtherPathsUnseen ==
  ASSUME TypeOK, NEW t \in Threads,
         \/ ConnectDone(t) \/ ProcessConnect(t) \/ Receive(t)
         \/ \E bytes \in 0..1 : RecvDone(t, bytes)
  PROVE  Unseen
<1> USE DEF TypeOK, DataOK, Unseen
<1>1. CASE ConnectDone(t)
  BY <1>1 DEF ConnectDone
<1>2. CASE ProcessConnect(t)
  BY <1>2 DEF ProcessConnect, AddSession, OnConnected, OnConnectedReturns
<1>3. CASE Receive(t)
  <2>1. CASE RegisterRecv(t) \/ WSARecvPending(t) \/ ClearRecvOwner(t)
    BY <2>1 DEF RegisterRecv, WSARecvPending, ClearRecvOwner
  <2>2. ASSUME NEW reset \in BOOLEAN, WSARecvError(t, reset) PROVE Unseen
    BY <2>2 DEF WSARecvError
  <2>3. ASSUME NEW accepted \in BOOLEAN, OnRecvReturns(t, accepted) PROVE Unseen
    BY <2>3 DEF OnRecvReturns
  <2> QED
    BY <1>3, <2>1, <2>2, <2>3 DEF Receive
<1>4. ASSUME NEW bytes \in 0..1, RecvDone(t, bytes) PROVE Unseen
  BY <1>4 DEF RecvDone
<1> QED
  BY <1>1, <1>2, <1>3, <1>4

\* Nor are the steps of Send and ProcessSend that only pass the right on, nor
\* what Disconnect does before and after closing the socket.
LEMMA PassingUnseen ==
  ASSUME TypeOK, NEW t \in Threads,
         \/ SendExchange(t) \/ RegisterSend(t) \/ StoreUnregistered(t) \/ ProcessSend(t)
         \/ DisconnectExchange(t) \/ OnDisconnected(t) \/ ReleaseSession(t)
         \/ \E m \in Msgs : SendCall(t, m)
  PROVE  Unseen
<1> USE DEF TypeOK, DataOK, Unseen
<1>1. home[t] # "rsWsa" /\ ret[t] # "rsWsa" /\ RegisterSendReturn(t) # "rsWsa"
  BY DEF RegisterSendReturn
<1>2. CASE SendExchange(t) \/ RegisterSend(t) \/ StoreUnregistered(t)
  BY <1>1, <1>2 DEF SendExchange, RegisterSend, StoreUnregistered
<1>3. CASE ProcessSend(t)
  BY <1>1, <1>3 DEF ProcessSend, ProcessSendLock, ProcessSendDecide, ProcessSendUnlock
<1>4. CASE DisconnectExchange(t) \/ OnDisconnected(t) \/ ReleaseSession(t)
  BY <1>1, <1>4 DEF DisconnectExchange, OnDisconnected, ReleaseSession
<1>5. ASSUME NEW m \in Msgs, SendCall(t, m) PROVE Unseen
  BY <1>5 DEF SendCall
<1> QED
  BY <1>2, <1>3, <1>4, <1>5

LEMMA StepRefines ==
  ASSUME SessionInv, [Next]_vars PROVE [Channel!Next]_(Channel!vars)
<1> USE DEF SessionInv
<1>1. ASSUME NEW t \in Threads, Begin(t) PROVE UNCHANGED Channel!vars
  BY <1>1, OtherPathsUnseen, PassingUnseen, ClearStutters, UnseenStutters DEF Begin
<1>2. ASSUME NEW t \in Threads, Continue(t) PROVE [Channel!Next]_(Channel!vars)
  <2>1. CASE ProcessConnect(t) \/ Receive(t) \/ ProcessSend(t)
    BY <2>1, OtherPathsUnseen, PassingUnseen, UnseenStutters
  <2>2. CASE Send(t)
    <3>1. CASE SendPush(t)
      BY <3>1, PushAccepts DEF Channel!Next
    <3>2. CASE SendExchange(t) \/ RegisterSend(t) \/ StoreUnregistered(t)
      BY <3>2, PassingUnseen, UnseenStutters
    <3>3. CASE DrainQueue(t) \/ ClearSendEvent(t)
      BY <3>3, DrainStutters, ClearStutters
    <3>4. CASE WSASendPending(t)
      BY <3>4, WriteTransmits DEF Channel!Next
    <3>5. ASSUME NEW reset \in BOOLEAN, WSASendError(t, reset) PROVE Channel!Next
      BY <3>5, FailedWriteLoses DEF Channel!Next
    <3> QED
      BY <2>2, <3>1, <3>2, <3>3, <3>4, <3>5 DEF Send
  <2>3. CASE Disconnect(t)
    BY <2>3, PassingUnseen, UnseenStutters, CloseCloses DEF Disconnect, Channel!Next
  <2> QED
    BY <1>2, <2>1, <2>2, <2>3 DEF Continue
<1>3. CASE Finished \/ UNCHANGED vars
  <2>1. Unseen
    BY <1>3 DEF Finished, vars, Unseen
  <2> QED
    BY <2>1, UnseenStutters
<1> QED
  BY <1>1, <1>2, <1>3 DEF Next

\* Session::Send delivers as the abstract channel promises: in order, without
\* duplicates, losing only what a failed WSASend had gathered.
THEOREM SendRefinesChannel == Spec => ImplementsChannel
<1>1. Init => Channel!Init
  BY DEF Init, Channel!Init, Gathered
<1>2. SessionInv /\ [Next]_vars => [Channel!Next]_(Channel!vars)
  BY StepRefines
<1> QED
  BY <1>1, <1>2, Invariance, PTL DEF Spec, ImplementsChannel, Channel!Spec
=============================================================================
