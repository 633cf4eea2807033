------------------------------ MODULE CsSession ------------------------------
(* The C# client's Session (CSDummyClient/Network): sends gathered into one   *)
(* SendAsync at a time, a receive loop, and the disconnect it ends with.      *)
(*                                                                            *)
(* Senders are the threads that call Send: the console's, and the one that    *)
(* continues after ReceiveAsync, whose handlers answer packets.  The thread   *)
(* that continues after SendAsync is Continuation; when SendAsync completes   *)
(* at once that is the caller, which changes nothing here.  A completion of   *)
(* SendAsync with no bytes does not occur: a packet has four bytes at least.  *)
(* CsInit, CsNext, CsSpec and csVars are named so that a module may extend    *)
(* this one together with Client.                                             *)
EXTENDS Naturals, Sequences

CONSTANTS Senders, Continuation, Msgs, None

ASSUME NamesAssumption == Continuation \notin Senders /\ None \notin Senders \cup {Continuation}

VARIABLES
    lock,                  \* _lock, or None
    pc,                    \* the threads that send
    toSend,                \* messages nobody has sent yet
    queue, pending,        \* _sendQueue, _pendingList
    writes,                \* SendAsync calls that have not completed, each with its buffers
    sent,                  \* history: what the socket accepted, in order
    dropped,               \* history: messages were given up without being sent
    threw,                 \* history: a SendAsync threw
    receiver,              \* the receive loop
    manager,               \* the connecting thread: "away", then "start", "added"
    listed,                \* in SessionManager
    disconnected, socket,  \* _disconnected; the socket is open
    early,                 \* history: Disconnect overtook OnConnected
    peer                   \* "up", "closed" or "reset"

sendVars == <<lock, pc, toSend, queue, pending, writes, sent, dropped, threw>>
closeVars == <<receiver, manager, listed, disconnected, socket, early>>
csVars == <<sendVars, closeVars, peer>>

Threads == Senders \cup {Continuation}

CsInit ==
    /\ lock = None /\ pc = [t \in Threads |-> "idle"]
    /\ toSend = Msgs /\ queue = <<>> /\ pending = <<>> /\ writes = {}
    /\ sent = <<>> /\ dropped = FALSE /\ threw = FALSE
    /\ receiver = "none" /\ manager = "away" /\ listed = FALSE
    /\ disconnected = FALSE /\ socket = TRUE /\ early = FALSE
    /\ peer = "up"

Step(t, here, there) ==
    /\ pc[t] = here
    /\ pc' = [pc EXCEPT ![t] = there]
    /\ UNCHANGED <<closeVars, peer>>

-----------------------------------------------------------------------------
(* Sending.                                                                   *)

\* MUTANT: Send does not look whether a SendAsync is under way.
AlwaysIdle == TRUE

NonePending == pending = <<>>

\* Send: the message is queued, and sent at once if nothing is pending.
Send(t, m) ==
    /\ t \in Senders /\ manager # "away" /\ m \in toSend /\ lock = None
    /\ Step(t, "idle", IF NonePending THEN "register" ELSE "idle")
    /\ lock' = IF NonePending THEN t ELSE None
    /\ toSend' = toSend \ {m}
    /\ queue' = Append(queue, m)
    /\ UNCHANGED <<pending, writes, sent, dropped, threw>>

\* RegisterSend after a disconnect.
SendOff(t) ==
    /\ Step(t, "register", "idle") /\ disconnected
    /\ lock' = None
    /\ UNCHANGED <<toSend, queue, pending, writes, sent, dropped, threw>>

\* It looks once: a disconnect after that does not stop it.
Alive(t) ==
    /\ Step(t, "register", "gather") /\ ~disconnected
    /\ UNCHANGED <<lock, toSend, queue, pending, writes, sent, dropped, threw>>

\* MUTANT: what was gathered stays in the queue.
StillQueued == queue

Dequeued == <<>>

\* RegisterSend: everything queued is gathered, and SendAsync takes it,
SendAsync(t) ==
    /\ Step(t, "gather", "idle")
    /\ socket /\ peer # "reset"
    /\ pending' = pending \o queue /\ queue' = Dequeued
    /\ writes' = writes \cup {pending'}
    /\ sent' = sent \o pending'
    /\ lock' = None
    /\ UNCHANGED <<toSend, dropped, threw>>

\* or throws; then the list stays as it is.
SendThrows(t) ==
    /\ Step(t, "gather", "idle")
    /\ ~socket \/ peer = "reset"
    /\ pending' = pending \o queue /\ queue' = Dequeued
    /\ dropped' = TRUE /\ threw' = TRUE
    /\ lock' = None
    /\ UNCHANGED <<toSend, writes, sent>>

\* MUTANT: messages queued meanwhile wait for the next Send.
NotAgain == FALSE

Again == queue # <<>>

\* OnSendCompleted clears the list and sends what was queued meanwhile.
OnSendCompleted(w) ==
    /\ w \in writes /\ lock = None
    /\ Step(Continuation, "idle", IF Again THEN "register" ELSE "idle")
    /\ writes' = writes \ {w}
    /\ pending' = <<>>
    /\ lock' = IF Again THEN Continuation ELSE None
    /\ UNCHANGED <<toSend, queue, sent, dropped, threw>>

\* SendAsync throws where it is awaited: the list stays as it is.
AwaitThrows(w) ==
    /\ w \in writes /\ (~socket \/ peer = "reset")
    /\ Step(Continuation, "idle", "idle")
    /\ writes' = writes \ {w}
    /\ threw' = TRUE
    /\ UNCHANGED <<lock, toSend, queue, pending, sent, dropped>>

-----------------------------------------------------------------------------
(* Connecting, receiving, disconnecting.                                      *)

\* OnConnectCompleted: Start posts the first receive,
Start ==
    /\ manager = "away"
    /\ manager' = "start" /\ receiver' = "posted"
    /\ UNCHANGED <<sendVars, listed, disconnected, socket, early, peer>>

\* and OnConnected adds the session.
Add ==
    /\ manager = "start"
    /\ manager' = "added" /\ listed' = TRUE
    /\ early' = (receiver \in {"shutdown", "clear", "done"})
    /\ UNCHANGED <<sendVars, receiver, disconnected, socket, peer>>

Receive(here, there) ==
    /\ receiver = here
    /\ receiver' = there
    /\ UNCHANGED <<sendVars, manager, early, peer>>

\* OnRecvCompleted with bytes,
OnRecv ==
    /\ Receive("posted", "handling") /\ peer = "up"
    /\ UNCHANGED <<listed, disconnected, socket>>

\* and the next RegisterRecv; a buffer that does not add up disconnects, and a
\* handler that throws ends the loop.
RegisterRecv ==
    /\ \E there \in {"posted", "disconnect", "deaf"} : Receive("handling", there)
    /\ UNCHANGED <<listed, disconnected, socket>>

\* MUTANT: a receive without bytes is followed by the next.
ReceiveAgain == "posted"

NoBytes == "disconnect"

\* ReceiveAsync completes with no bytes,
OnRecvClosed ==
    /\ Receive("posted", NoBytes) /\ peer = "closed"
    /\ UNCHANGED <<listed, disconnected, socket>>

\* or throws, which ends the loop and nothing else.
ReceiveThrows ==
    /\ Receive("posted", "deaf") /\ peer = "reset"
    /\ UNCHANGED <<listed, disconnected, socket>>

\* Disconnect: the flag, SessionManager.Remove,
Disconnect ==
    /\ Receive("disconnect", "remove")
    /\ disconnected' = TRUE
    /\ UNCHANGED <<listed, socket>>

Remove ==
    /\ Receive("remove", "shutdown")
    /\ listed' = FALSE
    /\ UNCHANGED <<disconnected, socket>>

\* the socket, which may throw and leave the rest undone,
Shutdown ==
    /\ Receive("shutdown", "clear")
    /\ socket' = FALSE
    /\ UNCHANGED <<listed, disconnected>>

ShutdownThrows ==
    /\ Receive("shutdown", "done") /\ peer = "reset"
    /\ UNCHANGED <<listed, disconnected, socket>>

\* and the queues, under the lock.
Clear ==
    /\ receiver = "clear" /\ lock = None
    /\ receiver' = "done"
    /\ queue' = <<>> /\ pending' = <<>>
    /\ dropped' = (dropped \/ queue # <<>>)
    /\ UNCHANGED <<lock, pc, toSend, writes, sent, threw, manager, listed, disconnected, socket, early,
                   peer>>

\* The server closes the connection, or it breaks.
PeerEnds ==
    \/ peer = "up" /\ peer' = "closed" /\ UNCHANGED <<sendVars, closeVars>>
    \/ peer # "reset" /\ peer' = "reset" /\ UNCHANGED <<sendVars, closeVars>>

-----------------------------------------------------------------------------
Registering == \E t \in Threads : SendOff(t) \/ Alive(t) \/ SendAsync(t) \/ SendThrows(t)
Completing == \E w \in writes : OnSendCompleted(w) \/ AwaitThrows(w)
Receiving ==
    \/ RegisterRecv \/ OnRecvClosed \/ ReceiveThrows
    \/ Disconnect \/ Remove \/ Shutdown \/ ShutdownThrows \/ Clear

CsNext ==
    \/ \E t \in Senders, m \in Msgs : Send(t, m)
    \/ Registering \/ Completing \/ Start \/ Add \/ OnRecv \/ Receiving \/ PeerEnds

CsSpec == CsInit /\ [][CsNext]_csVars

\* A thread in an operation goes on, and what the socket was asked completes;
\* nobody has to send, and the peer need not write or go.
CsFairSpec ==
    /\ CsSpec
    /\ WF_csVars(Registering) /\ WF_csVars(Completing) /\ WF_csVars(Receiving) /\ WF_csVars(Add)

-----------------------------------------------------------------------------
(* Properties.                                                                *)

\* One SendAsync at a time, with what is pending, while the session is alive;
\* the list holds nothing else unless a SendAsync has failed.
WritesInTurn ==
    /\ \A v, w \in writes : v = w
    /\ ~disconnected /\ ~threw => writes = IF pending = <<>> THEN {} ELSE {pending}

\* A message is handed to the socket, unless a SendAsync failed (then nothing
\* is ever sent again) or the session is disconnected.
QueueDrains == queue # <<>> ~> queue = <<>> \/ threw \/ disconnected

\* When the server closes the connection the session goes from SessionManager,
\* unless that overtook its being added; a receive or a handler that throws is
\* noticed by nobody.
ClosingNoticed ==
    peer = "closed" /\ listed ~> ~listed \/ early \/ receiver = "deaf"

\* What Send promises: FifoChannel.
Channel == INSTANCE FifoChannel WITH unsent <- queue, faulty <- dropped, open <- socket
ImplementsChannel == Channel!Spec
=============================================================================
