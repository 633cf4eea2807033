------------------------------- MODULE Listener -------------------------------
(* The accept loop: the server's AcceptEvents go round between the kernel,    *)
(* the completion port and the worker that takes a completion, each with the  *)
(* session the next peer will get.  Main starts them all before there are     *)
(* workers.  What a session does once it is connected is Session's matter;    *)
(* here it is in the service until its peer goes.                             *)
(*                                                                            *)
(* A session object lives while a shared_ptr refers to it: the event's, a     *)
(* local of RegisterAccept or ProcessAccept, the service's; its memory is     *)
(* used again after that.                                                     *)
EXTENDS Naturals, FiniteSets, Sequences

CONSTANTS
    Events,                \* _acceptEvents, as many as _maxSessionCount
    Workers, Main,         \* the threads of the port, and the one that starts
    Sessions,              \* the memory there is for session objects
    Peers,
    MaxDepth,              \* BOUND: nested RegisterAccepts the stack has room for
    MaxFails,              \* BOUND: accepts that fail, at once or later
    None

ASSUME NamesAssumption == Main \notin Workers /\ None \notin Events \cup Sessions \cup Peers
ASSUME NumbersAssumption == MaxDepth \in Nat /\ MaxFails \in Nat

Threads == Workers \cup {Main}

VARIABLES
    pc, event, frames,     \* each thread: statement, acceptEvent, sessions its frames refer to
    session,               \* each event's session
    kernel,                \* the session whose socket an outstanding AcceptEx fills, or None
    completed,             \* events whose completion is queued at the port
    accepted,              \* the peer at the other end of a session's socket, or None
    sessions,              \* the service's _sessions
    waiting,               \* the listening socket's backlog: peers not accepted yet
    fails,
    crashed                \* how the process ended, or "no"

threadVars == <<pc, event, frames>>
eventVars == <<session, kernel, completed>>
vars == <<threadVars, eventVars, accepted, sessions, waiting, fails, crashed>>

Init ==
    /\ pc = [t \in Threads |-> IF t = Main THEN "start" ELSE "idle"]
    /\ event = [t \in Threads |-> None]
    /\ frames = [t \in Threads |-> {}]
    /\ session = [e \in Events |-> None]
    /\ kernel = [e \in Events |-> None]
    /\ completed = {}
    /\ accepted = [s \in Sessions |-> None]
    /\ sessions = {} /\ waiting = <<>> /\ fails = 0 /\ crashed = "no"

Step(t, here, there) ==
    /\ crashed = "no"
    /\ pc[t] = here
    /\ pc' = [pc EXCEPT ![t] = there]

Crash(t, here, how) ==
    /\ crashed = "no" /\ pc[t] = here
    /\ crashed' = how
    /\ UNCHANGED <<threadVars, eventVars, accepted, sessions, waiting, fails>>

\* Nothing refers to the object any more, and the destructor closes its socket.
Free(s) ==
    /\ s \notin sessions
    /\ \A e \in Events : session[e] # s
    /\ \A t \in Threads : s \notin frames[t]

-----------------------------------------------------------------------------
(* StartAccept, on Main.                                                      *)

StartAccept(e) ==
    /\ Step(Main, "start", "register")
    /\ session[e] = None
    /\ event' = [event EXCEPT ![Main] = e]
    /\ UNCHANGED <<frames, eventVars, accepted, sessions, waiting, fails, crashed>>

Launched ==
    /\ Step(Main, "start", "done")
    /\ \A e \in Events : session[e] # None
    /\ UNCHANGED <<event, frames, eventVars, accepted, sessions, waiting, fails, crashed>>

-----------------------------------------------------------------------------
(* RegisterAccept.                                                            *)

\* MUTANT: the event keeps the session it has.
KeptOr(e, s) == IF session[e] = None THEN s ELSE session[e]

NewSession(e, s) == s

\* CreateSession, and the event is given the session.
CreateSession(t) ==
    LET s == CHOOSE s \in Sessions : Free(s)
        e == event[t] IN
    /\ Step(t, "register", "accept")
    /\ \E q \in Sessions : Free(q)
    /\ frames' = [frames EXCEPT ![t] = @ \cup {s}]
    /\ session' = [session EXCEPT ![e] = NewSession(e, s)]
    /\ accepted' = [accepted EXCEPT ![s] = None]
    /\ UNCHANGED <<event, kernel, completed, sessions, waiting, fails, crashed>>

\* Without a socket there is nothing to register with the port: a null session.
NoSession(t) == Crash(t, "register", "null session")

\* MUTANT: an AcceptEx that is pending is taken for one that failed.
Retry(t) == "register"

Return(t) == IF t = Main THEN "start" ELSE "idle"

\* AcceptEx is under way; the frames return.
AcceptEx(t) ==
    LET e == event[t] IN
    /\ Step(t, "accept", Return(t))
    /\ kernel' = [kernel EXCEPT ![e] = session[e]]
    /\ frames' = [frames EXCEPT ![t] = {}]
    /\ event' = [event EXCEPT ![t] = IF pc'[t] = "register" THEN e ELSE None]
    /\ UNCHANGED <<session, completed, accepted, sessions, waiting, fails, crashed>>

\* AcceptEx fails at once, and RegisterAccept calls itself.
AcceptExError(t) ==
    /\ Step(t, "accept", "register")
    /\ Cardinality(frames[t]) < MaxDepth
    /\ fails < MaxFails /\ fails' = fails + 1
    /\ UNCHANGED <<event, frames, eventVars, accepted, sessions, waiting, crashed>>

StackOverflow(t) == Cardinality(frames[t]) >= MaxDepth /\ Crash(t, "accept", "stack")

-----------------------------------------------------------------------------
(* The kernel.                                                                *)

Waits(p) == \E i \in DOMAIN waiting : waiting[i] = p

Arrive(p) ==
    /\ crashed = "no"
    /\ ~Waits(p) /\ \A s \in Sessions : accepted[s] # p
    /\ waiting' = Append(waiting, p)
    /\ UNCHANGED <<threadVars, eventVars, accepted, sessions, fails, crashed>>

Complete(e) ==
    /\ crashed = "no" /\ kernel[e] # None
    /\ kernel' = [kernel EXCEPT ![e] = None]
    /\ completed' = completed \cup {e}
    /\ UNCHANGED <<threadVars, session, sessions, crashed>>

\* The peer that waits longest is accepted into the event's socket,
Accept(e) ==
    /\ Complete(e)
    /\ waiting # <<>> /\ waiting' = Tail(waiting)
    /\ accepted' = [accepted EXCEPT ![kernel[e]] = Head(waiting)]
    /\ UNCHANGED fails

\* or the accept completes with an error.
AcceptFails(e) ==
    /\ Complete(e)
    /\ fails < MaxFails /\ fails' = fails + 1
    /\ UNCHANGED <<waiting, accepted>>

-----------------------------------------------------------------------------
(* Dispatch and ProcessAccept, on a worker.                                   *)

\* A completion is dispatched whether it succeeded or not.
Dispatch(w, e) ==
    /\ pc[Main] = "done"
    /\ Step(w, "idle", "process")
    /\ e \in completed
    /\ completed' = completed \ {e}
    /\ event' = [event EXCEPT ![w] = e]
    /\ frames' = [frames EXCEPT ![w] = {session[e]}]
    /\ UNCHANGED <<session, kernel, accepted, sessions, waiting, fails, crashed>>

\* ProcessConnect, which adds the session to the service.
ProcessAccept(w) ==
    LET s == session[event[w]] IN
    /\ Step(w, "process", "register")
    /\ accepted[s] # None
    /\ sessions' = sessions \cup {s}
    /\ UNCHANGED <<event, frames, eventVars, accepted, waiting, fails, crashed>>

\* MUTANT: the event is not registered again.
Dropped == "idle"

GoesOn == "register"

\* The accept failed, or the peer has gone again: only the event goes on.
NoPeer(w) ==
    LET s == session[event[w]] IN
    /\ Step(w, "process", GoesOn)
    /\ accepted' = [accepted EXCEPT ![s] = None]
    /\ UNCHANGED <<event, frames, eventVars, sessions, waiting, fails, crashed>>

\* The peer goes and the session is disconnected.
ReleaseSession(s) ==
    /\ crashed = "no" /\ s \in sessions
    /\ sessions' = sessions \ {s}
    /\ accepted' = [accepted EXCEPT ![s] = None]
    /\ UNCHANGED <<threadVars, eventVars, waiting, fails, crashed>>

-----------------------------------------------------------------------------
Registering(t) ==
    CreateSession(t) \/ NoSession(t) \/ AcceptEx(t) \/ AcceptExError(t) \/ StackOverflow(t)
Processing(w) == (\E e \in Events : Dispatch(w, e)) \/ ProcessAccept(w) \/ NoPeer(w)
Accepting == \E e \in Events : Accept(e)
Starting == (\E e \in Events : StartAccept(e)) \/ Launched

Next ==
    \/ Starting \/ Accepting
    \/ \E t \in Threads : Registering(t)
    \/ \E w \in Workers : Processing(w)
    \/ \E e \in Events : AcceptFails(e)
    \/ \E p \in Peers : Arrive(p)
    \/ \E s \in Sessions : ReleaseSession(s)

Spec == Init /\ [][Next]_vars

\* Main and the workers run, and the kernel accepts who waits; peers may stay away.
FairSpec ==
    /\ Spec
    /\ WF_vars(Starting) /\ WF_vars(Accepting)
    /\ \A t \in Threads : WF_vars(Registering(t))
    /\ \A w \in Workers : WF_vars(Processing(w))

-----------------------------------------------------------------------------
(* Properties.                                                                *)

\* Where an event is: in a thread's hands, outstanding, or queued at the port.
Places(e) ==
    {t \in Threads : event[t] = e}
    \cup {p \in {"outstanding"} : kernel[e] # None} \cup {p \in {"queued"} : e \in completed}

\* An event is in one place from the moment Main has made it; none is lost,
\* whatever fails, and no two threads have one.
EventsKept ==
    \A e \in Events :
        IF session[e] = None /\ event[Main] # e THEN Places(e) = {} ELSE \E p \in Places(e) : Places(e) = {p}

\* A socket is filled for one event, the one that has its session, and never
\* once the session is connected; a connected session has a peer of its own.
SessionsOwned ==
    /\ \A e \in Events : kernel[e] # None =>
           /\ kernel[e] = session[e] /\ kernel[e] \notin sessions
           /\ \A f \in Events \ {e} : session[f] # kernel[e]
    /\ \A s \in sessions : accepted[s] # None
    /\ \A s, u \in sessions : accepted[s] = accepted[u] => s = u

\* Who waits is accepted, unless the process has ended.
PeersAccepted == \A p \in Peers : Waits(p) ~> ~Waits(p) \/ crashed # "no"
=============================================================================
