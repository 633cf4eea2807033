---------------------------- MODULE ListenerProofs ----------------------------
(* For any number of events, workers, sessions and peers: whatever fails, no  *)
(* accept event is lost, and no socket is given to two of them.               *)
EXTENDS Listener, TLAPS

-----------------------------------------------------------------------------
(* The inductive invariant.                                                   *)

TypeOK ==
    /\ pc \in [Threads -> {"start", "register", "accept", "process", "idle", "done"}]
    /\ event \in [Threads -> Events \cup {None}]
    /\ session \in [Events -> Sessions \cup {None}]
    /\ kernel \in [Events -> Sessions \cup {None}]
    /\ completed \in SUBSET Events
    /\ accepted \in [Sessions -> Peers \cup {None}]
    /\ sessions \in SUBSET Sessions
    /\ waiting \in Seq(Peers)

\* A thread has an event while it is at work on one, alone.
HandsInv ==
    /\ \A t \in Threads : event[t] # None <=> pc[t] \in {"register", "accept", "process"}
    /\ \A t, u \in Threads : event[t] = event[u] /\ event[t] # None => t = u

\* It is in one place, and once it has a session it is somewhere.
PlaceInv ==
    /\ \A t \in Threads : event[t] # None => kernel[event[t]] = None /\ event[t] \notin completed
    /\ \A e \in Events : kernel[e] # None => e \notin completed
    /\ \A e \in Events : session[e] # None =>
           kernel[e] # None \/ e \in completed \/ \E t \in Threads : event[t] = e
    /\ \A e \in Events : session[e] = None =>
           kernel[e] = None /\ e \notin completed /\ \A w \in Workers : event[w] # e

\* Until its completion has been processed, the event's session is nobody else's.
SocketInv ==
    /\ \A e \in Events : kernel[e] # None => kernel[e] = session[e]
    /\ \A e, f \in Events : session[e] = session[f] /\ session[e] # None => e = f
    /\ \A e \in Events : kernel[e] # None \/ e \in completed => session[e] \notin sessions
    /\ \A t \in Threads : pc[t] \in {"accept", "process"} =>
           session[event[t]] \in Sessions \ sessions

\* A peer waits once, or has one socket.
PeerInv ==
    /\ \A s \in sessions : accepted[s] # None
    /\ \A s, u \in Sessions : accepted[s] = accepted[u] /\ accepted[s] # None => s = u
    /\ \A i \in 1..Len(waiting), s \in Sessions : accepted[s] # waiting[i]
    /\ \A i, j \in 1..Len(waiting) : waiting[i] = waiting[j] => i = j

ListenerInv == TypeOK /\ HandsInv /\ PlaceInv /\ SocketInv /\ PeerInv

USE DEF Threads, threadVars, eventVars, Step, NewSession, Return, GoesOn, Complete

-----------------------------------------------------------------------------
(* The backlog.                                                               *)

LEMMA TailIs ==
  ASSUME NEW q \in Seq(Peers), q # <<>>
  PROVE  /\ Tail(q) \in Seq(Peers) /\ Len(Tail(q)) = Len(q) - 1
         /\ \A i \in 1..Len(Tail(q)) : Tail(q)[i] = q[i + 1] /\ i + 1 \in 1..Len(q)
         /\ Head(q) = q[1] /\ 1 \in 1..Len(q) /\ Head(q) \in Peers
  OBVIOUS

LEMMA WaitingArePeers ==
  ASSUME TypeOK PROVE \A i \in 1..Len(waiting) : waiting[i] # None
  BY NamesAssumption DEF TypeOK

LEMMA AppendIs ==
  ASSUME NEW q \in Seq(Peers), NEW p \in Peers
  PROVE  /\ Append(q, p) \in Seq(Peers) /\ Len(Append(q, p)) = Len(q) + 1
         /\ \A i \in 1..(Len(q) + 1) : Append(q, p)[i] = IF i <= Len(q) THEN q[i] ELSE p
  OBVIOUS

-----------------------------------------------------------------------------
LEMMA ListenerInit == Init => ListenerInv
<1> SUFFICES ASSUME Init PROVE ListenerInv
  OBVIOUS
<1> USE DEF Init
<1>1. TypeOK
  BY DEF TypeOK
<1>2. HandsInv /\ PlaceInv /\ SocketInv
  BY NamesAssumption DEF HandsInv, PlaceInv, SocketInv
<1>3. PeerInv
  BY DEF PeerInv
<1> QED
  BY <1>1, <1>2, <1>3 DEF ListenerInv

LEMMA StartKeeps ==
  ASSUME ListenerInv, (\E e \in Events : StartAccept(e)) \/ Launched
  PROVE  ListenerInv'
<1> USE DEF ListenerInv, TypeOK, StartAccept, Launched
<1>1. TypeOK'
  OBVIOUS
<1>2. HandsInv' /\ PlaceInv'
  BY NamesAssumption DEF HandsInv, PlaceInv
<1>3. SocketInv' /\ PeerInv'
  BY DEF SocketInv, PeerInv, HandsInv
<1> QED
  BY <1>1, <1>2, <1>3

LEMMA CreateKeeps ==
  ASSUME ListenerInv, NEW t \in Threads, CreateSession(t)
  PROVE  ListenerInv'
<1> DEFINE s == CHOOSE q \in Sessions : Free(q)
           e == event[t]
<1>1. s \in Sessions /\ Free(s)
  BY DEF CreateSession
<1>2. e \in Events /\ kernel[e] = None /\ e \notin completed
  BY DEF ListenerInv, TypeOK, HandsInv, PlaceInv, CreateSession
<1>3. /\ pc[t] = "register" /\ pc' = [pc EXCEPT ![t] = "accept"]
      /\ session' = [session EXCEPT ![e] = s]
      /\ accepted' = [accepted EXCEPT ![s] = None]
      /\ UNCHANGED <<event, kernel, completed, sessions, waiting>>
  BY DEF CreateSession
<1> HIDE DEF s, e
<1> USE DEF ListenerInv, TypeOK
<1>4. TypeOK'
  BY <1>1, <1>2, <1>3
<1>5. HandsInv'
  BY <1>3 DEF HandsInv
<1>6. PlaceInv'
  BY <1>1, <1>2, <1>3, NamesAssumption DEF PlaceInv, e
<1>7. s \notin sessions /\ \A f \in Events : session[f] # s
  BY <1>1 DEF Free
<1>8. SocketInv'
  BY <1>1, <1>2, <1>3, <1>7 DEF SocketInv, HandsInv, e
<1>9. PeerInv'
  BY <1>1, <1>3, <1>7, WaitingArePeers DEF PeerInv
<1> QED
  BY <1>4, <1>5, <1>6, <1>8, <1>9

LEMMA AcceptExKeeps ==
  ASSUME ListenerInv, NEW t \in Threads, AcceptEx(t) \/ AcceptExError(t)
  PROVE  ListenerInv'
<1> DEFINE e == event[t]
<1>1. e \in Events /\ kernel[e] = None /\ e \notin completed /\ session[e] \in Sessions \ sessions
  BY DEF ListenerInv, TypeOK, HandsInv, PlaceInv, SocketInv, AcceptEx, AcceptExError
<1> USE DEF ListenerInv, TypeOK
<1>2. CASE AcceptEx(t)
  <2>1. /\ pc' = [pc EXCEPT ![t] = Return(t)] /\ event' = [event EXCEPT ![t] = None]
        /\ kernel' = [kernel EXCEPT ![e] = session[e]]
        /\ UNCHANGED <<session, completed, accepted, sessions, waiting>>
    BY <1>2 DEF AcceptEx
  <2>2. TypeOK'
    BY <1>1, <2>1
  <2>3. HandsInv'
    BY <2>1 DEF HandsInv
  <2>4. PlaceInv'
    BY <1>1, <2>1, NamesAssumption DEF PlaceInv, HandsInv
  <2>5. SocketInv'
    BY <1>1, <2>1 DEF SocketInv, HandsInv
  <2>6. PeerInv'
    BY <2>1 DEF PeerInv
  <2> QED
    BY <2>2, <2>3, <2>4, <2>5, <2>6
<1>3. CASE AcceptExError(t)
  BY <1>3 DEF AcceptExError, HandsInv, PlaceInv, SocketInv, PeerInv
<1> QED
  BY <1>2, <1>3

LEMMA ArriveKeeps ==
  ASSUME ListenerInv, NEW p \in Peers, Arrive(p)
  PROVE  ListenerInv'
<1> USE DEF ListenerInv, TypeOK
<1>1. /\ waiting' = Append(waiting, p)
      /\ UNCHANGED <<pc, event, session, kernel, completed, accepted, sessions>>
      /\ \A i \in 1..Len(waiting) : waiting[i] # p
      /\ \A s \in Sessions : accepted[s] # p
  BY DEF Arrive, Waits
<1>2. TypeOK' /\ HandsInv' /\ PlaceInv' /\ SocketInv'
  BY <1>1, AppendIs DEF HandsInv, PlaceInv, SocketInv
<1>3. PeerInv'
  BY <1>1, AppendIs DEF PeerInv
<1> QED
  BY <1>2, <1>3

LEMMA CompleteKeeps ==
  ASSUME ListenerInv, NEW e \in Events, Accept(e) \/ AcceptFails(e)
  PROVE  ListenerInv'
<1> USE DEF ListenerInv, TypeOK
<1>1. /\ kernel[e] # None /\ kernel' = [kernel EXCEPT ![e] = None]
      /\ completed' = completed \cup {e}
      /\ UNCHANGED <<pc, event, session, sessions>>
  BY DEF Accept, AcceptFails
<1>2. kernel[e] \in Sessions \ sessions /\ kernel[e] = session[e]
  BY <1>1 DEF SocketInv
<1>3. HandsInv' /\ PlaceInv' /\ SocketInv'
  BY <1>1, <1>2 DEF HandsInv, PlaceInv, SocketInv
<1>4. CASE Accept(e)
  <2>1. /\ waiting # <<>> /\ waiting' = Tail(waiting)
        /\ accepted' = [accepted EXCEPT ![kernel[e]] = waiting[1]]
    BY <1>4, TailIs DEF Accept
  <2>2. TypeOK'
    BY <1>1, <1>2, <2>1, TailIs
  <2>3. PeerInv'
    <3>1. \A s \in sessions' : accepted'[s] # None
      BY <1>1, <1>2, <2>1 DEF PeerInv
    <3>2. 1 \in 1..Len(waiting)
      BY <2>1, TailIs
    <3>3. \A s, u \in Sessions : accepted'[s] = accepted'[u] /\ accepted'[s] # None => s = u
      BY <1>2, <2>1, <3>2 DEF PeerInv
    <3>4. \A i \in 1..Len(waiting') : waiting'[i] = waiting[i + 1] /\ i + 1 \in 1..Len(waiting) /\ i + 1 # 1
      BY <2>1, TailIs
    <3>5. \A i \in 1..Len(waiting'), s \in Sessions : accepted'[s] # waiting'[i]
      BY <1>2, <2>1, <3>2, <3>4 DEF PeerInv
    <3>6. \A i, j \in 1..Len(waiting') : waiting'[i] = waiting'[j] => i = j
      <4>1. ASSUME NEW i \in 1..Len(waiting'), NEW j \in 1..Len(waiting'), waiting'[i] = waiting'[j]
            PROVE  i + 1 = j + 1
        BY <3>4, <4>1 DEF PeerInv
      <4> QED
        BY <4>1
    <3> QED
      BY <3>1, <3>3, <3>5, <3>6 DEF PeerInv
  <2> QED
    BY <1>3, <2>2, <2>3
<1>5. CASE AcceptFails(e)
  <2>1. UNCHANGED <<waiting, accepted>>
    BY <1>5 DEF AcceptFails
  <2>2. TypeOK' /\ PeerInv'
    BY <1>1, <2>1 DEF PeerInv
  <2> QED
    BY <1>3, <2>2
<1> QED
  BY <1>4, <1>5

LEMMA ProcessKeeps ==
  ASSUME ListenerInv, NEW w \in Workers,
         (\E e \in Events : Dispatch(w, e)) \/ ProcessAccept(w) \/ NoPeer(w)
  PROVE  ListenerInv'
<1> USE DEF ListenerInv, TypeOK
<1>1. ASSUME NEW e \in Events, Dispatch(w, e) PROVE ListenerInv'
  <2>1. /\ pc[w] = "idle" /\ e \in completed /\ completed' = completed \ {e}
        /\ pc' = [pc EXCEPT ![w] = "process"] /\ event' = [event EXCEPT ![w] = e]
        /\ UNCHANGED <<session, kernel, accepted, sessions, waiting>>
    BY <1>1 DEF Dispatch
  <2>2. TypeOK'
    BY <2>1
  <2>3. e # None /\ session[e] \in Sessions \ sessions /\ kernel[e] = None
    BY <2>1, NamesAssumption DEF PlaceInv, SocketInv
  <2>4. HandsInv'
    BY <2>1, <2>3 DEF HandsInv, PlaceInv
  <2>5. PlaceInv'
    <3>1. event[w] = None
      BY <2>1 DEF HandsInv
    <3>2. \A t \in Threads : event'[t] = IF t = w THEN e ELSE event[t]
      BY <2>1
    <3>3. \A t \in Threads : event'[t] # None => kernel'[event'[t]] = None /\ event'[t] \notin completed'
      BY <2>1, <2>3, <3>2 DEF PlaceInv
    <3>4. \A f \in Events : session'[f] # None =>
              kernel'[f] # None \/ f \in completed' \/ \E t \in Threads : event'[t] = f
      <4>1. ASSUME NEW f \in Events, f # e, session[f] # None
            PROVE  kernel[f] # None \/ f \in completed' \/ \E t \in Threads : event'[t] = f
        <5>1. CASE \E t \in Threads : event[t] = f
          <6>1. PICK t \in Threads : event[t] = f
            BY <5>1
          <6>2. t # w
            BY <3>1, <6>1, NamesAssumption
          <6> QED
            BY <3>2, <6>1, <6>2
        <5>2. CASE kernel[f] # None \/ f \in completed
          BY <2>1, <4>1, <5>2
        <5> QED
          BY <4>1, <5>1, <5>2 DEF PlaceInv
      <4> QED
        BY <2>1, <3>2, <4>1
    <3>5. \A f \in Events : session'[f] = None =>
              kernel'[f] = None /\ f \notin completed' /\ \A x \in Workers : event'[x] # f
      BY <2>1, <2>3, <3>2, NamesAssumption DEF PlaceInv
    <3> QED
      BY <2>1, <3>3, <3>4, <3>5 DEF PlaceInv
  <2>6. SocketInv'
    BY <2>1, <2>3 DEF HandsInv, SocketInv
  <2>7. PeerInv'
    BY <2>1 DEF PeerInv
  <2> QED
    BY <2>2, <2>4, <2>5, <2>6, <2>7
<1>2. CASE ProcessAccept(w) \/ NoPeer(w)
  <2> DEFINE s == session[event[w]]
  <2>1. /\ pc[w] = "process" /\ pc' = [pc EXCEPT ![w] = "register"]
        /\ UNCHANGED <<event, session, kernel, completed, waiting>>
    BY <1>2 DEF ProcessAccept, NoPeer
  <2>2. event[w] \in Events /\ s \in Sessions \ sessions
        /\ kernel[event[w]] = None /\ event[w] \notin completed
    BY <2>1 DEF HandsInv, PlaceInv, SocketInv
  <2>3. \/ sessions' = sessions \cup {s} /\ accepted[s] # None /\ accepted' = accepted
        \/ sessions' = sessions /\ accepted' = [accepted EXCEPT ![s] = None]
    BY <1>2 DEF ProcessAccept, NoPeer
  <2>4. HandsInv' /\ PlaceInv'
    BY <2>1 DEF HandsInv, PlaceInv
  <2>5. \A e \in Events : session[e] = s => e = event[w]
    BY <2>2, NamesAssumption DEF SocketInv
  <2> HIDE DEF s
  <2>6. TypeOK'
    BY <2>1, <2>2, <2>3
  <2>7. \A e \in Events : kernel'[e] # None \/ e \in completed' => session'[e] \notin sessions'
    BY <2>1, <2>2, <2>3, <2>5 DEF SocketInv
  <2>8. \A t \in Threads : pc'[t] \in {"accept", "process"} => session'[event'[t]] \in Sessions \ sessions'
    <3>1. ASSUME NEW t \in Threads, pc'[t] \in {"accept", "process"}
          PROVE  session'[event'[t]] \in Sessions \ sessions'
      <4>1. t # w /\ pc[t] \in {"accept", "process"}
        BY <2>1, <3>1
      <4>2. event[t] \in Events /\ event[t] # event[w]
        BY <4>1 DEF HandsInv
      <4> QED
        BY <2>1, <2>3, <2>5, <4>1, <4>2 DEF SocketInv
    <3> QED
      BY <3>1
  <2>9. SocketInv'
    BY <2>1, <2>7, <2>8 DEF SocketInv
  <2>10. PeerInv'
    BY <2>1, <2>2, <2>3, WaitingArePeers DEF PeerInv
  <2> QED
    BY <2>4, <2>6, <2>9, <2>10
<1> QED
  BY <1>1, <1>2

LEMMA ReleaseKeeps ==
  ASSUME ListenerInv, NEW s \in Sessions, ReleaseSession(s)
  PROVE  ListenerInv'
<1> USE DEF ListenerInv, TypeOK, ReleaseSession
<1>1. TypeOK' /\ HandsInv' /\ PlaceInv'
  BY DEF HandsInv, PlaceInv
<1>2. SocketInv'
  BY DEF SocketInv
<1>3. PeerInv'
  BY WaitingArePeers DEF PeerInv
<1> QED
  BY <1>1, <1>2, <1>3

LEMMA StillKeeps ==
  ASSUME ListenerInv, UNCHANGED <<pc, event, session, kernel, completed, accepted, sessions, waiting>>
  PROVE  ListenerInv'
  BY DEF ListenerInv, TypeOK, HandsInv, PlaceInv, SocketInv, PeerInv

LEMMA ListenerStep == ListenerInv /\ [Next]_vars => ListenerInv'
<1> SUFFICES ASSUME ListenerInv, [Next]_vars PROVE ListenerInv'
  OBVIOUS
<1>1. ASSUME NEW t \in Threads, NoSession(t) \/ StackOverflow(t) PROVE ListenerInv'
  BY <1>1, StillKeeps DEF NoSession, StackOverflow, Crash
<1>2. CASE UNCHANGED vars
  BY <1>2, StillKeeps DEF vars
<1>3. ASSUME NEW t \in Threads, Registering(t) PROVE ListenerInv'
  BY <1>1, <1>3, CreateKeeps, AcceptExKeeps DEF Registering
<1> QED
  BY <1>2, <1>3, StartKeeps, ArriveKeeps, CompleteKeeps, ProcessKeeps, ReleaseKeeps
  DEF Next, Starting, Accepting, Processing

LEMMA ListenerInvariance == Spec => []ListenerInv
  BY ListenerInit, ListenerStep, PTL DEF Spec

-----------------------------------------------------------------------------
(* The theorems.                                                              *)

\* However accepts complete, fail and are retried on Main and the workers, each
\* event is in one place: the server does not come to accept nobody.
THEOREM EventsAreKept == Spec => []EventsKept
<1>1. ASSUME ListenerInv PROVE EventsKept
  <2> SUFFICES ASSUME NEW e \in Events
      PROVE  IF session[e] = None /\ event[Main] # e THEN Places(e) = {} ELSE \E p \in Places(e) : Places(e) = {p}
    BY DEF EventsKept
  <2> USE <1>1 DEF ListenerInv, TypeOK, HandsInv, PlaceInv
  <2>0. e # None
    BY NamesAssumption
  <2>1. CASE session[e] = None /\ event[Main] # e
    BY <2>1 DEF Places
  <2>2. CASE \E t \in Threads : event[t] = e
    <3>1. PICK t \in Threads : event[t] = e
      BY <2>2
    <3>2. Places(e) = {t}
      BY <2>0, <3>1 DEF Places
    <3> QED
      BY <2>1, <3>2
  <2>3. CASE \A t \in Threads : event[t] # e
    <3>1. CASE kernel[e] # None
      <4>1. Places(e) = {"outstanding"}
        BY <2>3, <3>1 DEF Places
      <4> QED
        BY <2>1, <4>1
    <3>2. CASE kernel[e] = None
      <4>1. session[e] # None => Places(e) = {"queued"}
        BY <2>3, <3>2 DEF Places
      <4> QED
        BY <2>1, <2>3, <4>1
    <3> QED
      BY <3>1, <3>2
  <2> QED
    BY <2>2, <2>3
<1> QED
  BY <1>1, ListenerInvariance, PTL

\* ProcessConnect lets the session loose before its event goes on: still no
\* socket is filled twice, and no connected session's socket again.
THEOREM SocketsAreOwned == Spec => []SessionsOwned
<1>1. ListenerInv => SessionsOwned
  BY NamesAssumption DEF ListenerInv, TypeOK, SocketInv, PeerInv, SessionsOwned
<1> QED
  BY <1>1, ListenerInvariance, PTL
=============================================================================
