----------------------------- MODULE RoomsProofs -----------------------------
(* For any number of sessions and rooms: a room's players and the players'    *)
(* roomId agree, whatever handlers and disconnects do to them at once; clients*)
(* show chats in one order, and at rest the players their room has.           *)
EXTENDS Rooms, TLAPS

-----------------------------------------------------------------------------
(* The inductive invariant.                                                   *)

HandlerPlaces ==
    {"idle", "assign", "fillEnter", "leave", "fillChat", "fillUpdate", "broadcast", "sending", "push",
     "respond"}
CloserPlaces ==
    {"idle", "drain", "find", "leave", "fillUpdate", "broadcast", "sending", "push", "forget", "closed"}

PlacesOK ==
    /\ pc \in [Actors -> HandlerPlaces \cup CloserPlaces]
    /\ room \in [Actors -> Rooms \cup {None}]
    /\ \A s \in Sessions : pc[Handler(s)] \in HandlerPlaces /\ pc[Closer(s)] \in CloserPlaces
    /\ \A a \in Actors : room[a] \in Rooms \/ pc[a] \in {"idle", "drain", "find", "forget", "closed"}

DataOK ==
    /\ members \in [Rooms -> SUBSET Sessions]
    /\ roomId \in [Sessions -> Rooms \cup {None}]
    /\ connected \in [Sessions -> BOOLEAN]
    /\ requests \in [Sessions -> Nat]
    /\ missed \in [Sessions -> BOOLEAN]

PacketsOK ==
    /\ screen \in [Sessions -> [room : Rooms \cup {None}, roster : SUBSET Sessions]]
    /\ pkt \in [Actors -> [roster : SUBSET Sessions, chat : (Sessions \X Nat) \cup {None}]]
    /\ info \in [Sessions -> (SUBSET Sessions) \cup {None}]

TypeOK == PlacesOK /\ DataOK /\ PacketsOK

\* The client has been in a room or is about to.
Begun(s) == requests[s] > 0 \/ screen[s] # Lobby

\* The client's requests and its connection.
ClientOK(s) ==
    /\ connected[s] <=> pc[Closer(s)] \in {"idle", "drain"}
    /\ pc[Handler(s)] # "idle" => requests[s] > 0
    /\ roomId[s] # None \/ pc[Closer(s)] = "leave" => Begun(s)

\* Whose C_LEAVE_GAME is being answered is in no room, and whose client shows
\* the lobby, and may ask to enter, is in none either.
Leaving(s) ==
    LET a == Handler(s) IN
    /\ info[s] = None
    /\ \/ pc[a] \in {"fillUpdate", "respond"}
       \/ pc[a] \in {"broadcast", "sending", "push"} /\ pkt[a].chat = None

Chatting(s) ==
    LET a == Handler(s) IN
    \/ pc[a] = "fillChat"
    \/ pc[a] \in {"broadcast", "sending", "push"} /\ pkt[a].chat # None

ScreenOK(s) ==
    /\ Leaving(s) => roomId[s] = None
    /\ Chatting(s) => screen[s] # Lobby
    /\ pc[Handler(s)] = "idle" /\ screen[s] = Lobby /\ connected[s] => roomId[s] = None

\* A player is in the room of its roomId, or in the one that will be assigned.
MemberOK(s) ==
    IF pc[Handler(s)] = "assign"
    THEN /\ roomId[s] = None
         /\ \A r \in Rooms : s \in members[r] <=> r = room[Handler(s)]
    ELSE \A r \in Rooms : s \in members[r] <=> r = roomId[s]

\* Both that may leave, leave the room the player is in; and after a disconnect
\* has looked for a room the player has none, or that was too early.
Left(s) == pc[Closer(s)] \notin {"idle", "drain", "find", "leave"}

LeaveOK(s) ==
    /\ pc[Handler(s)] = "leave" => roomId[s] \in {None, room[Handler(s)]}
    /\ pc[Closer(s)] = "leave" => roomId[s] \in {None, room[Closer(s)]}
    /\ pc[Closer(s)] = "leave" => pc[Handler(s)] # "assign"
    /\ Left(s) /\ (roomId[s] # None \/ pc[Handler(s)] = "assign") => missed[s]

SessionInv(s) == ClientOK(s) /\ ScreenOK(s) /\ MemberOK(s) /\ LeaveOK(s)

RoomsInv == TypeOK /\ \A s \in Sessions : SessionInv(s)

-----------------------------------------------------------------------------
(* Actors and steps.                                                          *)

LEMMA ActorFacts ==
  /\ \A s \in Sessions : /\ Handler(s) \in Actors /\ Closer(s) \in Actors
                         /\ Own(Handler(s)) = s /\ Own(Closer(s)) = s
  /\ \A s, u \in Sessions : Handler(s) # Closer(u)
  /\ \A a \in Actors : Own(a) \in Sessions /\ (a = Handler(Own(a)) \/ a = Closer(Own(a)))
  BY DEF Actors, Handler, Closer, Own

USE DEF At, Goto

AllVars == <<roomVars, sessionVars, pc, room, sendVars, info, clientVars, missed, outdated>>

\* The steps that at most end the process.
Still == UNCHANGED AllVars

USE DEF roomVars, sessionVars, sendVars, clientVars, history

LEMMA StillSteps ==
  /\ \A a \in Actors : NullPlayer(a) \/ ErasedInLoop(a) \/ LockTimeout(a) => Still
  /\ \A a \in Actors, u \in Sessions : NullOwner(a, u) => Still
  /\ Finished \/ UNCHANGED vars => Still
  BY DEF NullPlayer, ErasedInLoop, LockTimeout, NullOwner, Finished, Crash, Still, AllVars, vars

\* Every step is one of these.
LEMMA NextCases ==
  ASSUME [Next]_vars
  PROVE  \/ \E s \in Sessions, r \in Rooms : Enter(s, r)
         \/ \E s \in Sessions : \/ AskLeave(s) \/ AskChat(s)
                                \/ LockForDrain(s) \/ Disconnect(s) \/ FindRoom(s) \/ Forget(s)
         \/ \E a \in Actors : \/ Assign(a) \/ FillEnter(a) \/ Leave(a) \/ FillUpdate(a)
                              \/ StartBroadcast(a) \/ \E u \in Sessions : SendTo(a, u)
                              \/ Push(a) \/ EndBroadcast(a) \/ Respond(a)
         \/ Still
  BY StillSteps DEF Next, Request, Step, Close

-----------------------------------------------------------------------------
(* Types.                                                                     *)

LEMMA TypeInit == Init => TypeOK
<1> SUFFICES ASSUME Init PROVE TypeOK
  OBVIOUS
<1> USE DEF Init, InitIdle
<1>1. PlacesOK
  BY ActorFacts DEF PlacesOK, HandlerPlaces, CloserPlaces
<1>2. DataOK
  BY DEF DataOK
<1>3. PacketsOK
  <2>1. Lobby \in [room : Rooms \cup {None}, roster : SUBSET Sessions]
    BY DEF Lobby
  <2>2. NoPkt \in [roster : SUBSET Sessions, chat : (Sessions \X Nat) \cup {None}]
    BY DEF NoPkt
  <2>3. screen = [s \in Sessions |-> Lobby] /\ pkt = [a \in Actors |-> NoPkt] /\ info = [s \in Sessions |-> None]
    OBVIOUS
  <2>4. screen \in [Sessions -> [room : Rooms \cup {None}, roster : SUBSET Sessions]]
    BY <2>1, <2>3
  <2>5. pkt \in [Actors -> [roster : SUBSET Sessions, chat : (Sessions \X Nat) \cup {None}]]
    BY <2>2, <2>3
  <2>6. info \in [Sessions -> (SUBSET Sessions) \cup {None}]
    BY <2>3
  <2> QED
    BY <2>4, <2>5, <2>6 DEF PacketsOK
<1> QED
  BY <1>1, <1>2, <1>3 DEF TypeOK

\* Enter refuses, or ends the process, or lets the player in.
LEMMA EnterCases ==
  ASSUME NEW s \in Sessions, NEW r \in Rooms, Enter(s, r)
  PROVE  /\ pc[Handler(s)] = "idle" /\ screen[s] = Lobby /\ (connected[s] \/ requests[s] = 0)
         /\ requests' = [requests EXCEPT ![s] = @ + 1]
         /\ UNCHANGED <<roomId, connected, pkt, info, screen>>
         /\ \/ UNCHANGED <<members, pc, room, missed>>
            \/ /\ members' = [members EXCEPT ![r] = @ \cup {s}]
               /\ missed' = [missed EXCEPT ![s] = pc[Closer(s)] \notin {"idle", "drain", "find"}]
               /\ pc' = [pc EXCEPT ![Handler(s)] = "assign"]
               /\ room' = [room EXCEPT ![Handler(s)] = r]
  BY DEF Enter

\* A broadcast changes the roster of a client that shows the room, or nothing.
LEMMA PushShows ==
  ASSUME TypeOK, NEW a \in Actors, Push(a)
  PROVE  /\ screen' \in [Sessions -> [room : Rooms \cup {None}, roster : SUBSET Sessions]]
         /\ \A s \in Sessions : screen'[s] = screen[s] \/ (screen[s] # Lobby /\ screen'[s] # Lobby)
<1> USE DEF TypeOK, PlacesOK, PacketsOK
<1> DEFINE u == target[a]
<1>1. screen' = screen \/ (screen[u].room = room[a] /\ screen' = [screen EXCEPT ![u].roster = pkt[a].roster])
  BY DEF Push, Shown
<1>2. room[a] # None /\ pkt[a].roster \in SUBSET Sessions
  BY NoneAssumption DEF Push
<1>3. CASE screen' = [screen EXCEPT ![u].roster = pkt[a].roster] /\ screen[u].room = room[a]
  <2>1. ASSUME NEW s \in Sessions
        PROVE  /\ screen'[s] \in [room : Rooms \cup {None}, roster : SUBSET Sessions]
               /\ screen'[s] = screen[s] \/ (screen[s] # Lobby /\ screen'[s] # Lobby)
    <3>1. CASE s # u
      BY <1>3, <3>1
    <3>2. CASE s = u
      <4>1. screen'[s] = [screen[s] EXCEPT !.roster = pkt[a].roster]
        BY <1>3, <3>2
      <4>2. screen[s] \in [room : Rooms \cup {None}, roster : SUBSET Sessions]
        OBVIOUS
      <4>3. screen'[s].room = room[a] /\ screen[s].room = room[a]
        BY <1>3, <3>2, <4>1, <4>2
      <4>4. screen'[s] \in [room : Rooms \cup {None}, roster : SUBSET Sessions]
        BY <1>2, <4>1, <4>2
      <4> QED
        BY <1>2, <4>3, <4>4 DEF Lobby
    <3> QED
      BY <3>1, <3>2
  <2> QED
    BY <1>3, <2>1
<1> QED
  BY <1>1, <1>3

LEMMA PlacesStep ==
  ASSUME TypeOK, [Next]_vars PROVE PlacesOK'
<1> USE DEF TypeOK, PlacesOK, DataOK, HandlerPlaces, CloserPlaces
<1>1. ASSUME NEW s \in Sessions, NEW r \in Rooms, Enter(s, r) PROVE PlacesOK'
  <2>1. CASE UNCHANGED <<pc, room>>
    BY <2>1
  <2>2. CASE pc' = [pc EXCEPT ![Handler(s)] = "assign"] /\ room' = [room EXCEPT ![Handler(s)] = r]
    BY <2>2, ActorFacts
  <2> QED
    BY <1>1, <2>1, <2>2, EnterCases
<1>2. ASSUME NEW s \in Sessions, AskLeave(s) \/ AskChat(s) PROVE PlacesOK'
  BY <1>2, ActorFacts DEF AskLeave, AskChat
<1>3. ASSUME NEW s \in Sessions, LockForDrain(s) \/ Disconnect(s) PROVE PlacesOK'
  BY <1>3, ActorFacts DEF LockForDrain, Disconnect
<1>4. ASSUME NEW s \in Sessions, FindRoom(s) \/ Forget(s) PROVE PlacesOK'
  BY <1>4, ActorFacts DEF FindRoom, Forget
<1>5. ASSUME NEW a \in Actors, Assign(a) PROVE PlacesOK'
  BY <1>5, ActorFacts DEF Assign, Assigned
<1>6. ASSUME NEW a \in Actors, FillEnter(a) PROVE PlacesOK'
  BY <1>6, ActorFacts DEF FillEnter
<1>7. ASSUME NEW a \in Actors, Leave(a) PROVE PlacesOK'
  BY <1>7, ActorFacts DEF Leave, Cleared
<1>8. ASSUME NEW a \in Actors, FillUpdate(a) PROVE PlacesOK'
  BY <1>8, ActorFacts DEF FillUpdate
<1>9. ASSUME NEW a \in Actors, StartBroadcast(a) \/ \E u \in Sessions : SendTo(a, u) PROVE PlacesOK'
  BY <1>9, ActorFacts DEF StartBroadcast, SendTo
<1>10. ASSUME NEW a \in Actors, Push(a) PROVE PlacesOK'
  BY <1>10, ActorFacts DEF Push, Shown
<1>11. ASSUME NEW a \in Actors, EndBroadcast(a) PROVE PlacesOK'
  BY <1>11, ActorFacts DEF EndBroadcast, NoPkt
<1>12. ASSUME NEW a \in Actors, Respond(a) PROVE PlacesOK'
  BY <1>12, ActorFacts DEF Respond, IsEnter
<1>13. CASE Still
  BY <1>13 DEF Still, AllVars
<1> QED
  BY <1>1, <1>2, <1>3, <1>4, <1>5, <1>6, <1>7, <1>8, <1>9, <1>10, <1>11, <1>12, <1>13, NextCases

LEMMA DataStep ==
  ASSUME TypeOK, [Next]_vars PROVE DataOK'
<1> USE DEF TypeOK, PlacesOK, DataOK
<1>1. ASSUME NEW s \in Sessions, NEW r \in Rooms, Enter(s, r) PROVE DataOK'
  <2>1. UNCHANGED <<roomId, connected>> /\ requests' \in [Sessions -> Nat]
    BY <1>1, EnterCases
  <2>2. members' \in [Rooms -> SUBSET Sessions]
    <3>1. members' = members \/ members' = [members EXCEPT ![r] = @ \cup {s}]
      BY <1>1, EnterCases
    <3> QED
      BY <3>1
  <2>3. missed' \in [Sessions -> BOOLEAN]
    <3>1. \/ missed' = missed
          \/ missed' = [missed EXCEPT ![s] = pc[Closer(s)] \notin {"idle", "drain", "find"}]
      BY <1>1, EnterCases
    <3> QED
      BY <3>1
  <2> QED
    BY <2>1, <2>2, <2>3
<1>2. ASSUME NEW s \in Sessions, AskLeave(s) \/ AskChat(s) PROVE DataOK'
  BY <1>2, ActorFacts DEF AskLeave, AskChat
<1>3. ASSUME NEW s \in Sessions, LockForDrain(s) \/ Disconnect(s) PROVE DataOK'
  BY <1>3, ActorFacts DEF LockForDrain, Disconnect
<1>4. ASSUME NEW s \in Sessions, FindRoom(s) \/ Forget(s) PROVE DataOK'
  BY <1>4, ActorFacts DEF FindRoom, Forget
<1>5. ASSUME NEW a \in Actors, Assign(a) PROVE DataOK'
  BY <1>5, ActorFacts DEF Assign, Assigned
<1>6. ASSUME NEW a \in Actors, FillEnter(a) PROVE DataOK'
  BY <1>6, ActorFacts DEF FillEnter
<1>7. ASSUME NEW a \in Actors, Leave(a) PROVE DataOK'
  BY <1>7, ActorFacts DEF Leave, Cleared
<1>8. ASSUME NEW a \in Actors, FillUpdate(a) PROVE DataOK'
  BY <1>8, ActorFacts DEF FillUpdate
<1>9. ASSUME NEW a \in Actors, StartBroadcast(a) \/ \E u \in Sessions : SendTo(a, u) PROVE DataOK'
  BY <1>9, ActorFacts DEF StartBroadcast, SendTo
<1>10. ASSUME NEW a \in Actors, Push(a) PROVE DataOK'
  BY <1>10, ActorFacts DEF Push, Shown
<1>11. ASSUME NEW a \in Actors, EndBroadcast(a) PROVE DataOK'
  BY <1>11, ActorFacts DEF EndBroadcast, NoPkt
<1>12. ASSUME NEW a \in Actors, Respond(a) PROVE DataOK'
  BY <1>12, ActorFacts DEF Respond, IsEnter
<1>13. CASE Still
  BY <1>13 DEF Still, AllVars
<1> QED
  BY <1>1, <1>2, <1>3, <1>4, <1>5, <1>6, <1>7, <1>8, <1>9, <1>10, <1>11, <1>12, <1>13, NextCases

LEMMA PacketsStep ==
  ASSUME TypeOK, [Next]_vars PROVE PacketsOK'
<1> USE DEF TypeOK, PlacesOK, DataOK, PacketsOK
<1>1. ASSUME NEW s \in Sessions, NEW r \in Rooms, Enter(s, r) PROVE PacketsOK'
  BY <1>1, ActorFacts, EnterCases DEF Roster
<1>2. ASSUME NEW s \in Sessions, AskLeave(s) \/ AskChat(s) PROVE PacketsOK'
  BY <1>2, ActorFacts DEF AskLeave, AskChat, Roster
<1>3. ASSUME NEW s \in Sessions, LockForDrain(s) \/ Disconnect(s) PROVE PacketsOK'
  BY <1>3, ActorFacts DEF LockForDrain, Disconnect, Roster
<1>4. ASSUME NEW s \in Sessions, FindRoom(s) \/ Forget(s) PROVE PacketsOK'
  BY <1>4, ActorFacts DEF FindRoom, Forget, Roster
<1>5. ASSUME NEW a \in Actors, Assign(a) PROVE PacketsOK'
  BY <1>5, ActorFacts DEF Assign, Assigned, Roster
<1>6. ASSUME NEW a \in Actors, FillEnter(a) PROVE PacketsOK'
  BY <1>6, ActorFacts DEF FillEnter, Roster
<1>7. ASSUME NEW a \in Actors, Leave(a) PROVE PacketsOK'
  BY <1>7, ActorFacts DEF Leave, Cleared, Roster
<1>8. ASSUME NEW a \in Actors, FillUpdate(a) PROVE PacketsOK'
  BY <1>8, ActorFacts DEF FillUpdate, Roster
<1>9. ASSUME NEW a \in Actors, StartBroadcast(a) \/ \E u \in Sessions : SendTo(a, u) PROVE PacketsOK'
  BY <1>9, ActorFacts DEF StartBroadcast, SendTo, Roster
<1>10. ASSUME NEW a \in Actors, Push(a) PROVE PacketsOK'
  BY <1>10, ActorFacts, PushShows DEF Push, Shown, Roster
<1>11. ASSUME NEW a \in Actors, EndBroadcast(a) PROVE PacketsOK'
  BY <1>11, ActorFacts DEF EndBroadcast, NoPkt, Roster
<1>12. ASSUME NEW a \in Actors, Respond(a) PROVE PacketsOK'
  <2>1. screen' \in [Sessions -> [room : Rooms \cup {None}, roster : SUBSET Sessions]]
    <3>1. Lobby \in [room : Rooms \cup {None}, roster : SUBSET Sessions]
      BY DEF Lobby
    <3>2. IsEnter(a) => [room |-> room[a], roster |-> info[Own(a)]]
                            \in [room : Rooms \cup {None}, roster : SUBSET Sessions]
      <4>1. Own(a) \in Sessions
        BY ActorFacts
      <4>2. IsEnter(a) => info[Own(a)] \in SUBSET Sessions
        BY <4>1 DEF IsEnter
      <4> QED
        BY <4>2
    <3>3. screen' = screen \/ screen' = [screen EXCEPT ![Own(a)] =
              IF IsEnter(a) THEN [room |-> room[a], roster |-> info[Own(a)]] ELSE Lobby]
      BY <1>12 DEF Respond
    <3> QED
      BY <3>1, <3>2, <3>3
  <2>2. info' \in [Sessions -> (SUBSET Sessions) \cup {None}] /\ pkt' = pkt
    BY <1>12 DEF Respond
  <2> QED
    BY <2>1, <2>2
<1>13. CASE Still
  BY <1>13 DEF Still, AllVars, Roster
<1> QED
  BY <1>1, <1>2, <1>3, <1>4, <1>5, <1>6, <1>7, <1>8, <1>9, <1>10, <1>11, <1>12, <1>13, NextCases

-----------------------------------------------------------------------------
(* One session at a time.                                                     *)

\* What the invariant reads of a session does not change.
SameSession(s) ==
    /\ UNCHANGED <<pc[Handler(s)], pc[Closer(s)], room[Handler(s)], room[Closer(s)], roomId[s],
                   connected[s], requests[s], missed[s], info[s], pkt[Handler(s)].chat>>
    /\ screen'[s] = screen[s] \/ (screen[s] # Lobby /\ screen'[s] # Lobby)
    /\ \A r \in Rooms : s \in members'[r] <=> s \in members[r]

LEMMA SameKeeps ==
  ASSUME RoomsInv, NEW s \in Sessions, SameSession(s) PROVE SessionInv(s)'
<1> USE DEF RoomsInv, SessionInv, SameSession
<1>1. ClientOK(s)'
  BY DEF ClientOK, Begun, Lobby
<1>2. ScreenOK(s)'
  BY DEF ScreenOK, Leaving, Chatting, Lobby
<1>3. MemberOK(s)'
  BY DEF MemberOK
<1>4. LeaveOK(s)'
  BY DEF LeaveOK, Left
<1> QED
  BY <1>1, <1>2, <1>3, <1>4

\* What is known of one session.
LEMMA SessionTypes ==
  ASSUME TypeOK, NEW s \in Sessions
  PROVE  /\ pc[Handler(s)] \in HandlerPlaces /\ pc[Closer(s)] \in CloserPlaces
         /\ room[Handler(s)] \in Rooms \/ pc[Handler(s)] = "idle"
         /\ room[Closer(s)] \in Rooms \/ pc[Closer(s)] \in {"idle", "drain", "find", "forget", "closed"}
         /\ roomId[s] \in Rooms \cup {None} /\ requests[s] \in Nat
         /\ None \notin Rooms
  BY ActorFacts, NoneAssumption DEF TypeOK, PlacesOK, DataOK, HandlerPlaces

\* Nobody enters who is in a room, or whose disconnect is leaving one.
LEMMA EntersFromLobby ==
  ASSUME RoomsInv, NEW s \in Sessions, NEW r \in Rooms, Enter(s, r)
  PROVE  roomId[s] = None /\ pc[Closer(s)] # "leave" /\ \A q \in Rooms : s \notin members[q]
<1> USE DEF RoomsInv, SessionInv
<1>1. requests[s] = 0 => ~Begun(s)
  BY EnterCases DEF Begun
<1>2. roomId[s] = None /\ pc[Closer(s)] # "leave"
  BY <1>1, EnterCases DEF ClientOK, ScreenOK
<1> QED
  BY <1>2, EnterCases, NoneAssumption DEF MemberOK

\* Room::Enter.
LEMMA EnterKeeps ==
  ASSUME RoomsInv, NEW s \in Sessions, NEW r \in Rooms, Enter(s, r)
  PROVE  \A v \in Sessions : SessionInv(v)'
<1> USE DEF RoomsInv
<1>1. ASSUME NEW v \in Sessions, v # s PROVE SameSession(v)
  BY <1>1, ActorFacts, EnterCases DEF SameSession, TypeOK, PlacesOK, DataOK
<1>2. /\ requests'[s] = requests[s] + 1
      /\ UNCHANGED <<roomId[s], connected[s], pkt[Handler(s)].chat, info[s], screen[s], pc[Closer(s)], room[Closer(s)]>>
      /\ pc[Handler(s)] = "idle"
  BY ActorFacts, EnterCases DEF TypeOK, PlacesOK, DataOK
<1>3. \/ /\ UNCHANGED <<pc[Handler(s)], room[Handler(s)], missed[s]>>
         /\ \A q \in Rooms : s \in members'[q] <=> s \in members[q]
      \/ /\ pc'[Handler(s)] = "assign" /\ room'[Handler(s)] = r
         /\ Left(s) => missed'[s]
         /\ \A q \in Rooms : s \in members'[q] <=> s \in members[q] \/ q = r
  <2>1. CASE UNCHANGED <<members, pc, room, missed>>
    BY <2>1
  <2>2. CASE /\ members' = [members EXCEPT ![r] = @ \cup {s}]
             /\ missed' = [missed EXCEPT ![s] = pc[Closer(s)] \notin {"idle", "drain", "find"}]
             /\ pc' = [pc EXCEPT ![Handler(s)] = "assign"]
             /\ room' = [room EXCEPT ![Handler(s)] = r]
    <3>1. pc'[Handler(s)] = "assign" /\ room'[Handler(s)] = r
      BY <2>2, ActorFacts DEF TypeOK, PlacesOK
    <3>2. missed'[s] = (pc[Closer(s)] \notin {"idle", "drain", "find"})
      BY <2>2 DEF TypeOK, DataOK
    <3>3. \A q \in Rooms : s \in members'[q] <=> s \in members[q] \/ q = r
      BY <2>2 DEF TypeOK, DataOK
    <3> QED
      BY <3>1, <3>2, <3>3 DEF Left
  <2> QED
    BY <2>1, <2>2, EnterCases
<1>4. SessionInv(s) /\ roomId[s] = None /\ pc[Closer(s)] # "leave" /\ \A q \in Rooms : s \notin members[q]
  BY EntersFromLobby
<1> USE DEF SessionInv
<1>5. ClientOK(s)'
  BY <1>2, <1>3, <1>4, SessionTypes DEF ClientOK, Begun
<1>6. ScreenOK(s)'
  BY <1>2, <1>3, <1>4, SessionTypes DEF ScreenOK, Leaving, Chatting
<1>7. MemberOK(s)'
  BY <1>2, <1>3, <1>4, SessionTypes DEF MemberOK
<1>8. LeaveOK(s)'
  BY <1>2, <1>3, <1>4, SessionTypes DEF LeaveOK, Left
<1> QED
  BY <1>1, <1>5, <1>6, <1>7, <1>8, SameKeeps

\* C_LEAVE_GAME and C_CHAT.
LEMMA AskKeeps ==
  ASSUME RoomsInv, NEW s \in Sessions, AskLeave(s) \/ AskChat(s)
  PROVE  \A v \in Sessions : SessionInv(v)'
<1> USE DEF RoomsInv
<1>1. ASSUME NEW v \in Sessions, v # s PROVE SameSession(v)
  BY <1>1, ActorFacts DEF AskLeave, AskChat, SameSession, TypeOK, PlacesOK, DataOK, PacketsOK
<1>2. /\ UNCHANGED <<pc[Closer(s)], room[Closer(s)], roomId[s], connected[s], missed[s],
                     info[s], pkt[Handler(s)].chat, screen[s]>>
      /\ pc[Handler(s)] = "idle" /\ screen[s] # Lobby
      /\ \/ pc'[Handler(s)] = "idle"
         \/ roomId[s] # None /\ room'[Handler(s)] = roomId[s] /\ pc'[Handler(s)] \in {"leave", "fillChat"}
      /\ requests'[s] = requests[s] + 1
      /\ \A r \in Rooms : s \in members'[r] <=> s \in members[r]
  BY ActorFacts DEF AskLeave, AskChat, TypeOK, PlacesOK, DataOK, PacketsOK
<1>3. SessionInv(s) /\ s \in Sessions
  BY ActorFacts
<1> USE DEF SessionInv, HandlerPlaces, CloserPlaces
<1>4. ClientOK(s)'
  BY <1>2, <1>3, SessionTypes DEF ClientOK, Begun
<1>5. ScreenOK(s)'
  BY <1>2, <1>3, SessionTypes DEF ScreenOK, Leaving, Chatting
<1>6. MemberOK(s)'
  BY <1>2, <1>3, SessionTypes DEF MemberOK, LeaveOK
<1>7. LeaveOK(s)'
  BY <1>2, <1>3, SessionTypes DEF LeaveOK, Left, ClientOK, Begun, ScreenOK, MemberOK
<1> QED
  BY <1>1, <1>3, <1>4, <1>5, <1>6, <1>7, SameKeeps

\* Disconnect begins.
LEMMA CloseKeeps ==
  ASSUME RoomsInv, NEW s \in Sessions, LockForDrain(s) \/ Disconnect(s)
  PROVE  \A v \in Sessions : SessionInv(v)'
<1> USE DEF RoomsInv
<1>1. ASSUME NEW v \in Sessions, v # s PROVE SameSession(v)
  BY <1>1, ActorFacts DEF LockForDrain, Disconnect, SameSession, TypeOK, PlacesOK, DataOK, PacketsOK
<1>2. /\ UNCHANGED <<pc[Handler(s)], room[Handler(s)], room[Closer(s)], roomId[s],
                     requests[s], missed[s], info[s], pkt[Handler(s)].chat, screen[s]>>
      /\ pc[Closer(s)] \in {"idle", "drain"}
      /\ \/ pc'[Closer(s)] = "drain" /\ connected'[s] = connected[s] /\ pc[Closer(s)] = "idle"
         \/ pc'[Closer(s)] = "find" /\ ~connected'[s]
      /\ \A r \in Rooms : s \in members'[r] <=> s \in members[r]
  BY ActorFacts DEF LockForDrain, Disconnect, TypeOK, PlacesOK, DataOK, PacketsOK
<1>3. SessionInv(s) /\ s \in Sessions
  BY ActorFacts
<1> USE DEF SessionInv, HandlerPlaces, CloserPlaces
<1>4. ClientOK(s)'
  BY <1>2, <1>3, SessionTypes DEF ClientOK, Begun
<1>5. ScreenOK(s)'
  BY <1>2, <1>3, SessionTypes DEF ScreenOK, Leaving, Chatting
<1>6. MemberOK(s)'
  BY <1>2, <1>3, SessionTypes DEF MemberOK, LeaveOK
<1>7. LeaveOK(s)'
  BY <1>2, <1>3, SessionTypes DEF LeaveOK, Left, ClientOK, Begun, ScreenOK, MemberOK
<1> QED
  BY <1>1, <1>3, <1>4, <1>5, <1>6, <1>7, SameKeeps

\* OnDisconnected looks for the room,
LEMMA FindRoomKeeps ==
  ASSUME RoomsInv, NEW s \in Sessions, FindRoom(s)
  PROVE  \A v \in Sessions : SessionInv(v)'
<1> USE DEF RoomsInv
<1>9. roomId[s] = None => missed'[s] = (pc[Handler(s)] = "assign")
  BY DEF FindRoom, TypeOK, DataOK
<1>1. ASSUME NEW v \in Sessions, v # s PROVE SameSession(v)
  BY <1>1, ActorFacts, <1>9 DEF FindRoom, SameSession, TypeOK, PlacesOK, DataOK, PacketsOK
<1>2. /\ UNCHANGED <<pc[Handler(s)], room[Handler(s)], roomId[s], connected[s], requests[s],
                     info[s], pkt[Handler(s)].chat, screen[s]>>
      /\ pc[Closer(s)] = "find"
      /\ \/ roomId[s] = None /\ pc'[Closer(s)] = "forget" 
         \/ roomId[s] # None /\ pc'[Closer(s)] = "leave" /\ room'[Closer(s)] = roomId[s]
      /\ roomId[s] = None => missed'[s] = (pc[Handler(s)] = "assign")
      /\ \A r \in Rooms : s \in members'[r] <=> s \in members[r]
  BY ActorFacts, <1>9 DEF FindRoom, TypeOK, PlacesOK, DataOK, PacketsOK
<1>3. SessionInv(s) /\ s \in Sessions
  BY ActorFacts
<1> USE DEF SessionInv, HandlerPlaces, CloserPlaces
<1>4. ClientOK(s)'
  BY <1>2, <1>3, SessionTypes DEF ClientOK, Begun
<1>5. ScreenOK(s)'
  BY <1>2, <1>3, SessionTypes DEF ScreenOK, Leaving, Chatting
<1>6. MemberOK(s)'
  BY <1>2, <1>3, SessionTypes DEF MemberOK, LeaveOK
<1>7. LeaveOK(s)'
  BY <1>2, <1>3, SessionTypes DEF LeaveOK, Left, ClientOK, Begun, ScreenOK, MemberOK
<1> QED
  BY <1>1, <1>3, <1>4, <1>5, <1>6, <1>7, SameKeeps

\* and forgets the player.
LEMMA ForgetKeeps ==
  ASSUME RoomsInv, NEW s \in Sessions, Forget(s)
  PROVE  \A v \in Sessions : SessionInv(v)'
<1> USE DEF RoomsInv
<1>1. ASSUME NEW v \in Sessions, v # s PROVE SameSession(v)
  BY <1>1, ActorFacts DEF Forget, SameSession, TypeOK, PlacesOK, DataOK, PacketsOK
<1>2. /\ UNCHANGED <<pc[Handler(s)], room[Handler(s)], roomId[s], connected[s], requests[s],
                     missed[s], info[s], pkt[Handler(s)].chat, screen[s]>>
      /\ pc[Closer(s)] = "forget" /\ pc'[Closer(s)] = "closed"
      /\ \A r \in Rooms : s \in members'[r] <=> s \in members[r]
  BY ActorFacts DEF Forget, TypeOK, PlacesOK, DataOK, PacketsOK
<1>3. SessionInv(s) /\ s \in Sessions
  BY ActorFacts
<1> USE DEF SessionInv, HandlerPlaces, CloserPlaces
<1>4. ClientOK(s)'
  BY <1>2, <1>3, SessionTypes DEF ClientOK, Begun
<1>5. ScreenOK(s)'
  BY <1>2, <1>3, SessionTypes DEF ScreenOK, Leaving, Chatting
<1>6. MemberOK(s)'
  BY <1>2, <1>3, SessionTypes DEF MemberOK, LeaveOK
<1>7. LeaveOK(s)'
  BY <1>2, <1>3, SessionTypes DEF LeaveOK, Left, ClientOK, Begun, ScreenOK, MemberOK
<1> QED
  BY <1>1, <1>3, <1>4, <1>5, <1>6, <1>7, SameKeeps

\* roomId is assigned.
LEMMA AssignKeeps ==
  ASSUME RoomsInv, NEW a \in Actors, Assign(a)
  PROVE  \A v \in Sessions : SessionInv(v)'
<1> USE DEF RoomsInv
<1> DEFINE s == Own(a)
<1>0. a = Handler(s) /\ s \in Sessions
  BY ActorFacts DEF Assign, TypeOK, PlacesOK, CloserPlaces
<1>1. ASSUME NEW v \in Sessions, v # s PROVE SameSession(v)
  BY <1>1, ActorFacts, <1>0 DEF Assign, Assigned, SameSession, TypeOK, PlacesOK, DataOK, PacketsOK
<1>2. /\ UNCHANGED <<pc[Closer(s)], room[Handler(s)], room[Closer(s)], connected[s],
                     requests[s], missed[s], info[s], pkt[Handler(s)].chat, screen[s]>>
      /\ pc[Handler(s)] = "assign" /\ pc'[Handler(s)] = "fillEnter"
      /\ roomId'[s] = room[Handler(s)] /\ room[Handler(s)] \in Rooms
      /\ \A r \in Rooms : s \in members'[r] <=> s \in members[r]
  BY ActorFacts, <1>0 DEF Assign, Assigned, TypeOK, PlacesOK, DataOK, PacketsOK
<1>3. SessionInv(s) /\ s \in Sessions
  BY ActorFacts
<1> USE DEF SessionInv, HandlerPlaces, CloserPlaces
<1>4. ClientOK(s)'
  BY <1>2, <1>3, SessionTypes DEF ClientOK, Begun
<1>5. ScreenOK(s)'
  BY <1>2, <1>3, SessionTypes DEF ScreenOK, Leaving, Chatting
<1>6. MemberOK(s)'
  BY <1>2, <1>3, SessionTypes DEF MemberOK, LeaveOK
<1>7. LeaveOK(s)'
  BY <1>2, <1>3, SessionTypes DEF LeaveOK, Left, ClientOK, Begun, ScreenOK, MemberOK
<1> QED
  BY <1>1, <1>3, <1>4, <1>5, <1>6, <1>7, SameKeeps

\* The entrant's roster.
LEMMA FillEnterKeeps ==
  ASSUME RoomsInv, NEW a \in Actors, FillEnter(a)
  PROVE  \A v \in Sessions : SessionInv(v)'
<1> USE DEF RoomsInv
<1> DEFINE s == Own(a)
<1>0. a = Handler(s) /\ s \in Sessions
  BY ActorFacts DEF FillEnter, TypeOK, PlacesOK, CloserPlaces
<1> DEFINE filled == Roster(room[a])
<1>9. filled # None
  <2>1. filled \in SUBSET Sessions
    BY <1>0, ActorFacts DEF Roster, FillEnter, TypeOK, PlacesOK, DataOK
  <2> QED
    BY <2>1, NoneAssumption
<1>1. ASSUME NEW v \in Sessions, v # s PROVE SameSession(v)
  BY <1>1, ActorFacts, <1>0, <1>9 DEF FillEnter, SameSession, TypeOK, PlacesOK, DataOK, PacketsOK
<1>2. /\ UNCHANGED <<pc[Closer(s)], room[Handler(s)], room[Closer(s)], roomId[s],
                     connected[s], requests[s], missed[s], pkt[Handler(s)].chat, screen[s]>>
      /\ pc[Handler(s)] = "fillEnter" /\ pc'[Handler(s)] = "fillUpdate"
      /\ info'[s] # None
      /\ \A r \in Rooms : s \in members'[r] <=> s \in members[r]
  BY ActorFacts, <1>0, <1>9 DEF FillEnter, TypeOK, PlacesOK, DataOK, PacketsOK
<1>3. SessionInv(s) /\ s \in Sessions
  BY ActorFacts
<1> USE DEF SessionInv, HandlerPlaces, CloserPlaces
<1>4. ClientOK(s)'
  BY <1>2, <1>3, SessionTypes DEF ClientOK, Begun
<1>5. ScreenOK(s)'
  BY <1>2, <1>3, SessionTypes DEF ScreenOK, Leaving, Chatting
<1>6. MemberOK(s)'
  BY <1>2, <1>3, SessionTypes DEF MemberOK, LeaveOK
<1>7. LeaveOK(s)'
  BY <1>2, <1>3, SessionTypes DEF LeaveOK, Left, ClientOK, Begun, ScreenOK, MemberOK
<1> QED
  BY <1>1, <1>3, <1>4, <1>5, <1>6, <1>7, SameKeeps

\* Room::Leave.
LEMMA LeaveKeeps ==
  ASSUME RoomsInv, NEW a \in Actors, Leave(a)
  PROVE  \A v \in Sessions : SessionInv(v)'
<1> USE DEF RoomsInv
<1> DEFINE s == Own(a)
<1>1. ASSUME NEW v \in Sessions, v # s PROVE SameSession(v)
  BY <1>1, ActorFacts DEF Leave, Cleared, SameSession, TypeOK, PlacesOK, DataOK, PacketsOK
<1>2. SessionInv(s) /\ s \in Sessions /\ (a = Handler(s) \/ a = Closer(s))
  BY ActorFacts
<1>3. CASE a = Handler(s)
  <2>1. /\ UNCHANGED <<pc[Closer(s)], room[Handler(s)], room[Closer(s)], connected[s],
                       requests[s], missed[s], info[s], pkt[Handler(s)].chat, screen[s]>>
        /\ pc[Handler(s)] = "leave" /\ pc'[Handler(s)] = "fillUpdate"
        /\ roomId'[s] = None
        /\ \A r \in Rooms : s \in members'[r] <=> s \in members[r] /\ r # room[Handler(s)]
    BY <1>3, <1>2, ActorFacts DEF Leave, Cleared, TypeOK, PlacesOK, DataOK, PacketsOK
  <2> USE DEF SessionInv, HandlerPlaces, CloserPlaces
  <2>2. ClientOK(s)'
    BY <1>2, <2>1, SessionTypes DEF ClientOK, Begun
  <2>3. ScreenOK(s)'
    BY <1>2, <2>1, SessionTypes DEF ScreenOK, Leaving, Chatting
  <2>4. MemberOK(s)'
    BY <1>2, <2>1, SessionTypes DEF MemberOK, LeaveOK
  <2>5. LeaveOK(s)'
    BY <1>2, <2>1, SessionTypes DEF LeaveOK, Left
  <2> QED
    BY <1>1, <1>2, <2>2, <2>3, <2>4, <2>5, SameKeeps
<1>4. CASE a = Closer(s)
  <2>1. /\ UNCHANGED <<pc[Handler(s)], room[Handler(s)], room[Closer(s)], connected[s],
                       requests[s], missed[s], info[s], pkt[Handler(s)].chat, screen[s]>>
        /\ pc[Closer(s)] = "leave" /\ pc'[Closer(s)] = "fillUpdate"
        /\ roomId'[s] = None
        /\ \A r \in Rooms : s \in members'[r] <=> s \in members[r] /\ r # room[Closer(s)]
    BY <1>4, <1>2, ActorFacts DEF Leave, Cleared, TypeOK, PlacesOK, DataOK, PacketsOK
  <2> USE DEF SessionInv, HandlerPlaces, CloserPlaces
  <2>2. ClientOK(s)'
    BY <1>2, <2>1, SessionTypes DEF ClientOK, Begun
  <2>3. ScreenOK(s)'
    BY <1>2, <2>1, SessionTypes DEF ScreenOK, Leaving, Chatting
  <2>4. MemberOK(s)'
    BY <1>2, <2>1, SessionTypes DEF MemberOK, LeaveOK
  <2>5. LeaveOK(s)'
    BY <1>2, <2>1, SessionTypes DEF LeaveOK, Left
  <2> QED
    BY <1>1, <1>2, <2>2, <2>3, <2>4, <2>5, SameKeeps
<1> QED
  BY <1>1, <1>2, <1>3, <1>4, SameKeeps

\* What is broadcast.
LEMMA FillUpdateKeeps ==
  ASSUME RoomsInv, NEW a \in Actors, FillUpdate(a)
  PROVE  \A v \in Sessions : SessionInv(v)'
<1> USE DEF RoomsInv
<1> DEFINE s == Own(a)
<1>8. a = Closer(s) => pc[a] = "fillUpdate"
  <2>1. pc[Closer(s)] \in CloserPlaces
    BY ActorFacts DEF TypeOK, PlacesOK
  <2>2. pc[a] \in {"fillUpdate", "fillChat"}
    BY DEF FillUpdate, At
  <2> QED
    BY <2>1, <2>2 DEF CloserPlaces
<1>0. <<s, requests[s]>> # None
  <2>1. <<s, requests[s]>> \in Sessions \X Nat
    BY ActorFacts DEF TypeOK, DataOK
  <2> QED
    BY <2>1, NoneAssumption
<1>9. pkt'[a].chat = None <=> pc[a] = "fillUpdate"
  <2>1. pkt'[a].chat = IF pc[a] = "fillChat" THEN <<s, requests[s]>> ELSE None
    BY DEF FillUpdate, TypeOK, PacketsOK
  <2>2. pc[a] \in {"fillUpdate", "fillChat"}
    BY DEF FillUpdate, At
  <2> QED
    BY <1>0, <2>1, <2>2
<1>1. ASSUME NEW v \in Sessions, v # s PROVE SameSession(v)
  BY <1>1, ActorFacts, <1>0, <1>8, <1>9 DEF FillUpdate, SameSession, TypeOK, PlacesOK, DataOK, PacketsOK
<1>2. SessionInv(s) /\ s \in Sessions /\ (a = Handler(s) \/ a = Closer(s))
  BY ActorFacts
<1>3. CASE a = Handler(s)
  <2>1. /\ UNCHANGED <<pc[Closer(s)], room[Handler(s)], room[Closer(s)], roomId[s],
                       connected[s], requests[s], missed[s], info[s], screen[s]>>
        /\ pc[Handler(s)] \in {"fillUpdate", "fillChat"} /\ pc'[Handler(s)] = "broadcast"
        /\ pkt'[Handler(s)].chat = None <=> pc[Handler(s)] = "fillUpdate"
        /\ \A r \in Rooms : s \in members'[r] <=> s \in members[r]
    BY <1>3, <1>2, ActorFacts, <1>0, <1>8, <1>9 DEF FillUpdate, TypeOK, PlacesOK, DataOK, PacketsOK
  <2> USE DEF SessionInv, HandlerPlaces, CloserPlaces
  <2>2. ClientOK(s)'
    BY <1>2, <2>1, SessionTypes DEF ClientOK, Begun
  <2>3. ScreenOK(s)'
    BY <1>2, <2>1, SessionTypes DEF ScreenOK, Leaving, Chatting
  <2>4. MemberOK(s)'
    BY <1>2, <2>1, SessionTypes DEF MemberOK, LeaveOK
  <2>5. LeaveOK(s)'
    BY <1>2, <2>1, SessionTypes DEF LeaveOK, Left
  <2> QED
    BY <1>1, <1>2, <2>2, <2>3, <2>4, <2>5, SameKeeps
<1>4. CASE a = Closer(s)
  <2>1. /\ UNCHANGED <<pc[Handler(s)], room[Handler(s)], room[Closer(s)], roomId[s],
                       connected[s], requests[s], missed[s], info[s], pkt[Handler(s)].chat,
                       screen[s]>>
        /\ pc[Closer(s)] = "fillUpdate" /\ pc'[Closer(s)] = "broadcast"
        /\ \A r \in Rooms : s \in members'[r] <=> s \in members[r]
    BY <1>4, <1>2, ActorFacts, <1>0, <1>8, <1>9 DEF FillUpdate, TypeOK, PlacesOK, DataOK, PacketsOK
  <2> USE DEF SessionInv, HandlerPlaces, CloserPlaces
  <2>2. ClientOK(s)'
    BY <1>2, <2>1, SessionTypes DEF ClientOK, Begun
  <2>3. ScreenOK(s)'
    BY <1>2, <2>1, SessionTypes DEF ScreenOK, Leaving, Chatting
  <2>4. MemberOK(s)'
    BY <1>2, <2>1, SessionTypes DEF MemberOK, LeaveOK
  <2>5. LeaveOK(s)'
    BY <1>2, <2>1, SessionTypes DEF LeaveOK, Left
  <2> QED
    BY <1>1, <1>2, <2>2, <2>3, <2>4, <2>5, SameKeeps
<1> QED
  BY <1>1, <1>2, <1>3, <1>4, SameKeeps

\* Room::Broadcast.
LEMMA BroadcastKeeps ==
  ASSUME RoomsInv, NEW a \in Actors, StartBroadcast(a) \/ \E u \in Sessions : SendTo(a, u)
  PROVE  \A v \in Sessions : SessionInv(v)'
<1> USE DEF RoomsInv
<1> DEFINE s == Own(a)
<1>1. ASSUME NEW v \in Sessions, v # s PROVE SameSession(v)
  BY <1>1, ActorFacts DEF StartBroadcast, SendTo, SameSession, TypeOK, PlacesOK, DataOK, PacketsOK
<1>2. SessionInv(s) /\ s \in Sessions /\ (a = Handler(s) \/ a = Closer(s))
  BY ActorFacts
<1>3. CASE a = Handler(s)
  <2>1. /\ UNCHANGED <<pc[Closer(s)], room[Handler(s)], room[Closer(s)], roomId[s],
                       connected[s], requests[s], missed[s], info[s], pkt[Handler(s)].chat,
                       screen[s]>>
        /\ pc[Handler(s)] \in {"broadcast", "sending"} /\ pc'[Handler(s)] \in {"sending", "push"}
        /\ \A r \in Rooms : s \in members'[r] <=> s \in members[r]
    BY <1>3, <1>2, ActorFacts DEF StartBroadcast, SendTo, TypeOK, PlacesOK, DataOK, PacketsOK
  <2> USE DEF SessionInv, HandlerPlaces, CloserPlaces
  <2>2. ClientOK(s)'
    BY <1>2, <2>1, SessionTypes DEF ClientOK, Begun
  <2>3. ScreenOK(s)'
    BY <1>2, <2>1, SessionTypes DEF ScreenOK, Leaving, Chatting
  <2>4. MemberOK(s)'
    BY <1>2, <2>1, SessionTypes DEF MemberOK, LeaveOK
  <2>5. LeaveOK(s)'
    BY <1>2, <2>1, SessionTypes DEF LeaveOK, Left
  <2> QED
    BY <1>1, <1>2, <2>2, <2>3, <2>4, <2>5, SameKeeps
<1>4. CASE a = Closer(s)
  <2>1. /\ UNCHANGED <<pc[Handler(s)], room[Handler(s)], room[Closer(s)], roomId[s],
                       connected[s], requests[s], missed[s], info[s], pkt[Handler(s)].chat,
                       screen[s]>>
        /\ pc[Closer(s)] \in {"broadcast", "sending"} /\ pc'[Closer(s)] \in {"sending", "push"}
        /\ \A r \in Rooms : s \in members'[r] <=> s \in members[r]
    BY <1>4, <1>2, ActorFacts DEF StartBroadcast, SendTo, TypeOK, PlacesOK, DataOK, PacketsOK
  <2> USE DEF SessionInv, HandlerPlaces, CloserPlaces
  <2>2. ClientOK(s)'
    BY <1>2, <2>1, SessionTypes DEF ClientOK, Begun
  <2>3. ScreenOK(s)'
    BY <1>2, <2>1, SessionTypes DEF ScreenOK, Leaving, Chatting
  <2>4. MemberOK(s)'
    BY <1>2, <2>1, SessionTypes DEF MemberOK, LeaveOK
  <2>5. LeaveOK(s)'
    BY <1>2, <2>1, SessionTypes DEF LeaveOK, Left
  <2> QED
    BY <1>1, <1>2, <2>2, <2>3, <2>4, <2>5, SameKeeps
<1> QED
  BY <1>1, <1>2, <1>3, <1>4, SameKeeps

LEMMA PushKeeps ==
  ASSUME RoomsInv, NEW a \in Actors, Push(a)
  PROVE  \A v \in Sessions : SessionInv(v)'
<1> USE DEF RoomsInv
<1> DEFINE s == Own(a)
<1>1. ASSUME NEW v \in Sessions, v # s PROVE SameSession(v)
  BY <1>1, ActorFacts, PushShows DEF Push, SameSession, TypeOK, PlacesOK, DataOK, PacketsOK
<1>2. SessionInv(s) /\ s \in Sessions /\ (a = Handler(s) \/ a = Closer(s))
  BY ActorFacts
<1>3. CASE a = Handler(s)
  <2>1. /\ UNCHANGED <<pc[Closer(s)], room[Handler(s)], room[Closer(s)], roomId[s],
                       connected[s], requests[s], missed[s], info[s], pkt[Handler(s)].chat>>
        /\ pc[Handler(s)] = "push" /\ pc'[Handler(s)] = "sending"
        /\ screen'[s] = screen[s] \/ (screen[s] # Lobby /\ screen'[s] # Lobby)
        /\ \A r \in Rooms : s \in members'[r] <=> s \in members[r]
    BY <1>3, <1>2, ActorFacts, PushShows DEF Push, TypeOK, PlacesOK, DataOK, PacketsOK
  <2> USE DEF SessionInv, HandlerPlaces, CloserPlaces
  <2>2. ClientOK(s)'
    BY <1>2, <2>1, SessionTypes DEF ClientOK, Begun
  <2>3. ScreenOK(s)'
    BY <1>2, <2>1, SessionTypes DEF ScreenOK, Leaving, Chatting
  <2>4. MemberOK(s)'
    BY <1>2, <2>1, SessionTypes DEF MemberOK, LeaveOK
  <2>5. LeaveOK(s)'
    BY <1>2, <2>1, SessionTypes DEF LeaveOK, Left
  <2> QED
    BY <1>1, <1>2, <2>2, <2>3, <2>4, <2>5, SameKeeps
<1>4. CASE a = Closer(s)
  <2>1. /\ UNCHANGED <<pc[Handler(s)], room[Handler(s)], room[Closer(s)], roomId[s],
                       connected[s], requests[s], missed[s], info[s], pkt[Handler(s)].chat>>
        /\ pc[Closer(s)] = "push" /\ pc'[Closer(s)] = "sending"
        /\ screen'[s] = screen[s] \/ (screen[s] # Lobby /\ screen'[s] # Lobby)
        /\ \A r \in Rooms : s \in members'[r] <=> s \in members[r]
    BY <1>4, <1>2, ActorFacts, PushShows DEF Push, TypeOK, PlacesOK, DataOK, PacketsOK
  <2> USE DEF SessionInv, HandlerPlaces, CloserPlaces
  <2>2. ClientOK(s)'
    BY <1>2, <2>1, SessionTypes DEF ClientOK, Begun
  <2>3. ScreenOK(s)'
    BY <1>2, <2>1, SessionTypes DEF ScreenOK, Leaving, Chatting
  <2>4. MemberOK(s)'
    BY <1>2, <2>1, SessionTypes DEF MemberOK, LeaveOK
  <2>5. LeaveOK(s)'
    BY <1>2, <2>1, SessionTypes DEF LeaveOK, Left
  <2> QED
    BY <1>1, <1>2, <2>2, <2>3, <2>4, <2>5, SameKeeps
<1> QED
  BY <1>1, <1>2, <1>3, <1>4, SameKeeps

LEMMA EndBroadcastKeeps ==
  ASSUME RoomsInv, NEW a \in Actors, EndBroadcast(a)
  PROVE  \A v \in Sessions : SessionInv(v)'
<1> USE DEF RoomsInv
<1> DEFINE s == Own(a)
<1>1. ASSUME NEW v \in Sessions, v # s PROVE SameSession(v)
  BY <1>1, ActorFacts DEF EndBroadcast, NoPkt, SameSession, TypeOK, PlacesOK, DataOK, PacketsOK
<1>2. SessionInv(s) /\ s \in Sessions /\ (a = Handler(s) \/ a = Closer(s))
  BY ActorFacts
<1>3. CASE a = Handler(s)
  <2>1. /\ UNCHANGED <<pc[Closer(s)], room[Closer(s)], roomId[s], connected[s], requests[s],
                       missed[s], info[s], screen[s]>>
        /\ pc[Handler(s)] = "sending"
        /\ pc'[Handler(s)] = IF pkt[Handler(s)].chat # None THEN "idle" ELSE "respond"
        /\ \A r \in Rooms : s \in members'[r] <=> s \in members[r]
    BY <1>3, <1>2, ActorFacts DEF EndBroadcast, NoPkt, TypeOK, PlacesOK, DataOK, PacketsOK
  <2> USE DEF SessionInv, HandlerPlaces, CloserPlaces
  <2>2. ClientOK(s)'
    BY <1>2, <2>1, SessionTypes DEF ClientOK, Begun
  <2>3. ScreenOK(s)'
    BY <1>2, <2>1, SessionTypes DEF ScreenOK, Leaving, Chatting
  <2>4. MemberOK(s)'
    BY <1>2, <2>1, SessionTypes DEF MemberOK, LeaveOK
  <2>5. LeaveOK(s)'
    BY <1>2, <2>1, SessionTypes DEF LeaveOK, Left
  <2> QED
    BY <1>1, <1>2, <2>2, <2>3, <2>4, <2>5, SameKeeps
<1>4. CASE a = Closer(s)
  <2>1. /\ UNCHANGED <<pc[Handler(s)], room[Handler(s)], roomId[s], connected[s], requests[s],
                       missed[s], info[s], pkt[Handler(s)].chat, screen[s]>>
        /\ pc[Closer(s)] = "sending" /\ pc'[Closer(s)] = "forget"
        /\ \A r \in Rooms : s \in members'[r] <=> s \in members[r]
    BY <1>4, <1>2, ActorFacts DEF EndBroadcast, NoPkt, TypeOK, PlacesOK, DataOK, PacketsOK
  <2> USE DEF SessionInv, HandlerPlaces, CloserPlaces
  <2>2. ClientOK(s)'
    BY <1>2, <2>1, SessionTypes DEF ClientOK, Begun
  <2>3. ScreenOK(s)'
    BY <1>2, <2>1, SessionTypes DEF ScreenOK, Leaving, Chatting
  <2>4. MemberOK(s)'
    BY <1>2, <2>1, SessionTypes DEF MemberOK, LeaveOK
  <2>5. LeaveOK(s)'
    BY <1>2, <2>1, SessionTypes DEF LeaveOK, Left
  <2> QED
    BY <1>1, <1>2, <2>2, <2>3, <2>4, <2>5, SameKeeps
<1> QED
  BY <1>1, <1>2, <1>3, <1>4, SameKeeps

\* The handler's answer.
LEMMA RespondKeeps ==
  ASSUME RoomsInv, NEW a \in Actors, Respond(a)
  PROVE  \A v \in Sessions : SessionInv(v)'
<1> USE DEF RoomsInv
<1> DEFINE s == Own(a)
<1>0. a = Handler(s) /\ s \in Sessions
  BY ActorFacts DEF Respond, TypeOK, PlacesOK, CloserPlaces
<1>8. room[a] \in Rooms /\ pc[a] = "respond"
  BY DEF Respond, TypeOK, PlacesOK
<1>9. connected[s] /\ info[s] # None => screen'[s].room = room[a]
  BY <1>0, <1>8 DEF Respond, IsEnter, TypeOK, PacketsOK
<1>10. connected[s] /\ info[s] # None => screen'[s] # Lobby
  BY <1>8, <1>9, NoneAssumption DEF Lobby
<1>1. ASSUME NEW v \in Sessions, v # s PROVE SameSession(v)
  BY <1>1, ActorFacts, <1>0, <1>8, <1>10 DEF Respond, SameSession, TypeOK, PlacesOK, DataOK, PacketsOK
<1>2. /\ UNCHANGED <<pc[Closer(s)], room[Closer(s)], roomId[s], connected[s], requests[s],
                     missed[s], pkt[Handler(s)].chat>>
      /\ pc[Handler(s)] = "respond" /\ pc'[Handler(s)] = "idle"
      /\ room[Handler(s)] \in Rooms
      /\ info'[s] = None
      /\ connected[s] /\ info[s] # None => screen'[s] # Lobby
      /\ \A r \in Rooms : s \in members'[r] <=> s \in members[r]
  BY ActorFacts, <1>0, <1>8, <1>10 DEF Respond, TypeOK, PlacesOK, DataOK, PacketsOK
<1>3. SessionInv(s) /\ s \in Sessions
  BY ActorFacts
<1> USE DEF SessionInv, HandlerPlaces, CloserPlaces
<1>4. ClientOK(s)'
  BY <1>2, <1>3, SessionTypes DEF ClientOK, Begun
<1>5. ScreenOK(s)'
  BY <1>2, <1>3, SessionTypes DEF ScreenOK, Leaving, Chatting
<1>6. MemberOK(s)'
  BY <1>2, <1>3, SessionTypes DEF MemberOK, LeaveOK
<1>7. LeaveOK(s)'
  BY <1>2, <1>3, SessionTypes DEF LeaveOK, Left, ClientOK, Begun, ScreenOK, MemberOK
<1> QED
  BY <1>1, <1>3, <1>4, <1>5, <1>6, <1>7, SameKeeps

-----------------------------------------------------------------------------
(* The theorem.                                                               *)

LEMMA RoomsInit == Init => RoomsInv
<1> SUFFICES ASSUME Init PROVE RoomsInv
  OBVIOUS
<1>1. ASSUME NEW s \in Sessions PROVE SessionInv(s)
  BY <1>1, ActorFacts, NoneAssumption
  DEF Init, InitIdle, SessionInv, ClientOK, ScreenOK, Leaving, Chatting, MemberOK, LeaveOK, Left
<1> QED
  BY <1>1, TypeInit DEF RoomsInv

LEMMA RoomsStep == RoomsInv /\ [Next]_vars => RoomsInv'
<1> SUFFICES ASSUME RoomsInv, [Next]_vars PROVE RoomsInv'
  OBVIOUS
<1>1. TypeOK'
  BY PlacesStep, DataStep, PacketsStep DEF RoomsInv, TypeOK
<1>2. CASE Still
  <2>1. \A s \in Sessions : SameSession(s)
    BY <1>2 DEF Still, AllVars, SameSession
  <2> QED
    BY <1>1, <2>1, SameKeeps DEF RoomsInv
<1> QED
  BY <1>1, <1>2, NextCases, EnterKeeps, AskKeeps, CloseKeeps, FindRoomKeeps, ForgetKeeps, AssignKeeps,
     FillEnterKeeps, LeaveKeeps, FillUpdateKeeps, BroadcastKeeps, PushKeeps, EndBroadcastKeeps,
     RespondKeeps
  DEF RoomsInv

LEMMA RoomsInvariance == Spec => []RoomsInv
  BY RoomsInit, RoomsStep, PTL DEF Spec

\* However handlers and disconnects interleave, a player at rest is in the room
\* its roomId names and in no other, and a disconnected one in none, unless its
\* disconnect came between Room::Enter and the assignment of roomId.
THEOREM RoomsAgree == Spec => []MembersAgree
<1>1. RoomsInv => MembersAgree
  BY ActorFacts DEF RoomsInv, SessionInv, ClientOK, MemberOK, LeaveOK, Left, MembersAgree, AtRest, Idle
<1> QED
  BY <1>1, RoomsInvariance, PTL

-----------------------------------------------------------------------------
(* What clients are shown: the inductive invariant, on top of RoomsInv.       *)

SendTypes ==
    /\ player \in [Sessions -> BOOLEAN]
    /\ outdated \in [Rooms -> BOOLEAN]
    /\ todo \in [Actors -> SUBSET Sessions]
    /\ target \in [Actors -> Sessions \cup {None}]
    /\ heard \in [Sessions -> Seq(Sessions \X Nat)]

\* A roster for the entrant exists from FillRoomInfo to the answer, and till
\* then the client shows the lobby; afterwards it shows the room the player is
\* in, or is about to be told that it has left.
ShownOK(s) ==
    /\ connected[s] => player[s]
    /\ pc[Handler(s)] \in {"idle", "assign", "fillEnter", "leave", "fillChat"} => info[s] = None
    /\ pc[Handler(s)] \in {"assign", "fillEnter"} \/ info[s] # None => screen[s].room = None
    /\ connected[s] /\ (pc[Handler(s)] = "fillEnter" \/ info[s] # None) => roomId[s] = room[Handler(s)]
    /\ connected[s] /\ screen[s].room # None => roomId[s] = screen[s].room \/ Leaving(s)

\* The chat a handler carries is its client's last request.
CarriesOK(s) ==
    /\ pkt[Closer(s)].chat = None
    /\ pkt[Handler(s)].chat # None =>
          /\ pkt[Handler(s)].chat = <<s, requests[s]>>
          /\ pc[Handler(s)] \in {"broadcast", "sending", "push"}
          /\ info[s] = None

\* Whoever is in the loop of Broadcast holds the room's lock, so it is alone,
\* and those it still has to send to are in the room.
Sending(b) == pc[b] \in {"sending", "push"}

HeldOnce == \A b, c \in Actors : Sending(b) /\ Sending(c) /\ room[b] = room[c] => b = c

AddresseesOK(b) ==
    /\ Sending(b) => todo[b] \subseteq members[room[b]]
    /\ pc[b] = "push" => target[b] \in members[room[b]] /\ target[b] \notin todo[b]

SendInv ==
    /\ \A s \in Sessions : ShownOK(s) /\ CarriesOK(s)
    /\ HeldOnce
    /\ \A b \in Actors : AddresseesOK(b)

\* Unless the room is outdated, the rosters carried are those of the room,
CarriedInv(b) ==
    LET r == room[b] IN
    r # None /\ ~outdated[r] =>
        /\ pc[b] \in {"broadcast", "sending", "push"} => pkt[b].roster = Roster(r)
        /\ b = Handler(Own(b)) /\ info[Own(b)] # None => info[Own(b)] = Roster(r)

\* and who does not show it yet will be told.
WillTell(b, r, s) ==
    /\ room[b] = r
    /\ \/ pc[b] \in {"fillEnter", "fillUpdate", "broadcast"}
       \/ Sending(b) /\ s \in todo[b]
       \/ pc[b] = "push" /\ s = target[b]

ToldInv(r) ==
    ~outdated[r] => \A s \in Roster(r) :
        connected[s] /\ screen[s].room = r =>
            screen[s].roster = Roster(r) \/ \E b \in Actors : WillTell(b, r, s)

RosterInv == (\A b \in Actors : CarriedInv(b)) /\ \A r \in Rooms : ToldInv(r)

\* A chat that has been heard is one of its client's earlier requests, or it is
\* being broadcast: then it is the last that was heard, by a client that is in
\* the room, shows it and will not be sent it again.
BeingSent(u, i) ==
    LET b == Handler(heard[u][i][1]) IN
    Sending(b) /\ pkt[b].chat = heard[u][i] =>
        /\ i = Len(heard[u])
        /\ u \notin todo[b] /\ (pc[b] = "push" => target[b] # u)
        /\ u \in members[room[b]] /\ screen[u].room = room[b]

AlreadyAsked(c) ==
    LET b == Handler(c[1]) IN
    /\ c[2] <= requests[c[1]]
    /\ c[2] = requests[c[1]] => pc[b] # "fillChat" /\ ~(pc[b] = "broadcast" /\ pkt[b].chat # None)

HeardInv(u) ==
    \A i \in 1..Len(heard[u]) : AlreadyAsked(heard[u][i]) /\ BeingSent(u, i)

-----------------------------------------------------------------------------
LEMMA SendTypesInit == Init => SendTypes
<1> SUFFICES ASSUME Init PROVE SendTypes
  OBVIOUS
<1>1. player \in [Sessions -> BOOLEAN] /\ outdated \in [Rooms -> BOOLEAN]
  BY DEF Init, InitIdle
<1>2. todo \in [Actors -> SUBSET Sessions] /\ target \in [Actors -> Sessions \cup {None}]
  BY DEF Init, InitIdle
<1>3. heard \in [Sessions -> Seq(Sessions \X Nat)]
  BY DEF Init, InitIdle
<1> QED
  BY <1>1, <1>2, <1>3 DEF SendTypes

LEMMA AppendIs ==
  ASSUME NEW S, NEW q \in Seq(S), NEW e \in S
  PROVE  /\ Append(q, e) \in Seq(S) /\ Len(q) \in Nat /\ Len(Append(q, e)) = Len(q) + 1
         /\ Append(q, e)[Len(q) + 1] = e
         /\ \A i \in 1..Len(q) : Append(q, e)[i] = q[i]
  OBVIOUS

\* A push is heard by its target, if that shows the room.
LEMMA PushHears ==
  ASSUME RoomsInv, SendTypes, NEW a \in Actors, Push(a)
  PROVE  /\ heard' \in [Sessions -> Seq(Sessions \X Nat)]
         /\ \A v \in Sessions :
               \/ heard'[v] = heard[v]
               \/ /\ v = target[a] /\ screen[v].room = room[a] /\ pkt[a].chat # None
                  /\ pkt[a].chat \in Sessions \X Nat
                  /\ heard'[v] = Append(heard[v], pkt[a].chat)
         /\ \A v \in Sessions :
               \/ screen'[v] = screen[v] /\ (v # target[a] \/ ~connected[v] \/ screen[v].room # room[a])
               \/ /\ v = target[a] /\ screen[v].room = room[a] /\ screen'[v].room = room[a]
                  /\ screen'[v].roster = pkt[a].roster
<1> USE DEF RoomsInv, TypeOK, PacketsOK
<1> DEFINE u == target[a]
<1>1. pkt[a].chat = None \/ pkt[a].chat \in Sessions \X Nat
  OBVIOUS
<1>2. \/ heard' = heard
      \/ /\ heard' = [heard EXCEPT ![u] = Append(@, pkt[a].chat)]
         /\ connected[u] /\ screen[u].room = room[a] /\ pkt[a].chat # None
  BY DEF Push, Shown
<1>3. ASSUME NEW v \in Sessions
      PROVE  /\ heard'[v] \in Seq(Sessions \X Nat)
             /\ \/ heard'[v] = heard[v]
                \/ /\ v = target[a] /\ screen[v].room = room[a] /\ pkt[a].chat # None
                   /\ heard'[v] = Append(heard[v], pkt[a].chat)
  <2>1. CASE heard' = heard
    BY <2>1 DEF SendTypes
  <2>2. CASE /\ heard' = [heard EXCEPT ![u] = Append(@, pkt[a].chat)]
             /\ connected[u] /\ screen[u].room = room[a] /\ pkt[a].chat # None
    <3>1. heard[v] \in Seq(Sessions \X Nat)
      BY DEF SendTypes
    <3>2. heard'[v] = IF v = u THEN Append(heard[v], pkt[a].chat) ELSE heard[v]
      BY <2>2 DEF SendTypes
    <3>3. Append(heard[v], pkt[a].chat) \in Seq(Sessions \X Nat)
      BY <1>1, <2>2, <3>1, AppendIs
    <3> QED
      BY <2>2, <3>1, <3>2, <3>3
  <2> QED
    BY <1>2, <2>1, <2>2
<1>4. heard' \in [Sessions -> Seq(Sessions \X Nat)]
  <2>1. heard' = [v \in Sessions |-> heard'[v]]
    BY <1>2 DEF SendTypes
  <2> QED
    BY <1>3, <2>1
<1>5. ASSUME NEW v \in Sessions
      PROVE  \/ screen'[v] = screen[v] /\ (v # target[a] \/ ~connected[v] \/ screen[v].room # room[a])
             \/ /\ v = target[a] /\ screen[v].room = room[a] /\ screen'[v].room = room[a]
                /\ screen'[v].roster = pkt[a].roster
  BY DEF Push, Shown
<1> QED
  BY <1>1, <1>3, <1>4, <1>5

LEMMA SendTypesStep ==
  ASSUME RoomsInv, SendTypes, [Next]_vars PROVE SendTypes'
<1> USE DEF RoomsInv, TypeOK, PlacesOK, DataOK
<1> DEFINE Same == UNCHANGED <<player, outdated, todo, target, heard>>
<1>0. Same => SendTypes'
  BY DEF SendTypes
<1>1. ASSUME NEW s \in Sessions, NEW r \in Rooms, Enter(s, r) PROVE SendTypes'
  BY <1>0, <1>1 DEF Enter
<1>2. ASSUME NEW s \in Sessions, AskLeave(s) \/ AskChat(s) PROVE SendTypes'
  BY <1>0, <1>2 DEF AskLeave, AskChat
<1>3. ASSUME NEW s \in Sessions, LockForDrain(s) \/ Disconnect(s) PROVE SendTypes'
  BY <1>0, <1>3 DEF LockForDrain, Disconnect
<1>4. ASSUME NEW s \in Sessions, FindRoom(s) PROVE SendTypes'
  BY <1>0, <1>4 DEF FindRoom
<1>5. ASSUME NEW s \in Sessions, Forget(s) PROVE SendTypes'
  BY <1>5 DEF Forget, SendTypes
<1>6. ASSUME NEW a \in Actors, Assign(a) \/ Leave(a) PROVE SendTypes'
  <2>1. outdated' = [outdated EXCEPT ![room[a]] = @ \/ Carried(room[a])]
    BY <1>6 DEF Assign, Leave
  <2>2. outdated' \in [Rooms -> BOOLEAN]
    BY <2>1, Zenon DEF SendTypes
  <2>3. UNCHANGED <<player, todo, target, heard>>
    BY <1>6 DEF Assign, Leave
  <2> QED
    BY <2>2, <2>3 DEF SendTypes
<1>7. ASSUME NEW a \in Actors, FillEnter(a) \/ FillUpdate(a) \/ Respond(a) PROVE SendTypes'
  BY <1>0, <1>7 DEF FillEnter, FillUpdate, Respond
<1>8. ASSUME NEW a \in Actors, StartBroadcast(a) PROVE SendTypes'
  <2>1. room[a] \in Rooms /\ members[room[a]] \in SUBSET Sessions
    BY <1>8 DEF StartBroadcast
  <2> QED
    BY <1>8, <2>1 DEF StartBroadcast, SendTypes
<1>9. ASSUME NEW a \in Actors, NEW u \in Sessions, SendTo(a, u) PROVE SendTypes'
  BY <1>9 DEF SendTo, SendTypes
<1>10. ASSUME NEW a \in Actors, Push(a) PROVE SendTypes'
  BY <1>10, PushHears DEF Push, SendTypes
<1>11. ASSUME NEW a \in Actors, EndBroadcast(a) PROVE SendTypes'
  BY <1>11 DEF EndBroadcast, SendTypes
<1>12. CASE Still
  BY <1>0, <1>12 DEF Still, AllVars
<1> QED
  BY <1>1, <1>2, <1>3, <1>4, <1>5, <1>6, <1>7, <1>8, <1>9, <1>10, <1>11, <1>12, NextCases

-----------------------------------------------------------------------------
(* What a session shows and carries.                                          *)

\* What these read of a session does not change.
SameShown(s) ==
    /\ UNCHANGED <<pc[Handler(s)], room[Handler(s)], roomId[s], connected[s], requests[s], player[s],
                   info[s], pkt[Handler(s)].chat, pkt[Closer(s)].chat>>
    /\ screen'[s].room = screen[s].room

LEMMA SameShownKeeps ==
  ASSUME NEW s \in Sessions, ShownOK(s), CarriesOK(s), SameShown(s)
  PROVE  ShownOK(s)' /\ CarriesOK(s)'
  BY DEF ShownOK, CarriesOK, SameShown, Leaving

LEMMA ShownStep ==
  ASSUME RoomsInv, SendTypes, SendInv, [Next]_vars, NEW v \in Sessions
  PROVE  ShownOK(v)' /\ CarriesOK(v)'
<1>a. ShownOK(v) /\ CarriesOK(v) /\ SessionInv(v)
  BY DEF SendInv, RoomsInv
<1>b. player \in [Sessions -> BOOLEAN]
  BY DEF SendTypes
<1>c. TypeOK
  BY DEF RoomsInv
<1>d. /\ Handler(v) \in Actors /\ Closer(v) \in Actors /\ Handler(v) # Closer(v)
      /\ Own(Handler(v)) = v /\ Own(Closer(v)) = v
      /\ \A s \in Sessions : s # v => /\ Handler(s) # Handler(v) /\ Handler(s) # Closer(v)
                                      /\ Closer(s) # Handler(v) /\ Closer(s) # Closer(v)
      /\ \A a \in Actors : Own(a) \in Sessions /\ (Own(a) = v => a = Handler(v) \/ a = Closer(v))
  BY ActorFacts
<1>0. /\ ShownOK(v) /\ CarriesOK(v) /\ SessionInv(v)
      /\ Handler(v) \in Actors /\ Closer(v) \in Actors /\ Handler(v) # Closer(v)
      /\ Own(Handler(v)) = v /\ Own(Closer(v)) = v
  BY <1>a, <1>d
<1> USE <1>b, <1>c DEF TypeOK, PlacesOK, DataOK, PacketsOK
<1>1. ASSUME NEW s \in Sessions, NEW r \in Rooms, Enter(s, r) PROVE ShownOK(v)' /\ CarriesOK(v)'
  <2>1. CASE v # s
    BY <1>a, <1>d, <1>1, <2>1, SameShownKeeps DEF Enter, SameShown
  <2>2. CASE v = s
    <3>1. /\ pc[Handler(v)] = "idle" /\ pc'[Handler(v)] \in {"idle", "assign"} /\ screen'[v] = Lobby
          /\ UNCHANGED <<info[v], pkt, player, connected, roomId>>
      BY <1>d, <1>1, <2>2 DEF Enter
    <3>2. requests'[v] = requests[v] + 1 /\ requests[v] \in Nat
      BY <1>d, <1>1, <2>2 DEF Enter
    <3> QED
      BY <1>0, <3>1, <3>2 DEF ShownOK, CarriesOK, Lobby
  <2> QED
    BY <2>1, <2>2
<1>2. ASSUME NEW s \in Sessions, AskLeave(s) \/ AskChat(s) PROVE ShownOK(v)' /\ CarriesOK(v)'
  <2>1. CASE v # s
    BY <1>a, <1>d, <1>2, <2>1, SameShownKeeps DEF AskLeave, AskChat, SameShown
  <2>2. CASE v = s
    <3>1. /\ pc[Handler(v)] = "idle" /\ pc'[Handler(v)] \in {"idle", "leave", "fillChat"}
          /\ UNCHANGED <<info[v], pkt, player, connected, roomId, screen>>
      BY <1>d, <1>2, <2>2 DEF AskLeave, AskChat
    <3> QED
      BY <1>0, <3>1 DEF ShownOK, CarriesOK, Leaving
  <2> QED
    BY <2>1, <2>2
<1>3. ASSUME NEW s \in Sessions, LockForDrain(s) \/ Disconnect(s) PROVE ShownOK(v)' /\ CarriesOK(v)'
  <2>1. /\ UNCHANGED <<pc[Handler(v)], room[Handler(v)], roomId, requests, player, info, pkt, screen>>
        /\ connected'[v] => connected[v]
    <3>1. UNCHANGED <<room, roomId, requests, player, info, pkt, screen>>
      BY <1>3 DEF LockForDrain, Disconnect
    <3>2. \E p : pc' = [pc EXCEPT ![Closer(s)] = p]
      BY <1>3 DEF LockForDrain, Disconnect
    <3>3. pc'[Handler(v)] = pc[Handler(v)]
      BY <1>d, <3>2
    <3>4. connected' = connected \/ connected' = [connected EXCEPT ![s] = FALSE]
      BY <1>3 DEF LockForDrain, Disconnect
    <3> QED
      BY <3>1, <3>3, <3>4
  <2> QED
    BY <1>0, <2>1 DEF ShownOK, CarriesOK, Leaving
<1>4. ASSUME NEW s \in Sessions, FindRoom(s) PROVE ShownOK(v)' /\ CarriesOK(v)'
  <2>1. /\ UNCHANGED <<roomId, requests, player, connected, info, pkt, screen>>
        /\ \E p : pc' = [pc EXCEPT ![Closer(s)] = p]
        /\ room' = room \/ \E r : room' = [room EXCEPT ![Closer(s)] = r]
    BY <1>4 DEF FindRoom
  <2>2. UNCHANGED <<pc[Handler(v)], room[Handler(v)]>>
    BY <1>d, <2>1
  <2> QED
    BY <1>a, <2>1, <2>2, SameShownKeeps DEF SameShown
<1>5. ASSUME NEW s \in Sessions, Forget(s) PROVE ShownOK(v)' /\ CarriesOK(v)'
  <2>1. CASE v # s
    BY <1>a, <1>d, <1>5, <2>1, SameShownKeeps DEF Forget, SameShown
  <2>2. CASE v = s
    <3>1. /\ UNCHANGED <<pc[Handler(v)], room[Handler(v)], roomId, requests, connected, info, pkt, screen>>
          /\ ~connected[v]
      BY <1>0, <1>5, <2>2 DEF Forget, SessionInv, ClientOK
    <3> QED
      BY <1>0, <3>1 DEF ShownOK, CarriesOK, Leaving
  <2> QED
    BY <2>1, <2>2
<1>6. ASSUME NEW a \in Actors, Assign(a) PROVE ShownOK(v)' /\ CarriesOK(v)'
  <2>1. a = Handler(Own(a))
    BY <1>6, ActorFacts DEF Assign, CloserPlaces
  <2>2. CASE v # Own(a)
    BY <1>a, <1>d, <1>6, <2>1, <2>2, SameShownKeeps DEF Assign, Assigned, SameShown
  <2>3. CASE v = Own(a)
    <3>1. /\ UNCHANGED <<room, requests, connected, info, pkt, screen, player>>
          /\ roomId'[v] = room[Handler(v)] /\ pc[Handler(v)] = "assign" /\ pc'[Handler(v)] = "fillEnter"
      BY <1>d, <1>6, <2>1, <2>3 DEF Assign, Assigned
    <3> QED
      BY <1>0, <3>1 DEF ShownOK, CarriesOK
  <2> QED
    BY <2>2, <2>3
<1>7. ASSUME NEW a \in Actors, FillEnter(a) PROVE ShownOK(v)' /\ CarriesOK(v)'
  <2>1. a = Handler(Own(a))
    BY <1>7, ActorFacts DEF FillEnter, CloserPlaces
  <2>2. CASE v # Own(a)
    BY <1>a, <1>d, <1>7, <2>1, <2>2, SameShownKeeps DEF FillEnter, SameShown
  <2>3. CASE v = Own(a)
    <3>1. /\ UNCHANGED <<room, roomId, requests, connected, pkt, screen, player>>
          /\ pc[Handler(v)] = "fillEnter" /\ pc'[Handler(v)] = "fillUpdate"
      BY <1>d, <1>7, <2>1, <2>3 DEF FillEnter
    <3> QED
      BY <1>0, <3>1 DEF ShownOK, CarriesOK, Leaving
  <2> QED
    BY <2>2, <2>3
<1>8. ASSUME NEW a \in Actors, Leave(a) PROVE ShownOK(v)' /\ CarriesOK(v)'
  <2>1. CASE v # Own(a)
    BY <1>a, <1>d, <1>8, <2>1, SameShownKeeps DEF Leave, Cleared, SameShown
  <2>2. CASE v = Own(a) /\ a = Handler(v)
    <3>1. /\ UNCHANGED <<room, requests, connected, info, pkt, screen, player>>
          /\ roomId'[v] = None /\ pc[Handler(v)] = "leave" /\ pc'[Handler(v)] = "fillUpdate"
      BY <1>d, <1>8, <2>2 DEF Leave, Cleared
    <3> QED
      BY <1>0, <3>1 DEF ShownOK, CarriesOK, Leaving
  <2>3. CASE v = Own(a) /\ a = Closer(v)
    <3>1. /\ UNCHANGED <<pc[Handler(v)], room, requests, connected, info, pkt, screen, player>>
          /\ ~connected[v]
      BY <1>0, <1>8, <2>3 DEF Leave, SessionInv, ClientOK
    <3> QED
      BY <1>0, <3>1 DEF ShownOK, CarriesOK
  <2> QED
    BY <1>d, <2>1, <2>2, <2>3
<1>9. ASSUME NEW a \in Actors, FillUpdate(a) PROVE ShownOK(v)' /\ CarriesOK(v)'
  <2>0. pc[a] \in {"fillUpdate", "fillChat"} /\ (a = Closer(v) => pc[a] = "fillUpdate")
    BY <1>d, <1>9 DEF FillUpdate, CloserPlaces
  <2>1. CASE v # Own(a)
    BY <1>a, <1>d, <1>9, <2>1, SameShownKeeps DEF FillUpdate, SameShown
  <2>2. CASE v = Own(a) /\ a = Handler(v)
    <3>1. /\ UNCHANGED <<room, roomId, requests, connected, info, screen, player, pkt[Closer(v)]>>
          /\ pc'[Handler(v)] = "broadcast"
          /\ pkt'[Handler(v)].chat = IF pc[a] = "fillChat" THEN <<v, requests[v]>> ELSE None
      BY <1>d, <1>9, <2>2 DEF FillUpdate
    <3>2. pc[Handler(v)] = "fillUpdate" \/ pc[Handler(v)] = "fillChat"
      BY <2>0, <2>2
    <3> QED
      BY <1>0, <2>2, <3>1, <3>2 DEF ShownOK, CarriesOK, Leaving
  <2>3. CASE v = Own(a) /\ a = Closer(v)
    <3>1. /\ UNCHANGED <<pc[Handler(v)], room, roomId, requests, connected, info, screen, player, pkt[Handler(v)]>>
          /\ pkt'[Closer(v)].chat = None
      BY <1>d, <1>9, <2>0, <2>3 DEF FillUpdate
    <3> QED
      BY <1>0, <3>1 DEF ShownOK, CarriesOK, Leaving
  <2> QED
    BY <1>d, <2>1, <2>2, <2>3
<1>10. ASSUME NEW a \in Actors, StartBroadcast(a) \/ \E u \in Sessions : SendTo(a, u)
       PROVE ShownOK(v)' /\ CarriesOK(v)'
  <2>1. CASE a # Handler(v)
    BY <1>a, <1>d, <1>10, <2>1, SameShownKeeps DEF StartBroadcast, SendTo, SameShown
  <2>2. CASE a = Handler(v)
    <3>1. /\ UNCHANGED <<room, roomId, requests, connected, info, screen, player, pkt>>
          /\ pc[Handler(v)] \in {"broadcast", "sending"} /\ pc'[Handler(v)] \in {"sending", "push"}
      BY <1>d, <1>10, <2>2 DEF StartBroadcast, SendTo
    <3> QED
      BY <1>0, <3>1 DEF ShownOK, CarriesOK, Leaving
  <2> QED
    BY <2>1, <2>2
<1>11. ASSUME NEW a \in Actors, Push(a) PROVE ShownOK(v)' /\ CarriesOK(v)'
  <2>1. screen'[v].room = screen[v].room
    BY <1>a, <1>11, PushHears
  <2>2. CASE a # Handler(v)
    BY <1>a, <1>d, <1>11, <2>1, <2>2, SameShownKeeps DEF Push, SameShown
  <2>3. CASE a = Handler(v)
    <3>1. /\ UNCHANGED <<room, roomId, requests, connected, info, player, pkt>>
          /\ pc[Handler(v)] = "push" /\ pc'[Handler(v)] = "sending"
      BY <1>d, <1>11, <2>3 DEF Push
    <3> QED
      BY <1>0, <2>1, <3>1 DEF ShownOK, CarriesOK, Leaving
  <2> QED
    BY <2>2, <2>3
<1>12. ASSUME NEW a \in Actors, EndBroadcast(a) PROVE ShownOK(v)' /\ CarriesOK(v)'
  <2>1. CASE v # Own(a)
    BY <1>a, <1>d, <1>12, <2>1, SameShownKeeps DEF EndBroadcast, SameShown
  <2>2. CASE v = Own(a) /\ a = Handler(v)
    <3>1. /\ UNCHANGED <<roomId, requests, connected, info, screen, player, pkt[Closer(v)]>>
          /\ pc[Handler(v)] = "sending"
          /\ IF pkt[a].chat # None THEN pc'[Handler(v)] = "idle"
             ELSE pc'[Handler(v)] = "respond" /\ room'[Handler(v)] = room[Handler(v)]
          /\ pkt'[Handler(v)].chat = None
      BY <1>d, <1>12, <2>2 DEF EndBroadcast, NoPkt
    <3>2. pkt[a].chat # None => ~Leaving(v)
      BY <2>2, <3>1 DEF Leaving
    <3> QED
      BY <1>0, <2>2, <3>1, <3>2 DEF ShownOK, CarriesOK, Leaving
  <2>3. CASE v = Own(a) /\ a = Closer(v)
    <3>1. /\ UNCHANGED <<pc[Handler(v)], room[Handler(v)], roomId, requests, connected, info, screen, player,
                         pkt[Handler(v)]>>
          /\ pkt'[Closer(v)].chat = None
      BY <1>d, <1>12, <2>3 DEF EndBroadcast, NoPkt
    <3> QED
      BY <1>0, <3>1 DEF ShownOK, CarriesOK, Leaving
  <2> QED
    BY <1>d, <2>1, <2>2, <2>3
<1>13. ASSUME NEW a \in Actors, Respond(a) PROVE ShownOK(v)' /\ CarriesOK(v)'
  <2>1. a = Handler(Own(a))
    BY <1>13, ActorFacts DEF Respond, CloserPlaces
  <2>2. CASE v # Own(a)
    BY <1>a, <1>d, <1>13, <2>1, <2>2, SameShownKeeps DEF Respond, SameShown
  <2>3. CASE v = Own(a)
    <3>1. /\ UNCHANGED <<roomId, requests, connected, player, pkt>>
          /\ pc[Handler(v)] = "respond" /\ pc'[Handler(v)] = "idle" /\ info'[v] = None
      BY <1>d, <1>13, <2>1, <2>3 DEF Respond
    <3>2. connected[v] => screen'[v].room = IF info[v] # None THEN room[Handler(v)] ELSE None
      BY <1>d, <1>13, <2>1, <2>3 DEF Respond, IsEnter, Lobby
    <3> QED
      BY <1>0, <3>1, <3>2 DEF ShownOK, CarriesOK
  <2> QED
    BY <2>2, <2>3
<1>14. CASE Still
  BY <1>a, <1>d, <1>14, SameShownKeeps DEF Still, AllVars, SameShown
<1> QED
  BY <1>1, <1>2, <1>3, <1>4, <1>5, <1>6, <1>7, <1>8, <1>9, <1>10, <1>11, <1>12, <1>13, <1>14, NextCases

-----------------------------------------------------------------------------
(* The loop of Broadcast, under the room's lock.                              *)

\* Only StartBroadcast begins one; while it lasts the room's players stay.
LEMMA SendingStep ==
  ASSUME RoomsInv, [Next]_vars, NEW b \in Actors
  PROVE  /\ Sending(b)' => room'[b] = room[b] /\ pkt'[b] = pkt[b] /\ (Sending(b) \/ StartBroadcast(b))
         /\ Sending(b) => members'[room[b]] = members[room[b]]
         /\ Sending(b) /\ Sending(b)' =>
               \/ UNCHANGED <<pc[b], todo[b], target[b]>>
               \/ Push(b) \/ \E u \in Sessions : SendTo(b, u)
<1> USE DEF RoomsInv, TypeOK, PlacesOK, DataOK, PacketsOK, Sending
<1> DEFINE Goal ==
      /\ Sending(b)' => room'[b] = room[b] /\ pkt'[b] = pkt[b] /\ (Sending(b) \/ StartBroadcast(b))
      /\ Sending(b) => members'[room[b]] = members[room[b]]
      /\ Sending(b) /\ Sending(b)' =>
            \/ UNCHANGED <<pc[b], todo[b], target[b]>>
            \/ Push(b) \/ \E u \in Sessions : SendTo(b, u)
<1>1. ASSUME NEW s \in Sessions, NEW r \in Rooms, Enter(s, r) PROVE Goal
  <2>1. Sending(b) => room[b] # r
    BY <1>1 DEF Enter, RoomHeld
  <2> QED
    BY <1>1, <2>1, ActorFacts DEF Enter
<1>2. ASSUME NEW s \in Sessions, AskLeave(s) \/ AskChat(s) PROVE Goal
  BY <1>2, ActorFacts DEF AskLeave, AskChat
<1>3. ASSUME NEW s \in Sessions, LockForDrain(s) \/ Disconnect(s) PROVE Goal
  BY <1>3, ActorFacts DEF LockForDrain, Disconnect
<1>4. ASSUME NEW s \in Sessions, FindRoom(s) \/ Forget(s) PROVE Goal
  BY <1>4, ActorFacts DEF FindRoom, Forget
<1>5. ASSUME NEW a \in Actors, Assign(a) PROVE Goal
  BY <1>5 DEF Assign
<1>6. ASSUME NEW a \in Actors, FillEnter(a) PROVE Goal
  BY <1>6 DEF FillEnter
<1>7. ASSUME NEW a \in Actors, Leave(a) PROVE Goal
  <2>1. Sending(b) => room[b] # room[a]
    BY <1>7 DEF Leave, RoomHeld
  <2> QED
    BY <1>7, <2>1 DEF Leave
<1>8. ASSUME NEW a \in Actors, FillUpdate(a) PROVE Goal
  BY <1>8 DEF FillUpdate
<1>9. ASSUME NEW a \in Actors, StartBroadcast(a) PROVE Goal
  <2>1. CASE a = b
    BY <1>9, <2>1 DEF StartBroadcast
  <2>2. CASE a # b
    BY <1>9, <2>2 DEF StartBroadcast
  <2> QED
    BY <2>1, <2>2
<1>10. ASSUME NEW a \in Actors, NEW u \in Sessions, SendTo(a, u) PROVE Goal
  <2>1. CASE a = b
    BY <1>10, <2>1 DEF SendTo
  <2>2. CASE a # b
    BY <1>10, <2>2 DEF SendTo
  <2> QED
    BY <2>1, <2>2
<1>11. ASSUME NEW a \in Actors, Push(a) PROVE Goal
  <2>1. CASE a = b
    BY <1>11, <2>1 DEF Push
  <2>2. CASE a # b
    BY <1>11, <2>2 DEF Push
  <2> QED
    BY <2>1, <2>2
<1>12. ASSUME NEW a \in Actors, EndBroadcast(a) PROVE Goal
  BY <1>12 DEF EndBroadcast
<1>13. ASSUME NEW a \in Actors, Respond(a) PROVE Goal
  BY <1>13 DEF Respond
<1>14. CASE Still
  BY <1>14 DEF Still, AllVars
<1> QED
  BY <1>1, <1>2, <1>3, <1>4, <1>5, <1>6, <1>7, <1>8, <1>9, <1>10, <1>11, <1>12, <1>13, <1>14, NextCases

LEMMA HeldStep ==
  ASSUME RoomsInv, SendTypes, SendInv, [Next]_vars
  PROVE  HeldOnce' /\ \A b \in Actors : AddresseesOK(b)'
<1>1. ASSUME NEW b \in Actors, NEW c \in Actors, Sending(b)', Sending(c)', room'[b] = room'[c] PROVE b = c
  <2>1. room[b] = room[c] /\ (Sending(b) \/ StartBroadcast(b)) /\ (Sending(c) \/ StartBroadcast(c))
    BY <1>1, SendingStep
  <2>2. CASE Sending(b) /\ Sending(c)
    BY <2>1, <2>2 DEF SendInv, HeldOnce
  <2>3. ASSUME Sending(b), StartBroadcast(c) PROVE FALSE
    BY <2>1, <2>3 DEF StartBroadcast, RoomHeld, Sending
  <2>4. ASSUME Sending(c), StartBroadcast(b) PROVE FALSE
    BY <2>1, <2>4 DEF StartBroadcast, RoomHeld, Sending
  <2>5. ASSUME StartBroadcast(b), StartBroadcast(c), b # c PROVE FALSE
    <3>1. pc[c] = "broadcast" /\ pc'[c] = pc[c]
      BY <2>5 DEF StartBroadcast, RoomsInv, TypeOK, PlacesOK
    <3> QED
      BY <1>1, <3>1 DEF Sending
  <2> QED
    BY <2>1, <2>2, <2>3, <2>4, <2>5
<1>2. ASSUME NEW b \in Actors PROVE AddresseesOK(b)'
  <2>1. AddresseesOK(b)
    BY DEF SendInv
  <2>2. Sending(b)' => room'[b] = room[b]
    BY SendingStep
  <2>3. CASE ~Sending(b)'
    BY <2>3 DEF AddresseesOK, Sending
  <2>4. CASE StartBroadcast(b)
    <3>1. todo'[b] = members[room[b]] /\ members' = members /\ pc'[b] = "sending" /\ room' = room
      BY <2>4 DEF StartBroadcast, RoomsInv, TypeOK, PlacesOK, SendTypes
    <3> QED
      BY <3>1 DEF AddresseesOK
  <2>5. ASSUME NEW u \in Sessions, SendTo(b, u) PROVE AddresseesOK(b)'
    <3>1. /\ todo'[b] = todo[b] \ {u} /\ members' = members /\ pc[b] = "sending" /\ pc'[b] = "push" /\ room' = room
          /\ u \in todo[b] /\ target'[b] = u
      BY <2>5 DEF SendTo, RoomsInv, TypeOK, PlacesOK, SendTypes
    <3> QED
      BY <2>1, <3>1 DEF AddresseesOK, Sending
  <2>6. CASE Push(b)
    <3>1. /\ todo' = todo /\ members' = members /\ pc[b] = "push" /\ pc'[b] = "sending" /\ room' = room
      BY <2>6 DEF Push, RoomsInv, TypeOK, PlacesOK
    <3> QED
      BY <2>1, <3>1 DEF AddresseesOK, Sending
  <2>7. CASE Sending(b) /\ UNCHANGED <<pc[b], todo[b], target[b]>>
    <3>1. members'[room[b]] = members[room[b]] /\ room'[b] = room[b]
      BY <2>2, <2>7, SendingStep DEF Sending
    <3> QED
      BY <2>1, <2>7, <3>1 DEF AddresseesOK, Sending
  <2> QED
    BY <2>3, <2>4, <2>5, <2>6, <2>7, SendingStep
<1> QED
  BY <1>1, <1>2 DEF HeldOnce

LEMMA SendInit == Init => SendInv
<1> SUFFICES ASSUME Init PROVE SendInv
  OBVIOUS
<1>1. ASSUME NEW s \in Sessions PROVE ShownOK(s) /\ CarriesOK(s)
  BY <1>1, ActorFacts DEF Init, InitIdle, ShownOK, CarriesOK, Lobby, NoPkt
<1>2. HeldOnce /\ \A b \in Actors : AddresseesOK(b)
  BY DEF Init, InitIdle, HeldOnce, AddresseesOK, Sending
<1> QED
  BY <1>1, <1>2 DEF SendInv

-----------------------------------------------------------------------------
(* The rosters.                                                               *)

\* A room's roster changes with a roomId; who carries one makes it outdated.
LEMMA RosterStep ==
  ASSUME RoomsInv, SendTypes, [Next]_vars, NEW r \in Rooms
  PROVE  /\ outdated[r] => outdated'[r]
         /\ \/ Roster(r)' = Roster(r)
            \/ \E a \in Actors : (Assign(a) \/ Leave(a)) /\ room[a] = r /\ outdated'[r] = (outdated[r] \/ Carried(r))
<1> USE DEF RoomsInv, TypeOK, PlacesOK, DataOK, SendTypes
<1> DEFINE Goal ==
      /\ outdated[r] => outdated'[r]
      /\ \/ Roster(r)' = Roster(r)
         \/ \E a \in Actors : (Assign(a) \/ Leave(a)) /\ room[a] = r /\ outdated'[r] = (outdated[r] \/ Carried(r))
<1>0. UNCHANGED <<members, roomId, outdated>> => Goal
  BY DEF Roster
<1>1. ASSUME NEW s \in Sessions, NEW q \in Rooms, Enter(s, q) PROVE Goal
  <2>1. roomId[s] = None /\ r # None
    BY <1>1, EntersFromLobby, NoneAssumption
  <2>2. members'[r] = members[r] \/ members'[r] = members[r] \cup {s}
    <3>1. members' = members \/ members' = [members EXCEPT ![q] = @ \cup {s}]
      BY <1>1, EnterCases
    <3> QED
      BY <3>1
  <2>3. UNCHANGED <<roomId, outdated>>
    BY <1>1 DEF Enter
  <2> QED
    BY <2>1, <2>2, <2>3 DEF Roster
<1>2. ASSUME NEW s \in Sessions, AskLeave(s) \/ AskChat(s) PROVE Goal
  BY <1>0, <1>2 DEF AskLeave, AskChat
<1>3. ASSUME NEW s \in Sessions, LockForDrain(s) \/ Disconnect(s) PROVE Goal
  BY <1>0, <1>3 DEF LockForDrain, Disconnect
<1>4. ASSUME NEW s \in Sessions, FindRoom(s) \/ Forget(s) PROVE Goal
  BY <1>0, <1>4 DEF FindRoom, Forget
<1>5. ASSUME NEW a \in Actors, Assign(a) \/ Leave(a) PROVE Goal
  <2>1. /\ Own(a) \in Sessions /\ (a = Handler(Own(a)) \/ a = Closer(Own(a)))
        /\ room[a] \in Rooms /\ (pc[a] = "assign" \/ pc[a] = "leave")
        /\ pc[a] = "assign" => a = Handler(Own(a))
    BY <1>5, ActorFacts DEF Assign, Leave, CloserPlaces
  <2>2. roomId[Own(a)] \in {None, room[a]}
    BY <2>1 DEF SessionInv, MemberOK, LeaveOK
  <2>3. outdated' = [outdated EXCEPT ![room[a]] = @ \/ Carried(room[a])]
    BY <1>5 DEF Assign, Leave
  <2>4. outdated'[r] = IF r = room[a] THEN outdated[r] \/ Carried(r) ELSE outdated[r]
    BY <2>3
  <2>5. CASE r = room[a]
    <3>1. outdated'[r] = (outdated[r] \/ Carried(r))
      BY <2>4, <2>5
    <3> QED
      BY <1>5, <2>5, <3>1
  <2>6. CASE r # room[a]
    <3>1. members'[r] = members[r]
      BY <1>5, <2>6 DEF Assign, Leave
    <3>2. \A s \in Sessions : roomId'[s] = roomId[s] \/ (s = Own(a) /\ roomId'[s] \in {None, room[a]})
      BY <1>5, <2>1 DEF Assign, Assigned, Leave, Cleared
    <3>3. \A s \in members[r] : roomId'[s] = r <=> roomId[s] = r
      BY <2>2, <2>6, <3>2, NoneAssumption
    <3>4. Roster(r)' = Roster(r)
      BY <3>1, <3>3 DEF Roster
    <3> QED
      BY <2>4, <2>6, <3>4
  <2> QED
    BY <2>5, <2>6
<1>6. ASSUME NEW a \in Actors, FillEnter(a) \/ FillUpdate(a) \/ StartBroadcast(a) PROVE Goal
  BY <1>0, <1>6 DEF FillEnter, FillUpdate, StartBroadcast
<1>7. ASSUME NEW a \in Actors, NEW u \in Sessions, SendTo(a, u) PROVE Goal
  BY <1>0, <1>7 DEF SendTo
<1>8. ASSUME NEW a \in Actors, Push(a) \/ EndBroadcast(a) \/ Respond(a) PROVE Goal
  BY <1>0, <1>8 DEF Push, EndBroadcast, Respond
<1>9. CASE Still
  BY <1>0, <1>9 DEF Still, AllVars
<1> QED
  BY <1>1, <1>2, <1>3, <1>4, <1>5, <1>6, <1>7, <1>8, <1>9, NextCases

\* Who carries a roster of r while its roster changes, makes r outdated.
LEMMA CarriedKeeps ==
  ASSUME RoomsInv, SendTypes, SendInv, [Next]_vars, NEW b \in Actors, CarriedInv(b),
         room'[b] = room[b], info'[Own(b)] = info[Own(b)] \/ info'[Own(b)] = None \/ b # Handler(Own(b)),
         pc'[b] \in {"broadcast", "sending", "push"} =>
            pc[b] \in {"broadcast", "sending", "push"} /\ pkt'[b].roster = pkt[b].roster
  PROVE  CarriedInv(b)'
<1>1. SUFFICES ASSUME room[b] # None, ~outdated'[room[b]]
               PROVE  /\ pc'[b] \in {"broadcast", "sending", "push"} => pkt'[b].roster = Roster(room[b])'
                      /\ b = Handler(Own(b)) /\ info'[Own(b)] # None => info'[Own(b)] = Roster(room[b])'
  BY DEF CarriedInv
<1>2. room[b] \in Rooms
  BY <1>1 DEF RoomsInv, TypeOK, PlacesOK
<1>3. ~outdated[room[b]]
  BY <1>1, <1>2, RosterStep
<1>4. /\ pc[b] \in {"broadcast", "sending", "push"} => pkt[b].roster = Roster(room[b])
      /\ b = Handler(Own(b)) /\ info[Own(b)] # None => info[Own(b)] = Roster(room[b])
  BY <1>1, <1>3 DEF CarriedInv
<1>5. CASE Roster(room[b])' = Roster(room[b])
  BY <1>4, <1>5
<1>6. CASE ~Carried(room[b])
  <2>1. pc[b] \notin {"fillUpdate", "broadcast", "sending", "push", "respond"}
    BY <1>6 DEF Carried
  <2>2. b = Handler(Own(b)) => info[Own(b)] = None
    <3>1. Own(b) \in Sessions /\ (b = Handler(Own(b)) => pc[b] \in HandlerPlaces)
      BY ActorFacts DEF RoomsInv, TypeOK, PlacesOK
    <3> QED
      BY <2>1, <3>1 DEF SendInv, ShownOK, HandlerPlaces
  <2> QED
    BY <2>1, <2>2
<1> QED
  BY <1>1, <1>2, <1>5, <1>6, RosterStep

\* What CarriedKeeps asks of a step.
KeepsCarried(b) ==
    /\ room'[b] = room[b]
    /\ info'[Own(b)] = info[Own(b)] \/ info'[Own(b)] = None \/ b # Handler(Own(b))
    /\ pc'[b] \in {"broadcast", "sending", "push"} =>
           pc[b] \in {"broadcast", "sending", "push"} /\ pkt'[b].roster = pkt[b].roster

\* Nothing is carried.
CarriesNone(b) ==
    \/ room'[b] = None
    \/ /\ pc'[b] \notin {"broadcast", "sending", "push"}
       /\ b # Handler(Own(b)) \/ info'[Own(b)] = None

LEMMA CarriedStep ==
  ASSUME RoomsInv, SendTypes, SendInv, [Next]_vars, NEW b \in Actors, CarriedInv(b)
  PROVE  CarriedInv(b)'
<1>0. KeepsCarried(b) \/ CarriesNone(b) => CarriedInv(b)'
  BY CarriedKeeps DEF KeepsCarried, CarriesNone, CarriedInv
<1>a. /\ Own(b) \in Sessions /\ (b = Handler(Own(b)) \/ b = Closer(Own(b)))
      /\ \A s \in Sessions : /\ Handler(s) \in Actors /\ Closer(s) \in Actors
                             /\ Own(Handler(s)) = s /\ Own(Closer(s)) = s /\ Handler(s) # Closer(s)
  BY ActorFacts
<1>b. /\ TypeOK /\ ShownOK(Own(b))
      /\ b = Handler(Own(b)) /\ pc[b] \in {"idle", "assign", "fillEnter", "leave"} => info[Own(b)] = None
  BY <1>a DEF RoomsInv, SendInv, ShownOK
<1> USE <1>a, <1>b DEF TypeOK, PlacesOK, PacketsOK
<1>1. ASSUME NEW s \in Sessions, NEW r \in Rooms, Enter(s, r) PROVE CarriedInv(b)'
  <2>1. CASE b # Handler(s)
    BY <1>0, <1>1, <2>1 DEF Enter, KeepsCarried
  <2>2. CASE b = Handler(s)
    BY <1>0, <1>1, <2>2 DEF Enter, CarriesNone
  <2> QED
    BY <2>1, <2>2
<1>2. ASSUME NEW s \in Sessions, AskLeave(s) \/ AskChat(s) PROVE CarriedInv(b)'
  <2>1. CASE b # Handler(s)
    BY <1>0, <1>2, <2>1 DEF AskLeave, AskChat, KeepsCarried
  <2>2. CASE b = Handler(s)
    BY <1>0, <1>2, <2>2 DEF AskLeave, AskChat, CarriesNone
  <2> QED
    BY <2>1, <2>2
<1>3. ASSUME NEW s \in Sessions, LockForDrain(s) \/ Disconnect(s) PROVE CarriedInv(b)'
  BY <1>0, <1>3 DEF LockForDrain, Disconnect, KeepsCarried
<1>4. ASSUME NEW s \in Sessions, FindRoom(s) \/ Forget(s) PROVE CarriedInv(b)'
  <2>1. CASE b # Closer(s)
    BY <1>0, <1>4, <2>1 DEF FindRoom, Forget, KeepsCarried
  <2>2. CASE b = Closer(s)
    BY <1>0, <1>4, <2>2 DEF FindRoom, Forget, CarriesNone
  <2> QED
    BY <2>1, <2>2
<1>5. ASSUME NEW a \in Actors, Assign(a) \/ Leave(a) PROVE CarriedInv(b)'
  <2>1. CASE b # a
    BY <1>0, <1>5, <2>1 DEF Assign, Leave, KeepsCarried
  <2>2. CASE b = a
    BY <1>0, <1>5, <2>2 DEF Assign, Leave, CarriesNone
  <2> QED
    BY <2>1, <2>2
<1>6. ASSUME NEW a \in Actors, FillEnter(a) PROVE CarriedInv(b)'
  <2>1. CASE b # a
    <3>1. info'[Own(b)] = info[Own(b)] \/ b # Handler(Own(b))
      <4>1. pc[a] = "fillEnter" /\ info' = [info EXCEPT ![Own(a)] = Roster(room[a])]
        BY <1>6 DEF FillEnter
      <4>2. Own(a) \in Sessions /\ (a = Handler(Own(a)) \/ a = Closer(Own(a)))
        BY ActorFacts
      <4>3. a = Handler(Own(a))
        BY <4>1, <4>2 DEF CloserPlaces
      <4> QED
        BY <2>1, <4>1, <4>3
    <3> QED
      BY <1>0, <1>6, <2>1, <3>1 DEF FillEnter, KeepsCarried
  <2>2. CASE b = a
    <3>1. /\ info'[Own(b)] = Roster(room[b]) /\ pc'[b] = "fillUpdate" /\ UNCHANGED <<room, members, roomId>>
      BY <1>6, <2>2 DEF FillEnter
    <3> QED
      BY <3>1 DEF CarriedInv, Roster
  <2> QED
    BY <2>1, <2>2
<1>7. ASSUME NEW a \in Actors, FillUpdate(a) PROVE CarriedInv(b)'
  <2>1. CASE b # a
    BY <1>0, <1>7, <2>1 DEF FillUpdate, KeepsCarried
  <2>2. CASE b = a
    <3>1. pkt'[b].roster = Roster(room[b]) /\ UNCHANGED <<room, members, roomId, info, outdated>>
      BY <1>7, <2>2 DEF FillUpdate
    <3> QED
      BY <3>1 DEF CarriedInv, Roster
  <2> QED
    BY <2>1, <2>2
<1>8. ASSUME NEW a \in Actors, StartBroadcast(a) PROVE CarriedInv(b)'
  BY <1>0, <1>8 DEF StartBroadcast, KeepsCarried
<1>9. ASSUME NEW a \in Actors, NEW u \in Sessions, SendTo(a, u) PROVE CarriedInv(b)'
  BY <1>0, <1>9 DEF SendTo, KeepsCarried
<1>10. ASSUME NEW a \in Actors, Push(a) PROVE CarriedInv(b)'
  BY <1>0, <1>10 DEF Push, KeepsCarried
<1>11. ASSUME NEW a \in Actors, EndBroadcast(a) PROVE CarriedInv(b)'
  <2>1. CASE b # a
    BY <1>0, <1>11, <2>1 DEF EndBroadcast, KeepsCarried
  <2>2. CASE b = a
    <3>1. room'[b] = None \/ room'[b] = room[b]
      BY <1>11, <2>2 DEF EndBroadcast
    <3>2. pc'[b] \in {"forget", "idle", "respond"} /\ info' = info
      BY <1>11, <2>2 DEF EndBroadcast
    <3> QED
      BY <1>0, <3>1, <3>2 DEF KeepsCarried, CarriesNone
  <2> QED
    BY <2>1, <2>2
<1>12. ASSUME NEW a \in Actors, Respond(a) PROVE CarriedInv(b)'
  <2>1. CASE b # a
    BY <1>0, <1>12, <2>1 DEF Respond, KeepsCarried
  <2>2. CASE b = a
    BY <1>0, <1>12, <2>2 DEF Respond, CarriesNone
  <2> QED
    BY <2>1, <2>2
<1>13. CASE Still
  BY <1>0, <1>13 DEF Still, AllVars, KeepsCarried
<1> QED
  BY <1>1, <1>2, <1>3, <1>4, <1>5, <1>6, <1>7, <1>8, <1>9, <1>10, <1>11, <1>12, <1>13, NextCases

\* A client that shows the room goes on showing its roster, or will be told.
StaysTold(r, s) ==
    connected'[s] /\ screen'[s].room = r =>
        \/ screen'[s].roster = Roster(r)
        \/ /\ connected[s] /\ screen'[s] = screen[s]
           /\ \A b \in Actors : WillTell(b, r, s) => WillTell(b, r, s)'

LEMMA ToldKeeps ==
  ASSUME SendTypes, NEW r \in Rooms, ToldInv(r), Roster(r)' = Roster(r), outdated[r] => outdated'[r],
         ~outdated'[r] => \A s \in Roster(r) : StaysTold(r, s)
  PROVE  ToldInv(r)'
<1> SUFFICES ASSUME ~outdated'[r], NEW s \in Roster(r), connected'[s], screen'[s].room = r
             PROVE  screen'[s].roster = Roster(r)' \/ \E b \in Actors : WillTell(b, r, s)'
  BY DEF ToldInv
<1>1. CASE screen'[s].roster = Roster(r)
  BY <1>1
<1>2. CASE /\ connected[s] /\ screen'[s] = screen[s]
           /\ \A b \in Actors : WillTell(b, r, s) => WillTell(b, r, s)'
  BY <1>2 DEF ToldInv
<1> QED
  BY <1>1, <1>2 DEF StaysTold

LEMMA ToldStep ==
  ASSUME RoomsInv, SendTypes, SendInv, RosterInv, [Next]_vars, NEW r \in Rooms
  PROVE  ToldInv(r)'
<1>a. TypeOK /\ ToldInv(r) /\ r # None
  BY NoneAssumption DEF RoomsInv, RosterInv
<1>b. Roster(r) \subseteq Sessions
  BY <1>a DEF Roster, TypeOK, DataOK
<1>0. (outdated[r] => outdated'[r]) /\ (UNCHANGED <<members, roomId>> => Roster(r)' = Roster(r))
  BY RosterStep DEF Roster
<1>c. UNCHANGED <<members, roomId>> /\ (~outdated'[r] => \A v \in Roster(r) : StaysTold(r, v)) => ToldInv(r)'
  BY <1>a, <1>0, ToldKeeps
<1> USE <1>a, <1>b DEF TypeOK, PlacesOK, DataOK, SendTypes
<1>1. ASSUME NEW s \in Sessions, NEW q \in Rooms, Enter(s, q) PROVE ToldInv(r)'
  <2>1. ASSUME NEW v \in Sessions PROVE StaysTold(r, v)
    <3>1. ASSUME NEW b \in Actors, WillTell(b, r, v) PROVE WillTell(b, r, v)'
      <4>1. b # Handler(s)
        BY <1>1, <3>1 DEF Enter, WillTell, Sending
      <4> QED
        BY <1>1, <3>1, <4>1 DEF Enter, WillTell, Sending
    <3> QED
      BY <1>1, <3>1 DEF Enter, StaysTold
  <2>2. Roster(r)' = Roster(r)
    <3>1. ~(\E a \in Actors : Assign(a) \/ Leave(a))
      <4>1. requests'[s] # requests[s]
        BY <1>1, EnterCases
      <4>2. \A a \in Actors : Assign(a) \/ Leave(a) => requests' = requests
        BY DEF Assign, Leave
      <4> QED
        BY <4>1, <4>2
    <3> QED
      BY <3>1, RosterStep
  <2> QED
    BY <1>0, <2>1, <2>2, ToldKeeps
<1>2. ASSUME NEW s \in Sessions, AskLeave(s) \/ AskChat(s) PROVE ToldInv(r)'
  <2>1. ASSUME NEW v \in Sessions PROVE StaysTold(r, v)
    <3>1. ASSUME NEW b \in Actors, WillTell(b, r, v) PROVE WillTell(b, r, v)'
      <4>1. b # Handler(s)
        BY <1>2, <3>1 DEF AskLeave, AskChat, WillTell, Sending
      <4> QED
        BY <1>2, <3>1, <4>1 DEF AskLeave, AskChat, WillTell, Sending
    <3> QED
      BY <1>2, <3>1 DEF AskLeave, AskChat, StaysTold
  <2> QED
    BY <1>c, <1>2, <2>1 DEF AskLeave, AskChat
<1>3. ASSUME NEW s \in Sessions, LockForDrain(s) \/ Disconnect(s) PROVE ToldInv(r)'
  <2>1. ASSUME NEW v \in Sessions PROVE StaysTold(r, v)
    <3>1. ASSUME NEW b \in Actors, WillTell(b, r, v) PROVE WillTell(b, r, v)'
      <4>1. b # Closer(s)
        BY <1>3, <3>1 DEF LockForDrain, Disconnect, WillTell, Sending
      <4> QED
        BY <1>3, <3>1, <4>1 DEF LockForDrain, Disconnect, WillTell, Sending
    <3>2. screen' = screen /\ (connected'[v] => connected[v])
      BY <1>3 DEF LockForDrain, Disconnect
    <3> QED
      BY <3>1, <3>2 DEF StaysTold
  <2> QED
    BY <1>c, <1>3, <2>1 DEF LockForDrain, Disconnect
<1>4. ASSUME NEW s \in Sessions, FindRoom(s) \/ Forget(s) PROVE ToldInv(r)'
  <2>1. ASSUME NEW v \in Sessions PROVE StaysTold(r, v)
    <3>1. ASSUME NEW b \in Actors, WillTell(b, r, v) PROVE WillTell(b, r, v)'
      <4>1. b # Closer(s)
        BY <1>4, <3>1 DEF FindRoom, Forget, WillTell, Sending
      <4> QED
        BY <1>4, <3>1, <4>1 DEF FindRoom, Forget, WillTell, Sending
    <3> QED
      BY <1>4, <3>1 DEF FindRoom, Forget, StaysTold
  <2> QED
    BY <1>c, <1>4, <2>1 DEF FindRoom, Forget
<1>5. ASSUME NEW a \in Actors, Assign(a) \/ Leave(a) PROVE ToldInv(r)'
  <2>1. CASE r = room[a]
    <3>1. \A v \in Sessions : WillTell(a, r, v)'
      BY <1>5, <2>1 DEF Assign, Leave, WillTell
    <3>2. Roster(r)' \subseteq Sessions
      <4>1. members' = members \/ members' = [members EXCEPT ![room[a]] = @ \ {Own(a)}]
        BY <1>5 DEF Assign, Leave
      <4>2. members'[r] \subseteq members[r]
        BY <4>1
      <4> QED
        BY <4>2 DEF Roster
    <3> QED
      BY <3>1, <3>2 DEF ToldInv
  <2>2. CASE r # room[a]
    <3>1. Roster(r)' = Roster(r)
      <4>1. ASSUME NEW c \in Actors, Assign(c) \/ Leave(c) PROVE c = a
        BY <1>5, <4>1 DEF Assign, Leave
      <4> QED
        BY <2>2, <4>1, RosterStep
    <3>2. ASSUME NEW v \in Sessions PROVE StaysTold(r, v)
      <4>1. ASSUME NEW b \in Actors, WillTell(b, r, v) PROVE WillTell(b, r, v)'
        BY <1>5, <2>2, <4>1 DEF Assign, Leave, WillTell, Sending
      <4> QED
        BY <1>5, <4>1 DEF Assign, Leave, StaysTold
    <3> QED
      BY <1>0, <3>1, <3>2, ToldKeeps
  <2> QED
    BY <2>1, <2>2
<1>6. ASSUME NEW a \in Actors, FillEnter(a) \/ FillUpdate(a) PROVE ToldInv(r)'
  <2>1. ASSUME NEW v \in Sessions PROVE StaysTold(r, v)
    <3>1. ASSUME NEW b \in Actors, WillTell(b, r, v) PROVE WillTell(b, r, v)'
      <4>1. CASE b # a
        BY <1>6, <3>1, <4>1 DEF FillEnter, FillUpdate, WillTell, Sending
      <4>2. CASE b = a
        BY <1>6, <3>1, <4>2 DEF FillEnter, FillUpdate, WillTell, Sending
      <4> QED
        BY <4>1, <4>2
    <3> QED
      BY <1>6, <3>1 DEF FillEnter, FillUpdate, StaysTold
  <2> QED
    BY <1>c, <1>6, <2>1 DEF FillEnter, FillUpdate
<1>7. ASSUME NEW a \in Actors, StartBroadcast(a) PROVE ToldInv(r)'
  <2>1. ASSUME NEW v \in Roster(r) PROVE StaysTold(r, v)
    <3>1. ASSUME NEW b \in Actors, WillTell(b, r, v) PROVE WillTell(b, r, v)'
      <4>1. CASE b # a
        BY <1>7, <3>1, <4>1 DEF StartBroadcast, WillTell, Sending
      <4>2. CASE b = a
        <5>1. todo'[a] = members[room[a]] /\ pc'[a] = "sending" /\ room' = room
          BY <1>7 DEF StartBroadcast
        <5>2. v \in members[r]
          BY DEF Roster
        <5> QED
          BY <3>1, <4>2, <5>1, <5>2 DEF WillTell, Sending
      <4> QED
        BY <4>1, <4>2
    <3> QED
      BY <1>7, <3>1 DEF StartBroadcast, StaysTold
  <2> QED
    BY <1>c, <1>7, <2>1 DEF StartBroadcast
<1>8. ASSUME NEW a \in Actors, NEW u \in Sessions, SendTo(a, u) PROVE ToldInv(r)'
  <2>1. ASSUME NEW v \in Sessions PROVE StaysTold(r, v)
    <3>1. ASSUME NEW b \in Actors, WillTell(b, r, v) PROVE WillTell(b, r, v)'
      <4>1. CASE b # a
        BY <1>8, <3>1, <4>1 DEF SendTo, WillTell, Sending
      <4>2. CASE b = a
        BY <1>8, <3>1, <4>2 DEF SendTo, WillTell, Sending
      <4> QED
        BY <4>1, <4>2
    <3> QED
      BY <1>8, <3>1 DEF SendTo, StaysTold
  <2> QED
    BY <1>c, <1>8, <2>1 DEF SendTo
<1>9. ASSUME NEW a \in Actors, Push(a) PROVE ToldInv(r)'
  <2>1. UNCHANGED <<members, roomId, connected, room, outdated, todo>> /\ pc[a] = "push" /\ pc'[a] = "sending"
    BY <1>9 DEF Push
  <2>2. ASSUME NEW v \in Sessions, ~outdated'[r] PROVE StaysTold(r, v)
    <3>1. CASE screen'[v] = screen[v] /\ (v # target[a] \/ ~connected[v] \/ screen[v].room # room[a])
      <4>1. ASSUME NEW b \in Actors, WillTell(b, r, v), screen[v].room = r, connected[v]
            PROVE  WillTell(b, r, v)'
        <5>1. CASE b # a
          BY <1>9, <4>1, <5>1 DEF Push, WillTell, Sending
        <5>2. CASE b = a
          BY <2>1, <3>1, <4>1, <5>2 DEF WillTell, Sending
        <5> QED
          BY <5>1, <5>2
      <4> QED
        BY <2>1, <3>1, <4>1 DEF StaysTold
    <3>2. CASE /\ v = target[a] /\ screen[v].room = room[a] /\ screen'[v].room = room[a]
               /\ screen'[v].roster = pkt[a].roster
      <4>1. room[a] = r => pkt[a].roster = Roster(r)
        BY <2>1, <2>2 DEF RosterInv, CarriedInv
      <4> QED
        BY <3>2, <4>1 DEF StaysTold
    <3> QED
      BY <1>9, <3>1, <3>2, PushHears
  <2> QED
    BY <1>c, <2>1, <2>2
<1>10. ASSUME NEW a \in Actors, EndBroadcast(a) PROVE ToldInv(r)'
  <2>1. ASSUME NEW v \in Sessions PROVE StaysTold(r, v)
    <3>1. UNCHANGED <<connected, screen>> /\ pc[a] = "sending"
      BY <1>10 DEF EndBroadcast
    <3>2. ASSUME connected[v], screen[v].room = r, v \in todo[a] PROVE FALSE
      <4>1. player[v] /\ ShownOK(v)
        BY <3>2 DEF SendInv, ShownOK
      <4>2. Skipped(a, v)
        BY <1>10, <3>2, <4>1 DEF EndBroadcast
      <4>3. IsEnter(a) /\ v = Own(a)
        BY <4>1, <4>2 DEF Skipped
      <4>4. screen[v].room = None
        BY <4>1, <4>3 DEF IsEnter, ShownOK
      <4> QED
        BY <3>2, <4>4
    <3>3. ASSUME NEW b \in Actors, WillTell(b, r, v), connected[v], screen[v].room = r
          PROVE  WillTell(b, r, v)'
      <4>1. CASE b # a
        BY <1>10, <3>3, <4>1 DEF EndBroadcast, WillTell, Sending
      <4>2. CASE b = a
        BY <3>1, <3>2, <3>3, <4>2 DEF WillTell, Sending
      <4> QED
        BY <4>1, <4>2
    <3> QED
      BY <3>1, <3>3 DEF StaysTold
  <2> QED
    BY <1>c, <1>10, <2>1 DEF EndBroadcast
<1>11. ASSUME NEW a \in Actors, Respond(a) PROVE ToldInv(r)'
  <2>1. /\ UNCHANGED <<members, roomId, connected, outdated, todo, target>>
        /\ pc[a] = "respond" /\ pc' = [pc EXCEPT ![a] = "idle"] /\ room' = [room EXCEPT ![a] = None]
    BY <1>11 DEF Respond
  <2>2. a = Handler(Own(a)) /\ Own(a) \in Sessions
    BY <1>11, ActorFacts DEF Respond, CloserPlaces
  <2>3. ASSUME NEW v \in Sessions, ~outdated'[r] PROVE StaysTold(r, v)
    <3>1. ASSUME NEW b \in Actors, WillTell(b, r, v) PROVE WillTell(b, r, v)'
      BY <2>1, <3>1 DEF WillTell, Sending
    <3>2. CASE screen'[v] = screen[v]
      BY <2>1, <3>1, <3>2 DEF StaysTold
    <3>3. CASE screen'[v] # screen[v]
      <4>1. v = Own(a) /\ screen'[v] = IF IsEnter(a) THEN [room |-> room[a], roster |-> info[v]] ELSE Lobby
        BY <1>11, <3>3 DEF Respond, PacketsOK
      <4>2. CASE IsEnter(a) /\ room[a] = r
        <5>1. info[v] = Roster(r)
          BY <2>1, <2>2, <2>3, <4>1, <4>2 DEF RosterInv, CarriedInv, IsEnter
        <5> QED
          BY <4>1, <4>2, <5>1 DEF StaysTold
      <4>3. CASE ~(IsEnter(a) /\ room[a] = r)
        BY <4>1, <4>3 DEF StaysTold, Lobby
      <4> QED
        BY <4>2, <4>3
    <3> QED
      BY <3>2, <3>3
  <2> QED
    BY <1>c, <2>1, <2>3
<1>12. CASE Still
  <2>1. ASSUME NEW v \in Sessions PROVE StaysTold(r, v)
    BY <1>12 DEF Still, AllVars, StaysTold, WillTell, Sending
  <2> QED
    BY <1>c, <1>12, <2>1 DEF Still, AllVars
<1> QED
  BY <1>1, <1>2, <1>3, <1>4, <1>5, <1>6, <1>7, <1>8, <1>9, <1>10, <1>11, <1>12, NextCases

-----------------------------------------------------------------------------
(* The chats.                                                                 *)

\* A chat that is carried is its client's last request, carried by its handler.
LEMMA ChatIs ==
  ASSUME RoomsInv, SendInv, NEW a \in Actors, pkt[a].chat # None
  PROVE  /\ pkt[a].chat[1] = Own(a) /\ Own(a) \in Sessions /\ a = Handler(Own(a))
         /\ pkt[a].chat[2] = requests[Own(a)] /\ requests[Own(a)] \in Nat
         /\ pkt[a].chat \in Sessions \X Nat
<1>1. Own(a) \in Sessions /\ (a = Handler(Own(a)) \/ a = Closer(Own(a)))
  BY ActorFacts
<1>2. a = Handler(Own(a)) /\ pkt[a].chat = <<Own(a), requests[Own(a)]>>
  BY <1>1 DEF SendInv, CarriesOK
<1>3. requests[Own(a)] \in Nat
  BY <1>1 DEF RoomsInv, TypeOK, DataOK
<1> QED
  BY <1>1, <1>2, <1>3

\* Only a new request lets a handler come to a chat.
LEMMA AskStep ==
  ASSUME RoomsInv, SendTypes, [Next]_vars, NEW s \in Sessions
  PROVE  \/ requests'[s] > requests[s]
         \/ /\ requests'[s] = requests[s]
            /\ pc'[Handler(s)] = "fillChat" => pc[Handler(s)] = "fillChat"
            /\ pc'[Handler(s)] = "broadcast" /\ pkt'[Handler(s)].chat # None =>
                  \/ pc[Handler(s)] = "fillChat"
                  \/ pc[Handler(s)] = "broadcast" /\ pkt[Handler(s)].chat # None
<1> DEFINE h == Handler(s)
           Goal == \/ requests'[s] > requests[s]
                   \/ /\ requests'[s] = requests[s]
                      /\ pc'[h] = "fillChat" => pc[h] = "fillChat"
                      /\ pc'[h] = "broadcast" /\ pkt'[h].chat # None =>
                            \/ pc[h] = "fillChat"
                            \/ pc[h] = "broadcast" /\ pkt[h].chat # None
<1>a. h \in Actors /\ \A v \in Sessions : Closer(v) # h /\ (v # s => Handler(v) # h)
  BY ActorFacts
<1>b. requests[s] \in Nat /\ requests \in [Sessions -> Nat] /\ pc \in [Actors -> HandlerPlaces \cup CloserPlaces]
  BY DEF RoomsInv, TypeOK, DataOK, PlacesOK
<1>c. UNCHANGED <<requests[s], pc[h], pkt[h]>> => Goal
  OBVIOUS
<1>1. ASSUME NEW v \in Sessions, NEW r \in Rooms, Enter(v, r) PROVE Goal
  <2>1. requests' = [requests EXCEPT ![v] = @ + 1] /\ pkt' = pkt
        /\ (pc' = pc \/ pc' = [pc EXCEPT ![Handler(v)] = "assign"])
    BY <1>1, EnterCases
  <2>2. CASE v = s
    BY <1>b, <2>1, <2>2
  <2>3. CASE v # s
    BY <1>a, <1>b, <1>c, <2>1, <2>3
  <2> QED
    BY <2>2, <2>3
<1>2. ASSUME NEW v \in Sessions, AskLeave(v) \/ AskChat(v) PROVE Goal
  <2>1. CASE v = s
    BY <1>b, <1>2, <2>1 DEF AskLeave, AskChat
  <2>2. CASE v # s
    BY <1>a, <1>b, <1>c, <1>2, <2>2 DEF AskLeave, AskChat
  <2> QED
    BY <2>1, <2>2
<1>3. ASSUME NEW v \in Sessions, LockForDrain(v) \/ Disconnect(v) \/ FindRoom(v) \/ Forget(v) PROVE Goal
  BY <1>a, <1>b, <1>c, <1>3 DEF LockForDrain, Disconnect, FindRoom, Forget
<1>4. ASSUME NEW a \in Actors,
             \/ Assign(a) \/ FillEnter(a) \/ Leave(a) \/ StartBroadcast(a)
             \/ \E u \in Sessions : SendTo(a, u)
             \/ Push(a) \/ Respond(a)
      PROVE  Goal
  <2>1. /\ UNCHANGED <<requests, pkt>>
        /\ \E p : pc' = [pc EXCEPT ![a] = p] /\ p \notin {"fillChat", "broadcast"}
    BY <1>4 DEF Assign, FillEnter, Leave, StartBroadcast, SendTo, Push, Respond
  <2> QED
    BY <1>a, <1>b, <2>1
<1>5. ASSUME NEW a \in Actors, EndBroadcast(a) PROVE Goal
  <2>1. CASE a = h
    <3>1. requests' = requests /\ pc'[h] \in {"forget", "idle", "respond"}
      BY <1>a, <1>b, <1>5, <2>1 DEF EndBroadcast
    <3> QED
      BY <3>1
  <2>2. CASE a # h
    BY <1>a, <1>b, <1>c, <1>5, <2>2 DEF EndBroadcast, RoomsInv, TypeOK, PacketsOK
  <2> QED
    BY <2>1, <2>2
<1>6. ASSUME NEW a \in Actors, FillUpdate(a) PROVE Goal
  <2>1. CASE a = h
    <3>1. /\ requests' = requests /\ pc'[h] = "broadcast"
          /\ pkt'[h].chat # None => pc[h] = "fillChat"
      BY <1>a, <1>b, <1>6, <2>1 DEF FillUpdate, RoomsInv, TypeOK, PacketsOK
    <3> QED
      BY <3>1
  <2>2. CASE a # h
    BY <1>a, <1>b, <1>c, <1>6, <2>2 DEF FillUpdate, RoomsInv, TypeOK, PacketsOK
  <2> QED
    BY <2>1, <2>2
<1>7. CASE Still
  BY <1>c, <1>7 DEF Still, AllVars
<1> QED
  BY <1>1, <1>2, <1>3, <1>4, <1>5, <1>6, <1>7, NextCases

LEMMA AskedStep ==
  ASSUME RoomsInv, SendTypes, SendInv, [Next]_vars, NEW c \in Sessions \X Nat, AlreadyAsked(c)
  PROVE  AlreadyAsked(c)'
<1>1. c[1] \in Sessions /\ c[2] \in Nat
  OBVIOUS
<1>2. requests[c[1]] \in Nat /\ requests'[c[1]] \in Nat
  BY <1>1, DataStep DEF RoomsInv, TypeOK, DataOK
<1>3. CASE requests'[c[1]] > requests[c[1]]
  BY <1>1, <1>2, <1>3 DEF AlreadyAsked
<1>4. CASE requests'[c[1]] = requests[c[1]] /\ ~(requests'[c[1]] > requests[c[1]])
  BY <1>1, <1>4, AskStep DEF AlreadyAsked
<1> QED
  BY <1>1, <1>2, <1>3, <1>4, AskStep

\* A client's room changes only with an answer of its handler.
LEMMA ScreenStep ==
  ASSUME RoomsInv, SendTypes, [Next]_vars, NEW u \in Sessions
  PROVE  \/ screen'[u].room = screen[u].room
         \/ Respond(Handler(u)) /\ connected[u]
<1>1. ASSUME NEW s \in Sessions, NEW r \in Rooms, Enter(s, r) PROVE screen' = screen
  BY <1>1 DEF Enter
<1>2. ASSUME NEW s \in Sessions, AskLeave(s) \/ AskChat(s) PROVE screen' = screen
  BY <1>2 DEF AskLeave, AskChat
<1>3. ASSUME NEW s \in Sessions, LockForDrain(s) \/ Disconnect(s) \/ FindRoom(s) \/ Forget(s)
      PROVE  screen' = screen
  BY <1>3 DEF LockForDrain, Disconnect, FindRoom, Forget
<1>4. ASSUME NEW a \in Actors,
             \/ Assign(a) \/ FillEnter(a) \/ Leave(a) \/ FillUpdate(a) \/ StartBroadcast(a)
             \/ \E w \in Sessions : SendTo(a, w)
             \/ EndBroadcast(a)
      PROVE  screen' = screen
  BY <1>4 DEF Assign, FillEnter, Leave, FillUpdate, StartBroadcast, SendTo, EndBroadcast
<1>5. ASSUME NEW a \in Actors, Push(a) PROVE screen'[u].room = screen[u].room
  BY <1>5, PushHears
<1>6. ASSUME NEW a \in Actors, Respond(a), screen'[u].room # screen[u].room
      PROVE  Respond(Handler(u)) /\ connected[u]
  <2>1. a = Handler(Own(a)) /\ Own(a) \in Sessions
    BY <1>6, ActorFacts DEF Respond, CloserPlaces, RoomsInv, TypeOK, PlacesOK
  <2>2. Own(a) = u /\ connected[u]
    BY <1>6 DEF Respond, RoomsInv, TypeOK, PacketsOK
  <2> QED
    BY <1>6, <2>1, <2>2
<1>7. CASE Still
  BY <1>7 DEF Still, AllVars
<1> QED
  BY <1>1, <1>2, <1>3, <1>4, <1>5, <1>6, <1>7, NextCases

\* Only a push is heard.
LEMMA HearStep ==
  ASSUME [Next]_vars PROVE heard' = heard \/ \E a \in Actors : Push(a)
<1>1. ASSUME NEW s \in Sessions, NEW r \in Rooms, Enter(s, r) PROVE heard' = heard
  BY <1>1 DEF Enter
<1>2. ASSUME NEW s \in Sessions,
             \/ AskLeave(s) \/ AskChat(s)
             \/ LockForDrain(s) \/ Disconnect(s) \/ FindRoom(s) \/ Forget(s)
      PROVE  heard' = heard
  BY <1>2 DEF AskLeave, AskChat, LockForDrain, Disconnect, FindRoom, Forget
<1>3. ASSUME NEW a \in Actors,
             \/ Assign(a) \/ FillEnter(a) \/ Leave(a) \/ FillUpdate(a) \/ StartBroadcast(a)
             \/ \E w \in Sessions : SendTo(a, w)
             \/ EndBroadcast(a) \/ Respond(a)
      PROVE  heard' = heard
  BY <1>3 DEF Assign, FillEnter, Leave, FillUpdate, StartBroadcast, SendTo, EndBroadcast, Respond
<1>4. CASE Still
  BY <1>4 DEF Still, AllVars
<1> QED
  BY <1>1, <1>2, <1>3, <1>4, NextCases


\* What is said of a chat that was heard earlier stays so.
LEMMA HeardKeeps ==
  ASSUME RoomsInv, SendTypes, SendInv, [Next]_vars, NEW u \in Sessions, HeardInv(u),
         NEW i \in 1..Len(heard[u]), heard'[u][i] = heard[u][i]
  PROVE  AlreadyAsked(heard[u][i])' /\ BeingSent(u, i)'
<1> DEFINE c == heard[u][i]
           b == Handler(c[1])
<1>1. c \in Sessions \X Nat /\ c[1] \in Sessions /\ c = <<c[1], c[2]>>
  <2>1. heard[u] \in Seq(Sessions \X Nat)
    BY DEF SendTypes
  <2>2. c \in Sessions \X Nat
    BY <2>1
  <2> QED
    BY <2>2
<1>2. AlreadyAsked(c) /\ BeingSent(u, i)
  BY DEF HeardInv
<1>3. AlreadyAsked(c)'
  BY <1>1, <1>2, AskedStep
<1>4. ASSUME Sending(b)', pkt'[b].chat = c PROVE
        /\ i = Len(heard'[u])
        /\ u \notin todo'[b] /\ (pc'[b] = "push" => target'[b] # u)
        /\ u \in members'[room'[b]] /\ screen'[u].room = room'[b]
  <2>1. b \in Actors /\ c # None
    BY <1>1, ActorFacts, NoneAssumption
  <2>2. room'[b] = room[b] /\ pkt[b].chat = c /\ (Sending(b) \/ StartBroadcast(b))
    BY <1>4, <2>1, SendingStep
  <2>3. ~StartBroadcast(b)
    <3>1. pkt[b].chat[2] = requests[c[1]]
      BY <1>1, <2>1, <2>2, ChatIs, ActorFacts
    <3>2. pc[b] # "broadcast"
      BY <1>2, <2>1, <2>2, <3>1 DEF AlreadyAsked
    <3> QED
      BY <3>2 DEF StartBroadcast
  <2>4. Sending(b)
    BY <2>2, <2>3
  <2>5. /\ i = Len(heard[u])
        /\ u \notin todo[b] /\ (pc[b] = "push" => target[b] # u)
        /\ u \in members[room[b]] /\ screen[u].room = room[b]
    BY <1>2, <2>2, <2>4 DEF BeingSent
  <2>6. u \in members'[room'[b]]
    BY <2>1, <2>2, <2>4, <2>5, SendingStep
  <2>7. room[b] \in Rooms /\ room[b] # None
    BY <2>1, <2>4, NoneAssumption DEF Sending, RoomsInv, TypeOK, PlacesOK
  <2>8. screen'[u].room = room'[b]
    <3>1. ~(Respond(Handler(u)) /\ connected[u])
      <4>1. SUFFICES ASSUME pc[Handler(u)] = "respond" PROVE FALSE
        BY DEF Respond
      <4>2. info[u] = None
        BY <2>5, <2>7 DEF SendInv, ShownOK
      <4>3. roomId[u] = None
        BY <4>1, <4>2 DEF RoomsInv, SessionInv, ScreenOK, Leaving
      <4>4. u \notin members[room[b]]
        BY <2>7, <4>1, <4>3 DEF RoomsInv, SessionInv, MemberOK
      <4> QED
        BY <2>5, <4>4
    <3> QED
      BY <2>2, <2>5, <3>1, ScreenStep
  <2>9. u \notin todo'[b] /\ (pc'[b] = "push" => target'[b] # u)
    <3>1. CASE UNCHANGED <<pc[b], todo[b], target[b]>>
      BY <2>5, <3>1
    <3>2. CASE Push(b)
      <4>1. todo'[b] = todo[b] /\ pc'[b] = "sending"
        BY <2>1, <3>2 DEF Push, RoomsInv, TypeOK, PlacesOK
      <4> QED
        BY <2>5, <4>1
    <3>3. ASSUME NEW w \in Sessions, SendTo(b, w) PROVE u \notin todo'[b] /\ target'[b] # u
      <4>1. todo'[b] = todo[b] \ {w} /\ target'[b] = w /\ w \in todo[b]
        BY <2>1, <3>3 DEF SendTo, SendTypes
      <4> QED
        BY <2>5, <4>1
    <3> QED
      BY <1>4, <2>1, <2>4, <3>1, <3>2, <3>3, SendingStep
  <2>10. Len(heard'[u]) = Len(heard[u])
    <3>1. ASSUME NEW a \in Actors, Push(a), heard'[u] # heard[u] PROVE FALSE
      <4>1. u = target[a] /\ screen[u].room = room[a]
        BY <3>1, PushHears
      <4>2. a = b
        BY <2>1, <2>4, <2>5, <3>1, <4>1 DEF SendInv, HeldOnce, Push, Sending
      <4> QED
        BY <2>5, <3>1, <4>1, <4>2 DEF Push
    <3> QED
      BY <3>1, HearStep
  <2> QED
    BY <2>5, <2>6, <2>8, <2>9, <2>10
<1>5. heard'[u][i] = c /\ (heard[u][i])' = c
  OBVIOUS
<1> QED
  BY <1>3, <1>4, <1>5 DEF BeingSent, AlreadyAsked, Sending

LEMMA HeardStep ==
  ASSUME RoomsInv, SendTypes, SendInv, \A v \in Sessions : HeardInv(v), [Next]_vars, NEW u \in Sessions
  PROVE  HeardInv(u)'
<1>1. CASE heard'[u] = heard[u]
  <2>1. \A i \in 1..Len(heard[u]) : AlreadyAsked(heard[u][i])' /\ BeingSent(u, i)'
    BY <1>1, HeardKeeps
  <2> QED
    BY <1>1, <2>1 DEF HeardInv
<1>2. ASSUME NEW a \in Actors, Push(a), heard'[u] # heard[u] PROVE HeardInv(u)'
  <2> DEFINE c == pkt[a].chat
  <2>0. PICK n \in Nat : n = Len(heard[u])
    BY DEF SendTypes
  <2>1. u = target[a] /\ screen[u].room = room[a] /\ c # None /\ heard'[u] = Append(heard[u], c)
        /\ c \in Sessions \X Nat
    BY <1>2, PushHears
  <2>2. /\ Len(heard'[u]) = n + 1 /\ heard'[u][n + 1] = c
        /\ \A i \in 1..n : heard'[u][i] = heard[u][i]
    <3>1. heard[u] \in Seq(Sessions \X Nat)
      BY DEF SendTypes
    <3> QED
      BY <2>0, <2>1, <3>1, AppendIs
  <2>3. c[1] = Own(a) /\ Own(a) \in Sessions /\ a = Handler(c[1]) /\ c[2] = requests[c[1]] /\ requests[c[1]] \in Nat
    BY <2>1, ChatIs
  <2>4. /\ pc[a] = "push" /\ pc'[a] = "sending" /\ UNCHANGED <<requests, room, members, todo, pkt>>
    BY <1>2 DEF Push, RoomsInv, TypeOK, PlacesOK
  <2>5. AlreadyAsked(heard[u][n + 1])'
    BY <2>2, <2>3, <2>4 DEF AlreadyAsked
  <2>6. BeingSent(u, n + 1)'
    <3>1. u \in members[room[a]] /\ u \notin todo[a]
      BY <2>1, <2>4 DEF SendInv, AddresseesOK, Sending
    <3>2. screen'[u].room = room[a]
      BY <1>2, <2>1, PushHears
    <3> QED
      BY <2>2, <2>3, <2>4, <3>1, <3>2 DEF BeingSent
  <2>7. \A i \in 1..n : AlreadyAsked(heard[u][i])' /\ BeingSent(u, i)'
    BY <2>0, <2>2, HeardKeeps
  <2>8. \A i \in 1..(n + 1) : i = n + 1 \/ i \in 1..n
    BY <2>2
  <2> QED
    BY <2>2, <2>5, <2>6, <2>7, <2>8 DEF HeardInv
<1> QED
  BY <1>1, <1>2, HearStep

\* What a push adds is, wherever it was heard, the last that was heard.
LEMMA OrderStep ==
  ASSUME RoomsInv, SendTypes, SendInv, \A v \in Sessions : HeardInv(v), [Next]_vars, ChatsInOneOrder
  PROVE  ChatsInOneOrder'
<1>1. CASE heard' = heard
  BY <1>1 DEF ChatsInOneOrder
<1>2. ASSUME NEW a \in Actors, Push(a) PROVE ChatsInOneOrder'
  <2> DEFINE c == pkt[a].chat
  <2>1. ASSUME NEW u \in Sessions
        PROVE  heard'[u] \in Seq(Sessions \X Nat) /\ DOMAIN heard'[u] = 1..Len(heard'[u]) /\ Len(heard'[u]) \in Nat
    <3>1. heard'[u] \in Seq(Sessions \X Nat)
      BY <1>2, PushHears
    <3> QED
      BY <3>1
  <2>2. ASSUME NEW u \in Sessions, NEW i \in DOMAIN heard'[u], heard'[u][i] # c
        PROVE  i \in DOMAIN heard[u] /\ heard'[u][i] = heard[u][i]
    <3>1. CASE heard'[u] = heard[u]
      BY <3>1
    <3>2. CASE heard'[u] = Append(heard[u], c) /\ c \in Sessions \X Nat
      <4>1. heard[u] \in Seq(Sessions \X Nat)
        BY DEF SendTypes
      <4>2. /\ Len(heard[u]) \in Nat /\ Len(heard'[u]) = Len(heard[u]) + 1
            /\ heard'[u][Len(heard[u]) + 1] = c
            /\ \A x \in 1..Len(heard[u]) : heard'[u][x] = heard[u][x]
        BY <3>2, <4>1, AppendIs
      <4>3. i \in 1..(Len(heard[u]) + 1) /\ i # Len(heard[u]) + 1
        BY <2>1, <2>2, <4>2
      <4>4. i \in 1..Len(heard[u])
        BY <4>2, <4>3
      <4> QED
        BY <4>1, <4>2, <4>4
    <3> QED
      BY <1>2, <3>1, <3>2, PushHears
  <2>3. ASSUME NEW u \in Sessions, NEW i \in DOMAIN heard'[u], heard'[u][i] = c, c # None
        PROVE  i = Len(heard'[u])
    <3>1. i \in 1..Len(heard'[u])
      BY <2>1
    <3>2. BeingSent(u, i)'
      BY <3>1, HeardStep DEF HeardInv
    <3>3. Handler(c[1]) = a
      BY <2>3, ChatIs
    <3>4. pc'[a] = "sending" /\ pkt' = pkt
      BY <1>2 DEF Push, RoomsInv, TypeOK, PlacesOK
    <3> QED
      BY <2>3, <3>2, <3>3, <3>4 DEF BeingSent, Sending
  <2>4. ASSUME NEW u \in Sessions, NEW i \in DOMAIN heard'[u], heard'[u][i] = c PROVE c # None
    <3>1. heard'[u][i] \in Sessions \X Nat
      BY <2>1
    <3> QED
      BY <2>4, <3>1, NoneAssumption
  <2>5. SUFFICES ASSUME NEW u \in Sessions, NEW v \in Sessions,
                        NEW i \in DOMAIN heard'[u], NEW j \in DOMAIN heard'[u],
                        NEW k \in DOMAIN heard'[v], NEW l \in DOMAIN heard'[v],
                        i < j, heard'[u][i] = heard'[v][k], heard'[u][j] = heard'[v][l]
                 PROVE  k < l
    BY DEF ChatsInOneOrder
  <2>6. heard'[u][i] # c
    <3>1. DOMAIN heard'[u] = 1..Len(heard'[u]) /\ Len(heard'[u]) \in Nat
      BY <2>1
    <3>2. i # Len(heard'[u])
      BY <2>5, <3>1
    <3> QED
      BY <2>3, <2>4, <3>2
  <2>7. CASE heard'[u][j] = c
    <3>1. l = Len(heard'[v]) /\ k # l
      BY <2>3, <2>4, <2>5, <2>6, <2>7
    <3>2. k \in 1..Len(heard'[v]) /\ Len(heard'[v]) \in Nat
      BY <2>1
    <3> QED
      BY <3>1, <3>2
  <2>8. CASE heard'[u][j] # c
    <3>1. /\ i \in DOMAIN heard[u] /\ heard'[u][i] = heard[u][i]
          /\ j \in DOMAIN heard[u] /\ heard'[u][j] = heard[u][j]
          /\ k \in DOMAIN heard[v] /\ heard'[v][k] = heard[v][k]
          /\ l \in DOMAIN heard[v] /\ heard'[v][l] = heard[v][l]
      BY <2>2, <2>5, <2>6, <2>8
    <3>2. heard[u][i] = heard[v][k] /\ heard[u][j] = heard[v][l]
      BY <2>5, <3>1
    <3> QED
      BY <2>5, <3>1, <3>2 DEF ChatsInOneOrder
  <2> QED
    BY <2>7, <2>8
<1> QED
  BY <1>1, <1>2, HearStep

-----------------------------------------------------------------------------
(* The theorems about what is shown.                                          *)

BoardInv ==
    /\ RoomsInv /\ SendTypes /\ SendInv /\ RosterInv
    /\ \A u \in Sessions : HeardInv(u)
    /\ ChatsInOneOrder

LEMMA BoardInit == Init => BoardInv
<1> SUFFICES ASSUME Init PROVE BoardInv
  OBVIOUS
<1>1. ASSUME NEW b \in Actors PROVE CarriedInv(b)
  BY DEF Init, InitIdle, CarriedInv
<1>2. ASSUME NEW r \in Rooms PROVE ToldInv(r)
  BY NoneAssumption DEF Init, InitIdle, ToldInv, Roster, Lobby
<1>3. ASSUME NEW u \in Sessions PROVE HeardInv(u)
  <2>1. heard[u] = <<>>
    BY DEF Init, InitIdle
  <2> QED
    BY <2>1 DEF HeardInv
<1>4. ChatsInOneOrder
  BY DEF Init, InitIdle, ChatsInOneOrder
<1> QED
  BY <1>1, <1>2, <1>3, <1>4, RoomsInit, SendTypesInit, SendInit DEF BoardInv, RosterInv

LEMMA BoardStep == BoardInv /\ [Next]_vars => BoardInv'
<1> SUFFICES ASSUME BoardInv, [Next]_vars PROVE BoardInv'
  OBVIOUS
<1> USE DEF BoardInv
<1>1. RoomsInv' /\ SendTypes'
  BY RoomsStep, SendTypesStep
<1>2. SendInv'
  BY ShownStep, HeldStep DEF SendInv
<1>3. RosterInv'
  BY CarriedStep, ToldStep DEF RosterInv
<1>4. \A u \in Sessions : HeardInv(u)'
  BY HeardStep
<1>5. ChatsInOneOrder'
  BY OrderStep
<1> QED
  BY <1>1, <1>2, <1>3, <1>4, <1>5

LEMMA BoardInvariance == Spec => []BoardInv
  BY BoardInit, BoardStep, PTL DEF Spec

\* However many rooms broadcast at once and however many clients chat, two
\* clients show the chats that both of them see in one order: Broadcast keeps
\* the room's lock until its last Send.
THEOREM ChatsOrdered == Spec => []ChatsInOneOrder
<1>1. BoardInv => ChatsInOneOrder
  BY DEF BoardInv
<1> QED
  BY <1>1, BoardInvariance, PTL

\* Once every handler and disconnect is done, a connected client in a room shows
\* the players the room has, unless one of its rosters had been filled before a
\* change and was sent after it.
THEOREM RostersShown == Spec => []RostersAgree
<1>1. ASSUME BoardInv, crashed = "no", \A a \in Actors : Idle(a),
             NEW s \in Sessions, NEW r \in Rooms, connected[s], screen[s].room = r, ~outdated[r]
      PROVE  screen[s].roster = members[r]
  <2>1. ASSUME NEW v \in Sessions PROVE pc[Handler(v)] = "idle" /\ (v \in members[r] <=> roomId[v] = r)
    <3>1. pc[Handler(v)] = "idle"
      BY <1>1, ActorFacts DEF Idle, BoardInv, RoomsInv, TypeOK, PlacesOK, HandlerPlaces
    <3> QED
      BY <1>1, <3>1 DEF BoardInv, RoomsInv, SessionInv, MemberOK
  <2>2. members[r] \subseteq Sessions
    BY <1>1 DEF BoardInv, RoomsInv, TypeOK, DataOK
  <2>3. Roster(r) = members[r]
    BY <2>1, <2>2 DEF Roster
  <2>4. s \in Roster(r)
    <3>1. roomId[s] = r
      BY <1>1, <2>1, NoneAssumption DEF BoardInv, SendInv, ShownOK, Leaving
    <3> QED
      BY <2>1, <2>3, <3>1
  <2>5. ASSUME NEW b \in Actors PROVE ~WillTell(b, r, s)
    BY <1>1, <2>5 DEF WillTell, Sending, Idle
  <2> QED
    BY <1>1, <2>3, <2>4, <2>5 DEF BoardInv, RosterInv, ToldInv
<1>2. BoardInv => RostersAgree
  BY <1>1 DEF RostersAgree
<1> QED
  BY <1>2, BoardInvariance, PTL
=============================================================================
