-------------------------------- MODULE Rooms --------------------------------
(* The chat rooms: entering, leaving, chatting and disconnecting, with what   *)
(* each client then sees.                                                     *)
(*                                                                            *)
(* A session has one packet handler at a time (Session!ReceiveExclusive), and *)
(* at most one thread disconnects it (Session!TearDownOnce), which may be     *)
(* another one: a send may fail while a handler runs.  So each session has    *)
(* two actors.  Enter, Leave and FillRoomInfo hold the room's lock for their  *)
(* whole body and are one step; Broadcast holds it while it sends, and Send   *)
(* takes the session's lock, which ProcessSend holds while RegisterSend       *)
(* disconnects.  A session stands for its player too: every session here has  *)
(* logged in to an account of its own.                                        *)
EXTENDS Naturals, FiniteSets, Sequences

CONSTANTS
    Sessions, Rooms,
    MaxPlayers,            \* what Enter lets into a room
    MaxRequests,           \* BOUND: packets a client sends
    MaxTotal,              \* BOUND: packets all of them send
    MaxCloses,             \* BOUND: sessions that are disconnected
    None

ASSUME NoneAssumption ==
    /\ None \notin Sessions \cup Rooms
    /\ None \notin Sessions \X Nat
    /\ \A S \in SUBSET Sessions : S # None
ASSUME NumbersAssumption == {MaxPlayers, MaxRequests, MaxTotal, MaxCloses} \subseteq Nat
ASSUME FiniteAssumption == IsFiniteSet(Sessions)

VARIABLES
    members,               \* _players of each room
    roomId,                \* the player's roomId; None is 0
    player,                \* MyPlayer and the player's ownerSession are set
    connected,             \* _connected
    locked,                \* the session's lock is held by a drain that fails
    pc, room, todo, target, pkt,   \* each actor's statement and locals
    info,                  \* enterPkt's roster, while a handler lets its player in
    requests,              \* packets the client has sent
    screen,                \* the client's room and the roster it shows
    heard,                 \* history: the chats each client has shown
    missed,                \* history: a disconnect looked for the room too early
    outdated,              \* history: a roster was sent after the room changed
    crashed                \* how the process ended, or "no"

roomVars == <<members, roomId>>
sessionVars == <<player, connected, locked>>
sendVars == <<todo, target, pkt>>
clientVars == <<requests, screen, heard>>
history == <<missed, outdated, crashed>>
vars == <<roomVars, sessionVars, pc, room, sendVars, info, clientVars, history>>

Handler(s) == <<s, "handler">>
Closer(s) == <<s, "closer">>
Actors == Sessions \X {"handler", "closer"}
Own(a) == a[1]

NoPkt == [roster |-> {}, chat |-> None]
Lobby == [room |-> None, roster |-> {}]

InitIdle ==
    /\ player = [s \in Sessions |-> TRUE]
    /\ connected = [s \in Sessions |-> TRUE]
    /\ locked = [s \in Sessions |-> FALSE]
    /\ pc = [a \in Actors |-> "idle"]
    /\ room = [a \in Actors |-> None]
    /\ todo = [a \in Actors |-> {}]
    /\ target = [a \in Actors |-> None]
    /\ pkt = [a \in Actors |-> NoPkt]
    /\ info = [s \in Sessions |-> None]
    /\ requests = [s \in Sessions |-> 0]
    /\ heard = [s \in Sessions |-> <<>>]
    /\ missed = [s \in Sessions |-> FALSE]
    /\ outdated = [r \in Rooms |-> FALSE]
    /\ crashed = "no"

\* The server has just started, and the clients are in the lobby.
Init ==
    /\ members = [r \in Rooms |-> {}]
    /\ roomId = [s \in Sessions |-> None]
    /\ screen = [s \in Sessions |-> Lobby]
    /\ InitIdle

At(a, here) == crashed = "no" /\ pc[a] = here
Goto(a, there) == pc' = [pc EXCEPT ![a] = there]

\* MUTANT: nobody takes the room's lock.
NeverHeld(r) == FALSE

\* The room's lock, held for longer than a step only by a Broadcast.
RoomHeld(r) == \E b \in Actors : room[b] = r /\ pc[b] \in {"sending", "push"}

Crash(how) ==
    /\ crashed' = how
    /\ UNCHANGED <<roomVars, sessionVars, pc, room, sendVars, info, clientVars, missed, outdated>>

\* What FillRoomInfo lists: players whose roomId was assigned.
Roster(r) == {s \in members[r] : roomId[s] = r}

\* Somebody carries a roster of r that was filled before this step.
Carried(r) ==
    \E b \in Actors : room[b] = r /\ pc[b] \in {"fillUpdate", "broadcast", "sending", "push", "respond"}

-----------------------------------------------------------------------------
(* Handle_C_ENTER_GAME.  A client asks while it is in the lobby.              *)

MayAsk(s) ==
    /\ requests[s] < MaxRequests
    /\ Cardinality({q \in Sessions \X (1..MaxRequests) : q[2] <= requests[q[1]]}) < MaxTotal

RoomFull(r) == Cardinality(members[r]) >= MaxPlayers

\* Room::Enter; after a refusal the client is still in the lobby.
Enter(s, r) ==
    LET a == Handler(s) IN
    /\ At(a, "idle")
    /\ MayAsk(s) /\ screen[s] = Lobby /\ (connected[s] \/ requests[s] = 0)
    /\ ~RoomHeld(r)
    /\ requests' = [requests EXCEPT ![s] = @ + 1]
    /\ \/ /\ RoomFull(r)
          /\ UNCHANGED <<members, pc, room, missed, crashed>>
       \/ /\ ~RoomFull(r) /\ ~player[s]
          /\ crashed' = "null player"
          /\ UNCHANGED <<members, pc, room, missed>>
       \/ /\ ~RoomFull(r) /\ player[s]
          /\ members' = [members EXCEPT ![r] = @ \cup {s}]
          /\ missed' = [missed EXCEPT ![s] = pc[Closer(s)] \notin {"idle", "drain", "find"}]
          /\ Goto(a, "assign") /\ room' = [room EXCEPT ![a] = r]
          /\ UNCHANGED crashed
    /\ UNCHANGED <<roomId, sessionVars, sendVars, info, screen, heard, outdated>>

\* MUTANT: roomId is forgotten.
NotAssigned(a) == roomId

Assigned(a) == [roomId EXCEPT ![Own(a)] = room[a]]

\* The assignment of roomId, which holds no lock.
Assign(a) ==
    /\ At(a, "assign") /\ player[Own(a)]
    /\ roomId' = Assigned(a)
    /\ outdated' = [outdated EXCEPT ![room[a]] = @ \/ Carried(room[a])]
    /\ Goto(a, "fillEnter")
    /\ UNCHANGED <<members, sessionVars, room, sendVars, info, clientVars, missed, crashed>>

FillEnter(a) ==
    /\ At(a, "fillEnter") /\ ~RoomHeld(room[a])
    /\ info' = [info EXCEPT ![Own(a)] = Roster(room[a])]
    /\ Goto(a, "fillUpdate")
    /\ UNCHANGED <<roomVars, sessionVars, room, sendVars, clientVars, history>>

-----------------------------------------------------------------------------
(* Handle_C_LEAVE_GAME, Handle_C_CHAT.                                        *)

\* C_LEAVE_GAME of a client in a room.  A session without a player or a player
\* without a room is refused.
AskLeave(s) ==
    LET a == Handler(s) IN
    /\ At(a, "idle")
    /\ MayAsk(s) /\ screen[s] # Lobby
    /\ requests' = [requests EXCEPT ![s] = @ + 1]
    /\ IF player[s] /\ roomId[s] # None
       THEN Goto(a, "leave") /\ room' = [room EXCEPT ![a] = roomId[s]]
       ELSE UNCHANGED <<pc, room>>
    /\ UNCHANGED <<roomVars, sessionVars, sendVars, info, screen, heard, history>>

\* C_CHAT; the handler does not look whether there is a player.
AskChat(s) ==
    LET a == Handler(s) IN
    /\ At(a, "idle")
    /\ MayAsk(s) /\ screen[s] # Lobby
    /\ player[s]
    /\ requests' = [requests EXCEPT ![s] = @ + 1]
    /\ IF roomId[s] # None
       THEN Goto(a, "fillChat") /\ room' = [room EXCEPT ![a] = roomId[s]]
       ELSE UNCHANGED <<pc, room>>
    /\ UNCHANGED <<roomVars, sessionVars, sendVars, info, screen, heard, history>>

\* A handler that goes on with MyPlayer after a disconnect has cleared it.
NullPlayer(a) ==
    /\ crashed = "no"
    /\ ~player[Own(a)]
    /\ \/ pc[a] \in {"assign", "leave", "fillChat"}
       \/ pc[a] = "idle" /\ MayAsk(Own(a)) /\ screen[Own(a)] # Lobby
    /\ a = Handler(Own(a))
    /\ Crash("null player")

\* MUTANT: roomId stays when the player is erased.
Kept(a) == roomId

Cleared(a) == [roomId EXCEPT ![Own(a)] = None]

\* Room::Leave, of the handler and of OnDisconnected.
Leave(a) ==
    /\ At(a, "leave") /\ player[Own(a)] /\ ~RoomHeld(room[a])
    /\ members' = [members EXCEPT ![room[a]] = @ \ {Own(a)}]
    /\ roomId' = Cleared(a)
    /\ outdated' = [outdated EXCEPT ![room[a]] = @ \/ Carried(room[a])]
    /\ Goto(a, "fillUpdate")
    /\ UNCHANGED <<sessionVars, room, sendVars, info, clientVars, missed, crashed>>

\* FillRoomInfo and MakeSendBuffer of what is broadcast; a chat has the roster
\* of its room as well.
FillUpdate(a) ==
    /\ \/ At(a, "fillUpdate")
       \/ At(a, "fillChat") /\ player[Own(a)]
    /\ ~RoomHeld(room[a])
    /\ pkt' = [pkt EXCEPT ![a] = [roster |-> Roster(room[a]),
                                  chat |-> IF pc[a] = "fillChat"
                                           THEN <<Own(a), requests[Own(a)]>> ELSE None]]
    /\ Goto(a, "broadcast")
    /\ UNCHANGED <<roomVars, sessionVars, room, todo, target, info, clientVars, history>>

-----------------------------------------------------------------------------
(* Room::Broadcast.                                                           *)

IsEnter(a) == info[Own(a)] # None /\ a = Handler(Own(a))

StartBroadcast(a) ==
    /\ At(a, "broadcast") /\ ~RoomHeld(room[a])
    /\ todo' = [todo EXCEPT ![a] = members[room[a]]]
    /\ Goto(a, "sending")
    /\ UNCHANGED <<roomVars, sessionVars, room, target, pkt, info, clientVars, history>>

\* ownerSession == session: the entrant is left out of its own update, and
\* players without a session out of all others.
Skipped(a, u) == IF IsEnter(a) THEN u = Own(a) /\ player[u] ELSE ~player[u]

\* The next player whose session is connected: Send goes on to the lock.
SendTo(a, u) ==
    /\ At(a, "sending") /\ u \in todo[a]
    /\ ~Skipped(a, u) /\ connected[u]
    /\ todo' = [todo EXCEPT ![a] = @ \ {u}]
    /\ Goto(a, "push") /\ target' = [target EXCEPT ![a] = u]
    /\ UNCHANGED <<roomVars, sessionVars, room, pkt, info, clientVars, history>>

\* A player left behind by its session, met by an entrant's broadcast.
NullOwner(a, u) ==
    /\ At(a, "sending") /\ u \in todo[a]
    /\ ~player[u] /\ ~Skipped(a, u)
    /\ Crash("null owner")

\* What the client makes of S_ROOM_UPDATE and S_CHAT: both are for its room.
Shown(u, r, p) ==
    /\ screen' = IF connected[u] /\ screen[u].room = r
                 THEN [screen EXCEPT ![u].roster = p.roster] ELSE screen
    /\ heard' = IF connected[u] /\ screen[u].room = r /\ p.chat # None
                THEN [heard EXCEPT ![u] = Append(@, p.chat)] ELSE heard

\* The push, under the session's lock.
Push(a) ==
    LET u == target[a] IN
    /\ At(a, "push") /\ ~locked[u]
    /\ Shown(u, room[a], pkt[a])
    /\ target' = [target EXCEPT ![a] = None]
    /\ Goto(a, "sending")
    /\ UNCHANGED <<roomVars, sessionVars, room, todo, pkt, info, requests, history>>

\* The WSASend of this Send fails: OnDisconnected, on this thread and under the
\* recursive lock, erases the player from the map Broadcast is iterating.
ErasedInLoop(a) ==
    LET u == target[a] IN
    /\ At(a, "push") /\ ~locked[u]
    /\ connected[u] /\ roomId[u] = room[a]
    /\ Crash("erased in loop")

\* The others are skipped, or Send returns because they are not connected.
EndBroadcast(a) ==
    /\ At(a, "sending")
    /\ \A u \in todo[a] : Skipped(a, u) \/ (player[u] /\ ~connected[u])
    /\ todo' = [todo EXCEPT ![a] = {}]
    /\ pkt' = [pkt EXCEPT ![a] = NoPkt]
    /\ Goto(a, IF a = Closer(Own(a)) THEN "forget"
               ELSE IF pkt[a].chat # None THEN "idle" ELSE "respond")
    /\ room' = [room EXCEPT ![a] = IF pkt[a].chat # None THEN None ELSE @]
    /\ UNCHANGED <<roomVars, sessionVars, target, info, clientVars, history>>

\* The handler's own answer, S_ENTER_GAME or S_LEAVE_GAME.  For S_LEAVE_GAME it
\* has read every room's roster, each under its room's lock with no other held:
\* the lobby's screen keeps none of them, and that the handler may have to wait
\* is only that this step may come late.
Respond(a) ==
    LET s == Own(a) IN
    /\ At(a, "respond") /\ ~(connected[s] /\ locked[s])
    /\ screen' = IF ~connected[s] THEN screen
                 ELSE [screen EXCEPT ![s] =
                          IF IsEnter(a) THEN [room |-> room[a], roster |-> info[s]] ELSE Lobby]
    /\ info' = [info EXCEPT ![s] = None]
    /\ Goto(a, "idle") /\ room' = [room EXCEPT ![a] = None]
    /\ UNCHANGED <<roomVars, sessionVars, sendVars, requests, heard, history>>

-----------------------------------------------------------------------------
(* Disconnect, on a thread of its own or on one that holds the session's lock *)
(* because the WSASend of ProcessSend failed.                                 *)

MayClose == Cardinality({s \in Sessions : pc[Closer(s)] # "idle"}) < MaxCloses

LockForDrain(s) ==
    /\ MayClose
    /\ At(Closer(s), "idle")
    /\ locked' = [locked EXCEPT ![s] = TRUE]
    /\ Goto(Closer(s), "drain")
    /\ UNCHANGED <<roomVars, player, connected, room, sendVars, info, clientVars, history>>

Disconnect(s) ==
    /\ (At(Closer(s), "idle") /\ MayClose) \/ At(Closer(s), "drain")
    /\ connected' = [connected EXCEPT ![s] = FALSE]
    /\ Goto(Closer(s), "find")
    /\ UNCHANGED <<roomVars, player, locked, room, sendVars, info, clientVars, history>>

\* OnDisconnected looks for the player's room.
FindRoom(s) ==
    LET a == Closer(s) IN
    /\ At(a, "find")
    /\ IF roomId[s] = None
       THEN /\ missed' = [missed EXCEPT ![s] = pc[Handler(s)] = "assign"]
            /\ Goto(a, "forget")
            /\ UNCHANGED room
       ELSE /\ Goto(a, "leave") /\ room' = [room EXCEPT ![a] = roomId[s]]
            /\ UNCHANGED missed
    /\ UNCHANGED <<roomVars, sessionVars, sendVars, info, clientVars, outdated, crashed>>

\* ownerSession and MyPlayer become null, and the session's lock is released.
Forget(s) ==
    LET a == Closer(s) IN
    /\ At(a, "forget")
    /\ player' = [player EXCEPT ![s] = FALSE]
    /\ locked' = [locked EXCEPT ![s] = FALSE]
    /\ Goto(a, "closed") /\ room' = [room EXCEPT ![a] = None]
    /\ UNCHANGED <<roomVars, connected, sendVars, info, clientVars, history>>

-----------------------------------------------------------------------------
WaitsForRoom(b) == pc[b] \in {"leave", "fillUpdate", "broadcast"}

\* A broadcast waits for a session's lock whose holder waits for the room's.
Deadlocked(a) ==
    /\ pc[a] = "push" /\ locked[target[a]]
    /\ LET b == Closer(target[a]) IN WaitsForRoom(b) /\ room[b] = room[a]

\* After ten seconds Lock gives up.
LockTimeout(a) == crashed = "no" /\ Deadlocked(a) /\ Crash("lock timeout")

Idle(a) == pc[a] \in {"idle", "closed"}

Finished ==
    /\ crashed # "no" \/ \A a \in Actors : Idle(a)
    /\ UNCHANGED vars

Request(s) ==
    \/ \E r \in Rooms : Enter(s, r)
    \/ AskLeave(s) \/ AskChat(s)

Step(a) ==
    \/ Assign(a) \/ FillEnter(a) \/ Leave(a) \/ FillUpdate(a)
    \/ StartBroadcast(a) \/ \E u \in Sessions : SendTo(a, u) \/ NullOwner(a, u)
    \/ Push(a) \/ ErasedInLoop(a) \/ EndBroadcast(a) \/ Respond(a)
    \/ NullPlayer(a) \/ LockTimeout(a)

Close(s) == LockForDrain(s) \/ Disconnect(s) \/ FindRoom(s) \/ Forget(s)

Next ==
    \/ \E s \in Sessions : Request(s) \/ Close(s)
    \/ \E a \in Actors : Step(a)
    \/ Finished

Spec == Init /\ [][Next]_vars

-----------------------------------------------------------------------------
(* Properties.                                                                *)

AtRest(s) == Idle(Handler(s)) /\ Idle(Closer(s))

\* Between operations a player is in the room its roomId names and in no other,
\* and a disconnected one in none, unless its disconnect looked for the room
\* before the handler of C_ENTER_GAME had assigned it.
MembersAgree ==
    crashed = "no" =>
        \A s \in Sessions : AtRest(s) =>
            /\ \A r \in Rooms : s \in members[r] <=> roomId[s] = r
            /\ ~connected[s] /\ ~missed[s] => roomId[s] = None

\* Clients see the chats they both see in the same order.
ChatsInOneOrder ==
    \A u, v \in Sessions :
        \A i, j \in DOMAIN heard[u] : \A k, l \in DOMAIN heard[v] :
            i < j /\ heard[u][i] = heard[v][k] /\ heard[u][j] = heard[v][l] => k < l

\* At rest every client in a room shows the room's players, unless a roster was
\* sent after a change that came when it had already been filled.
RostersAgree ==
    (crashed = "no" /\ \A a \in Actors : Idle(a)) =>
        \A s \in Sessions : \A r \in Rooms :
            connected[s] /\ screen[s].room = r /\ ~outdated[r] => screen[s].roster = members[r]

\* Lock's assertion: nobody waits for a lock for ever.
NoLockTimeout == crashed # "lock timeout"
=============================================================================
