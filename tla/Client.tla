-------------------------------- MODULE Client --------------------------------
(* A console client in conversation with the server: DummyClient (C++) and    *)
(* CSDummyClient (C#), the same program but for what the actions say.  Two    *)
(* threads share the console and MyPlayer: the main thread, which reads chat  *)
(* lines while the client is in a room, and the thread that handles packets,  *)
(* one at a time (Session!ReceiveExclusive), which asks for a name and for    *)
(* rooms.  Nothing excludes one from the other.  The server is what this      *)
(* client sees of it: its own handlers, and the broadcasts of others in its   *)
(* room.  Both directions of the connection are FIFO (SendRefinesChannel).    *)
EXTENDS Naturals, Sequences

CONSTANTS
    Rooms,                 \* the ids of the server's rooms
    MaxInputs,             \* BOUND: what the user types
    MaxNews                \* BOUND: broadcasts of other clients

ASSUME RoomsAssumption == Rooms \subseteq Nat \ {0}

VARIABLES
    language,
    main, line,            \* the main thread: its statement; msg, and the room it was typed in
    net, cinFailed,        \* the packets' thread; in C++, cin refuses to read
    state, roomId,         \* MyPlayer; C++ has none before Init
    toServer, toClient,    \* packets under way
    member, answer,        \* the server: the player's room, the answer it owes
    inputs, news,          \* how much was typed, and broadcast by others
    said,                  \* history: lines that were broadcast
    overtaken,             \* history: a room was chosen between C_LEAVE and its C_CHAT
    initLate,              \* history: Init came after the first room
    ended                  \* how the conversation ended, or "no"

player == <<state, roomId>>
server == <<member, answer, said, news>>
vars == <<language, main, line, net, cinFailed, player, toServer, toClient, server, inputs, overtaken,
          initLate, ended>>

Texts == {"", "hello", "/exit"}
Pkt(kind, room, text) == [kind |-> kind, room |-> room, text |-> text]
NoPkt == Pkt("none", 0, "")

Init ==
    /\ language \in {"C++", "C#"}
    /\ main = "start" /\ line = [text |-> "", room |-> 0]
    /\ net = "connecting" /\ cinFailed = FALSE
    /\ state = "none" /\ roomId = 0
    /\ toServer = <<>> /\ toClient = <<>>
    /\ member = 0 /\ answer = NoPkt
    /\ inputs = 0 /\ news = 0
    /\ said = {} /\ overtaken = FALSE /\ initLate = FALSE /\ ended = "no"

\* The user types something.
Types == inputs < MaxInputs /\ inputs' = inputs + 1

Broadcast(p) == toServer' = Append(toServer, p)

-----------------------------------------------------------------------------
(* The main thread.                                                           *)

Main(here, there) ==
    /\ ended = "no" /\ main = here
    /\ main' = there
    /\ UNCHANGED <<language, net, cinFailed, roomId, toClient, server, overtaken, ended>>

\* Managers::Init, after the connection was begun and the workers launched.
InitManagers ==
    /\ Main("start", "update")
    /\ state' = "lobby"
    /\ initLate' = (state = "room")
    /\ UNCHANGED <<line, toServer, inputs>>

Chatting == state = "room"

\* Update; in the lobby it does nothing.
Update ==
    /\ Main("update", "getline") /\ Chatting
    /\ UNCHANGED <<line, state, toServer, inputs, initLate>>

\* MUTANT: the client stays in the room until S_LEAVE_GAME arrives.
StateKept == state

StateLeft == "lobby"

\* Chat: an empty line is ignored, and /exit changes the state.
ReadLine(text) ==
    /\ Main("getline", CASE text = "" -> "update" [] text = "/exit" -> "leave" [] OTHER -> "say")
    /\ Types
    /\ line' = IF text = "" THEN line ELSE [text |-> text, room |-> roomId]
    /\ state' = IF text = "/exit" THEN StateLeft ELSE state
    /\ UNCHANGED <<toServer, initLate>>

\* LeaveRoom sends C_LEAVE_GAME, and Chat goes on to send the line itself.
LeaveRoom ==
    /\ Main("leave", "say")
    /\ Broadcast(Pkt("leave", 0, ""))
    /\ UNCHANGED <<line, state, inputs, initLate>>

Say ==
    /\ Main("say", "update")
    /\ Broadcast(Pkt("chat", line.room, line.text))
    /\ UNCHANGED <<line, state, inputs, initLate>>

-----------------------------------------------------------------------------
(* The thread that handles packets.                                           *)

Net(here, there) ==
    /\ ended = "no" /\ net = here
    /\ net' = there
    /\ UNCHANGED <<language, main, line, server, initLate>>

console == <<toServer, cinFailed, inputs, overtaken, ended>>

\* OnConnected asks for a name and sends it.
OnConnected ==
    /\ Net("connecting", "name")
    /\ UNCHANGED <<player, toClient, console>>

EnterName ==
    /\ Net("name", "idle") /\ Types
    /\ Broadcast(Pkt("login", 0, ""))
    /\ UNCHANGED <<player, toClient, cinFailed, overtaken, ended>>

Received(kind) ==
    /\ toClient # <<>> /\ Head(toClient).kind = kind
    /\ toClient' = Tail(toClient)

\* S_LOGIN, and an S_ENTER_GAME without success, ask for a room.
HandleLogin ==
    /\ Net("idle", "firstRoom") /\ Received("login")
    /\ UNCHANGED <<player, console>>

HandleRefused ==
    /\ Net("idle", "anyRoom") /\ Received("refused")
    /\ UNCHANGED <<player, console>>

\* S_ENTER_GAME: the room's id first, then the state.
HandleEnter ==
    /\ Net("idle", "entering") /\ Received("entered")
    /\ roomId' = Head(toClient).room
    /\ UNCHANGED <<state, console>>

\* MUTANT: the state is assigned only on a first entry.
Unless == IF state = "none" THEN "room" ELSE state

StateEntered == "room"

EnterRoom ==
    /\ Net("entering", "idle")
    /\ state' = StateEntered
    /\ UNCHANGED <<roomId, toClient, console>>

\* MUTANT: S_LEAVE_GAME leaves the room's id.
IdKept == roomId

NoRoom == 0

\* S_LEAVE_GAME: the id of no room, and the question for the next.
HandleLeave ==
    /\ Net("idle", "anyRoom") /\ Received("left")
    /\ roomId' = NoRoom
    /\ UNCHANGED <<state, console>>

\* S_ROOM_UPDATE and S_CHAT are shown, if they are for this room.
HandleNews ==
    /\ Net("idle", "idle") /\ Received("news")
    /\ UNCHANGED <<player, console>>

\* C_ENTER_GAME is sent; the C++ client then stores the account in MyPlayer.
Choose(here, r) ==
    /\ Net(here, IF here = "firstRoom" /\ language = "C++" THEN "account" ELSE "idle")
    /\ Broadcast(Pkt("enter", r, ""))
    /\ overtaken' = (overtaken \/ (main = "say" /\ line.text = "/exit"))
    /\ UNCHANGED <<player, toClient, cinFailed, ended>>

AnswerRoom(here, r) == ~cinFailed /\ Types /\ Choose(here, r)

\* What is not a number is room 0 to the C# client,
NotANumberCs(here) == language = "C#" /\ Types /\ Choose(here, 0)

\* and to the C++ client the end of all reading from cin: it asks again and
\* again, with a roomId nobody writes any more, which may hold any room's.
NotANumberCpp(here) ==
    /\ language = "C++" /\ ~cinFailed
    /\ Net(here, here) /\ Types
    /\ cinFailed' = TRUE
    /\ UNCHANGED <<player, toServer, toClient, overtaken, ended>>

UnreadRoom(here, r) == cinFailed /\ Choose(here, r) /\ UNCHANGED inputs

\* The end of Handle_S_LOGIN; before Init there is no player.
StoreAccount ==
    /\ Net("account", "idle")
    /\ ended' = IF main = "start" THEN "null player" ELSE "no"
    /\ UNCHANGED <<player, toServer, toClient, cinFailed, inputs, overtaken>>

-----------------------------------------------------------------------------
(* The server.                                                                *)

Serving ==
    /\ ended = "no"
    /\ UNCHANGED <<language, main, line, net, cinFailed, player, inputs, overtaken, initLate>>

\* A handler takes the next packet when the last one is done.
Asked(kind) ==
    /\ Serving /\ answer = NoPkt
    /\ toServer # <<>> /\ Head(toServer).kind = kind
    /\ toServer' = Tail(toServer)

Tell(p) == toClient' = Append(toClient, p)

ServeLogin ==
    /\ Asked("login")
    /\ Tell(Pkt("login", 0, ""))
    /\ UNCHANGED <<server, ended>>

\* Handle_C_ENTER_GAME: the room is full, or takes the player; there is no room 0.
ServeEnter(full) ==
    LET r == Head(toServer).room IN
    /\ Asked("enter")
    /\ ended' = IF r \in Rooms THEN "no" ELSE "null room"
    /\ member' = IF r \in Rooms /\ ~full THEN r ELSE member
    /\ answer' = IF full THEN Pkt("refused", 0, "") ELSE Pkt("entered", r, "")
    /\ UNCHANGED <<toClient, said, news>>

MemberLeft == 0

\* Handle_C_LEAVE_GAME; a player in no room is not answered.
ServeLeave ==
    /\ Asked("leave")
    /\ member' = MemberLeft
    /\ answer' = IF member = 0 THEN NoPkt ELSE Pkt("left", 0, "")
    /\ UNCHANGED <<toClient, said, news, ended>>

\* The answer comes after what others have broadcast meanwhile.
Respond ==
    /\ Serving /\ answer # NoPkt
    /\ Tell(answer) /\ answer' = NoPkt
    /\ UNCHANGED <<toServer, member, said, news, ended>>

\* Handle_C_CHAT: to everybody in the player's room, if it has one.
ServeChat ==
    LET p == Head(toServer) IN
    /\ Asked("chat")
    /\ IF member = 0 THEN UNCHANGED <<said, toClient>>
       ELSE /\ said' = said \cup {[text |-> p.text, typed |-> p.room, heard |-> member]}
            /\ Tell(Pkt("news", member, p.text))
    /\ UNCHANGED <<member, answer, news, ended>>

\* A broadcast on behalf of another client in the room.
OtherBroadcast ==
    /\ Serving /\ member # 0
    /\ news < MaxNews /\ news' = news + 1
    /\ Tell(Pkt("news", member, ""))
    /\ UNCHANGED <<toServer, member, answer, said, ended>>

\* The connection goes, and with it the session from the client's manager.
OnDisconnected ==
    /\ Serving
    /\ ended' = "connection"
    /\ UNCHANGED <<toServer, toClient, server>>

-----------------------------------------------------------------------------
MainThread == InitManagers \/ Update \/ LeaveRoom \/ Say

NetThread ==
    \/ OnConnected \/ HandleLogin \/ HandleRefused \/ HandleEnter \/ EnterRoom \/ HandleLeave
    \/ HandleNews \/ StoreAccount

Prompts == {"firstRoom", "anyRoom"}

User ==
    \/ EnterName
    \/ \E text \in Texts : ReadLine(text)
    \/ \E here \in Prompts, r \in Rooms : AnswerRoom(here, r)
    \/ \E here \in Prompts : NotANumberCs(here) \/ NotANumberCpp(here)

Server ==
    \/ ServeLogin \/ (\E full \in BOOLEAN : ServeEnter(full)) \/ ServeLeave \/ ServeChat
    \/ Respond

Next ==
    \/ MainThread \/ NetThread \/ User \/ Server \/ OtherBroadcast \/ OnDisconnected
    \/ \E here \in Prompts, r \in Rooms : UnreadRoom(here, r)

Spec == Init /\ [][Next]_vars

\* Both threads run and the server answers; the user need not type.
FairSpec == Spec /\ WF_vars(MainThread) /\ WF_vars(NetThread) /\ WF_vars(Server)

-----------------------------------------------------------------------------
(* Properties.                                                                *)

NetAsks == net = "name" \/ net \in Prompts
MainReads == main = "getline"

\* Once cin has failed, the C++ client's prompts ask for ever and read nothing,
\* until the variable nobody writes happens to hold a room (UnreadRoom).
Spinning == language = "C++" /\ cinFailed /\ net \in Prompts
NetReads == NetAsks /\ ~Spinning

\* The two threads never ask for input at the same time, though nothing excludes
\* them: whose turn it is follows from the packets under way.
OneReader == ~(NetAsks /\ MainReads)

\* When nothing is under way, the client shows the room the server has it in,
\* unless Init put it back into the lobby.
RoomsAgree ==
    /\ ended = "no" /\ toServer = <<>> /\ toClient = <<>> /\ answer = NoPkt
    /\ net # "entering" /\ main \notin {"leave", "say"}
    => roomId = member /\ (initLate \/ (state = "room") = (member # 0))

\* A line is said in the room it was typed in.  /exit, which is sent like any
\* line, is said nowhere, unless the next room was chosen before it was sent.
SaidWhereTyped ==
    \A x \in said : IF x.text = "/exit" THEN overtaken ELSE x.typed = x.heard

\* The user always gets the console back, which then reads a line, a name or a
\* room, unless the conversation has ended, Init came late, or a prompt of the C++
\* client spins on a cin that has failed: from there it need never read again.
\* The C# client, which reads a line before it looks for a number, has no such
\* exception.
ConsoleComesBack == []<>(NetReads \/ MainReads \/ ended # "no" \/ initLate \/ Spinning)
=============================================================================
