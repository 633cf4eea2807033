---------------------------- MODULE ClientProofs ----------------------------
(* For any rooms and any amount of input: the client's two threads take turns *)
(* at the console, the client and the server agree on the room, and a chat is *)
(* said in the room in which it was typed.  And for any number of threads and *)
(* messages: the C# client has one SendAsync under way at most, and its Send  *)
(* implements FifoChannel.                                                    *)
EXTENDS Client, CsSession, TLAPS

-----------------------------------------------------------------------------
(* The conversation: its inductive invariant.                                 *)

ToServer == [kind : {"login", "enter", "leave", "chat"}, room : Rooms \cup {0}, text : Texts]
ToClient == [kind : {"login", "refused", "entered", "left", "news"}, room : Rooms \cup {0}, text : Texts]
Answers == [kind : {"none", "refused", "entered", "left"}, room : Rooms \cup {0}, text : Texts]

TalkTypes ==
    /\ main \in {"start", "update", "getline", "leave", "say"}
    /\ line \in [text : Texts, room : Rooms \cup {0}]
    /\ net \in {"connecting", "name", "idle", "entering", "account"} \cup Prompts
    /\ member \in Rooms \cup {0} /\ roomId \in Rooms \cup {0}
    /\ toServer \in Seq(ToServer) /\ toClient \in Seq(ToClient)
    /\ answer \in Answers
    /\ answer.kind = "none" => answer = NoPkt

\* Whose turn it is.  One question or answer is under way at a time: a request to
\* the server, the server's answer, a prompt, or the /exit that has been typed;
\* while there is none the client is in a room and the user chats.
Asking == \E i \in 1..Len(toServer) : toServer[i].kind # "chat"
Telling == \E i \in 1..Len(toClient) : toClient[i].kind # "news"
Prompting == net \notin {"idle", "account"}
Answering == answer # NoPkt
Leaving == main = "leave"

InRoom == ~Asking /\ ~Telling /\ ~Prompting /\ ~Answering /\ ~Leaving

\* There is one at a time.
TurnsInv ==
    /\ \A i, j \in 1..Len(toServer) : toServer[i].kind # "chat" /\ toServer[j].kind # "chat" => i = j
    /\ \A i, j \in 1..Len(toClient) : toClient[i].kind # "news" /\ toClient[j].kind # "news" => i = j
    /\ Asking => ~Telling /\ ~Prompting /\ ~Answering /\ ~Leaving
    /\ Telling => ~Prompting /\ ~Answering /\ ~Leaving
    /\ Prompting => ~Answering /\ ~Leaving
    /\ Answering => ~Leaving

\* It says which room the server has the client in, and what the client knows.
Lobby == member = 0 /\ roomId = 0
There == member \in Rooms /\ roomId = member

PlaceInv ==
    /\ \A i \in 1..Len(toServer) :
          /\ toServer[i].kind \in {"login", "enter"} => Lobby
          /\ toServer[i].kind = "leave" => There
    /\ \A i \in 1..Len(toClient) :
          /\ toClient[i].kind \in {"login", "refused"} => Lobby
          /\ toClient[i].kind = "left" => member = 0
          /\ toClient[i].kind = "entered" => member \in Rooms /\ toClient[i].room = member
    /\ answer.kind = "refused" => Lobby
    /\ answer.kind = "left" => member = 0
    /\ answer.kind = "entered" => member \in Rooms /\ answer.room = member
    /\ Prompting => IF net = "entering" THEN There ELSE Lobby
    /\ Leaving \/ InRoom => There

\* MyPlayer's state is that of a room then and only then, and what was typed
\* there has yet to be sent there.
StateInv ==
    /\ state = "room" => InRoom
    /\ InRoom => state = "room" \/ initLate
    /\ main = "getline" => state = "room"
    /\ main = "say" /\ line.text # "/exit" => state = "room" /\ line.room = member
    /\ main = "leave" => line.text = "/exit"
    /\ main = "start" => ~initLate

\* The line at i will be served in the room it was typed in: nothing but a
\* C_LEAVE_GAME after it is under way.
InPlace(i) ==
    /\ toServer[i].room = member /\ member # 0
    /\ \A j \in 1..Len(toServer) : toServer[j].kind # "chat" => toServer[j].kind = "leave" /\ i < j
    /\ ~Telling /\ ~Prompting /\ ~Answering

\* The /exit at i will be served after its C_LEAVE_GAME and before the next
\* C_ENTER_GAME.
Left(i) ==
    /\ \A j \in 1..Len(toServer) :
          toServer[j].kind # "chat" => \/ toServer[j].kind = "leave" /\ j < i
                                       \/ toServer[j].kind = "enter" /\ i < j
    /\ \A j \in 1..Len(toClient) : toClient[j].kind # "news" => toClient[j].kind = "left"
    /\ answer.kind \in {"none", "left"}
    /\ Prompting => net = "anyRoom"
    /\ ~Leaving /\ ~InRoom

ChatInv ==
    /\ \A i \in 1..Len(toServer) : toServer[i].kind = "chat" =>
          IF toServer[i].text = "/exit" THEN overtaken \/ Left(i) ELSE InPlace(i)
    /\ main = "say" /\ line.text = "/exit" => overtaken \/ Left(Len(toServer) + 1)

\* While the conversation goes on; the end leaves the console to nobody.
TalkInv == TalkTypes /\ TurnsInv /\ PlaceInv /\ StateInv /\ ChatInv

ClientInv == SaidWhereTyped /\ IF ended = "no" THEN TalkInv ELSE OneReader

\* Packets, and the queues they are in.
LEMMA PktIs ==
  ASSUME NEW k, NEW r, NEW t
  PROVE  Pkt(k, r, t).kind = k /\ Pkt(k, r, t).room = r /\ Pkt(k, r, t).text = t
  BY DEF Pkt

LEMMA NoPktIs == NoPkt.kind = "none"
  BY DEF NoPkt, Pkt

LEMMA EmptyIs == \A S : <<>> \in Seq(S) /\ 1..Len(<<>>) = {}
  OBVIOUS

LEMMA AppendIs ==
  ASSUME NEW S, NEW q \in Seq(S), NEW e \in S
  PROVE  /\ Append(q, e) \in Seq(S) /\ Len(q) \in Nat
         /\ Len(Append(q, e)) = Len(q) + 1
         /\ Append(q, e)[Len(q) + 1] = e
         /\ \A i \in 1..Len(q) : Append(q, e)[i] = q[i]
  OBVIOUS

LEMMA TailIs ==
  ASSUME NEW S, NEW q \in Seq(S), q # <<>>
  PROVE  /\ Tail(q) \in Seq(S) /\ Len(q) \in Nat /\ Len(q) > 0
         /\ Head(q) = q[1] /\ q[1] \in S
         /\ Len(Tail(q)) = Len(q) - 1
         /\ \A i \in 1..Len(q) - 1 : Tail(q)[i] = q[i + 1]
  OBVIOUS

\* The packets under way after a step that sends or takes one.
LEMMA Sent ==
  ASSUME toServer \in Seq(ToServer), NEW p \in ToServer, Broadcast(p)
  PROVE  /\ toServer' \in Seq(ToServer) /\ Len(toServer) \in Nat
         /\ Len(toServer') = Len(toServer) + 1
         /\ toServer'[Len(toServer) + 1] = p
         /\ \A i \in 1..Len(toServer) : toServer'[i] = toServer[i]
  BY AppendIs DEF Broadcast

LEMMA Told ==
  ASSUME toClient \in Seq(ToClient), NEW p \in ToClient, Tell(p)
  PROVE  /\ toClient' \in Seq(ToClient) /\ Len(toClient) \in Nat
         /\ Len(toClient') = Len(toClient) + 1
         /\ toClient'[Len(toClient) + 1] = p
         /\ \A i \in 1..Len(toClient) : toClient'[i] = toClient[i]
  BY AppendIs DEF Tell

LEMMA Taken ==
  ASSUME toServer \in Seq(ToServer), NEW kind, Asked(kind)
  PROVE  /\ toServer' \in Seq(ToServer) /\ Len(toServer) \in Nat /\ Len(toServer) > 0
         /\ Head(toServer) = toServer[1] /\ toServer[1] \in ToServer /\ toServer[1].kind = kind
         /\ Len(toServer') = Len(toServer) - 1
         /\ \A i \in 1..Len(toServer) - 1 : toServer'[i] = toServer[i + 1]
  BY TailIs DEF Asked

LEMMA Heard ==
  ASSUME toClient \in Seq(ToClient), NEW kind, Received(kind)
  PROVE  /\ toClient' \in Seq(ToClient) /\ Len(toClient) \in Nat /\ Len(toClient) > 0
         /\ Head(toClient) = toClient[1] /\ toClient[1] \in ToClient /\ toClient[1].kind = kind
         /\ Len(toClient') = Len(toClient) - 1
         /\ \A i \in 1..Len(toClient) - 1 : toClient'[i] = toClient[i + 1]
  BY TailIs DEF Received

USE DEF player, server, console

-----------------------------------------------------------------------------
(* One lemma for each step, or group of steps, of the conversation.           *)

LEMMA TalkBegins == Init => TalkInv
<1> SUFFICES ASSUME Init PROVE TalkInv
  OBVIOUS
<1> USE DEF Init
<1>1. /\ toServer \in Seq(ToServer) /\ toClient \in Seq(ToClient)
      /\ 1..Len(toServer) = {} /\ 1..Len(toClient) = {}
  BY EmptyIs
<1>2. TalkTypes
  BY <1>1 DEF TalkTypes, Answers, NoPkt, Pkt, Texts, Prompts
<1>3. ~Asking /\ ~Telling /\ Prompting /\ ~Answering /\ ~Leaving /\ ~InRoom
  BY <1>1 DEF Asking, Telling, Prompting, Answering, Leaving, InRoom
<1>4. TurnsInv
  BY <1>1, <1>3 DEF TurnsInv
<1>5. PlaceInv
  BY <1>1, <1>3 DEF PlaceInv, Lobby, NoPkt, Pkt
<1>6. StateInv
  BY <1>1, <1>3 DEF StateInv
<1>7. ChatInv
  BY <1>1, <1>3 DEF ChatInv
<1> QED
  BY <1>2, <1>4, <1>5, <1>6, <1>7 DEF TalkInv

\* Init and Update.
LEMMA MainKeeps ==
  ASSUME TalkInv, InitManagers \/ Update
  PROVE  TalkInv'
<1> USE DEF TalkInv, InitManagers, Update, Main, Chatting
<1>1. TalkTypes'
  BY DEF TalkTypes
<1>3. UNCHANGED <<Asking, Telling, Prompting, Answering, InRoom, toServer, toClient>> /\ ~Leaving /\ ~Leaving'
  BY DEF Asking, Telling, Prompting, Answering, Leaving, InRoom
<1>4. TurnsInv'
  BY <1>3 DEF TurnsInv
<1>5. PlaceInv'
  BY <1>3 DEF PlaceInv, Lobby, There
<1>6. StateInv'
  BY <1>3 DEF StateInv, InRoom
<1>7. ChatInv'
  BY <1>3 DEF ChatInv, InPlace, Left
<1> QED
  BY <1>1, <1>4, <1>5, <1>6, <1>7

\* A line is typed: the turn is the user's while in a room.
LEMMA ReadLineKeeps ==
  ASSUME TalkInv, NEW text \in Texts, ReadLine(text)
  PROVE  TalkInv'
<1> USE DEF TalkInv
<1>0. InRoom /\ There /\ state = "room"
  BY DEF ReadLine, Main, StateInv, PlaceInv
<1>1. TalkTypes'
  BY DEF TalkTypes, ReadLine, Main
<1>2. /\ main = "getline" /\ main' = CASE text = "" -> "update" [] text = "/exit" -> "leave" [] OTHER -> "say"
      /\ line' = IF text = "" THEN line ELSE [text |-> text, room |-> roomId]
      /\ state' = IF text = "/exit" THEN "lobby" ELSE state
      /\ net' = net /\ roomId' = roomId /\ member' = member /\ answer' = answer /\ toServer' = toServer
      /\ toClient' = toClient /\ overtaken' = overtaken /\ initLate' = initLate
  BY DEF ReadLine, Main, StateLeft
<1>3. /\ Asking' = Asking /\ Telling' = Telling /\ Prompting' = Prompting /\ Answering' = Answering
  BY <1>2 DEF Asking, Telling, Prompting, Answering
<1>8. ~Leaving /\ (Leaving' <=> text = "/exit") /\ (InRoom' <=> text # "/exit")
  BY <1>0, <1>2, <1>3 DEF Leaving, InRoom, Texts
<1>4. TurnsInv'
  BY <1>0, <1>2, <1>3, <1>8 DEF TurnsInv, InRoom
<1>5. PlaceInv'
  BY <1>0, <1>2, <1>3, <1>8 DEF PlaceInv, Lobby, There
<1>6. StateInv'
  BY <1>0, <1>2, <1>3, <1>8 DEF StateInv, There, TalkTypes
<1>7. ChatInv'
  <2>1. main' = "say" => line'.text # "/exit"
    BY <1>2 DEF Texts
  <2>2. ASSUME NEW i \in 1..Len(toServer), toServer[i].kind = "chat"
        PROVE  IF toServer[i].text = "/exit" THEN overtaken' ELSE InPlace(i)'
    <3>1. IF toServer[i].text = "/exit" THEN overtaken ELSE InPlace(i)
      BY <1>0, <2>2 DEF ChatInv, Left
    <3>2. InPlace(i) => InPlace(i)'
      BY <1>2, <1>3 DEF InPlace
    <3> QED
      BY <1>2, <3>1, <3>2
  <2>3. toServer' = toServer
    BY <1>2
  <2> QED
    BY <2>1, <2>2, <2>3 DEF ChatInv
<1> QED
  BY <1>1, <1>4, <1>5, <1>6, <1>7

\* C_LEAVE_GAME and C_CHAT.
LEMMA LeaveRoomKeeps ==
  ASSUME TalkInv, LeaveRoom
  PROVE  TalkInv'
<1> USE DEF TalkInv
<1>1. /\ main = "leave" /\ main' = "say" /\ line' = line /\ net' = net /\ state' = state /\ roomId' = roomId
      /\ member' = member /\ answer' = answer /\ toClient' = toClient /\ overtaken' = overtaken
      /\ initLate' = initLate
  BY DEF LeaveRoom, Main
<1>2. PICK n \in Nat :
      /\ n = Len(toServer) /\ toServer' \in Seq(ToServer)
      /\ Len(toServer') = n + 1 
      /\ toServer'[n + 1].kind = "leave"
      /\ \A i \in 1..n : toServer'[i] = toServer[i]
  <2>1. Pkt("leave", 0, "") \in ToServer /\ Pkt("leave", 0, "").kind = "leave"
    BY DEF ToServer, Pkt, Texts
  <2> QED
    BY <2>1, Sent DEF TalkTypes, LeaveRoom
<1>3. TalkTypes'
  BY <1>1, <1>2 DEF TalkTypes
<1>4. Leaving /\ There /\ ~Asking /\ ~Telling /\ ~Prompting /\ ~Answering /\ ~InRoom
  BY <1>1 DEF Leaving, PlaceInv, TurnsInv, InRoom
<1>5. Asking' /\ ~Telling' /\ ~Prompting' /\ ~Answering' /\ ~Leaving' /\ ~InRoom' /\ There'
  <2>1. Asking'
    BY <1>2 DEF Asking
  <2> QED
    BY <1>1, <1>4, <2>1 DEF Telling, Prompting, Answering, Leaving, InRoom, There
<1>6. \A i \in 1..n : toServer[i].kind = "chat"
  BY <1>2, <1>4 DEF Asking
<1>7. \A i \in 1..Len(toClient) : toClient[i].kind = "news"
  BY <1>4 DEF Telling
<1>8. TurnsInv'
  BY <1>1, <1>2, <1>5, <1>6, <1>7 DEF TurnsInv
<1>12. answer.kind = "none"
  BY <1>4, NoPktIs DEF Answering
<1>9. PlaceInv'
  BY <1>1, <1>2, <1>4, <1>5, <1>6, <1>7, <1>12 DEF PlaceInv
<1>10. StateInv'
  BY <1>1, <1>4, <1>5 DEF StateInv
<1>11. ChatInv'
  <2>1. ASSUME NEW i \in 1..n
        PROVE  IF toServer'[i].text = "/exit" THEN overtaken' ELSE InPlace(i)'
    <3>1. IF toServer[i].text = "/exit" THEN overtaken ELSE InPlace(i)
      BY <1>2, <1>4, <1>6 DEF ChatInv, Left
    <3>2. InPlace(i) => InPlace(i)'
      BY <1>1, <1>2, <1>5, <1>6 DEF InPlace
    <3> QED
      BY <1>1, <1>2, <3>1, <3>2
  <2>2. Left(n + 2)'
    BY <1>1, <1>2, <1>5, <1>6, <1>7, <1>12 DEF Left
  <2>3. n + 2 = Len(toServer') + 1
    BY <1>2
  <2>4. ASSUME NEW i \in 1..Len(toServer'), toServer'[i].kind = "chat" PROVE i \in 1..n
    BY <1>2, <2>4
  <2> QED
    BY <2>1, <2>2, <2>3, <2>4 DEF ChatInv
<1> QED
  BY <1>3, <1>8, <1>9, <1>10, <1>11

LEMMA SayKeeps ==
  ASSUME TalkInv, Say
  PROVE  TalkInv'
<1>0. 0 \notin Rooms
  BY RoomsAssumption
<1> USE <1>0 DEF TalkInv
<1>1. /\ main = "say" /\ main' = "update" /\ line' = line /\ net' = net /\ state' = state /\ roomId' = roomId
      /\ member' = member /\ answer' = answer /\ toClient' = toClient /\ overtaken' = overtaken
      /\ initLate' = initLate
  BY DEF Say, Main
<1>2. PICK n \in Nat :
      /\ n = Len(toServer) /\ toServer' \in Seq(ToServer)
      /\ Len(toServer') = n + 1 
      /\ toServer'[n + 1].kind = "chat"
      /\ toServer'[n + 1].text = line.text
      /\ toServer'[n + 1].room = line.room
      /\ \A i \in 1..n : toServer'[i] = toServer[i]
  <2>1. Pkt("chat", line.room, line.text) \in ToServer
    BY DEF ToServer, Pkt, TalkTypes
  <2> QED
    BY <2>1, Sent, PktIs DEF TalkTypes, Say
<1>3. TalkTypes'
  BY <1>1, <1>2 DEF TalkTypes
<1>4. /\ Asking' = Asking /\ Telling' = Telling /\ Prompting' = Prompting /\ Answering' = Answering
      /\ Leaving' = Leaving /\ InRoom' = InRoom /\ There' = There /\ Lobby' = Lobby
  <2>1. Asking' = Asking
    BY <1>2 DEF Asking
  <2> QED
    BY <1>1, <2>1 DEF Telling, Prompting, Answering, Leaving, InRoom, There, Lobby
<1>8. TurnsInv'
  BY <1>1, <1>2, <1>4 DEF TurnsInv
<1>9. PlaceInv'
  BY <1>1, <1>2, <1>4 DEF PlaceInv
<1>10. StateInv'
  BY <1>1, <1>4 DEF StateInv
<1>11. ChatInv'
  <2>1. ASSUME NEW i \in 1..n, toServer[i].kind = "chat"
        PROVE  IF toServer'[i].text = "/exit" THEN overtaken' \/ Left(i)' ELSE InPlace(i)'
    <3>1. IF toServer[i].text = "/exit" THEN overtaken \/ Left(i) ELSE InPlace(i)
      BY <1>2, <2>1 DEF ChatInv
    <3>2. \A j \in 1..Len(toServer') : j \in 1..n \/ (j = n + 1 /\ toServer'[j].kind = "chat")
      BY <1>2
    <3>3. InPlace(i) => InPlace(i)'
      BY <1>1, <1>2, <1>4, <3>2 DEF InPlace
    <3>4. Left(i) => Left(i)'
      BY <1>1, <1>2, <1>4, <3>2 DEF Left
    <3> QED
      BY <1>1, <1>2, <3>1, <3>3, <3>4
  <2>2. line.text = "/exit" => overtaken' \/ Left(n + 1)'
    <3>1. line.text = "/exit" => overtaken \/ Left(n + 1)
      BY <1>1, <1>2 DEF ChatInv
    <3>2. Left(n + 1) => Left(n + 1)'
      BY <1>1, <1>2, <1>4 DEF Left
    <3> QED
      BY <1>1, <3>1, <3>2
  <2>3. line.text # "/exit" => InPlace(n + 1)'
    <3>1. line.text # "/exit" => InRoom /\ line.room = member /\ member # 0
      BY <1>1 DEF StateInv, PlaceInv, There
    <3> QED
      BY <1>1, <1>2, <1>4, <3>1 DEF InPlace, InRoom, Asking
  <2>4. \A i \in 1..Len(toServer') : i \in 1..n \/ i = n + 1
    BY <1>2
  <2> QED
    BY <1>1, <1>2, <2>1, <2>2, <2>3, <2>4 DEF ChatInv
<1> QED
  BY <1>3, <1>8, <1>9, <1>10, <1>11

\* Steps of the packets' thread that send and take nothing.
LEMMA NetKeeps ==
  ASSUME TalkInv, OnConnected \/ StoreAccount \/ \E here \in Prompts : NotANumberCpp(here)
  PROVE  TalkInv'
<1> USE DEF TalkInv
<1>1. /\ main' = main /\ line' = line /\ state' = state /\ roomId' = roomId
      /\ member' = member /\ answer' = answer /\ toServer' = toServer /\ toClient' = toClient
      /\ overtaken' = overtaken /\ initLate' = initLate
      /\ \/ net = "connecting" /\ net' = "name"
         \/ net = "account" /\ net' = "idle"
         \/ net \in Prompts /\ net' = net
  BY DEF OnConnected, StoreAccount, NotANumberCpp, Net
<1>3. TalkTypes'
  BY <1>1 DEF TalkTypes, Prompts
<1>4. /\ Asking' = Asking /\ Telling' = Telling /\ Prompting' = Prompting /\ Answering' = Answering
      /\ Leaving' = Leaving /\ InRoom' = InRoom /\ There' = There /\ Lobby' = Lobby
  BY <1>1 DEF Asking, Telling, Prompting, Answering, Leaving, InRoom, There, Lobby, Prompts
<1>8. TurnsInv'
  BY <1>1, <1>4 DEF TurnsInv
<1>9. PlaceInv'
  BY <1>1, <1>4 DEF PlaceInv, Prompts, Prompting
<1>10. StateInv'
  BY <1>1, <1>4 DEF StateInv
<1>11. ChatInv'
  <2>1. \A i : InPlace(i)' = InPlace(i)
    BY <1>1, <1>4 DEF InPlace
  <2>2. \A i : Left(i) => Left(i)'
    BY <1>1, <1>4 DEF Left, Prompting
  <2> QED
    BY <1>1, <2>1, <2>2 DEF ChatInv
<1> QED
  BY <1>3, <1>8, <1>9, <1>10, <1>11

\* The client is in the room: nothing is under way any more.
LEMMA EnterRoomKeeps ==
  ASSUME TalkInv, EnterRoom
  PROVE  TalkInv'
<1> USE DEF TalkInv
<1>1. /\ main' = main /\ line' = line /\ roomId' = roomId /\ member' = member /\ answer' = answer
      /\ toServer' = toServer /\ toClient' = toClient /\ overtaken' = overtaken /\ initLate' = initLate
      /\ net = "entering" /\ net' = "idle" /\ state' = "room"
  BY DEF EnterRoom, Net, StateEntered
<1>2. TalkTypes'
  BY <1>1 DEF TalkTypes
<1>3. Prompting /\ There /\ ~Asking /\ ~Telling /\ ~Answering /\ ~Leaving /\ ~InRoom
  BY <1>1 DEF Prompting, PlaceInv, TurnsInv, InRoom
<1>4. InRoom' /\ ~Prompting' /\ There' /\ ~Asking' /\ ~Telling' /\ ~Answering' /\ ~Leaving'
  BY <1>1, <1>3 DEF Prompting, Asking, Telling, Answering, Leaving, InRoom, There
<1>5. TurnsInv'
  BY <1>1, <1>4 DEF TurnsInv
<1>6. PlaceInv'
  <2>1. answer.kind = "none"
    BY <1>3, NoPktIs DEF Answering
  <2>2. /\ \A i \in 1..Len(toServer) : toServer[i].kind = "chat"
        /\ \A i \in 1..Len(toClient) : toClient[i].kind = "news"
    BY <1>3 DEF Asking, Telling
  <2> QED
    BY <1>1, <1>4, <2>1, <2>2 DEF PlaceInv
<1>7. StateInv'
  BY <1>1, <1>3, <1>4 DEF StateInv
<1>8. ChatInv'
  <2>1. ASSUME NEW i PROVE ~Left(i) /\ ~InPlace(i)
    BY <1>1, <1>3 DEF Left, InPlace
  <2> QED
    BY <1>1, <2>1 DEF ChatInv
<1> QED
  BY <1>2, <1>5, <1>6, <1>7, <1>8

\* The prompts become requests.
LEMMA EnterNameKeeps ==
  ASSUME TalkInv, EnterName
  PROVE  TalkInv'
<1> USE DEF TalkInv
<1>1. /\ main' = main /\ line' = line /\ state' = state /\ roomId' = roomId /\ member' = member /\ answer' = answer
      /\ toClient' = toClient /\ overtaken' = overtaken /\ initLate' = initLate
      /\ net = "name" /\ net' = "idle"
  BY DEF EnterName, Net
<1>2. PICK n \in Nat :
      /\ n = Len(toServer) /\ toServer' \in Seq(ToServer)
      /\ Len(toServer') = n + 1
      /\ toServer'[n + 1].kind = "login"
      /\ \A i \in 1..n : toServer'[i] = toServer[i]
  <2>1. Pkt("login", 0, "") \in ToServer /\ Pkt("login", 0, "").kind = "login"
    BY DEF ToServer, Pkt, Texts
  <2> QED
    BY <2>1, Sent DEF TalkTypes, EnterName
<1>3. TalkTypes'
  BY <1>1, <1>2 DEF TalkTypes
<1>4. Prompting /\ Lobby /\ ~Asking /\ ~Telling /\ ~Answering /\ ~Leaving /\ ~InRoom
  BY <1>1 DEF Prompting, PlaceInv, TurnsInv, InRoom
<1>5. Asking' /\ ~Prompting' /\ Lobby' /\ ~Telling' /\ ~Answering' /\ ~Leaving' /\ ~InRoom'
  <2>1. Asking'
    BY <1>2 DEF Asking
  <2> QED
    BY <1>1, <1>4, <2>1 DEF Prompting, Telling, Answering, Leaving, InRoom, Lobby
<1>6. /\ \A i \in 1..n : toServer[i].kind = "chat"
      /\ \A i \in 1..Len(toClient) : toClient[i].kind = "news"
      /\ answer.kind = "none"
  BY <1>2, <1>4, NoPktIs DEF Asking, Telling, Answering
<1>7. TurnsInv'
  BY <1>1, <1>2, <1>5, <1>6 DEF TurnsInv
<1>8. PlaceInv'
  BY <1>1, <1>2, <1>5, <1>6 DEF PlaceInv
<1>9. StateInv'
  BY <1>1, <1>4, <1>5 DEF StateInv
<1>10. ChatInv'
  <2>1. ASSUME NEW i PROVE ~Left(i) /\ ~InPlace(i)
    BY <1>1, <1>4 DEF Left, InPlace
  <2>2. ASSUME NEW i \in 1..Len(toServer'), toServer'[i].kind = "chat"
        PROVE i \in 1..Len(toServer) /\ toServer'[i] = toServer[i]
    BY <1>2, <2>2
  <2> QED
    BY <1>1, <2>1, <2>2 DEF ChatInv
<1> QED
  BY <1>3, <1>7, <1>8, <1>9, <1>10

LEMMA ChooseKeeps ==
  ASSUME TalkInv, NEW here \in Prompts, NEW r \in Rooms \cup {0}, Choose(here, r)
  PROVE  TalkInv'
<1> USE DEF TalkInv
<1>1. /\ main' = main /\ line' = line /\ state' = state /\ roomId' = roomId /\ member' = member /\ answer' = answer
      /\ toClient' = toClient /\ initLate' = initLate
      /\ overtaken' = (overtaken \/ (main = "say" /\ line.text = "/exit"))
      /\ net \in Prompts /\ net' \in {"idle", "account"}
  BY DEF Choose, Net
<1>2. PICK n \in Nat :
      /\ n = Len(toServer) /\ toServer' \in Seq(ToServer)
      /\ Len(toServer') = n + 1
      /\ toServer'[n + 1].kind = "enter"
      /\ \A i \in 1..n : toServer'[i] = toServer[i]
  <2>1. Pkt("enter", r, "") \in ToServer /\ Pkt("enter", r, "").kind = "enter"
    BY DEF ToServer, Pkt, Texts
  <2> QED
    BY <2>1, Sent DEF TalkTypes, Choose
<1>3. TalkTypes'
  BY <1>1, <1>2 DEF TalkTypes
<1>4. Prompting /\ Lobby /\ ~Asking /\ ~Telling /\ ~Answering /\ ~Leaving /\ ~InRoom
  BY <1>1 DEF Prompting, PlaceInv, TurnsInv, InRoom, Prompts
<1>5. Asking' /\ ~Prompting' /\ Lobby' /\ ~Telling' /\ ~Answering' /\ ~Leaving' /\ ~InRoom'
  <2>1. Asking'
    BY <1>2 DEF Asking
  <2> QED
    BY <1>1, <1>4, <2>1 DEF Prompting, Telling, Answering, Leaving, InRoom, Lobby
<1>6. /\ \A i \in 1..n : toServer[i].kind = "chat"
      /\ \A i \in 1..Len(toClient) : toClient[i].kind = "news"
      /\ answer.kind = "none"
  BY <1>2, <1>4, NoPktIs DEF Asking, Telling, Answering
<1>7. TurnsInv'
  BY <1>1, <1>2, <1>5, <1>6 DEF TurnsInv
<1>8. PlaceInv'
  BY <1>1, <1>2, <1>5, <1>6 DEF PlaceInv
<1>9. StateInv'
  BY <1>1, <1>4, <1>5 DEF StateInv
<1>10. ChatInv'
  <2>1. ASSUME NEW i \in 1..n PROVE ~InPlace(i) /\ (Left(i) => Left(i)')
    BY <1>1, <1>2, <1>4, <1>5, <1>6 DEF Left, InPlace
  <2>2. ASSUME NEW i \in 1..Len(toServer'), toServer'[i].kind = "chat"
        PROVE i \in 1..n /\ i \in 1..Len(toServer) /\ toServer'[i] = toServer[i]
    BY <1>2, <2>2
  <2> QED
    BY <1>1, <2>1, <2>2 DEF ChatInv
<1> QED
  BY <1>3, <1>7, <1>8, <1>9, <1>10

\* Answers become prompts, or let the client in.
LEMMA HandleKeeps ==
  ASSUME TalkInv, HandleLogin \/ HandleRefused \/ HandleEnter \/ HandleLeave
  PROVE  TalkInv'
<1> USE DEF TalkInv
<1>1. /\ main' = main /\ line' = line /\ state' = state /\ member' = member /\ answer' = answer
      /\ toServer' = toServer /\ overtaken' = overtaken /\ initLate' = initLate
  BY DEF HandleLogin, HandleRefused, HandleEnter, HandleLeave, Net
<1>2. PICK n \in Nat :
      /\ n = Len(toClient) /\ n > 0 /\ toClient' \in Seq(ToClient)
      /\ toClient[1] \in ToClient /\ toClient[1].kind \in {"login", "refused", "entered", "left"}
      /\ Len(toClient') = n - 1
      /\ \A i \in 1..n - 1 : toClient'[i] = toClient[i + 1]
  BY Heard DEF HandleLogin, HandleRefused, HandleEnter, HandleLeave, TalkTypes
<1>3. \/ toClient[1].kind = "login" /\ net' = "firstRoom" /\ roomId' = roomId
      \/ toClient[1].kind = "refused" /\ net' = "anyRoom" /\ roomId' = roomId
      \/ toClient[1].kind = "entered" /\ net' = "entering" /\ roomId' = toClient[1].room
      \/ toClient[1].kind = "left" /\ net' = "anyRoom" /\ roomId' = 0
  <2>1. Head(toClient) = toClient[1]
    OBVIOUS
  <2> QED
    BY <2>1 DEF HandleLogin, HandleRefused, HandleEnter, HandleLeave, Received, Net, NoRoom
<1>4. TalkTypes'
  <2>1. roomId' \in Rooms \cup {0} /\ net' \in {"entering"} \cup Prompts
    BY <1>2, <1>3 DEF TalkTypes, ToClient, Prompts
  <2> QED
    BY <1>1, <1>2, <2>1 DEF TalkTypes
<1>5. Telling /\ ~Prompting /\ ~Asking /\ ~Answering /\ ~Leaving /\ ~InRoom
  <2>1. Telling
    BY <1>2 DEF Telling
  <2> QED
    BY <2>1 DEF TurnsInv, InRoom
<1>6. /\ \A i \in 1..Len(toServer) : toServer[i].kind = "chat"
      /\ \A i \in 1..n - 1 : toClient'[i].kind = "news"
      /\ answer.kind = "none"
  <2>1. \A i \in 1..n - 1 : toClient[i + 1].kind = "news"
    BY <1>2 DEF TurnsInv
  <2> QED
    BY <1>2, <1>5, <2>1, NoPktIs DEF Asking, Answering
<1>7. ~Telling' /\ Prompting' /\ ~Asking' /\ ~Answering' /\ ~Leaving' /\ ~InRoom'
  BY <1>1, <1>2, <1>3, <1>5, <1>6 DEF Telling, Prompting, Asking, Answering, Leaving, InRoom
<1>8. TurnsInv'
  BY <1>1, <1>2, <1>6, <1>7 DEF TurnsInv
<1>9. IF net' = "entering" THEN There' ELSE Lobby'
  <2>1. /\ toClient[1].kind \in {"login", "refused"} => Lobby
        /\ toClient[1].kind = "left" => member = 0
        /\ toClient[1].kind = "entered" => member \in Rooms /\ toClient[1].room = member
    BY <1>2 DEF PlaceInv
  <2> QED
    BY <1>1, <1>3, <2>1 DEF There, Lobby
<1>10. PlaceInv'
  BY <1>1, <1>2, <1>6, <1>7, <1>9 DEF PlaceInv
<1>11. StateInv'
  BY <1>1, <1>5, <1>7 DEF StateInv
<1>12. ChatInv'
  <2>1. ASSUME NEW i PROVE ~InPlace(i) /\ (Left(i) => Left(i)')
    <3>1. Left(i) => net' = "anyRoom"
      BY <1>2, <1>3 DEF Left
    <3>2. Left(i) => Left(i)'
      BY <1>1, <1>2, <1>6, <1>7, <3>1 DEF Left
    <3> QED
      BY <1>5, <3>2 DEF InPlace
  <2> QED
    BY <1>1, <2>1 DEF ChatInv
<1> QED
  BY <1>4, <1>8, <1>10, <1>11, <1>12

\* News is nobody's turn.
LEMMA HandleNewsKeeps ==
  ASSUME TalkInv, HandleNews
  PROVE  TalkInv'
<1> USE DEF TalkInv
<1>1. /\ main' = main /\ line' = line /\ state' = state /\ roomId' = roomId /\ member' = member /\ answer' = answer
      /\ toServer' = toServer /\ overtaken' = overtaken /\ initLate' = initLate /\ net' = net
  BY DEF HandleNews, Net
<1>2. PICK n \in Nat :
      /\ n = Len(toClient) /\ n > 0 /\ toClient' \in Seq(ToClient)
      /\ toClient[1].kind = "news"
      /\ Len(toClient') = n - 1
      /\ \A i \in 1..n - 1 : toClient'[i] = toClient[i + 1]
  BY Heard DEF HandleNews, TalkTypes
<1>3. TalkTypes'
  BY <1>1, <1>2 DEF TalkTypes
<1>4. /\ \A i \in 1..n - 1 : i + 1 \in 1..n
      /\ \A i \in 1..n : i = 1 \/ (i - 1 \in 1..n - 1 /\ toClient'[i - 1] = toClient[i])
  BY <1>2
<1>5. /\ (Telling' <=> Telling) /\ (Prompting' <=> Prompting) /\ (Asking' <=> Asking)
      /\ (Answering' <=> Answering) /\ (Leaving' <=> Leaving) /\ (InRoom' <=> InRoom)
      /\ (There' <=> There) /\ (Lobby' <=> Lobby)
  <2>1. Telling => Telling'
    BY <1>2, <1>4 DEF Telling
  <2>2. Telling' => Telling
    BY <1>2, <1>4 DEF Telling
  <2> QED
    BY <1>1, <2>1, <2>2 DEF Prompting, Asking, Answering, Leaving, InRoom, There, Lobby
<1>6. TurnsInv'
  <2>1. ASSUME NEW i \in 1..n - 1, NEW j \in 1..n - 1, toClient'[i].kind # "news", toClient'[j].kind # "news"
        PROVE  i = j
    <3>1. toClient[i + 1].kind # "news" /\ toClient[j + 1].kind # "news"
      BY <1>2, <2>1
    <3>2. i + 1 = j + 1
      BY <1>2, <1>4, <3>1 DEF TurnsInv
    <3> QED
      BY <3>2
  <2> QED
    BY <1>1, <1>2, <1>5, <2>1 DEF TurnsInv
<1>7. PlaceInv'
  BY <1>1, <1>2, <1>4, <1>5 DEF PlaceInv
<1>8. StateInv'
  BY <1>1, <1>5 DEF StateInv
<1>9. ChatInv'
  <2>1. ASSUME NEW i PROVE (InPlace(i) => InPlace(i)') /\ (Left(i) => Left(i)')
    BY <1>1, <1>2, <1>4, <1>5 DEF Left, InPlace
  <2> QED
    BY <1>1, <2>1 DEF ChatInv
<1> QED
  BY <1>3, <1>6, <1>7, <1>8, <1>9

\* Requests become answers.
LEMMA ServeLoginKeeps ==
  ASSUME TalkInv, ServeLogin
  PROVE  TalkInv'
<1> USE DEF TalkInv
<1>1. /\ main' = main /\ line' = line /\ net' = net /\ state' = state /\ roomId' = roomId
      /\ member' = member /\ answer' = answer /\ overtaken' = overtaken /\ initLate' = initLate
  BY DEF ServeLogin, Asked, Serving
<1>2. PICK n \in Nat :
      /\ n = Len(toServer) /\ n > 0 /\ toServer' \in Seq(ToServer)
      /\ toServer[1].kind = "login"
      /\ Len(toServer') = n - 1
      /\ \A i \in 1..n - 1 : toServer'[i] = toServer[i + 1]
  BY Taken DEF ServeLogin, TalkTypes
<1>3. PICK m \in Nat :
      /\ m = Len(toClient) /\ toClient' \in Seq(ToClient)
      /\ Len(toClient') = m + 1
      /\ toClient'[m + 1].kind = "login"
      /\ \A i \in 1..m : toClient'[i] = toClient[i]
  <2>1. Pkt("login", 0, "") \in ToClient /\ Pkt("login", 0, "").kind = "login"
    BY DEF ToClient, Pkt, Texts
  <2> QED
    BY <2>1, Told DEF TalkTypes, ServeLogin
<1>4. TalkTypes'
  BY <1>1, <1>2, <1>3 DEF TalkTypes
<1>5. Asking /\ ~Prompting /\ ~Telling /\ ~Answering /\ ~Leaving /\ ~InRoom /\ Lobby
  <2>1. Asking /\ Lobby
    BY <1>2 DEF Asking, PlaceInv
  <2> QED
    BY <2>1 DEF TurnsInv, InRoom
<1>6. /\ \A i \in 1..n - 1 : toServer'[i].kind = "chat"
      /\ \A i \in 1..m : toClient'[i].kind = "news"
      /\ answer.kind = "none"
  <2>1. \A i \in 1..n - 1 : toServer[i + 1].kind = "chat"
    BY <1>2 DEF TurnsInv
  <2> QED
    BY <1>2, <1>3, <1>5, <2>1, NoPktIs DEF Telling, Answering
<1>7. Telling' /\ ~Prompting' /\ ~Asking' /\ ~Answering' /\ ~Leaving' /\ ~InRoom' /\ Lobby'
  <2>1. Telling' /\ ~Asking'
    BY <1>2, <1>3, <1>6 DEF Telling, Asking
  <2> QED
    BY <1>1, <1>5, <2>1 DEF Prompting, Answering, Leaving, InRoom, Lobby
<1>8. TurnsInv'
  BY <1>1, <1>2, <1>3, <1>6, <1>7 DEF TurnsInv
<1>9. PlaceInv'
  BY <1>1, <1>2, <1>3, <1>6, <1>7 DEF PlaceInv
<1>10. StateInv'
  BY <1>1, <1>5, <1>7 DEF StateInv
<1>11. ChatInv'
  <2>1. ASSUME NEW i \in 1..n - 1 PROVE ~InPlace(i + 1) /\ ~Left(i + 1)
    <3>1. 1 \in 1..Len(toServer) /\ toServer[1].kind = "login"
      BY <1>2
    <3> QED
      BY <3>1 DEF InPlace, Left
  <2>2. ~Left(n + 1)
    BY <1>2 DEF Left
  <2>3. ASSUME NEW i \in 1..n - 1, toServer[i + 1].kind = "chat" PROVE toServer[i + 1].text = "/exit" /\ overtaken
    BY <1>2, <2>1, <2>3 DEF ChatInv
  <2> QED
    BY <1>1, <1>2, <2>2, <2>3 DEF ChatInv
<1> QED
  BY <1>4, <1>8, <1>9, <1>10, <1>11

LEMMA ServeEnterKeeps ==
  ASSUME TalkInv, NEW full \in BOOLEAN, ServeEnter(full), ended' = "no"
  PROVE  TalkInv'
<1> USE DEF TalkInv
<1>1. /\ main' = main /\ line' = line /\ net' = net /\ state' = state /\ roomId' = roomId
      /\ toClient' = toClient /\ overtaken' = overtaken /\ initLate' = initLate
  BY DEF ServeEnter, Asked, Serving
<1>2. PICK n \in Nat :
      /\ n = Len(toServer) /\ n > 0 /\ toServer' \in Seq(ToServer)
      /\ toServer[1].kind = "enter" /\ toServer[1] \in ToServer /\ Head(toServer) = toServer[1]
      /\ Len(toServer') = n - 1
      /\ \A i \in 1..n - 1 : toServer'[i] = toServer[i + 1]
  BY Taken DEF ServeEnter, TalkTypes
<1>3. PICK r \in Rooms \cup {0} :
         \/ member' = member /\ answer' = Pkt("refused", 0, "")
         \/ r \in Rooms /\ member' = r /\ answer' = Pkt("entered", r, "")
  <2>1. toServer[1].room \in Rooms \cup {0}
    BY <1>2 DEF ToServer
  <2>2. \/ member' = member /\ answer' = Pkt("refused", 0, "")
        \/ /\ toServer[1].room \in Rooms /\ member' = toServer[1].room
           /\ answer' = Pkt("entered", toServer[1].room, "")
    BY <1>2 DEF ServeEnter
  <2> QED
    BY <2>1, <2>2
<1>4. TalkTypes'
  <2>1. answer' \in Answers /\ answer'.kind # "none"
    <3>1. CASE answer' = Pkt("refused", 0, "")
      BY <3>1 DEF Answers, Pkt, Texts
    <3>2. CASE answer' = Pkt("entered", r, "")
      BY <3>2 DEF Answers, Pkt, Texts
    <3> QED
      BY <1>3, <3>1, <3>2
  <2>2. member' \in Rooms \cup {0}
    BY <1>3 DEF TalkTypes
  <2> QED
    BY <1>1, <1>2, <2>1, <2>2 DEF TalkTypes
<1>5. Asking /\ ~Prompting /\ ~Telling /\ ~Answering /\ ~Leaving /\ ~InRoom /\ Lobby
  <2>1. Asking /\ Lobby
    BY <1>2 DEF Asking, PlaceInv
  <2> QED
    BY <2>1 DEF TurnsInv, InRoom
<1>6. /\ \A i \in 1..n - 1 : toServer'[i].kind = "chat"
      /\ \A i \in 1..Len(toClient) : toClient[i].kind = "news"
  <2>1. \A i \in 1..n - 1 : toServer[i + 1].kind = "chat"
    BY <1>2 DEF TurnsInv
  <2> QED
    BY <1>2, <1>5, <2>1 DEF Telling
<1>12. \/ answer'.kind = "refused" /\ Lobby'
       \/ answer'.kind = "entered" /\ member' \in Rooms /\ answer'.room = member'
  <2>1. CASE answer' = Pkt("refused", 0, "") /\ member' = member
    BY <1>1, <1>5, <2>1 DEF Lobby, Pkt
  <2>2. CASE answer' = Pkt("entered", r, "") /\ r \in Rooms /\ member' = r
    <3>1. answer'.kind = "entered" /\ answer'.room = r
      BY <2>2 DEF Pkt
    <3> QED
      BY <2>2, <3>1
  <2> QED
    BY <1>3, <2>1, <2>2
<1>7. Answering' /\ ~Telling' /\ ~Prompting' /\ ~Asking' /\ ~Leaving' /\ ~InRoom'
  <2>1. Answering' /\ ~Asking'
    BY <1>2, <1>12, <1>6, NoPktIs DEF Answering, Asking
  <2> QED
    BY <1>1, <1>5, <2>1 DEF Prompting, Telling, Leaving, InRoom
<1>8. TurnsInv'
  BY <1>1, <1>2, <1>6, <1>7 DEF TurnsInv
<1>9. PlaceInv'
  BY <1>1, <1>2, <1>6, <1>7, <1>12 DEF PlaceInv
<1>10. StateInv'
  BY <1>1, <1>5, <1>7 DEF StateInv
<1>11. ChatInv'
  <2>1. ASSUME NEW i \in 1..n - 1 PROVE ~InPlace(i + 1) /\ ~Left(i + 1)
    <3>1. 1 \in 1..Len(toServer) /\ toServer[1].kind = "enter"
      BY <1>2
    <3> QED
      BY <3>1 DEF InPlace, Left
  <2>2. ~Left(n + 1)
    BY <1>2 DEF Left
  <2>3. ASSUME NEW i \in 1..n - 1, toServer[i + 1].kind = "chat" PROVE toServer[i + 1].text = "/exit" /\ overtaken
    BY <1>2, <2>1, <2>3 DEF ChatInv
  <2>4. ASSUME NEW i \in 1..Len(toServer'), toServer'[i].kind = "chat"
        PROVE  toServer'[i].text = "/exit" /\ overtaken
    BY <1>2, <2>3, <2>4
  <2>5. main' = "say" /\ line'.text = "/exit" => overtaken'
    BY <1>1, <1>2, <2>2 DEF ChatInv
  <2> QED
    BY <1>1, <2>4, <2>5 DEF ChatInv
<1> QED
  BY <1>4, <1>8, <1>9, <1>10, <1>11

LEMMA ServeLeaveKeeps ==
  ASSUME TalkInv, ServeLeave
  PROVE  TalkInv'
<1>0. 0 \notin Rooms
  BY RoomsAssumption
<1> USE <1>0 DEF TalkInv
<1>1. /\ main' = main /\ line' = line /\ net' = net /\ state' = state /\ roomId' = roomId
      /\ toClient' = toClient /\ overtaken' = overtaken /\ initLate' = initLate
      /\ member' = 0 /\ answer' = IF member = 0 THEN NoPkt ELSE Pkt("left", 0, "")
  BY DEF ServeLeave, Asked, Serving, MemberLeft
<1>2. PICK n \in Nat :
      /\ n = Len(toServer) /\ n > 0 /\ toServer' \in Seq(ToServer)
      /\ toServer[1].kind = "leave"
      /\ Len(toServer') = n - 1
      /\ \A i \in 1..n - 1 : toServer'[i] = toServer[i + 1]
  BY Taken DEF ServeLeave, TalkTypes
<1>3. Asking /\ ~Prompting /\ ~Telling /\ ~Answering /\ ~Leaving /\ ~InRoom /\ There
  <2>1. Asking /\ There
    BY <1>2 DEF Asking, PlaceInv
  <2> QED
    BY <2>1 DEF TurnsInv, InRoom
<1>4. answer' = Pkt("left", 0, "") /\ answer'.kind = "left"
  <2>1. answer' = Pkt("left", 0, "")
    BY <1>1, <1>3 DEF There
  <2> QED
    BY <2>1 DEF Pkt
<1>5. TalkTypes'
  <2>1. answer' \in Answers
    BY <1>4 DEF Answers, Pkt, Texts
  <2> QED
    BY <1>1, <1>2, <1>4, <2>1 DEF TalkTypes
<1>6. /\ \A i \in 1..n - 1 : toServer'[i].kind = "chat"
      /\ \A i \in 1..Len(toClient) : toClient[i].kind = "news"
  <2>1. \A i \in 1..n - 1 : toServer[i + 1].kind = "chat"
    BY <1>2 DEF TurnsInv
  <2> QED
    BY <1>2, <1>3, <2>1 DEF Telling
<1>7. Answering' /\ ~Telling' /\ ~Prompting' /\ ~Asking' /\ ~Leaving' /\ ~InRoom'
  <2>1. Answering' /\ ~Asking'
    BY <1>2, <1>4, <1>6, NoPktIs DEF Answering, Asking
  <2> QED
    BY <1>1, <1>3, <2>1 DEF Prompting, Telling, Leaving, InRoom
<1>8. TurnsInv'
  BY <1>1, <1>2, <1>6, <1>7 DEF TurnsInv
<1>9. PlaceInv'
  BY <1>1, <1>2, <1>4, <1>6, <1>7 DEF PlaceInv
<1>10. StateInv'
  BY <1>1, <1>3, <1>7 DEF StateInv
<1>11. ChatInv'
  <2>1. ASSUME NEW i PROVE Left(i)'
    BY <1>1, <1>2, <1>4, <1>6, <1>7 DEF Left
  <2>2. ASSUME NEW i \in 1..n - 1 PROVE ~InPlace(i + 1)
    <3>1. 1 \in 1..Len(toServer) /\ ~(i + 1 < 1) /\ toServer[1].kind # "chat"
      BY <1>2
    <3> QED
      BY <3>1 DEF InPlace
  <2>3. ASSUME NEW i \in 1..n - 1 PROVE toServer'[i].text = "/exit"
    <3>1. i + 1 \in 1..n
      OBVIOUS
    <3>2. toServer'[i] = toServer[i + 1] /\ toServer'[i].kind = "chat"
      BY <1>2, <1>6
    <3> QED
      BY <1>2, <2>2, <3>1, <3>2 DEF ChatInv
  <2> QED
    BY <1>2, <2>1, <2>3 DEF ChatInv
<1> QED
  BY <1>5, <1>8, <1>9, <1>10, <1>11

\* A chat is nobody's turn either.
LEMMA ServeChatKeeps ==
  ASSUME TalkInv, ServeChat
  PROVE  TalkInv'
<1> USE DEF TalkInv
<1>1. /\ main' = main /\ line' = line /\ net' = net /\ state' = state /\ roomId' = roomId
      /\ member' = member /\ answer' = answer /\ overtaken' = overtaken /\ initLate' = initLate
  BY DEF ServeChat, Asked, Serving
<1>2. PICK n \in Nat :
      /\ n = Len(toServer) /\ n > 0 /\ toServer' \in Seq(ToServer)
      /\ toServer[1].kind = "chat" /\ toServer[1] \in ToServer /\ Head(toServer) = toServer[1]
      /\ Len(toServer') = n - 1
      /\ \A i \in 1..n - 1 : toServer'[i] = toServer[i + 1]
  BY Taken DEF ServeChat, TalkTypes
<1>3. PICK m \in Nat, k \in Nat :
      /\ m = Len(toClient) /\ toClient' \in Seq(ToClient)
      /\ Len(toClient') = k /\ k >= m
      /\ \A i \in m + 1..k : toClient'[i].kind = "news"
      /\ \A i \in 1..m : toClient'[i] = toClient[i]
  <2>1. CASE member = 0
    BY <2>1 DEF ServeChat, TalkTypes
  <2>2. CASE member # 0
    <3>1. Pkt("news", member, toServer[1].text) \in ToClient /\ Pkt("news", member, toServer[1].text).kind = "news"
      BY <1>2 DEF ToServer, ToClient, Pkt, TalkTypes
    <3>2. Tell(Pkt("news", member, toServer[1].text))
      BY <1>2, <2>2 DEF ServeChat
    <3> QED
      BY <3>1, <3>2, Told DEF TalkTypes
  <2> QED
    BY <2>1, <2>2
<1>4. TalkTypes'
  BY <1>1, <1>2, <1>3 DEF TalkTypes
<1>5. /\ \A i \in 1..n - 1 : i + 1 \in 1..n
      /\ \A i \in 1..n : i = 1 \/ (i - 1 \in 1..n - 1 /\ toServer'[i - 1] = toServer[i])
      /\ \A i \in 1..k : i \in 1..m \/ i \in m + 1..k
      /\ \A i \in 1..m : i \in 1..k
  BY <1>2, <1>3
<1>6. (Asking' <=> Asking) /\ (Telling' <=> Telling)
  <2>1. Asking => Asking'
    BY <1>2, <1>5 DEF Asking
  <2>2. Asking' => Asking
    BY <1>2, <1>5 DEF Asking
  <2>3. (Telling => Telling') /\ (Telling' => Telling)
    BY <1>3, <1>5 DEF Telling
  <2> QED
    BY <2>1, <2>2, <2>3
<1>7. /\ (Prompting' <=> Prompting) /\ (Answering' <=> Answering) /\ (Leaving' <=> Leaving)
      /\ (InRoom' <=> InRoom) /\ (There' <=> There) /\ (Lobby' <=> Lobby)
  BY <1>1, <1>6 DEF Prompting, Answering, Leaving, InRoom, There, Lobby
<1>8. TurnsInv'
  <2>1. ASSUME NEW i \in 1..n - 1, NEW j \in 1..n - 1, toServer'[i].kind # "chat", toServer'[j].kind # "chat"
        PROVE  i = j
    <3>1. toServer[i + 1].kind # "chat" /\ toServer[j + 1].kind # "chat"
      BY <1>2, <2>1
    <3>2. i + 1 = j + 1
      BY <1>2, <1>5, <3>1 DEF TurnsInv
    <3> QED
      BY <3>2
  <2>2. \A i, j \in 1..k : toClient'[i].kind # "news" /\ toClient'[j].kind # "news" => i = j
    BY <1>3, <1>5 DEF TurnsInv
  <2> QED
    BY <1>2, <1>3, <1>6, <1>7, <2>1, <2>2 DEF TurnsInv
<1>9. PlaceInv'
  <2>1. ASSUME NEW i \in 1..n - 1
        PROVE  /\ toServer'[i].kind \in {"login", "enter"} => Lobby'
               /\ toServer'[i].kind = "leave" => There'
    BY <1>2, <1>5, <1>7 DEF PlaceInv
  <2>2. ASSUME NEW i \in 1..k
        PROVE  /\ toClient'[i].kind \in {"login", "refused"} => Lobby'
               /\ toClient'[i].kind = "left" => member' = 0
               /\ toClient'[i].kind = "entered" => member' \in Rooms /\ toClient'[i].room = member'
    BY <1>1, <1>3, <1>5, <1>7 DEF PlaceInv
  <2> QED
    BY <1>1, <1>2, <1>3, <1>6, <1>7, <2>1, <2>2 DEF PlaceInv
<1>10. StateInv'
  BY <1>1, <1>7 DEF StateInv
<1>11. ChatInv'
  <2>1. ASSUME NEW i \in 1..n - 1 PROVE InPlace(i + 1) => InPlace(i)'
    <3>1. ASSUME InPlace(i + 1), NEW j \in 1..n - 1, toServer'[j].kind # "chat"
          PROVE  toServer'[j].kind = "leave" /\ i < j
      <4>1. j + 1 \in 1..Len(toServer) /\ toServer'[j] = toServer[j + 1]
        BY <1>2, <1>5
      <4>2. toServer[j + 1].kind = "leave" /\ i + 1 < j + 1
        BY <3>1, <4>1 DEF InPlace
      <4> QED
        BY <4>1, <4>2
    <3>2. InPlace(i + 1) => toServer'[i].room = member /\ member # 0 /\ ~Telling /\ ~Prompting /\ ~Answering
      BY <1>2, <1>5 DEF InPlace
    <3> QED
      BY <1>1, <1>2, <1>6, <1>7, <3>1, <3>2 DEF InPlace
  <2>2. ASSUME NEW i \in 1..n PROVE Left(i + 1) => Left(i)'
    <3>1. ASSUME Left(i + 1), NEW j \in 1..n - 1, toServer'[j].kind # "chat"
          PROVE  \/ toServer'[j].kind = "leave" /\ j < i
                 \/ toServer'[j].kind = "enter" /\ i < j
      <4>1. j + 1 \in 1..Len(toServer) /\ toServer'[j] = toServer[j + 1]
        BY <1>2, <1>5
      <4>2. \/ toServer[j + 1].kind = "leave" /\ j + 1 < i + 1
            \/ toServer[j + 1].kind = "enter" /\ i + 1 < j + 1
        BY <3>1, <4>1 DEF Left
      <4> QED
        BY <4>1, <4>2
    <3>2. ASSUME Left(i + 1), NEW j \in 1..k, toClient'[j].kind # "news" PROVE toClient'[j].kind = "left"
      BY <1>3, <1>5, <3>2 DEF Left
    <3> QED
      BY <1>1, <1>2, <1>3, <1>6, <1>7, <3>1, <3>2 DEF Left
  <2>3. ASSUME NEW i \in 1..n - 1, toServer'[i].kind = "chat"
        PROVE  IF toServer'[i].text = "/exit" THEN overtaken' \/ Left(i)' ELSE InPlace(i)'
    <3>1. i + 1 \in 1..Len(toServer) /\ toServer'[i] = toServer[i + 1] /\ i \in 1..n
      BY <1>2, <1>5
    <3>2. IF toServer[i + 1].text = "/exit" THEN overtaken \/ Left(i + 1) ELSE InPlace(i + 1)
      BY <2>3, <3>1 DEF ChatInv
    <3> QED
      BY <1>1, <2>1, <2>2, <3>1, <3>2
  <2>4. main' = "say" /\ line'.text = "/exit" => overtaken' \/ Left(n)'
    <3>1. main = "say" /\ line.text = "/exit" => overtaken \/ Left(n + 1)
      BY <1>2 DEF ChatInv
    <3>2. n \in 1..n
      BY <1>2
    <3> QED
      BY <1>1, <2>2, <3>1, <3>2
  <2>5. n = Len(toServer') + 1
    BY <1>2
  <2> QED
    BY <1>2, <2>3, <2>4, <2>5 DEF ChatInv
<1> QED
  BY <1>4, <1>8, <1>9, <1>10, <1>11

\* The answer is sent.
LEMMA RespondKeeps ==
  ASSUME TalkInv, Respond
  PROVE  TalkInv'
<1> USE DEF TalkInv
<1>1. /\ main' = main /\ line' = line /\ net' = net /\ state' = state /\ roomId' = roomId
      /\ member' = member /\ answer' = NoPkt /\ toServer' = toServer
      /\ overtaken' = overtaken /\ initLate' = initLate /\ Answering
  BY DEF Respond, Serving, Answering
<1>2. answer \in ToClient /\ answer.kind \in {"refused", "entered", "left"} /\ answer'.kind = "none"
  BY <1>1, NoPktIs DEF TalkTypes, Answering, Answers, ToClient
<1>3. PICK n \in Nat :
      /\ n = Len(toClient) /\ toClient' \in Seq(ToClient)
      /\ Len(toClient') = n + 1
      /\ toClient'[n + 1] = answer
      /\ \A i \in 1..n : toClient'[i] = toClient[i]
  BY <1>2, Told DEF TalkTypes, Respond
<1>4. TalkTypes'
  <2>1. answer' \in Answers
    BY <1>1 DEF NoPkt, Pkt, Answers, Texts
  <2> QED
    BY <1>1, <1>3, <2>1 DEF TalkTypes
<1>5. Answering /\ ~Asking /\ ~Prompting /\ ~Telling /\ ~Leaving /\ ~InRoom
  BY <1>1 DEF TurnsInv, InRoom
<1>6. /\ \A i \in 1..n : toClient'[i].kind = "news"
      /\ \A i \in 1..Len(toServer) : toServer[i].kind = "chat"
  BY <1>3, <1>5 DEF Telling, Asking
<1>7. Telling' /\ ~Answering' /\ ~Asking' /\ ~Prompting' /\ ~Leaving' /\ ~InRoom'
  <2>1. Telling'
    BY <1>2, <1>3 DEF Telling
  <2> QED
    BY <1>1, <1>5, <2>1 DEF Answering, Asking, Prompting, Leaving, InRoom
<1>8. TurnsInv'
  BY <1>1, <1>3, <1>6, <1>7 DEF TurnsInv
<1>9. PlaceInv'
  <2>1. /\ answer.kind = "refused" => Lobby'
        /\ answer.kind = "left" => member' = 0
        /\ answer.kind = "entered" => member' \in Rooms /\ answer.room = member'
    BY <1>1 DEF PlaceInv, Lobby
  <2>2. \A i \in 1..Len(toClient') : i \in 1..n \/ i = n + 1
    BY <1>3
  <2> QED
    BY <1>1, <1>2, <1>3, <1>6, <1>7, <2>1, <2>2 DEF PlaceInv
<1>10. StateInv'
  BY <1>1, <1>5, <1>7 DEF StateInv
<1>11. ChatInv'
  <2>1. ASSUME NEW i PROVE ~InPlace(i) /\ (Left(i) => Left(i)')
    <3>1. \A j \in 1..Len(toClient') : j \in 1..n \/ j = n + 1
      BY <1>3
    <3>2. Left(i) => answer.kind = "left"
      BY <1>2 DEF Left
    <3>3. Left(i) => Left(i)'
      BY <1>1, <1>2, <1>3, <1>6, <1>7, <3>1, <3>2 DEF Left
    <3> QED
      BY <1>5, <3>3 DEF InPlace
  <2> QED
    BY <1>1, <2>1 DEF ChatInv
<1> QED
  BY <1>4, <1>8, <1>9, <1>10, <1>11

LEMMA OtherBroadcastKeeps ==
  ASSUME TalkInv, OtherBroadcast
  PROVE  TalkInv'
<1> USE DEF TalkInv
<1>1. /\ main' = main /\ line' = line /\ net' = net /\ state' = state /\ roomId' = roomId
      /\ member' = member /\ answer' = answer /\ toServer' = toServer
      /\ overtaken' = overtaken /\ initLate' = initLate
  BY DEF OtherBroadcast, Serving
<1>2. PICK n \in Nat :
      /\ n = Len(toClient) /\ toClient' \in Seq(ToClient)
      /\ Len(toClient') = n + 1
      /\ toClient'[n + 1].kind = "news"
      /\ \A i \in 1..n : toClient'[i] = toClient[i]
  <2>1. Pkt("news", member, "") \in ToClient /\ Pkt("news", member, "").kind = "news"
    BY DEF TalkTypes, ToClient, Pkt, Texts
  <2> QED
    BY <2>1, Told DEF TalkTypes, OtherBroadcast
<1>3. TalkTypes'
  BY <1>1, <1>2 DEF TalkTypes
<1>4. \A i \in 1..Len(toClient') : i \in 1..n \/ (i = n + 1 /\ toClient'[i].kind = "news")
  BY <1>2
<1>5. Telling' <=> Telling
  <2>1. (Telling => Telling') /\ (Telling' => Telling)
    BY <1>2, <1>4 DEF Telling
  <2> QED
    BY <2>1
<1>6. /\ (Asking' <=> Asking) /\ (Prompting' <=> Prompting) /\ (Answering' <=> Answering)
      /\ (Leaving' <=> Leaving) /\ (InRoom' <=> InRoom) /\ (There' <=> There) /\ (Lobby' <=> Lobby)
  BY <1>1, <1>5 DEF Asking, Prompting, Answering, Leaving, InRoom, There, Lobby
<1>7. TurnsInv'
  BY <1>1, <1>2, <1>4, <1>5, <1>6 DEF TurnsInv
<1>8. PlaceInv'
  BY <1>1, <1>2, <1>4, <1>5, <1>6 DEF PlaceInv
<1>9. StateInv'
  BY <1>1, <1>6 DEF StateInv
<1>10. ChatInv'
  <2>1. ASSUME NEW i PROVE (InPlace(i) => InPlace(i)') /\ (Left(i) => Left(i)')
    BY <1>1, <1>2, <1>4, <1>5, <1>6 DEF Left, InPlace
  <2> QED
    BY <1>1, <2>1 DEF ChatInv
<1> QED
  BY <1>3, <1>7, <1>8, <1>9, <1>10

-----------------------------------------------------------------------------
(* The theorems.                                                              *)

\* The steps of the conversation, and those that end it.
LEMMA TalkKeeps ==
  ASSUME TalkInv, Next, ended' = "no"
  PROVE  TalkInv'
<1>1. ASSUME NEW here \in Prompts, NEW r \in Rooms, AnswerRoom(here, r) \/ UnreadRoom(here, r)
      PROVE  TalkInv'
  BY <1>1, ChooseKeeps DEF AnswerRoom, UnreadRoom
<1>2. ASSUME NEW here \in Prompts, NotANumberCs(here) PROVE TalkInv'
  BY <1>2, ChooseKeeps DEF NotANumberCs
<1>3. CASE MainThread
  BY <1>3, MainKeeps, LeaveRoomKeeps, SayKeeps DEF MainThread
<1>4. CASE NetThread
  BY <1>4, NetKeeps, HandleKeeps, HandleNewsKeeps, EnterRoomKeeps DEF NetThread
<1>5. CASE User
  BY <1>1, <1>2, <1>5, NetKeeps, EnterNameKeeps, ReadLineKeeps DEF User
<1>6. CASE Server
  BY <1>6, ServeLoginKeeps, ServeEnterKeeps, ServeLeaveKeeps, ServeChatKeeps, RespondKeeps DEF Server
<1>7. ~OnDisconnected
  BY DEF OnDisconnected
<1> QED
  BY <1>1, <1>3, <1>4, <1>5, <1>6, <1>7, OtherBroadcastKeeps DEF Next

\* Who reads a line is in a room, where the packets' thread asks for nothing.
LEMMA TalkApart == TalkInv => OneReader
<1> SUFFICES ASSUME TalkInv, MainReads PROVE ~NetAsks
  BY DEF OneReader
<1>1. ~Prompting
  BY DEF TalkInv, StateInv, InRoom, MainReads
<1> QED
  BY <1>1 DEF Prompting, NetAsks, Prompts

\* A chat that is broadcast was typed in the room, or is a late /exit.
LEMMA ChatInPlace ==
  ASSUME TalkInv, ServeChat, member # 0
  PROVE  LET p == Head(toServer) IN IF p.text = "/exit" THEN overtaken ELSE p.room = member
<1> USE DEF TalkInv
<1>1. /\ 1 \in 1..Len(toServer) /\ toServer[1].kind = "chat" /\ Head(toServer) = toServer[1]
      /\ \A j \in 1..Len(toServer) : ~(j < 1)
      /\ ~Answering
  BY Taken DEF ServeChat, Asked, TalkTypes, Answering
<1>2. IF toServer[1].text = "/exit" THEN overtaken \/ Left(1) ELSE InPlace(1)
  BY <1>1 DEF ChatInv
<1>3. ~Left(1)
  <2> SUFFICES ASSUME Left(1) PROVE FALSE
    OBVIOUS
  <2>1. ~Asking
    BY <1>1 DEF Left, Asking, PlaceInv, Lobby
  <2>2. ~Telling
    BY DEF Left, Telling, PlaceInv
  <2>3. ~Prompting
    BY DEF Left, PlaceInv, Lobby
  <2> QED
    BY <1>1, <2>1, <2>2, <2>3 DEF Left, InRoom
<1> QED
  BY <1>1, <1>2, <1>3 DEF InPlace

LEMMA SaidStep ==
  ASSUME SaidWhereTyped, TalkInv, Next
  PROVE  SaidWhereTyped'
<1>1. CASE ServeChat /\ member # 0
  <2> DEFINE p == Head(toServer)
             x == [text |-> p.text, typed |-> p.room, heard |-> member]
  <2>1. said' = said \cup {x} /\ overtaken' = overtaken
    BY <1>1 DEF ServeChat, Asked, Serving
  <2>2. IF x.text = "/exit" THEN overtaken ELSE x.typed = x.heard
    BY <1>1, ChatInPlace
  <2> HIDE DEF x
  <2> QED
    BY <2>1, <2>2 DEF SaidWhereTyped
<1>2. CASE ~(ServeChat /\ member # 0)
  <2>1. said' = said
    <3>1. CASE MainThread
      BY <3>1 DEF MainThread, InitManagers, Update, LeaveRoom, Say, Main
    <3>2. CASE NetThread
      BY <3>2 DEF NetThread, OnConnected, HandleLogin, HandleRefused, HandleEnter, EnterRoom, HandleLeave,
         HandleNews, StoreAccount, Net
    <3>3. CASE User
      BY <3>3 DEF User, EnterName, ReadLine, AnswerRoom, NotANumberCs, NotANumberCpp, Choose, Main, Net
    <3>4. CASE Server
      BY <1>2, <3>4 DEF Server, ServeLogin, ServeEnter, ServeLeave, ServeChat, Respond, Asked, Serving
    <3>5. CASE OtherBroadcast \/ OnDisconnected
      BY <3>5 DEF OtherBroadcast, OnDisconnected, Serving
    <3>6. ASSUME NEW here \in Prompts, NEW r \in Rooms, UnreadRoom(here, r) PROVE said' = said
      BY <3>6 DEF UnreadRoom, Choose, Net
    <3> QED
      BY <3>1, <3>2, <3>3, <3>4, <3>5, <3>6 DEF Next
  <2>2. overtaken => overtaken'
    <3>1. ASSUME NEW here, NEW r, Choose(here, r) PROVE overtaken => overtaken'
      BY <3>1, Zenon DEF Choose
    <3>2. \/ overtaken' = overtaken
          \/ \E here \in Prompts, r \in Rooms \cup {0} : Choose(here, r)
      <4>1. CASE MainThread
        BY <4>1 DEF MainThread, InitManagers, Update, LeaveRoom, Say, Main
      <4>2. CASE NetThread
        BY <4>2 DEF NetThread, OnConnected, HandleLogin, HandleRefused, HandleEnter, EnterRoom, HandleLeave,
           HandleNews, StoreAccount, Net
      <4>3. CASE User
        BY <4>3 DEF User, EnterName, ReadLine, AnswerRoom, NotANumberCs, NotANumberCpp, Main
      <4>4. CASE Server
        BY <4>4 DEF Server, ServeLogin, ServeEnter, ServeLeave, ServeChat, Respond, Asked, Serving
      <4>5. CASE OtherBroadcast \/ OnDisconnected
        BY <4>5 DEF OtherBroadcast, OnDisconnected, Serving
      <4> QED
        BY <4>1, <4>2, <4>3, <4>4, <4>5 DEF Next, UnreadRoom
    <3> QED
      BY <3>1, <3>2, Zenon
  <2> QED
    BY <2>1, <2>2 DEF SaidWhereTyped
<1> QED
  BY <1>1, <1>2

\* Nothing happens after the end, and a step that ends the conversation moves
\* neither thread to the console.
LEMMA Ending ==
  ASSUME Next
  PROVE  ended = "no" /\ (ended' # "no" => main' = main /\ (net' = net \/ net' = "idle"))
<1>1. CASE MainThread
  BY <1>1 DEF MainThread, InitManagers, Update, LeaveRoom, Say, Main
<1>2. CASE NetThread
  BY <1>2 DEF NetThread, OnConnected, HandleLogin, HandleRefused, HandleEnter, EnterRoom, HandleLeave,
     HandleNews, StoreAccount, Net
<1>3. CASE User
  BY <1>3 DEF User, EnterName, ReadLine, AnswerRoom, NotANumberCs, NotANumberCpp, Choose, Main, Net
<1>4. CASE Server
  BY <1>4 DEF Server, ServeLogin, ServeEnter, ServeLeave, ServeChat, Respond, Asked, Serving
<1>5. CASE OtherBroadcast \/ OnDisconnected
  BY <1>5 DEF OtherBroadcast, OnDisconnected, Serving
<1>6. ASSUME NEW here \in Prompts, NEW r \in Rooms, UnreadRoom(here, r)
      PROVE  ended = "no" /\ ended' = "no"
  BY <1>6 DEF UnreadRoom, Choose, Net
<1> QED
  BY <1>1, <1>2, <1>3, <1>4, <1>5, <1>6 DEF Next

LEMMA ClientInit == Init => ClientInv
  BY TalkBegins DEF Init, ClientInv, SaidWhereTyped

LEMMA ClientStep ==
  ASSUME ClientInv, [Next]_vars
  PROVE  ClientInv'
<1>1. CASE UNCHANGED vars
  <2>1. /\ main' = main /\ line' = line /\ net' = net /\ state' = state /\ roomId' = roomId /\ member' = member
        /\ answer' = answer /\ toServer' = toServer /\ toClient' = toClient /\ said' = said
        /\ overtaken' = overtaken /\ initLate' = initLate /\ ended' = ended
    BY <1>1 DEF vars
  <2>2. SaidWhereTyped' <=> SaidWhereTyped
    BY <2>1 DEF SaidWhereTyped
  <2>3. OneReader' <=> OneReader
    BY <2>1 DEF OneReader, NetAsks, MainReads
  <2>4. TalkInv' <=> TalkInv
    BY <2>1 DEF TalkInv, TalkTypes, TurnsInv, PlaceInv, StateInv, ChatInv, Asking, Telling, Prompting, Answering,
       Leaving, InRoom, Lobby, There, InPlace, Left
  <2> QED
    BY <2>1, <2>2, <2>3, <2>4 DEF ClientInv
<1>2. CASE Next
  <2>1. TalkInv /\ SaidWhereTyped
    BY <1>2, Ending DEF ClientInv
  <2>2. SaidWhereTyped'
    BY <1>2, <2>1, SaidStep
  <2>3. ended' = "no" => TalkInv'
    BY <1>2, <2>1, TalkKeeps
  <2>4. ended' # "no" => OneReader'
    <3>1. OneReader
      BY <2>1, TalkApart
    <3> QED
      BY <1>2, <3>1, Ending DEF OneReader, NetAsks, MainReads, Prompts
  <2> QED
    BY <2>2, <2>3, <2>4 DEF ClientInv
<1> QED
  BY <1>1, <1>2

LEMMA ClientInvariance == Spec => []ClientInv
<1>1. ClientInv /\ [Next]_vars => ClientInv'
  BY ClientStep
<1> QED
  BY <1>1, ClientInit, PTL DEF Spec

\* The two threads of a console client never read the console at once: whose
\* turn it is follows from the one question or answer that is under way.
THEOREM ReadersTakeTurns == Spec => []OneReader
<1>1. ClientInv => OneReader
  BY TalkApart DEF ClientInv
<1> QED
  BY <1>1, ClientInvariance, PTL

\* When nothing is under way the client shows the room the server has it in,
\* unless Init put it back into the lobby.
THEOREM SameRoom == Spec => []RoomsAgree
<1>1. ClientInv => RoomsAgree
  <2> SUFFICES ASSUME ClientInv, ended = "no", toServer = <<>>, toClient = <<>>, answer = NoPkt,
                      net # "entering", main \notin {"leave", "say"}
               PROVE  roomId = member /\ (initLate \/ (state = "room") = (member # 0))
    BY DEF RoomsAgree
  <2>1. ~Asking /\ ~Telling /\ ~Answering /\ ~Leaving
    BY EmptyIs DEF Asking, Telling, Answering, Leaving
  <2>2. CASE Prompting
    BY <2>2 DEF ClientInv, TalkInv, PlaceInv, StateInv, Lobby, InRoom
  <2>3. CASE ~Prompting
    <3>1. InRoom
      BY <2>1, <2>3 DEF InRoom
    <3> QED
      BY <3>1, RoomsAssumption DEF ClientInv, TalkInv, PlaceInv, StateInv, There
  <2> QED
    BY <2>2, <2>3
<1> QED
  BY <1>1, ClientInvariance, PTL

\* A line is said in the room it was typed in, and /exit nowhere, unless the
\* next room was chosen before it was sent.
THEOREM ChatsWhereTyped == Spec => []SaidWhereTyped
<1>1. ClientInv => SaidWhereTyped
  BY DEF ClientInv
<1> QED
  BY <1>1, ClientInvariance, PTL

-----------------------------------------------------------------------------
(* The C# session: its inductive invariant.                                   *)

ThreadsOK ==
    /\ lock \in Threads \cup {None}
    /\ pc \in [Threads -> {"idle", "register", "gather"}]

DataOK ==
    /\ queue \in Seq(Msgs) /\ pending \in Seq(Msgs) /\ sent \in Seq(Msgs)
    /\ disconnected \in BOOLEAN /\ socket \in BOOLEAN
    /\ dropped \in BOOLEAN /\ threw \in BOOLEAN

\* RegisterSend runs under the lock.
LockInv == \A t \in Threads : pc[t] # "idle" <=> lock = t

\* Only Disconnect is after its exchange.
ClosingInv == receiver \in {"remove", "shutdown", "clear"} => disconnected

\* Who is about to gather finds nothing pending, something queued, and, having
\* found the session alive, no SendAsync under way.
GatherInv ==
    /\ lock # None => pending = <<>> /\ queue # <<>>
    /\ (\E t \in Threads : pc[t] = "gather") => writes = {}

\* An empty list in a live session says that no SendAsync is under way.
PendingInv == ~disconnected /\ pending = <<>> => writes = {}

CsInv ==
    /\ ThreadsOK /\ DataOK /\ LockInv /\ ClosingInv /\ GatherInv /\ PendingInv
    /\ WritesInTurn

USE DEF Threads, Step, Receive, closeVars, sendVars, NonePending, Dequeued, Again, NoBytes

\* Appending leaves nothing empty.
LEMMA AppendedIsNotEmpty ==
  ASSUME NEW S, NEW q \in Seq(S), NEW e \in S
  PROVE  Append(q, e) \in Seq(S) /\ Append(q, e) # <<>>
<1>1. Append(q, e) \in Seq(S) /\ Len(Append(q, e)) = Len(q) + 1 /\ Len(q) \in Nat
  OBVIOUS
<1> QED
  BY <1>1

\* Gathering into an empty list takes the queue as it is.
LEMMA GatheredIsQueue ==
  ASSUME NEW q \in Seq(Msgs)
  PROVE  <<>> \o q = q
  OBVIOUS

LEMMA ConcatIsSeq ==
  ASSUME NEW p \in Seq(Msgs), NEW q \in Seq(Msgs)
  PROVE  p \o q \in Seq(Msgs)
  OBVIOUS

LEMMA CsStarts == CsInit => CsInv
<1> SUFFICES ASSUME CsInit PROVE CsInv
  OBVIOUS
<1>1. ThreadsOK /\ LockInv /\ ClosingInv
  BY NamesAssumption DEF CsInit, ThreadsOK, LockInv, ClosingInv
<1>2. DataOK
  <2>1. <<>> \in Seq(Msgs)
    OBVIOUS
  <2>2. disconnected \in BOOLEAN /\ socket \in BOOLEAN /\ dropped \in BOOLEAN /\ threw \in BOOLEAN
    BY Zenon DEF CsInit
  <2> QED
    BY <2>1, <2>2, Zenon DEF CsInit, DataOK
<1>3. GatherInv /\ PendingInv /\ WritesInTurn
  BY DEF CsInit, GatherInv, PendingInv, WritesInTurn
<1> QED
  BY <1>1, <1>2, <1>3 DEF CsInv

-----------------------------------------------------------------------------
(* One lemma for each group of steps.                                         *)

LEMMA SendKeeps ==
  ASSUME CsInv, NEW t \in Senders, NEW m \in Msgs, Send(t, m)
  PROVE  CsInv'
<1> USE DEF CsInv, Send, ThreadsOK, DataOK
<1>1. queue' \in Seq(Msgs) /\ queue' # <<>>
  BY AppendedIsNotEmpty
<1>2. ThreadsOK' /\ DataOK' /\ LockInv' /\ ClosingInv'
  BY <1>1, NamesAssumption DEF LockInv, ClosingInv
<1>3. GatherInv'
  BY <1>1, NamesAssumption DEF LockInv, GatherInv
<1>4. PendingInv' /\ WritesInTurn'
  BY DEF PendingInv, WritesInTurn
<1> QED
  BY <1>2, <1>3, <1>4

LEMMA RegisteringKeeps ==
  ASSUME CsInv, NEW t \in Threads, SendOff(t) \/ Alive(t) \/ SendAsync(t) \/ SendThrows(t)
  PROVE  CsInv'
<1> USE DEF CsInv, ThreadsOK, DataOK
<1>1. lock = t /\ pending = <<>> /\ queue # <<>>
  BY NamesAssumption DEF LockInv, GatherInv, SendOff, Alive, SendAsync, SendThrows
<1>2. CASE SendOff(t)
  BY <1>1, <1>2, NamesAssumption DEF SendOff, LockInv, ClosingInv, GatherInv, PendingInv, WritesInTurn
<1>3. CASE Alive(t)
  BY <1>1, <1>3, NamesAssumption DEF Alive, LockInv, ClosingInv, GatherInv, PendingInv, WritesInTurn
<1>4. CASE SendAsync(t) \/ SendThrows(t)
  <2>1. writes = {} /\ \A u \in Threads : pc'[u] = "idle"
    BY <1>1, <1>4 DEF SendAsync, SendThrows, GatherInv, LockInv
  <2>2. pending' = queue /\ queue' = <<>> /\ lock' = None
    BY <1>1, <1>4, GatheredIsQueue DEF SendAsync, SendThrows
  <2>3. ThreadsOK' /\ ClosingInv'
    BY <1>4, <2>2 DEF SendAsync, SendThrows, ClosingInv
  <2>4. sent \o queue \in Seq(Msgs)
    BY ConcatIsSeq
  <2>5. DataOK'
    <3>1. queue' \in Seq(Msgs) /\ pending' \in Seq(Msgs)
      BY <2>2
    <3>2. sent' \in Seq(Msgs)
      BY <1>1, <1>4, <2>2, <2>4 DEF SendAsync, SendThrows
    <3>3. disconnected' \in BOOLEAN /\ socket' \in BOOLEAN /\ dropped' \in BOOLEAN /\ threw' \in BOOLEAN
      BY <1>4, Zenon DEF SendAsync, SendThrows
    <3> QED
      BY <3>1, <3>2, <3>3
  <2>6. LockInv' /\ GatherInv'
    BY <2>1, <2>2, NamesAssumption DEF LockInv, GatherInv
  <2>7. PendingInv'
    BY <1>1, <1>4, <2>2 DEF SendAsync, SendThrows, PendingInv
  <2>8. WritesInTurn'
    BY <1>1, <1>4, <2>1, <2>2 DEF SendAsync, SendThrows, WritesInTurn
  <2> QED
    BY <2>3, <2>5, <2>6, <2>7, <2>8
<1> QED
  BY <1>2, <1>3, <1>4

LEMMA CompletingKeeps ==
  ASSUME CsInv, NEW w \in writes, OnSendCompleted(w) \/ AwaitThrows(w)
  PROVE  CsInv'
<1> USE DEF CsInv, ThreadsOK, DataOK
<1>1. writes' = {}
  BY DEF OnSendCompleted, AwaitThrows, WritesInTurn
<1>2. CASE OnSendCompleted(w)
  <2>1. ThreadsOK' /\ LockInv'
    BY <1>2, NamesAssumption DEF OnSendCompleted, LockInv
  <2>2. DataOK' /\ ClosingInv'
    BY <1>2 DEF OnSendCompleted, ClosingInv
  <2> QED
    BY <1>1, <1>2, <2>1, <2>2, NamesAssumption DEF OnSendCompleted, GatherInv, PendingInv, WritesInTurn
<1>3. CASE AwaitThrows(w)
  BY <1>1, <1>3 DEF AwaitThrows, LockInv, ClosingInv, GatherInv, PendingInv, WritesInTurn
<1> QED
  BY <1>2, <1>3

LEMMA ReceivingKeeps ==
  ASSUME CsInv, Start \/ Add \/ OnRecv \/ Receiving \/ PeerEnds
  PROVE  CsInv'
<1> USE DEF CsInv, ThreadsOK, DataOK
<1>1. CASE Clear
  <2>1. \A t \in Threads : pc'[t] = "idle"
    BY <1>1, NamesAssumption DEF Clear, LockInv
  <2>2. disconnected /\ disconnected' = disconnected
    BY <1>1 DEF Clear, ClosingInv
  <2> QED
    BY <1>1, <2>1, <2>2 DEF Clear, LockInv, ClosingInv, GatherInv, PendingInv, WritesInTurn
<1>2. CASE Disconnect
  BY <1>2 DEF Disconnect, LockInv, ClosingInv, GatherInv, PendingInv, WritesInTurn
<1>3. CASE RegisterRecv \/ OnRecvClosed \/ ReceiveThrows \/ Remove \/ Shutdown \/ ShutdownThrows
  BY <1>3 DEF RegisterRecv, OnRecvClosed, ReceiveThrows, Remove, Shutdown, ShutdownThrows,
     LockInv, ClosingInv, GatherInv, PendingInv, WritesInTurn
<1>4. CASE Start \/ Add \/ OnRecv \/ PeerEnds
  BY <1>4 DEF Start, Add, OnRecv, PeerEnds, LockInv, ClosingInv, GatherInv, PendingInv,
     WritesInTurn
<1> QED
  BY <1>1, <1>2, <1>3, <1>4 DEF Receiving

LEMMA CsStep == CsInv /\ [CsNext]_csVars => CsInv'
<1> SUFFICES ASSUME CsInv, [CsNext]_csVars PROVE CsInv'
  OBVIOUS
<1>1. CASE UNCHANGED csVars
  BY <1>1 DEF csVars, CsInv, ThreadsOK, DataOK, LockInv, ClosingInv, GatherInv, PendingInv, WritesInTurn
<1> QED
  BY <1>1, SendKeeps, RegisteringKeeps, CompletingKeeps, ReceivingKeeps DEF CsNext, Registering, Completing

LEMMA CsInvariance == CsSpec => []CsInv
  BY CsStarts, CsStep, PTL DEF CsSpec

\* However its two threads, the completions and the disconnect interleave, the
\* session has at most one SendAsync under way, with what is pending.
THEOREM SendsInTurn == CsSpec => []WritesInTurn
<1>1. CsInv => WritesInTurn
  BY DEF CsInv
<1> QED
  BY <1>1, CsInvariance, PTL

-----------------------------------------------------------------------------
(* The channel.                                                               *)

\* All of a sequence, and what is left after it.
LEMMA WholeSeq ==
  ASSUME NEW q \in Seq(Msgs), q # <<>>
  PROVE  /\ Len(q) \in 1..Len(q)
         /\ SubSeq(q, 1, Len(q)) = q
         /\ SubSeq(q, Len(q) + 1, Len(q)) = <<>>
  OBVIOUS

LEMMA StepRefines ==
  ASSUME CsInv, [CsNext]_csVars
  PROVE  [Channel!Next]_(Channel!vars)
<1> USE DEF CsInv, DataOK
<1>1. ASSUME NEW t \in Senders, NEW m \in Msgs, Send(t, m) PROVE Channel!Next
  <2>1. Channel!Accept(m)
    BY <1>1 DEF Send, Channel!Accept
  <2> QED
    BY <2>1 DEF Channel!Next
<1>2. ASSUME NEW t \in Threads, SendAsync(t) \/ SendThrows(t) PROVE Channel!Next
  <2>1. pending = <<>> /\ queue # <<>>
    BY <1>2, NamesAssumption DEF SendAsync, SendThrows, LockInv, GatherInv
  <2>2. pending' = queue /\ queue' = <<>>
    BY <1>2, <2>1, GatheredIsQueue DEF SendAsync, SendThrows
  <2>3. CASE SendAsync(t)
    <3>1. Channel!Transmit(Len(queue))
      BY <2>1, <2>2, <2>3, WholeSeq DEF SendAsync, Channel!Transmit
    <3> QED
      BY <2>1, <3>1, WholeSeq DEF Channel!Next
  <2>4. CASE SendThrows(t)
    <3>1. Channel!Lose(Len(queue))
      BY <2>1, <2>2, <2>4, WholeSeq DEF SendThrows, Channel!Lose
    <3> QED
      BY <2>1, <3>1, WholeSeq DEF Channel!Next
  <2> QED
    BY <1>2, <2>3, <2>4
<1>3. CASE Clear
  <2>1. CASE queue = <<>>
    BY <1>3, <2>1 DEF Clear, Channel!vars
  <2>2. CASE queue # <<>>
    <3>1. Channel!Lose(Len(queue))
      BY <1>3, <2>2, WholeSeq DEF Clear, Channel!Lose
    <3> QED
      BY <2>2, <3>1, WholeSeq DEF Channel!Next
  <2> QED
    BY <2>1, <2>2
<1>4. CASE Shutdown
  BY <1>4 DEF Shutdown, Channel!Close, Channel!Next
<1>5. ASSUME NEW t \in Threads, SendOff(t) \/ Alive(t) PROVE UNCHANGED Channel!vars
  BY <1>5 DEF SendOff, Alive, Channel!vars
<1>6. CASE Completing
  BY <1>6 DEF Completing, OnSendCompleted, AwaitThrows, Channel!vars
<1>7. CASE \/ RegisterRecv \/ OnRecvClosed \/ ReceiveThrows \/ Disconnect \/ Remove \/ ShutdownThrows
           \/ Start \/ Add \/ OnRecv \/ PeerEnds \/ UNCHANGED csVars
  BY <1>7 DEF RegisterRecv, OnRecvClosed, ReceiveThrows, Disconnect, Remove, ShutdownThrows,
     Start, Add, OnRecv, PeerEnds, csVars, Channel!vars
<1> QED
  BY <1>1, <1>2, <1>3, <1>4, <1>5, <1>6, <1>7 DEF CsNext, Registering, Receiving

\* The C# client's Send delivers as the abstract channel promises: in order,
\* without duplicates, losing only what an exception or a disconnect gave up.
THEOREM SendRefinesChannel == CsSpec => ImplementsChannel
<1>1. CsInit => Channel!Init
  BY DEF CsInit, Channel!Init
<1>2. CsInv /\ [CsNext]_csVars => [Channel!Next]_(Channel!vars)
  BY StepRefines
<1> QED
  BY <1>1, <1>2, CsInvariance, PTL DEF CsSpec, ImplementsChannel, Channel!Spec
=============================================================================
