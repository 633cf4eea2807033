# Chat_IOCP in TLA+

A verification development for the chat server: TLA+ models of its core, TLC
configurations that explore them on small instances, and TLAPS proofs of what
matters for any number of threads and messages.

## 1. The system

The program is a Windows chat server on I/O completion ports. `ServerCore` is a
small networking library (sessions, an accept loop, locks, buffers, memory
pools, ODBC); `Server` is the chat application on top of it; `DummyClient` (C++)
and `CSDummyClient` (C#) are console clients. Five worker threads
(`Server/Server.cpp:48`) loop on `IocpCore::Dispatch`; whatever a completion
causes (packet handlers, broadcasts, disconnects) runs on the worker that took it.

| Component | State | Operations | Interacts with | Hard part |
|---|---|---|---|---|
| Session (`ServerCore/Session.cpp`) | `_connected`, socket, `_sendQueue`, `_sendRegistered`, the send and receive events (`owner`, `sendBuffers`), `_recvBuffer` | `Send`, `RegisterSend`, `ProcessSend`, `RegisterRecv`, `ProcessRecv`, `ProcessConnect`, `Disconnect` | called by every worker; completions through IocpCore; `OnDisconnected` into rooms; the Service's set | only `_sendQueue` is under the lock: the events are protected by a protocol on `_sendRegistered` |
| IocpCore, IocpEvent | the port, the event's `owner` | `Register`, `Dispatch` | Session, Listener | the OVERLAPPED must outlive the operation; failed completions are dispatched like others |
| Listener, Service | accept events with their next session, the set of sessions | `StartAccept`, `RegisterAccept`, `ProcessAccept`, `CreateSession`, `AddSession`, `ReleaseSession` | Session, the port | every failure must register the event again; a retry is a recursion |
| Lock | `_lockFlag`, `_writeCount` | `WriteLock`, `WriteUnlock`, `ReadLock`, `ReadUnlock` | everything with `WRITE_LOCK` | recursion, a plain counter beside an atomic word, spin timeout that ends the process |
| DeadLockProfiler | graph of lock classes, per-thread stack | `PushLock`, `PopLock`, `Dfs` | Lock, in debug builds | cycle detection |
| RecvBuffer, PacketSession | cursors; framing loop | `Clean`, `OnWrite`, `OnRead`, `OnRecv` | Session | compaction, partial packets |
| SendBuffer pool | chunks, the thread's open chunk, free list | `Open`, `Close`, `Pop`, `PushGlobal` | every handler; Session's queue holds the buffers | recycling by the last reference on any thread |
| DB connections | pool, each connection's ODBC statement: bindings, cursor | `Connect`, `Pop`, `Push`, `DBBind`, `Execute`, `Fetch` | login handler | an empty pool; a statement still bound to the locals of its last user |
| Packet handlers, players, rooms | `MyPlayer`, `roomId`, `ownerSession`, each room's players, the sessions logged in, the id generator, the table `Player` | `Handle_C_LOGIN`, `_ENTER_GAME`, `_LEAVE_GAME`, `_CHAT`, `OnDisconnected`, `Room::Enter/Leave/Broadcast/FillRoomInfo` | Session::Send under the room's lock | check-then-act across locks, disconnect during a handler |
| Clients (C++ and C#) | `MyPlayer`'s state and room, the console, `cin`'s failure | main loop, packet handlers | the server's packets | two threads on one console with nothing between them; input of any kind |
| The C# client's network (`CSDummyClient/Network`) | `_sendQueue`, `_pendingList`, `_disconnected`, socket | `Send`, `RegisterSend`, `OnSendCompleted`, receive loop, `Disconnect` | SessionManager | exceptions in continuations nobody awaits |
| Memory, ThreadManager, start-up, wrappers, generators, protobuf | - | - | - | not modelled, see section 6 |

What makes each correct: a session uses each of its two events from one thread
at a time, keeps alive what the kernel reads, sends in order, forgets no
wake-up, always listens, and is torn down once; the listener loses no accept
event and fills no socket twice; a lock excludes and every
release reaches the waiters; buffers never overlap and are not reset while
somebody may still send them; the framing loop yields the packets the peer
wrote; a query works on the locals of the handler that runs it; one name is one account, one
account is logged in once; a room's members and roster agree with what players and clients
believe; a client and its server agree on the room and its user always has the
console. `PROJECT.json` lists each hazard at the line where it bites.

## 2. The modules

| Module | Models | Used by |
|---|---|---|
| `FifoChannel` | what `Send` promises: in order, at most once, drops only after a failure, nothing after close | refined by `Session` and `CsSession` |
| `Session` | one session: connect, receive loop, send path, teardown | run `session`, `SessionProofs` |
| `SessionProofs` | inductive invariant of `Session`, the theorems it gives, and that `Session` implements `FifoChannel` | |
| `Listener` | the accept loop and the lifetime of session objects | run `listener`, `ListenerProofs` |
| `Lock` | the recursive read/write spin lock | `MCLock`, `LockProofs` |
| `DeadLockProfiler` | the debug builds' lock profiler over the locks it watches | `MCDeadLockProfiler`, `LockProofs` |
| `SendBufferPool` | chunks, slices, recycling | `MCSendBufferPool`, `SendBufferPoolProofs` |
| `PacketStream` | RecvBuffer and the framing loop, for both clients and the server | `MCPacketStream`, `PacketStreamProofs` |
| `Login` | Handle_C_LOGIN, the account table, the DB pool and its statements, the session manager | `MCLogin`, `LoginProofs` |
| `Rooms` | enter, leave, chat, disconnect; rosters and chats on the clients' screens | `MCRooms`, `RoomsProofs` |
| `Client` | a client's two threads and its conversation with the server | run `client`, `ClientProofs` |
| `CsSession` | the C# client's sends, receive loop and disconnect | run `cs_session`, `ClientProofs` |
| `MC...` | instances that need definitions of their own; the others are a cfg alone | |

The modules meet at what one promises and the next relies on. `Login`, `Rooms`, `Client` and
`PacketStream` run the packets of one session one after another, because of
`Session!ReceiveExclusive`; `Rooms` has one disconnecting thread per session
because of `Session!TearDownOnce`, and applies a packet to the client's screen
when it is pushed because `Session` implements `FifoChannel`: what is sent to one
client arrives in the order of the pushes. `Client` has a FIFO in each direction for the
same reason. `Session` starts where `Listener` ends, with a socket that is its own
(`Listener!SessionsOwned`). `Session` and `Rooms` take a `WRITE_LOCK`
as the exclusion that `Lock` provides.

### Session

`Threads` are the workers. `pc[t]` names the statement of `Session.cpp` the
thread is at and a step is one access to state that threads share: for example
`SendPush` and `SendExchange` are lines 27 and 29, done while `lock = t`.
`Begin(t)` is what an idle worker takes up: a completion the kernel has queued
(`connectOps`, `sendOps`, `recvOps` count the outstanding operations) or, in the
role of the handler of another session (a broadcast), a call of `Send`. Session
callbacks (`OnConnected`, `OnRecv`) may call `Send` as well; `home[t]` remembers
which. `RegisterSend` runs without the lock when `Send` calls it and inside the
lock when `ProcessSend` does, and the lock is recursive: `RegisterSendReturn` and
`DrainQueue` say so. `Disconnect` can be entered from five places; `ret[t]` is
the statement it returns to. `sendOwner`, `recvOwner` are the references the
events hold on the session, `eventBufs` the references on the buffers, and
`inflight` what the kernel was told to read.

Errors: `WSASendError` and `WSARecvError` are any error other than
`WSA_IO_PENDING`; `HandleError` disconnects on a reset and logs the others.
A completion of zero bytes stands for the peer's departure, for an operation
cancelled by `closesocket`, and for a failed completion, which
`IocpCore::Dispatch` hands on with no bytes.

`Connecting` is how a session starts: the completion of an accept is on its way, or
that of the `ConnectEx` that `RegisterConnect` has issued. The second may have been refused
(`socket = "down"`), which `ProcessConnect` does not notice, and has made the session the
owner of its own `_connectEvent` (`connectOwner`, `Session.cpp:93`). No step clears
`connectOwner`, because no line does once `ConnectEx` is pending. `References` are all
that keeps a session alive: the service and the owners of its three events.

### Listener

An accept event is in the hands of Main (until all are started), of the kernel
(`kernel[e]`, the session whose socket it fills), at the port (`completed`) or of a
worker (`event[w]`). `session[e]` is the event's reference to the session the next peer
will get. `RegisterAccept` is `CreateSession` and then `AcceptEx`, or `AcceptExError`, which
enters `RegisterAccept` again; `frames[t]` are the sessions the frames on the stack
hold, and `MaxDepth` of them fill it (`StackOverflow`). The set-up at the head of `StartAccept`
is not modelled: when one of its checks fails, the server ends before it has an event. `ProcessAccept` adds the session
to the service; `NoPeer` is its two early exits, for an accept that failed and for a peer that
has gone. `Sessions` is memory: an object that nothing refers to is used again. A
null session (`NoSession`) ends the process in `RegisterAccept`.

### Lock

`flag` is the 32-bit word as a record of its halves; adding to and subtracting
from the word carries between them (`Inc`, `Dec`). `held[t]` is the stack of guard
objects: C++ scopes give guards back in reverse order. Each atomic operation and each access to
`_writeCount` is a step. A spinning thread may crash the process with
`LOCK_TIMEOUT` at any moment at which it cannot proceed.

### DeadLockProfiler

`names`, `lockHistory` and `lockStack` are the profiler's members and the thread-local stack;
below them `guards` and `asked` are the locks each thread has and the one it waits for. `PushLock`
is the function up to `CheckCycle`: the id, the pair of the class on top of the stack and the new
one, and, when that pair is new, the vectors of a fresh walk; otherwise the new class comes on the
stack at once (`Announced`). The walk has a step for each turn of a loop: `DfsRoot` is that of `CheckCycle`,
`DfsDown`, `DfsPast` and `DfsBack` are the three ways through the loop of `Dfs`, `DfsReturn` its
end, `GoUp` a turn of the loop that prints the cycle through `_parent`, and `WalkEnd` the way back
into `PushLock`. `calls` is the stack of calls of `Dfs`, `left` what each has not looked at
yet, and `order`, `count`, `finished` and `parent` are the profiler's vectors. `walker` has the
profiler's mutex meanwhile, so that other threads can only get locks they have announced
(`WriteLock`) or give up (`GiveUp`). Classes stand for the `typeid` names; ids are places in
`names`, from 1 where the code counts from 0, and 0 stands for -1. Only write guards occur: a read guard calls the
same two functions.

### SendBufferPool

`pool` and `created` are the free list and the chunks ever allocated; `current[t]`
is the thread-local `LSendBufferChunk`. A buffer is `live` while anybody (a handler, a
session's queue, an event) refers to it, and `chunk[b]` is its reference to its chunk.
`Open` is the decision whether the current chunk has room, `Pop` the pool's lock,
`Install` the assignment to the `shared_ptr`, by which the old chunk may lose
its last reference (`recycleOld`), `Reset` and `OpenSlice` the rest of
`SendBufferManager::Open`; `WriteAndClose` is what `MakeSendBuffer` does with
the buffer. `DropLast` is the last reference to a buffer going, on any thread,
and `PushGlobal` the deleter. `bytes` remembers which buffer wrote each byte.

### PacketStream

A byte is its position in the peer's stream, so a packet assembled wrongly
differs from each one sent. `Receive(n)` is a receive of any number of bytes
that the peer has sent and the buffer has room for; then `Frame` is one turn of
`OnRecv`'s loop, `NoHeader` and the other branch of `Frame` its two breaks,
`OnRead` and `Clean` the calls after it. A header that was put together wrongly
announces any size (`SizesAt`). `AtStart` is the C# client's `ReceiveAsync`.

### Login

`pc[s]` is the statement of `Handle_C_LOGIN` on behalf of session `s`. `Begin` is
its entry (`MyPlayer` is a fresh player); `Pop`, `Bind` and `Select` are
`GetPlayerInfoFromDB`; `Announce`, `Take`, `Pop`, `Bind` and `Insert` the branch of a new name;
`StartLoop`, `EndLoop`, `Kick` and `Assign` that of an existing one. A connection has one
statement: whose locals its parameters and columns are bound to, and whether a cursor is
open. `DBBind`'s constructor unbinds it; a query reads the parameters' owner and writes the
columns' owner, who need not be the handler that runs it as far as the code of `Select` goes: that they are
is `ConnectionsKept`. The database
executes a statement atomically; which of several rows is fetched is left open. The
loop of `DuplicationCheck` holds no lock: if the set changed under it, it has
seen any part of the change or ended the process (`TornLoop`). A null
connection is dereferenced (`crashed`). `met[s]` is a history variable: the
sessions whose handlers ran while `s`'s did. A player whose id is not in the table and
the 64-bit width of ids do not matter here.

### Rooms

Each session has two actors: `Handler(s)`, its packet handler, and `Closer(s)`, the
thread that disconnects it. `pc`, `room`, `todo`, `target` and `pkt` are an actor's
statement and locals. `Enter`, `Leave`, `FillEnter` and `FillUpdate` hold the
room's lock for their whole body, so each is a step; `StartBroadcast`, `SendTo`,
`Push` and `EndBroadcast` are `Room::Broadcast`, which holds the room's lock from
the first to the last (`RoomHeld`) and takes each session's lock in `Push`.
`LockForDrain` is a `ProcessSend` whose `RegisterSend` meets a reset: it
disconnects with the session's lock held (`locked`). `screen` and `heard` are what
the client makes of the packets, with the room filter of
`DummyClient/ServerPacketHandler.cpp`. For S_LEAVE_GAME the handler reads the roster of every
room, each under its lock and holding nothing else; the rosters are not kept (the lobby's screen is one value), and
having to wait for the locks is covered by `Respond` coming at any time later. The process may end in four ways, all of
them states of the program: a handler dereferences `MyPlayer` that a disconnect has
cleared, a broadcast the `ownerSession` of a player left behind, a `Send` inside
`Broadcast` disconnects and erases from the map being iterated, and two threads wait for each
other until `LOCK_TIMEOUT`. After it nothing happens, and the properties speak of
the executions until then. `missed` and `outdated` are histories that name two races:
a disconnect that looked for the room between `Room::Enter` and the assignment of
`roomId`, and a roster that was sent after the room had changed.

### Client

One client, of either language, and the server as that client sees it. `main` is the thread
of `Managers::Update`: in a room it reads a line (`ReadLine`) and sends it (`Say`); `/exit` sends
C_LEAVE_GAME first (`LeaveRoom`) and is then itself said, as the code does. `net` is the thread that handles
packets: `Handle_S_LOGIN`, a refused S_ENTER_GAME and S_LEAVE_GAME ask for a room (`Choose`). Both
write `state` and `roomId`. Answers that are no number are room 0 in C# (`NotANumberCs`) and, in
C++, leave `cin` failed: from then on the loop asks without reading (`NotANumberCpp`,
`UnreadRoom`); `Spinning` is such a loop, and `NetReads` leaves it out. `Serve...` are the server's handlers, `Respond` the answer
they owe, before which others' broadcasts may come (`OtherBroadcast`). `ended` says how the
conversation ended: the server at room 0, the C++ client at a player that `Init` has not made
yet, or a lost connection.

### CsSession

`Send`, `SendOff`, `Alive`, `SendAsync` and `SendThrows` are `Send` with `RegisterSend`, under the
lock from the first to the last and with the one look at `_disconnected` a step of its own;
`OnSendCompleted` and `AwaitThrows` the continuation of the awaited `SendAsync`, `writes` the
calls that have not completed. The receive loop is `receiver`: a
receive, the handler, the next receive, or `Disconnect` in its five steps (`Disconnect`,
`Remove`, `Shutdown`, `ShutdownThrows`, `Clear`). What is thrown in a continuation is lost
with its task: `threw` and `deaf` remember it. `manager` is the thread that connects,
which starts the receive before it adds the session (`Start`, `Add`).

## 3. The runs

| Run | Instance | Shows |
|---|---|---|
| `session` | 2 workers, 3 buffers, 2 receives | `SendExclusive`, `ReceiveExclusive`, `PinnedWhilePending`, `NoStrandedBuffers`, `ReceiveArmed`, `TearDownOnce`, `ImplementsChannel`, and the liveness `QueueDrains`, `SessionReclaimed` |
| `listener` | 2 events, 2 workers, 2 peers, 1 failure | `EventsKept`, `SessionsOwned`, `PeersAccepted` |
| `lock` | 3 threads, 2 guards each, nested or not | `MutualExclusion`, `GuardsUnlockInOrder`, `FreeWhenUnused`, `WaiterProceeds` |
| `profiler` | 3 threads, 4 locks of 3 classes, nesting 3, 6 at a time | `CyclesReported`, `DeadlocksForeseen` |
| `send_buffers` | 2 threads, 3 buffers, 4 chunks of 3 bytes | `BuffersIntact`, `OpenSucceeds`, `ChunksAccountedFor` |
| `stream` | packets of 2 and 3 bytes, buffer of 9, 5 packets | `PacketsIntact`, `NeverOverlaps`, `PeerKept`, `AllDelivered` |
| `stream_cs` | the C# client's receive | `PacketsIntact` violated: a packet that arrives in two parts is handed on damaged |
| `login` | 3 sessions, 2 names, 1 connection | `AccountsDistinct`, `ConnectionsKept`, `OneSessionUnlessMet`, `AnnouncedIsStored` |
| `rooms` | 3 sessions, 2 rooms of 2, 2 requests, 1 disconnect, from any settled distribution | `MembersAgree`, `ChatsInOneOrder`, `RostersAgree` |
| `rooms_deadlock` | 3 sessions, 1 room, 1 disconnect | `NoLockTimeout` violated: broadcast and failing send wait for each other |
| `client` | either client, 2 rooms, 7 inputs, 2 broadcasts of others | `OneReader`, `RoomsAgree`, `SaidWhereTyped`, `ConsoleComesBack` |
| `cs_session` | 2 senders, 3 messages | `WritesInTurn`, `QueueDrains`, `ClosingNoticed`, `ImplementsChannel` |

Type invariants are not run: they are proved where a module has proofs.

Bounds. In `Session` two workers let a completion, a push and a disconnect meet in pairs,
which is what the liveness run can afford; the safety properties are proved
for any number of workers and buffers. Three buffers let one be in flight, one queued and
one being pushed. `toSend` and `recvsLeft` are budgets: a buffer is sent once
(so that duplicates show), `MaxRecv` bounds deliveries.
In `Listener` two events and two workers let one event be registered while the other's completion is
processed, two peers give the second a wait; one failure, at once or
later, may hit either; with a `MaxDepth` of 3 a retry succeeds, or fails again and
overflows the stack. Eight sessions are more
than can be alive at once, so memory is never exhausted.
In `Lock`, `MaxTaken` bounds the guards a thread takes and `MaxDepth` the nesting;
`ReadMax` and `WriteCountMax` are the widths of the counters, larger than the instances reach:
the code does not guard against their overflow and a nesting of 65536 guards is not a
state of this program (`FitsAssumption`). `WriteUnderRead` is off in the run: a thread that takes a
write guard under its own read guard waits for itself, and no code of the
repository does.

In `DeadLockProfiler` three threads can wait in a ring of three, two locks of one class
let the same class be taken twice, and three classes give cycles of two and of three and, with a
nesting of three, graphs in which a node is reached twice without a cycle; a ring of three takes six
locks held or waited for (`MaxLocked`). The theorems hold for any bounds.
In `SendBufferPool` four chunks are one for each thread, one being
recycled and one in the pool; a chunk of 3 holds up to three buffers, and sizes go
one past it. The theorems make the instance no longer matter. In `PacketStream`
the buffer is three times the largest packet (the real one ten times): the least for which
the claims are proved; five packets turn the buffer over more than once. In
`Login` a third session meets an account that two races have made; one
name would not let a new account come between, and any number of each is covered by the
theorems. `Rooms` starts its main run in
any settled state (`SettledInit`, which contains the real initial state) and so needs
only two overlapping requests (`MaxTotal`, at most `MaxRequests` each) and one
disconnect (`MaxCloses`) at any moment, among three sessions: who acts, who else
acts, and who watches. The room limit is a constant, 2 there and 3 in the code.
In `Client` seven inputs are a name, a room, a line, `/exit`, another room and two
more, enough for an answer that is no number and for a second visit; two
broadcasts let one come before an answer and one after. In `CsSession` two senders and the
continuation are all the threads the client has, and of three messages one is
being sent, one gathered and one queued.

Symmetry is used where members of a set are only compared with `=`: the sets of `send_buffers`,
`login` and `rooms`, and the threads and locks of `profiler`. It is not used
where liveness is checked. Deadlock is not checked in `client`, `cs_session` and `listener`, which may
stop: the user need not type, nobody has to send, and peers may stay away.

Fairness. `session` assumes, for its two liveness properties, that a worker in an operation goes on (the
operating system schedules it and the spin lock is eventually free), that the
outstanding `WSASend` completes (the peer keeps reading, or the connection
breaks: a peer that does neither keeps the queue waiting in the real program
too) and that closing the socket completes an outstanding receive. Nothing
obliges anybody to call `Send`, the peer to write, or the connection to fail.
`lock` assumes, for its one liveness property, that a thread spins on and that guards' scopes end; new calls
are not fair, and the claim is that a waiter proceeds once the others stop:
the spin lock itself does not rule out starvation by others who never stop, but
`MaxTaken` does. `stream` assumes that TCP delivers what was sent, in pieces of any
size, and that the worker goes on in the loop; the peer is not obliged to send.
`listener` assumes that Main and the workers run and that the kernel accepts who waits when
an accept is outstanding; peers need not come and failures need not stop. `client` assumes that
both threads run and the server answers; the user need not type. `cs_session` assumes
that threads in an operation go on and that `SendAsync` completes or throws; nobody
has to send.

What the runs found. In the session, exceptions had to be stated, and all are
behaviour of the code: `NoStrandedBuffers` does not hold for what is pushed while a
failed `WSASend` is cleaned up (`Session.cpp:172-175` resets the flag without
looking at the queue), and `ReceiveArmed` does not hold after a `WSARecv` error that is
only logged (`Session.cpp:128`). A third, in `SessionReclaimed`, is a leak: an accepted session is free
when its service and its sends and receives have let go of it, but one that connected itself is kept for ever by
its own `_connectEvent`, whose owner (`Session.cpp:93`) is cleared only when `ConnectEx`
fails at once (`:102`). In the lock, a write guard inside a read guard inside a
write guard of the same thread ends the process with `INVALID_UNLOCK_ORDER` although the
guards are given back in order (`Lock.cpp:45`); nothing in the repository takes a read
guard, so the run leaves such nestings out (and `GuardsUnlockInOrder` is a statement about the others); with `WriteUnderRead = TRUE` and a nesting of three
`GuardsUnlockInOrder` shows it. In the profiler, threads that deadlock over locks of one
class, two sessions say, are the exception `DeadlocksForeseen` states: `PushLock` takes no edge from a class to
itself (`DeadLockProfiler.cpp:25`). A thread that takes a lock it already has under another one
adds an edge back and is reported like a deadlock. At login, two handlers that overlap may create two
accounts for one name, be told each other's id, or share one account and both stay: the three
properties say that nothing else makes it happen. With
the server's single connection two logins that overlap in the database end the
process. In the rooms, `rooms_deadlock` shows a deadlock; a roster that was filled
before a change and sent after it stays on the screens (`outdated`), so that a client may go on showing
a player that has left; `MembersAgree` has the one exception (`missed`) of a
player that stays in its room for ever after a disconnect during its entry.

In the listener, a null session and a retry that never succeeds end the process, and nothing
else loses an event. In the clients, each property has the exception that is named in it:
a C++ client that receives its first S_LOGIN before `Init` has run ends or is put back
into the lobby (`initLate`), where nobody reads the console any more; `/exit` is said in the next room if the
packets' thread is faster (`overtaken`); room 0, which the C# client sends for whatever is no
number, ends the server (`RoomsAgree` is about runs that have not `ended`); and once something that is no number has made `cin`
fail, the prompt of the C++ client asks for ever and reads nothing
(`ServerPacketHandler.cpp:46-56`, `90-98`, `126-135`): the user need never get the console back, which is the
exception `Spinning` of `ConsoleComesBack`. The C# client has no such exception. In the C#
session an exception in `SendAsync` leaves `_pendingList` filled and nothing is sent any more
(`threw`); one in the receive loop ends it without a disconnect (`deaf`); and a
connection closed at once is removed before it is added, and then stays listed (`early`).

## 4. The proofs

The assumptions are those the modules declare (`None` is not a member of the sets,
the bounds are numbers, every lock has a class, `FitsAssumption` for `Lock`, finitely many sessions for `Login` and `Rooms`,
and for `Rooms` that `None` is no chat and no set of sessions either), and `Roomy` for
`PacketStream`. Sets of threads,
messages, chunks and buffers may be finite or infinite, but for the threads of `Lock`.

### Session

None of the invariants of the `session` run is inductive. The strengthening is in
three parts. `ConnectionInv` ties the stage of the connection to the program counters: the
connect completion is dispatched once, `AddSession` precedes `connected` being
visible to `Disconnect`, exactly one thread is in the body of `Disconnect`.
`SendInv` says who holds the *right to send*: one thread that is `Sending` or the
kernel with one WSASend, never two of them, and `_sendRegistered` is set whenever
somebody holds it; with it comes what `sendOwner`, `eventBufs` and `inflight` are
at each statement, and which statements imply the lock.
`RecvInv` does the same for the receive: one token, either an outstanding
operation or one thread that is `Receiving`. `WakeUpInv` is about the queue alone and rests on the others.
`TypeInit`, `ConnectionStep`, `SendStep`, `RecvStep`, `WakeUpStep` and
`ArmedStep` prove that a step preserves each part, action by action; `Invariance`
puts them together.

`SendRefinesChannel` is `Spec => ImplementsChannel`: under the mapping that
takes `unsent` to the gathered buffers followed by the queue, `SendPush` is
`Accept`, `WSASendPending` is `Transmit`, `WSASendError` is `Lose`, `CloseSocket` is
`Close`, and every other step is a stutter. The invariant is
needed because the mapping looks at which thread is at `WSASend`: at most one may be.

### Lock

The point of `LockInv` is `CountInv`: the low half of the word is the number of read guards and
`_writeCount` that of write guards, over all threads, as cardinalities of the set of
places in the stacks of guards (`Guards`; `PushedGuards` and `PoppedGuards` say how taking and
giving back change it). `OwnerInv` makes the upper half the one thread that owns the lock, from the
compare-and-swap to the store, and says that the others hold nothing meanwhile;
`UnlockInv` keeps what `WriteUnlock` has checked true until its store. With `FitsAssumption`
(threads times nesting fits into the low half) neither counter wraps (`TypeCorrect`). `OrderKept`
adds `NestInv` and needs `~WriteUnderRead`: without that the code's check does fire.

### DeadLockProfiler

The proof is in the second half of `LockProofs`. It has to say what a depth-first search finds, and no
induction over data is at hand: the induction is over the steps of the walk. `WalkInv` describes a walk
in the middle. What is discovered is finished or is a call that has not returned (`DiscoveredOK`); each call
was made by the one before it, over a pair of the record, and was discovered after it (`CallsOK`); what a
call has looked at is finished, but for the call it waits for (`LookedAt`); and no set of finished nodes
has a way on from each of its members (`NoCycleIn`). The last is what `DfsReturn` keeps: a node all
of whose successors are finished is on no cycle with finished nodes, since these lead to finished ones
only. `DfsPast` needs that the order numbers tell a call above from a finished node; where they say the
former, `UpOK` finds the node that the printing loop will meet (`GoUpEnds`, `LoopGoesUp`). When the walk is over
everything is finished and the record has no cycle (`AllFinished`).

`RecordInv` is about the record between walks: all pairs but the one a walk is about (`Known`) are
without a cycle, and each stack has the classes of its thread's guards and, wherever the class
changes on it, a known pair (`StackOK`). `CyclesAreReported` and `UnlocksMatch` follow. For
`ProfilerForeseesDeadlocks`, suppose that threads are stuck and no part of them over one class
alone: the classes that some of them hold under another class would form a cycle of known pairs
(`HeldUnderOther`, `WaitsOverKnown`).

### SendBufferPool

`RoomInv` bounds what a thread may still give away of its chunk by the statement it is at;
`OwnerInv` says whose a chunk is (the pool's, one thread's hand, one thread's
current) and, what everything turns on, that between `Install` and `Reset` no
live buffer lies in the current chunk; `WriterInv` gives each open buffer one
thread; `OpenInv` says when `_open` is set; `LayoutInv` puts every closed buffer below
`_usedSize` with its own bytes in it; `NoneLost` finds a holder for every chunk
created. Each has its step lemma, and the four invariants of the run follow.

### PacketStream

`StreamInv` orders the packets in the stream; `BufferInv` says that the bytes
between the cursors are the last that arrived; `PositionInv` that the loop
stands at the start of the first packet not yet delivered; `LoopInv` that less
than the largest packet is left when the loop ends and that a receive
finds room after `Clean`. `Roomy` is what `RecvBuffer`'s constructor gives: the capacity is at least three
times the size below which `Clean` compacts, and packets are no larger than that.

### Listener

`HandsInv` gives a thread at work on an event that event alone, `PlaceInv` keeps the event's places
apart and finds one once it has a session. `SocketInv` is the point: from `CreateSession` until the completion has been
processed the event's session is in nobody else's hands, not even the service's; then `ProcessAccept`
puts it there, and the event goes on with a new one. `PeerInv` follows a peer from the backlog to its
socket. `Free` is all that is used of how long session objects live.

### Client

Nothing locks the console or `MyPlayer`: that the two threads take turns is the discipline of the conversation.
`TurnsInv` says it: one question or answer is under way at a time, in `toServer` (`Asking`), in the server's hands
(`Answering`), in `toClient` (`Telling`), at a prompt of the packets' thread (`Prompting`) or typed and not yet sent
(`Leaving`); while there is none (`InRoom`) the user chats. `PlaceInv` says for each of these which room the server has
the client in and what the client knows of it, `StateInv` ties the main thread and `state` to it: the main thread
reads only `InRoom`, so `OneReader` holds however slow either thread is. `ChatInv` follows each chat under way: until
the request to leave has been sent it names the room its client is in (`InPlace`); behind one (`Left`) it is the `/exit`
itself. A wrong turn ends the conversation in the code's ways (`ended`), and what holds
then is what the last step keeps. The proof is one lemma for each statement of a thread, the server's and the user's.

### CsSession

The proof is in `ClientProofs`, which extends both modules.
`_pendingList` is both the flag for a `SendAsync` under way and its argument. `PendingInv` says what
the flag promises, that an empty list in a live session means no call is outstanding; it does not
survive on its own, because `RegisterSend` looks at `_disconnected` before it
gathers and `Clear` empties the list: `GatherInv` says that whoever holds the lock with work to gather
finds the list empty and, having found the session alive, no call outstanding, which
stays true when `Disconnect` comes in between. `SendsInTurn` follows, and
`SendRefinesChannel` maps `Send` to `Accept`, `SendAsync` to `Transmit`, `SendThrows` and `Clear` to
`Lose`, `Shutdown` to `Close`.

### Login

`PoolInv` says where each connection is, and that a statement being run is bound to its handler
alone; `SelectReads` and `InsertStores` draw from it that a query works for the handler that runs it, which every
other part needs. `MetInv` is what makes the exceptions exact: handlers that
run at once have met each other. `AccountInv` separates ids already stored from those taken
and not yet stored, and says that a handler that missed its name in the table has met whoever has
stored it since. `IdsAreDistinct` is what holds of accounts without an exception; that a name has one
account is proved only for logins that did not meet. `StoredInv` follows the id and the announcement through the
handler. `UseInv` is the argument for `DuplicationCheck` without its lock: a session that was
logged in before the check began, and still is, is in what the loop started from and in the set
at its end, so the loop sees it.

### Rooms

`SessionInv` speaks of one session at a time, so that a step of another session's actor
changes nothing it reads (`SameKeeps`); the only thing others do to a session is to
change the roster its screen shows. `MemberOK` has the two shapes of membership,
before and after the assignment of `roomId`; `LeaveOK` relates the rooms that the handler and the
disconnect want to leave, and records in `missed` a disconnect that looked too early.
`ClientOK` and `ScreenOK` say why nobody enters twice: a client asks for a room only while
it shows the lobby, and shows the lobby only when the server has it in no room. Neither
full rooms nor rosters matter to `RoomsAgree`.

What the clients show needs three invariants more. `SendInv` is about `Broadcast`: whoever is in its loop
holds the room's lock and is alone there (`HeldOnce`), those it has yet to send to are the room's players, each once
(`AddresseesOK`), and the chat a handler carries is its client's last request (`CarriesOK`); `ShownOK` says that a
connected client shows the room its player is in, or its handler has still to answer that it has left. For
`RostersShown`, `CarriedInv` says that unless the room is `outdated` every roster on its way is the room's, and `ToldInv`
that a client in the room shows that roster or somebody is on the way to send it (`WillTell`); the step to look at
is the one that changes the room's players, which marks the room when anyone carries a roster and otherwise has its own
broadcast ahead. For `ChatsOrdered`, `HeardInv` says of a chat some client has heard that its request is over or
is being broadcast, and then it is the last that client has heard, and the client is one of the room's players, shows the room
and is not sent it again. So what a push adds is the last chat wherever it is heard, which is all the order needs;
a second broadcast cannot come between, since it would be of the same room.

Only model-checked: the liveness properties (`QueueDrains`, `SessionReclaimed`, `PeersAccepted`,
`WaiterProceeds`, `AllDelivered`, `ConsoleComesBack`, `ClosingNoticed`; the prover does not handle fairness or
ENABLED). Every safety property and both refinements that a passing
run checks are theorems.

## 5. The plan

1. *(done)* `Session`, its abstract channel, proofs; `Lock`.
2. *(done)* `SendBufferPool` and `PacketStream`, with proofs.
3. *(done)* `Login`, `Rooms` with the order of the session's and the room's locks.
4. *(done)* `LockProofs`; `DeadLockProfiler`, its search step by step against the definition of a cycle.
5. *(done)* `LoginProofs`, over the DB statements as well; `RoomsProofs` for `MembersAgree`, the rosters
   and the order of the chats.
6. *(done)* `Listener`: the accept loop with its retries and the sessions the service registers;
   `ListenerProofs`.
7. *(done)* `Client` and `CsSession`: the two console clients; `ClientProofs`.
8. Left: the lobby, with the player counts in the answers.

## 6. Not modelled

- *Memory*: its free lists are Windows' interlocked lists, every call atomic; what the code adds
  is a table of size classes filled before any worker runs and a counter. The one pool that is written here
  is `SendBufferPool`.
- *Wrappers* around Winsock, and the buffer reader and writer, which nothing calls; *start-up and shutdown*, which
  are sequential and run before or after everything modelled; *ThreadManager*, which starts
  and joins; the build-time *packet generator*.
- *Vendored and generated code*: of the 271660 lines of implementation in the tree about 266700 are
  protobuf, its own tests included, and the message classes generated with it. The program's own code
  is about 5000 lines, and a good third of them is mapped; most of the rest is
  declarations, includes, logging and the wrappers above.
- The reuse of a socket handle's value after `closesocket`, the 16-bit size of a packet in
  `MakeSendBuffer`, a statement the database refuses (an assertion ends the server), the start of
  the C++ client's one connection.
- The player counts shown in the lobby, the wording of packets, and packets in an order no
  client of the repository sends (a second login, a chat before the login, anything after
  a refused login).
