-------------------------------- MODULE Login --------------------------------
(* Logging in: Handle_C_LOGIN with the account table, the pool of database    *)
(* connections, the generator of ids and the check for accounts in use.       *)
(*                                                                            *)
(* Each session's client sends one C_LOGIN.  Until it is answered nothing is  *)
(* sent to the session, so that only the handler itself can disconnect it.    *)
(* Player's lock belongs to the one Player: handlers exclude one another only *)
(* where the pool and the session manager lock.                               *)
EXTENDS Naturals, FiniteSets, Sequences

CONSTANTS
    Sessions, Names,
    Connections,           \* database connections the server opens
    None

ASSUME NoneAssumption == None \notin Nat
ASSUME ConnectionsAssumption == Connections \in Nat
ASSUME FiniteAssumption == IsFiniteSet(Sessions)

VARIABLES
    pc,                    \* each session's statement
    connected,             \* _connected
    registered,            \* GSessionManager's _sessions
    name,                  \* the name of the session's C_LOGIN
    player,                \* MyPlayer's playerId, 0 before it is set; None is null
    outId,                 \* the handler's local: the id found
    seen,                  \* what the loop of DuplicationCheck iterates
    announced,             \* the id in S_LOGIN
    table,                 \* the table Player: id and name, and who inserted it
    idGenerator,
    pool,                  \* _connections, a stack
    conn,                  \* the handler's local dbConn, or None
    statement,             \* each connection's ODBC statement: whose locals are bound, cursor
    met,                   \* history: sessions whose logins overlapped
    crashed                \* how the process ended, or "no"

vars == <<pc, connected, registered, name, player, outId, seen, announced, table, idGenerator,
          pool, conn, statement, met, crashed>>

dbVars == <<pool, conn, statement>>

Opened == [c \in 1..Connections |-> c]

\* Unbind: no parameter, no column, no cursor.
Unbound == [params |-> <<>>, columns |-> <<>>, cursor |-> FALSE]

Init ==
    /\ pc = [s \in Sessions |-> "away"]
    /\ connected = [s \in Sessions |-> FALSE]
    /\ registered = {}
    /\ name = [s \in Sessions |-> None]
    /\ player = [s \in Sessions |-> None]
    /\ outId = [s \in Sessions |-> 0]
    /\ seen = [s \in Sessions |-> {}]
    /\ announced = [s \in Sessions |-> None]
    /\ table = {} /\ idGenerator = 1
    /\ pool = Opened
    /\ conn = [s \in Sessions |-> None]
    /\ statement = [c \in 1..Connections |-> Unbound]
    /\ met = [s \in Sessions |-> {}]
    /\ crashed = "no"

Handling == {"popSelect", "bindSelect", "select", "announce", "take", "popInsert", "bindInsert",
             "insert", "check", "loop", "kick", "assign", "send"}

Step(s, here, there) ==
    /\ crashed = "no"
    /\ pc[s] = here
    /\ pc' = [pc EXCEPT ![s] = there]

-----------------------------------------------------------------------------
\* OnConnected.
Connect(s) ==
    /\ Step(s, "away", "idle")
    /\ connected' = [connected EXCEPT ![s] = TRUE]
    /\ registered' = registered \cup {s}
    /\ UNCHANGED <<name, player, outId, seen, announced, table, idGenerator, dbVars, met, crashed>>

\* The handler starts with a player that has no id yet.
Begin(s, n) ==
    LET others == {u \in Sessions : pc[u] \in Handling} IN
    /\ Step(s, "idle", "popSelect")
    /\ name' = [name EXCEPT ![s] = n]
    /\ player' = [player EXCEPT ![s] = 0]
    /\ met' = [u \in Sessions |-> IF u = s THEN others
                                  ELSE IF u \in others THEN met[u] \cup {s} ELSE met[u]]
    /\ UNCHANGED <<connected, registered, outId, seen, announced, table, idGenerator, dbVars, crashed>>

Popped == SubSeq(pool, 1, Len(pool) - 1)

\* GDBConnectionPool->Pop; DBBind's constructor dereferences it, null or not.
Pop(s, here, there) ==
    /\ Step(s, here, there)
    /\ pool # <<>>
    /\ conn' = [conn EXCEPT ![s] = pool[Len(pool)]]
    /\ pool' = Popped
    /\ UNCHANGED <<connected, registered, name, player, outId, seen, announced, table, idGenerator,
                   statement, met, crashed>>

PopNull(s) ==
    /\ Step(s, "popSelect", "popSelect") \/ Step(s, "popInsert", "popInsert")
    /\ pool = <<>>
    /\ crashed' = "no connection"
    /\ UNCHANGED <<connected, registered, name, player, outId, seen, announced, table, idGenerator,
                   dbVars, met>>

\* MUTANT: the statement is left as its last user left it.
LeftBound(c) == statement[c]

Constructed(c) == Unbound

\* The first n places of what is bound become s's locals.
Bound(q, s, n) == [i \in 1..n |-> s] \o SubSeq(q, n + 1, Len(q))

\* DBBind: constructor, then BindParam and BindCol for every place of the query.
Bind(s, here, there, params, columns) ==
    LET st == Constructed(conn[s]) IN
    /\ Step(s, here, there)
    /\ statement' = [statement EXCEPT ![conn[s]] =
           [st EXCEPT !.params = Bound(@, s, params), !.columns = Bound(@, s, columns)]]
    /\ UNCHANGED <<connected, registered, name, player, outId, seen, announced, table, idGenerator,
                   pool, conn, met, crashed>>

\* Push gives the connection back as it is: bound, and its cursor open.
Push(s) ==
    /\ pool' = Append(pool, conn[s])
    /\ conn' = [conn EXCEPT ![s] = None]

Ids(n) == {row.id : row \in {r \in table : r.name = n}}

\* Execute and Fetch: the id of any row with the bound name, 0 if there is none.
Fetched(st) ==
    LET found == Ids(name[st.params[1]]) IN
    IF found = {} THEN {0} ELSE found

\* GetPlayerInfoFromDB: the query writes to the locals bound; Push.
Select(s, id) ==
    LET st == statement[conn[s]]
        out == [outId EXCEPT ![st.columns[1]] = id] IN
    /\ Step(s, "select", IF out[s] = 0 THEN "announce" ELSE "check")
    /\ id \in Fetched(st)
    /\ outId' = out
    /\ statement' = [statement EXCEPT ![conn[s]].cursor = TRUE]
    /\ Push(s)
    /\ UNCHANGED <<connected, registered, name, player, seen, announced, table, idGenerator, met, crashed>>

-----------------------------------------------------------------------------
(* A name seen for the first time.                                            *)

\* MUTANT: the id before the one the generator will give.
Stale == idGenerator - 1

NextId == idGenerator

\* The packet is given the generator's value.
Announce(s) ==
    /\ Step(s, "announce", "take")
    /\ announced' = [announced EXCEPT ![s] = NextId]
    /\ UNCHANGED <<connected, registered, name, player, outId, seen, table, idGenerator, dbVars, met, crashed>>

\* MUTANT: the generator is read and not advanced.
Unchanged == idGenerator

Advanced == idGenerator + 1

\* The player is given it, and the generator goes on, in one atomic step.
Take(s) ==
    /\ Step(s, "take", "popInsert")
    /\ player' = [player EXCEPT ![s] = idGenerator]
    /\ idGenerator' = Advanced
    /\ UNCHANGED <<connected, registered, name, outId, seen, announced, table, dbVars, met, crashed>>

Stored(s) ==
    LET params == statement[conn[s]].params IN
    table \cup {[id |-> player[params[1]], name |-> name[params[2]], by |-> s]}

\* InsertPlayerInfo: Execute, and Push.
Insert(s) ==
    /\ Step(s, "insert", "send")
    /\ table' = Stored(s)
    /\ Push(s)
    /\ UNCHANGED <<connected, registered, name, player, outId, seen, announced, idGenerator, statement,
                   met, crashed>>

-----------------------------------------------------------------------------
(* A name that has an account.                                                *)

\* DuplicationCheck iterates the set without its lock.
StartLoop(s) ==
    /\ Step(s, "check", "loop")
    /\ seen' = [seen EXCEPT ![s] = registered]
    /\ UNCHANGED <<connected, registered, name, player, outId, announced, table, idGenerator, dbVars, met, crashed>>

\* MUTANT: the check looks at the session itself only.
InUseHere(s, among) == player[s] = outId[s]

InUse(s, among) == \E u \in among : player[u] = outId[s]

\* If the set has changed meanwhile the loop has seen some of it, or ended the
\* process.
EndLoop(s, among) ==
    /\ Step(s, "loop", IF InUse(s, among) THEN "kick" ELSE "assign")
    /\ seen[s] \cap registered \subseteq among /\ among \subseteq seen[s] \cup registered
    /\ seen' = [seen EXCEPT ![s] = {}]
    /\ UNCHANGED <<connected, registered, name, player, outId, announced, table, idGenerator, dbVars, met, crashed>>

TornLoop(s) ==
    /\ Step(s, "loop", "loop")
    /\ seen[s] # registered
    /\ crashed' = "iterator"
    /\ UNCHANGED <<connected, registered, name, player, outId, seen, announced, table, idGenerator, dbVars, met>>

\* Disconnect, and OnDisconnected in it: Remove, and the player is forgotten.
Disconnected(s) ==
    /\ connected' = [connected EXCEPT ![s] = FALSE]
    /\ registered' = registered \ {s}
    /\ player' = [player EXCEPT ![s] = None]

Kick(s) ==
    /\ Step(s, "kick", "assign")
    /\ Disconnected(s)
    /\ UNCHANGED <<name, outId, seen, announced, table, idGenerator, dbVars, met, crashed>>

\* Disconnected or not, the session gets the player.
Assign(s) ==
    /\ Step(s, "assign", "send")
    /\ player' = [player EXCEPT ![s] = outId[s]]
    /\ announced' = [announced EXCEPT ![s] = outId[s]]
    /\ UNCHANGED <<connected, registered, name, outId, seen, table, idGenerator, dbVars, met, crashed>>

-----------------------------------------------------------------------------
\* S_LOGIN.
Send(s) ==
    /\ Step(s, "send", "in")
    /\ UNCHANGED <<connected, registered, name, player, outId, seen, announced, table, idGenerator, dbVars,
                   met, crashed>>

\* The client goes, before or after it has logged in.
Leave(s) ==
    /\ Step(s, "in", "gone") \/ Step(s, "idle", "gone")
    /\ connected[s]
    /\ Disconnected(s)
    /\ UNCHANGED <<name, outId, seen, announced, table, idGenerator, dbVars, met, crashed>>

Finished ==
    /\ crashed # "no" \/ \A s \in Sessions : pc[s] \in {"in", "gone"} /\ ~connected[s]
    /\ UNCHANGED vars

Login(s) ==
    \/ \E n \in Names : Begin(s, n)
    \/ Pop(s, "popSelect", "bindSelect") \/ Pop(s, "popInsert", "bindInsert") \/ PopNull(s)
    \/ Bind(s, "bindSelect", "select", 1, 2) \/ Bind(s, "bindInsert", "insert", 2, 0)
    \/ \E id \in 0..idGenerator : Select(s, id)
    \/ Announce(s) \/ Take(s) \/ Insert(s)
    \/ StartLoop(s) \/ (\E among \in SUBSET Sessions : EndLoop(s, among)) \/ TornLoop(s)
    \/ Kick(s) \/ Assign(s) \/ Send(s)

Next ==
    \/ \E s \in Sessions : Connect(s) \/ Login(s) \/ Leave(s)
    \/ Finished

Spec == Init /\ [][Next]_vars

-----------------------------------------------------------------------------
(* Properties.                                                                *)

\* An id is given to one account only, below the generator, and a name has one
\* account, unless the logins that made them overlapped.
AccountsDistinct ==
    /\ \A a, b \in table : a.id = b.id => a = b
    /\ \A a \in table : a.id < idGenerator
    /\ \A a, b \in table : a.name = b.name => a = b \/ b.by \in met[a.by]

Holding(s) == conn[s] # None

NoneLost == Len(pool) + Cardinality({s \in Sessions : Holding(s)}) = Connections

OneHolder == \A s, u \in Sessions : Holding(s) /\ conn[s] = conn[u] => s = u

OwnLocals(s) ==
    pc[s] \in {"select", "insert"} =>
        LET st == statement[conn[s]]
            size == IF pc[s] = "select" THEN <<1, 2>> ELSE <<2, 0>> IN
        /\ ~st.cursor
        /\ st.params = Bound(<<>>, s, size[1]) /\ st.columns = Bound(<<>>, s, size[2])

\* A connection is in the pool or in one handler's hands, and a query runs with
\* and writes to that handler's locals only, whoever used the connection before.
ConnectionsKept == NoneLost /\ OneHolder /\ \A s \in Sessions : OwnLocals(s)

LoggedIn(s) == pc[s] = "in" /\ connected[s]

\* An account is in use by one session, unless their logins overlapped.
OneSessionUnlessMet ==
    \A s, u \in Sessions :
        LoggedIn(s) /\ LoggedIn(u) /\ player[s] = player[u] => s = u \/ u \in met[s]

\* The client is told the id its account has in the table, unless another login
\* took it in between.
AnnouncedIsStored ==
    \A s \in Sessions : LoggedIn(s) =>
        /\ \E row \in table : row.id = player[s] /\ row.name = name[s]
        /\ announced[s] = player[s] \/ met[s] # {}
=============================================================================
