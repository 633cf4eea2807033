----------------------------- MODULE LoginProofs -----------------------------
(* For any number of sessions, names and connections: what Login's runs check *)
(* on small instances.                                                        *)
EXTENDS Login, FiniteSetTheorems, TLAPS

-----------------------------------------------------------------------------
(* The inductive invariant.                                                   *)

Querying == {"bindSelect", "select", "bindInsert", "insert"}
Inserting == {"popInsert", "bindInsert", "insert"}
Statements == Handling \cup {"away", "idle", "in", "gone"}

SessionsOK ==
    /\ pc \in [Sessions -> Statements]
    /\ connected \in [Sessions -> BOOLEAN]
    /\ registered \in SUBSET Sessions
    /\ name \in [Sessions -> Names \cup {None}]
    /\ player \in [Sessions -> Nat \cup {None}]
    /\ outId \in [Sessions -> Nat]
    /\ seen \in [Sessions -> SUBSET Sessions]
    /\ announced \in [Sessions -> Nat \cup {None}]
    /\ met \in [Sessions -> SUBSET Sessions]

TableOK ==
    /\ table \in SUBSET [id : Nat, name : Names, by : Sessions]
    /\ idGenerator \in Nat \ {0}
    /\ \A s \in Sessions : pc[s] \in Handling => name[s] \in Names

PoolOK ==
    /\ pool \in Seq(1..Connections)
    /\ conn \in [Sessions -> (1..Connections) \cup {None}]
    /\ statement \in [1..Connections ->
                          [params : Seq(Sessions), columns : Seq(Sessions), cursor : BOOLEAN]]

TypeOK == SessionsOK /\ TableOK /\ PoolOK

\* A handler has a connection exactly from Pop to Push, and no connection is in
\* two places.
PoolInv ==
    /\ \A s \in Sessions : Holding(s) <=> pc[s] \in Querying
    /\ \A i, j \in 1..Len(pool) : pool[i] = pool[j] => i = j
    /\ \A s \in Sessions, i \in 1..Len(pool) : pool[i] # conn[s]
    /\ ConnectionsKept

\* met is symmetric, holds who is handled now, and knows nobody not yet begun.
MetInv ==
    /\ \A s, u \in Sessions : pc[s] \in Handling /\ pc[u] \in Handling => s = u \/ u \in met[s]
    /\ \A s, u \in Sessions : u \in met[s] => s \in met[u]
    /\ \A s, u \in Sessions : pc[s] \in {"away", "idle"} => s \notin met[u]

\* Ids in the table, and ids taken for it, are different; who did not find its
\* name has met whoever has stored it since.
AccountInv ==
    /\ AccountsDistinct
    /\ \A a \in table : 0 < a.id /\ pc[a.by] \in {"send", "in", "gone"}
    /\ \A s \in Sessions : pc[s] \in Inserting =>
           /\ player[s] \in 1..(idGenerator - 1)
           /\ \A a \in table : a.id # player[s]
           /\ \A u \in Sessions : pc[u] \in Inserting /\ player[u] = player[s] => u = s
    /\ \A s \in Sessions : pc[s] \in Inserting \cup {"announce", "take"} =>
           \A a \in table : a.name = name[s] => a.by \in met[s]

Row(id, n) == \E row \in table : row.id = id /\ row.name = n

Told(s, id) == announced[s] = id \/ met[s] # {}

\* What the handler has found, stored or been given is in the table.
StoredInv ==
    /\ \A s \in Sessions : pc[s] \in {"check", "loop", "kick", "assign"} => Row(outId[s], name[s])
    /\ \A s \in Sessions : pc[s] = "take" => Told(s, idGenerator)
    /\ \A s \in Sessions : pc[s] \in Inserting => Told(s, player[s])
    /\ \A s \in Sessions : pc[s] = "send" \/ LoggedIn(s) =>
           Row(player[s], name[s]) /\ Told(s, player[s])

\* Who logs in does not share its account with anybody who was logged in before
\* it began.
Unshared(s, id) == \A u \in Sessions : LoggedIn(u) /\ u \notin met[s] => player[u] # id

UseInv ==
    /\ \A s \in Sessions : connected[s] <=> s \in registered
    /\ \A s \in Sessions : pc[s] = "loop" =>
           \A u \in Sessions : LoggedIn(u) /\ u \notin met[s] => u \in seen[s]
    /\ \A s \in Sessions : pc[s] = "assign" /\ connected[s] => Unshared(s, outId[s])
    /\ \A s \in Sessions : pc[s] = "send" /\ connected[s] => Unshared(s, player[s])
    /\ OneSessionUnlessMet

LoginInv == TypeOK /\ PoolInv /\ MetInv /\ AccountInv /\ StoredInv /\ UseInv

USE DEF Step, dbVars, Handling, Holding

-----------------------------------------------------------------------------
(* What the queries read and write.                                           *)

\* The places bound in a fresh statement are all the handler's.
LEMMA BoundToHandler ==
  ASSUME NEW s \in Sessions, NEW n \in {0, 1, 2}
  PROVE  /\ Bound(<<>>, s, n) \in Seq(Sessions)
         /\ Len(Bound(<<>>, s, n)) = n
         /\ \A i \in 1..n : Bound(<<>>, s, n)[i] = s
<1>1. SubSeq(<<>>, n + 1, Len(<<>>)) = <<>>
  OBVIOUS
<1>2. [i \in 1..n |-> s] \in Seq(Sessions) /\ Len([i \in 1..n |-> s]) = n
  OBVIOUS
<1>3. [i \in 1..n |-> s] \o <<>> = [i \in 1..n |-> s]
  BY <1>2
<1> QED
  BY <1>1, <1>2, <1>3 DEF Bound

\* A query's result is the handler's own, for the handler's own name.
LEMMA SelectReads ==
  ASSUME TypeOK, PoolInv, NEW s \in Sessions, NEW id \in 0..idGenerator, Select(s, id)
  PROVE  /\ outId' = [outId EXCEPT ![s] = id]
         /\ pc' = [pc EXCEPT ![s] = IF id = 0 THEN "announce" ELSE "check"]
         /\ id \in Ids(name[s]) \/ (id = 0 /\ Ids(name[s]) = {})
<1> DEFINE st == statement[conn[s]]
<1>1. st.params = Bound(<<>>, s, 1) /\ st.columns = Bound(<<>>, s, 2)
  BY DEF PoolInv, ConnectionsKept, OwnLocals, Select
<1>2. st.params[1] = s /\ st.columns[1] = s
  BY <1>1, BoundToHandler
<1>3. outId' = [outId EXCEPT ![s] = id]
  BY <1>2 DEF Select
<1>4. outId'[s] = id
  BY <1>3 DEF TypeOK, SessionsOK
<1> QED
  BY <1>2, <1>3, <1>4 DEF Select, Fetched

LEMMA InsertStores ==
  ASSUME TypeOK, PoolInv, NEW s \in Sessions, Insert(s)
  PROVE  table' = table \cup {[id |-> player[s], name |-> name[s], by |-> s]}
<1>1. statement[conn[s]].params = Bound(<<>>, s, 2)
  BY DEF PoolInv, ConnectionsKept, OwnLocals, Insert
<1> QED
  BY <1>1, BoundToHandler DEF Insert, Stored

-----------------------------------------------------------------------------
(* Types.                                                                     *)

\* The first n of a sequence, taking the last of a stack, and putting one back.
LEMMA PrefixIs ==
  ASSUME NEW S, NEW q \in Seq(S), NEW n \in Nat, n <= Len(q)
  PROVE  /\ SubSeq(q, 1, n) \in Seq(S) /\ Len(SubSeq(q, 1, n)) = n
         /\ \A i \in 1..n : SubSeq(q, 1, n)[i] = q[i]
<1>1. SubSeq(q, 1, n) \in Seq(S)
  OBVIOUS
<1>2. Len(SubSeq(q, 1, n)) = n
  OBVIOUS
<1>3. \A i \in 1..n : SubSeq(q, 1, n)[i] = q[i]
  OBVIOUS
<1> QED
  BY <1>1, <1>2, <1>3

LEMMA PoppedIs ==
  ASSUME NEW S, NEW q \in Seq(S), q # <<>>
  PROVE  /\ SubSeq(q, 1, Len(q) - 1) \in Seq(S)
         /\ Len(SubSeq(q, 1, Len(q) - 1)) = Len(q) - 1
         /\ \A i \in 1..(Len(q) - 1) : SubSeq(q, 1, Len(q) - 1)[i] = q[i]
         /\ Len(q) \in 1..Len(q) /\ q[Len(q)] \in S
<1>1. Len(q) \in Nat /\ Len(q) # 0
  OBVIOUS
<1>2. Len(q) - 1 \in Nat /\ Len(q) - 1 <= Len(q) /\ Len(q) \in 1..Len(q) /\ q[Len(q)] \in S
  BY <1>1
<1> QED
  BY <1>2, PrefixIs

LEMMA PushedIs ==
  ASSUME NEW S, NEW q \in Seq(S), NEW e \in S
  PROVE  /\ Append(q, e) \in Seq(S)
         /\ Len(Append(q, e)) = Len(q) + 1
         /\ \A i \in 1..Len(q) : Append(q, e)[i] = q[i]
         /\ Append(q, e)[Len(q) + 1] = e
  OBVIOUS

LEMMA ElementIs ==
  ASSUME NEW S, NEW q \in Seq(S), NEW i \in 1..Len(q) PROVE q[i] \in S
  OBVIOUS

LEMMA OpenedIs ==
  /\ Opened \in Seq(1..Connections) /\ Len(Opened) = Connections
  /\ \A i \in 1..Connections : Opened[i] = i
  BY ConnectionsAssumption DEF Opened

LEMMA TypeInit == Init => TypeOK
<1> SUFFICES ASSUME Init PROVE TypeOK
  OBVIOUS
<1>1. SessionsOK /\ TableOK
  BY DEF Init, SessionsOK, TableOK, Statements
<1>2. PoolOK
  BY OpenedIs DEF Init, PoolOK, Unbound
<1> QED
  BY <1>1, <1>2 DEF TypeOK

LEMMA SessionsStep ==
  ASSUME TypeOK, PoolInv, [Next]_vars PROVE SessionsOK'
<1> USE DEF TypeOK, SessionsOK, TableOK, Statements
<1>1. CASE UNCHANGED vars
  BY <1>1 DEF vars
<1>2. ASSUME NEW s \in Sessions, Connect(s) \/ Leave(s) PROVE SessionsOK'
  BY <1>2 DEF Connect, Leave, Disconnected
<1>3. ASSUME NEW s \in Sessions, Login(s) PROVE SessionsOK'
  <2>1. ASSUME NEW n \in Names, Begin(s, n) PROVE SessionsOK'
    BY <2>1 DEF Begin
  <2>2. CASE \/ Pop(s, "popSelect", "bindSelect") \/ Pop(s, "popInsert", "bindInsert") \/ PopNull(s)
             \/ Bind(s, "bindSelect", "select", 1, 2) \/ Bind(s, "bindInsert", "insert", 2, 0)
             \/ Insert(s)
    BY <2>2 DEF Pop, PopNull, Bind, Insert
  <2>3. ASSUME NEW id \in 0..idGenerator, Select(s, id) PROVE SessionsOK'
    <3>1. id \in Nat
      OBVIOUS
    <3> QED
      BY <2>3, <3>1, SelectReads DEF Select
  <2>4. CASE Announce(s) \/ Take(s)
    BY <2>4 DEF Announce, Take, NextId
  <2>5. CASE StartLoop(s) \/ TornLoop(s) \/ Send(s)
    BY <2>5 DEF StartLoop, TornLoop, Send
  <2>6. CASE Kick(s)
    BY <2>6 DEF Kick, Disconnected
  <2>7. CASE Assign(s)
    BY <2>7 DEF Assign
  <2>8. ASSUME NEW among \in SUBSET Sessions, EndLoop(s, among) PROVE SessionsOK'
    BY <2>8 DEF EndLoop
  <2> QED
    BY <1>3, <2>1, <2>2, <2>3, <2>4, <2>5, <2>6, <2>7, <2>8 DEF Login
<1> QED
  BY <1>1, <1>2, <1>3 DEF Next, Finished

LEMMA TableStep ==
  ASSUME TypeOK, PoolInv, AccountInv, [Next]_vars PROVE TableOK'
<1> USE DEF TypeOK, SessionsOK, TableOK
<1>1. CASE UNCHANGED vars
  BY <1>1 DEF vars
<1>2. ASSUME NEW s \in Sessions, Connect(s) \/ Leave(s) PROVE TableOK'
  BY <1>2 DEF Connect, Leave, Disconnected
<1>3. ASSUME NEW s \in Sessions, Login(s) PROVE TableOK'
  <2>1. ASSUME NEW n \in Names, Begin(s, n) PROVE TableOK'
    BY <2>1 DEF Begin
  <2>2. CASE \/ Pop(s, "popSelect", "bindSelect") \/ Pop(s, "popInsert", "bindInsert") \/ PopNull(s)
             \/ Bind(s, "bindSelect", "select", 1, 2) \/ Bind(s, "bindInsert", "insert", 2, 0)
             \/ Announce(s)
    BY <2>2 DEF Pop, PopNull, Bind, Announce
  <2>3. ASSUME NEW id \in 0..idGenerator, Select(s, id) PROVE TableOK'
    BY <2>3, SelectReads DEF Select
  <2>4. CASE Insert(s)
    <3>1. player[s] \in Nat /\ name[s] \in Names
      BY <2>4 DEF Insert, AccountInv, Inserting
    <3>2. [id |-> player[s], name |-> name[s], by |-> s] \in [id : Nat, name : Names, by : Sessions]
      BY <3>1
    <3>3. table' \in SUBSET [id : Nat, name : Names, by : Sessions]
      BY <2>4, <3>2, InsertStores
    <3> QED
      BY <2>4, <3>3 DEF Insert
  <2>5. CASE StartLoop(s) \/ TornLoop(s) \/ Kick(s) \/ Assign(s) \/ Send(s)
    BY <2>5 DEF StartLoop, TornLoop, Kick, Disconnected, Assign, Send
  <2>6. ASSUME NEW among \in SUBSET Sessions, EndLoop(s, among) PROVE TableOK'
    BY <2>6 DEF EndLoop
  <2>7. CASE Take(s)
    <3>1. idGenerator' = idGenerator + 1 /\ UNCHANGED <<table, name>>
      BY <2>7 DEF Take, Advanced
    <3>2. \A u \in Sessions : pc'[u] \in Handling => pc[u] \in Handling
      BY <2>7 DEF Take
    <3> QED
      BY <3>1, <3>2
  <2> QED
    BY <1>3, <2>1, <2>2, <2>3, <2>4, <2>5, <2>6, <2>7 DEF Login
<1> QED
  BY <1>1, <1>2, <1>3 DEF Next, Finished

-----------------------------------------------------------------------------
(* The pool.                                                                  *)

Holders == {s \in Sessions : Holding(s)}

\* Taking up or giving back a connection changes the number of holders by one.
LEMMA HoldersFinite == IsFiniteSet(Holders) /\ Cardinality(Holders) \in Nat
<1>1. Holders \in SUBSET Sessions
  BY DEF Holders
<1> QED
  BY <1>1, FiniteAssumption, FS_Subset, FS_CardinalityType

LEMMA NoneIsNoConnection == \A c \in 1..Connections : c # None
  BY NoneAssumption, ConnectionsAssumption

LEMMA PoolInit == Init => PoolInv
<1> SUFFICES ASSUME Init PROVE PoolInv
  OBVIOUS
<1>1. Holders = {}
  BY DEF Init, Holders
<1>2. Len(pool) = Connections /\ \A i \in 1..Len(pool) : pool[i] = i
  BY OpenedIs DEF Init
<1>3. NoneLost
  BY <1>1, <1>2, FS_EmptySet, ConnectionsAssumption DEF NoneLost, Holders
<1> QED
  BY <1>1, <1>2, <1>3, NoneIsNoConnection
  DEF Init, Holders, PoolInv, ConnectionsKept, OneHolder, OwnLocals, Querying

LEMMA PopKeeps ==
  ASSUME TypeOK, PoolInv, NEW s \in Sessions,
         Pop(s, "popSelect", "bindSelect") \/ Pop(s, "popInsert", "bindInsert")
  PROVE  PoolOK' /\ PoolInv'
<1> USE DEF TypeOK, SessionsOK, PoolOK
<1> DEFINE c == pool[Len(pool)]
<1>1. /\ pool' \in Seq(1..Connections) /\ Len(pool') = Len(pool) - 1 /\ Len(pool) \in Nat
      /\ \A i \in 1..Len(pool') : pool'[i] = pool[i] /\ i \in 1..Len(pool) /\ i # Len(pool)
      /\ Len(pool) \in 1..Len(pool) /\ c \in 1..Connections
  <2>1. pool # <<>> /\ pool' = SubSeq(pool, 1, Len(pool) - 1) /\ pool \in Seq(1..Connections)
    BY DEF Pop, Popped
  <2>2. /\ pool' \in Seq(1..Connections) /\ Len(pool') = Len(pool) - 1
        /\ \A i \in 1..(Len(pool) - 1) : pool'[i] = pool[i]
        /\ Len(pool) \in 1..Len(pool) /\ c \in 1..Connections
    BY <2>1, PoppedIs, Zenon
  <2>3. Len(pool) \in Nat
    BY <2>1
  <2> QED
    BY <2>2, <2>3
<1>2. /\ conn' = [conn EXCEPT ![s] = c] /\ statement' = statement
      /\ conn[s] = None /\ c # None
  BY <1>1, NoneIsNoConnection DEF Pop, PoolInv, Querying
<1>3. PoolOK'
  BY <1>1, <1>2
<1>4. NoneLost'
  <2>1. Holders' = Holders \cup {s} /\ s \notin Holders
    BY <1>2 DEF Holders
  <2>2. Cardinality(Holders') = Cardinality(Holders) + 1
    BY <2>1, HoldersFinite, FS_AddElement
  <2>3. Len(pool) + Cardinality(Holders) = Connections
    BY DEF PoolInv, ConnectionsKept, NoneLost, Holders
  <2>4. Len(pool') + Cardinality(Holders') = Connections
    BY <1>1, <2>2, <2>3, HoldersFinite
  <2> QED
    BY <2>4 DEF NoneLost, Holders
<1>5. OneHolder'
  BY <1>1, <1>2 DEF PoolInv, ConnectionsKept, OneHolder
<1>6. \A u \in Sessions : OwnLocals(u)'
  BY <1>2 DEF Pop, PoolInv, ConnectionsKept, OwnLocals, Bound
<1>7. \A u \in Sessions : Holding(u)' <=> pc'[u] \in Querying
  BY <1>2 DEF Pop, PoolInv, Querying
<1>8. \A i, j \in 1..Len(pool') : pool'[i] = pool'[j] => i = j
  BY <1>1 DEF PoolInv
<1>9. \A u \in Sessions, i \in 1..Len(pool') : pool'[i] # conn'[u]
  BY <1>1, <1>2 DEF PoolInv
<1> QED
  BY <1>3, <1>4, <1>5, <1>6, <1>7, <1>8, <1>9 DEF PoolInv, ConnectionsKept

\* Execute, Fetch and Push.
LEMMA PushKeeps ==
  ASSUME TypeOK, PoolInv, NEW s \in Sessions, Insert(s) \/ \E id \in 0..idGenerator : Select(s, id)
  PROVE  PoolOK' /\ PoolInv'
<1> USE DEF TypeOK, SessionsOK, PoolOK
<1> DEFINE c == conn[s]
<1>1. /\ Push(s) /\ pc[s] \in {"select", "insert"} /\ c \in 1..Connections /\ c # None
      /\ pc' = [pc EXCEPT ![s] = pc'[s]] /\ pc'[s] \in {"announce", "check", "send"}
  BY NoneIsNoConnection DEF Insert, Select, PoolInv, Querying
<1>2. statement' = statement \/ statement' = [statement EXCEPT ![c].cursor = TRUE]
  BY DEF Insert, Select
<1>3. /\ pool' \in Seq(1..Connections) /\ Len(pool') = Len(pool) + 1 /\ Len(pool) \in Nat
      /\ \A i \in 1..Len(pool) : pool'[i] = pool[i]
      /\ pool'[Len(pool) + 1] = c
  BY <1>1, PushedIs DEF Push
<1>4. conn' = [conn EXCEPT ![s] = None]
  BY <1>1 DEF Push
<1>5. PoolOK'
  <2>1. statement' \in [1..Connections ->
                            [params : Seq(Sessions), columns : Seq(Sessions), cursor : BOOLEAN]]
    <3>1. statement[c] \in [params : Seq(Sessions), columns : Seq(Sessions), cursor : BOOLEAN]
      BY <1>1
    <3>2. [statement[c] EXCEPT !.cursor = TRUE]
              \in [params : Seq(Sessions), columns : Seq(Sessions), cursor : BOOLEAN]
      BY <3>1, Zenon
    <3> QED
      BY <1>1, <1>2, <3>2
  <2>2. conn' \in [Sessions -> (1..Connections) \cup {None}]
    BY <1>4
  <2> QED
    BY <1>3, <2>1, <2>2
<1>6. NoneLost'
  <2>1. Holders' = Holders \ {s} /\ s \in Holders
    BY <1>1, <1>4 DEF Holders
  <2>2. Cardinality(Holders') = Cardinality(Holders) - 1
    BY <2>1, HoldersFinite, FS_RemoveElement
  <2>3. Len(pool) + Cardinality(Holders) = Connections
    BY DEF PoolInv, ConnectionsKept, NoneLost, Holders
  <2>4. Len(pool') + Cardinality(Holders') = Connections
    BY <1>3, <2>2, <2>3, HoldersFinite
  <2> QED
    BY <2>4 DEF NoneLost, Holders
<1>7. OneHolder'
  BY <1>4 DEF PoolInv, ConnectionsKept, OneHolder
<1>8. ASSUME NEW u \in Sessions PROVE OwnLocals(u)'
  <2>1. CASE u = s
    BY <1>1, <2>1 DEF OwnLocals
  <2>2. CASE u # s /\ pc[u] \in {"select", "insert"}
    <3>1. Holding(u) /\ conn'[u] = conn[u] /\ conn[u] # c /\ pc'[u] = pc[u]
      BY <1>1, <1>4, <2>2 DEF PoolInv, Querying, ConnectionsKept, OneHolder
    <3>2. statement'[conn'[u]] = statement[conn[u]]
      BY <1>2, <3>1
    <3>3. OwnLocals(u)
      BY DEF PoolInv, ConnectionsKept
    <3> QED
      BY <2>2, <3>1, <3>2, <3>3 DEF OwnLocals, Bound
  <2>3. CASE u # s /\ pc[u] \notin {"select", "insert"}
    BY <1>1, <2>3 DEF OwnLocals
  <2> QED
    BY <2>1, <2>2, <2>3
<1>9. \A u \in Sessions : Holding(u)' <=> pc'[u] \in Querying
  BY <1>1, <1>4 DEF PoolInv, Querying
<1>10. \A i, j \in 1..Len(pool') : pool'[i] = pool'[j] => i = j
  <2>1. \A i \in 1..Len(pool') : i = Len(pool) + 1 \/ i \in 1..Len(pool)
    BY <1>3
  <2>2. \A i \in 1..Len(pool) : pool[i] # c
    BY DEF PoolInv
  <2>3. \A i, j \in 1..Len(pool) : pool[i] = pool[j] => i = j
    BY DEF PoolInv
  <2> QED
    BY <1>3, <2>1, <2>2, <2>3
<1>11. \A u \in Sessions, i \in 1..Len(pool') : pool'[i] # conn'[u]
  <2>1. ASSUME NEW u \in Sessions, NEW i \in 1..Len(pool') PROVE pool'[i] # conn'[u]
    <3>1. CASE u = s
      <4>1. pool' \in Seq(1..Connections) /\ i \in 1..Len(pool')
        BY <1>3
      <4>2. pool'[i] \in 1..Connections
        BY <4>1, ElementIs
      <4> QED
        BY <1>4, <3>1, <4>2, NoneIsNoConnection
    <3>2. CASE u # s /\ i = Len(pool) + 1
      BY <1>1, <1>3, <1>4, <3>2 DEF PoolInv, ConnectionsKept, OneHolder
    <3>3. CASE u # s /\ i \in 1..Len(pool)
      BY <1>3, <1>4, <3>3 DEF PoolInv
    <3> QED
      BY <1>3, <3>1, <3>2, <3>3
  <2> QED
    BY <2>1
<1> QED
  BY <1>5, <1>6, <1>7, <1>8, <1>9, <1>10, <1>11 DEF PoolInv, ConnectionsKept

LEMMA BindKeeps ==
  ASSUME TypeOK, PoolInv, NEW s \in Sessions,
         Bind(s, "bindSelect", "select", 1, 2) \/ Bind(s, "bindInsert", "insert", 2, 0)
  PROVE  PoolOK' /\ PoolInv'
<1> USE DEF TypeOK, SessionsOK, PoolOK
<1> DEFINE c == conn[s]
           n == IF pc[s] = "bindSelect" THEN <<1, 2>> ELSE <<2, 0>>
<1>1. pc[s] \in {"bindSelect", "bindInsert"} /\ c \in 1..Connections /\ UNCHANGED <<pool, conn>>
  BY DEF Bind, PoolInv, Querying
<1>2. pc' = [pc EXCEPT ![s] = IF pc[s] = "bindSelect" THEN "select" ELSE "insert"]
  BY DEF Bind
<1>3. statement' = [statement EXCEPT ![c] = [params |-> Bound(<<>>, s, n[1]),
                                             columns |-> Bound(<<>>, s, n[2]), cursor |-> FALSE]]
  BY DEF Bind, Constructed, Unbound
<1>4. Bound(<<>>, s, n[1]) \in Seq(Sessions) /\ Bound(<<>>, s, n[2]) \in Seq(Sessions)
  BY BoundToHandler
<1>5. PoolOK'
  BY <1>1, <1>3, <1>4
<1>6. NoneLost' /\ OneHolder'
  BY <1>1 DEF PoolInv, ConnectionsKept, NoneLost, OneHolder
<1>7. ASSUME NEW u \in Sessions PROVE OwnLocals(u)'
  <2>1. CASE u = s
    BY <1>1, <1>2, <1>3, <2>1 DEF OwnLocals, Bound
  <2>2. CASE u # s /\ pc[u] \in {"select", "insert"}
    <3>1. conn'[u] = conn[u] /\ conn[u] # c /\ pc'[u] = pc[u]
      BY <1>1, <1>2, <2>2 DEF PoolInv, Querying, ConnectionsKept, OneHolder
    <3>2. statement'[conn'[u]] = statement[conn[u]]
      BY <1>3, <3>1
    <3>3. OwnLocals(u)
      BY DEF PoolInv, ConnectionsKept
    <3> QED
      BY <2>2, <3>1, <3>2, <3>3 DEF OwnLocals, Bound
  <2>3. CASE u # s /\ pc[u] \notin {"select", "insert"}
    BY <1>2, <2>3 DEF OwnLocals
  <2> QED
    BY <2>1, <2>2, <2>3
<1>8. \A u \in Sessions : Holding(u)' <=> pc'[u] \in Querying
  BY <1>1, <1>2 DEF PoolInv, Querying
<1> QED
  BY <1>1, <1>5, <1>6, <1>7, <1>8 DEF PoolInv, ConnectionsKept

\* The steps that have nothing to do with the database.
LEMMA OthersKeepPool ==
  ASSUME TypeOK, PoolInv, UNCHANGED dbVars,
         \A u \in Sessions : /\ pc'[u] \in Querying <=> pc[u] \in Querying
                             /\ pc'[u] \in Querying => pc'[u] = pc[u]
  PROVE  PoolOK' /\ PoolInv'
<1>1. PoolOK'
  BY DEF TypeOK, PoolOK
<1>2. NoneLost' /\ OneHolder'
  BY DEF PoolInv, ConnectionsKept, NoneLost, OneHolder
<1>3. \A u \in Sessions : OwnLocals(u)'
  BY DEF PoolInv, ConnectionsKept, OwnLocals, Bound, Querying
<1> QED
  BY <1>1, <1>2, <1>3 DEF PoolInv, ConnectionsKept

LEMMA PoolStep ==
  ASSUME TypeOK, PoolInv, [Next]_vars PROVE PoolOK' /\ PoolInv'
<1> USE DEF TypeOK, SessionsOK, Querying
<1>1. CASE UNCHANGED vars
  BY <1>1, OthersKeepPool DEF vars
<1>2. ASSUME NEW s \in Sessions, Connect(s) \/ Leave(s) PROVE PoolOK' /\ PoolInv'
  BY <1>2, OthersKeepPool DEF Connect, Leave
<1>3. ASSUME NEW s \in Sessions, Login(s) PROVE PoolOK' /\ PoolInv'
  <2>1. ASSUME NEW n \in Names, Begin(s, n) PROVE PoolOK' /\ PoolInv'
    BY <2>1, OthersKeepPool DEF Begin
  <2>2. CASE PopNull(s) \/ Announce(s) \/ Take(s)
    BY <2>2, OthersKeepPool DEF PopNull, Announce, Take
  <2>3. CASE StartLoop(s) \/ TornLoop(s) \/ Kick(s) \/ Assign(s) \/ Send(s)
    BY <2>3, OthersKeepPool DEF StartLoop, TornLoop, Kick, Assign, Send
  <2>4. ASSUME NEW among \in SUBSET Sessions, EndLoop(s, among) PROVE PoolOK' /\ PoolInv'
    BY <2>4, OthersKeepPool DEF EndLoop
  <2> QED
    BY <1>3, <2>1, <2>2, <2>3, <2>4, PopKeeps, PushKeeps, BindKeeps DEF Login
<1> QED
  BY <1>1, <1>2, <1>3 DEF Next, Finished

-----------------------------------------------------------------------------
(* Who has met whom.                                                          *)

LEMMA MetInit == Init => MetInv
  BY DEF Init, MetInv

\* met changes only when a handler begins.
LEMMA OthersKeepMet ==
  ASSUME MetInv, met' = met,
         \A u \in Sessions : /\ pc'[u] \in Handling => pc[u] \in Handling
                             /\ pc'[u] \in {"away", "idle"} => pc[u] \in {"away", "idle"}
  PROVE  MetInv'
  BY DEF MetInv

LEMMA BeginMeets ==
  ASSUME TypeOK, MetInv, NEW s \in Sessions, NEW n \in Names, Begin(s, n)
  PROVE  /\ MetInv'
         /\ \A u \in Sessions : u # s => met[u] \subseteq met'[u]
<1> USE DEF TypeOK, SessionsOK
<1> DEFINE others == {u \in Sessions : pc[u] \in Handling}
<1>1. /\ pc[s] = "idle" /\ pc' = [pc EXCEPT ![s] = "popSelect"]
      /\ met' = [u \in Sessions |-> IF u = s THEN others
                                    ELSE IF u \in others THEN met[u] \cup {s} ELSE met[u]]
  BY DEF Begin
<1>2. \A u \in Sessions : s \notin met[u]
  BY <1>1 DEF MetInv
<1>3. \A u, v \in Sessions : pc'[u] \in Handling /\ pc'[v] \in Handling => u = v \/ v \in met'[u]
  BY <1>1 DEF MetInv
<1>4. \A u, v \in Sessions : v \in met'[u] => u \in met'[v]
  BY <1>1, <1>2 DEF MetInv
<1>5. \A u, v \in Sessions : pc'[u] \in {"away", "idle"} => u \notin met'[v]
  BY <1>1 DEF MetInv
<1>6. \A u \in Sessions : u # s => met[u] \subseteq met'[u]
  BY <1>1
<1> QED
  BY <1>3, <1>4, <1>5, <1>6 DEF MetInv

LEMMA MetStep ==
  ASSUME TypeOK, MetInv, [Next]_vars PROVE MetInv'
<1> USE DEF TypeOK, SessionsOK
<1>1. CASE UNCHANGED vars
  BY <1>1 DEF vars, MetInv
<1>2. ASSUME NEW s \in Sessions, Connect(s) \/ Leave(s) PROVE MetInv'
  BY <1>2, OthersKeepMet DEF Connect, Leave
<1>3. ASSUME NEW s \in Sessions, Login(s) PROVE MetInv'
  <2>1. CASE \/ Pop(s, "popSelect", "bindSelect") \/ Pop(s, "popInsert", "bindInsert") \/ PopNull(s)
             \/ Bind(s, "bindSelect", "select", 1, 2) \/ Bind(s, "bindInsert", "insert", 2, 0)
    BY <2>1, OthersKeepMet DEF Pop, PopNull, Bind
  <2>2. ASSUME NEW id \in 0..idGenerator, Select(s, id) PROVE MetInv'
    BY <2>2, OthersKeepMet DEF Select
  <2>3. CASE Announce(s) \/ Take(s) \/ Insert(s)
    BY <2>3, OthersKeepMet DEF Announce, Take, Insert
  <2>4. CASE StartLoop(s) \/ TornLoop(s) \/ Kick(s) \/ Assign(s) \/ Send(s)
    BY <2>4, OthersKeepMet DEF StartLoop, TornLoop, Kick, Assign, Send
  <2>5. ASSUME NEW among \in SUBSET Sessions, EndLoop(s, among) PROVE MetInv'
    BY <2>5, OthersKeepMet DEF EndLoop
  <2> QED
    BY <1>3, <2>1, <2>2, <2>3, <2>4, <2>5, BeginMeets DEF Login
<1> QED
  BY <1>1, <1>2, <1>3 DEF Next, Finished

\* Nobody who has begun forgets whom it met.
MetGrows == \A u \in Sessions : pc[u] # "idle" => met[u] \subseteq met'[u]

-----------------------------------------------------------------------------
(* Accounts.                                                                  *)

LEMMA AccountInit == Init => AccountInv
  BY DEF Init, AccountInv, AccountsDistinct, Inserting

LEMMA OthersKeepAccounts ==
  ASSUME TypeOK, AccountInv, UNCHANGED <<table, idGenerator>>, MetGrows,
         \A u \in Sessions :
             /\ pc[u] \in {"send", "in", "gone"} => pc'[u] \in {"send", "in", "gone"}
             /\ pc'[u] \in Inserting => pc[u] \in Inserting /\ player'[u] = player[u]
             /\ pc'[u] \in Inserting \cup {"announce", "take"} =>
                    pc[u] \in Inserting \cup {"announce", "take"} /\ name'[u] = name[u]
  PROVE  AccountInv'
<1>1. \A a \in table : a.by \in Sessions
  BY DEF TypeOK, TableOK
<1>2. AccountsDistinct'
  BY <1>1 DEF AccountInv, AccountsDistinct, MetGrows
<1>3. \A a \in table' : 0 < a.id /\ pc'[a.by] \in {"send", "in", "gone"}
  BY <1>1 DEF AccountInv
<1>4. \A u \in Sessions : pc'[u] \in Inserting =>
          /\ player'[u] \in 1..(idGenerator' - 1)
          /\ \A a \in table' : a.id # player'[u]
          /\ \A v \in Sessions : pc'[v] \in Inserting /\ player'[v] = player'[u] => v = u
  BY DEF AccountInv
<1>5. \A u \in Sessions : pc'[u] \in Inserting \cup {"announce", "take"} =>
          \A a \in table' : a.name = name'[u] => a.by \in met'[u]
  BY DEF AccountInv, MetGrows, Inserting
<1> QED
  BY <1>2, <1>3, <1>4, <1>5 DEF AccountInv

LEMMA SelectKeepsAccounts ==
  ASSUME TypeOK, PoolInv, AccountInv, NEW s \in Sessions, NEW id \in 0..idGenerator, Select(s, id)
  PROVE  AccountInv'
<1> USE DEF TypeOK, SessionsOK
<1>1. pc[s] = "select" /\ UNCHANGED <<table, idGenerator, player, name, met>>
  BY DEF Select
<1>2. pc' = [pc EXCEPT ![s] = IF id = 0 THEN "announce" ELSE "check"]
  BY SelectReads
<1>3. ASSUME id = 0 PROVE \A a \in table : a.name # name[s]
  <2>1. id \in Ids(name[s]) \/ Ids(name[s]) = {}
    BY SelectReads
  <2>2. \A a \in table : 0 < a.id
    BY DEF AccountInv
  <2>3. 0 \notin Ids(name[s])
    BY <2>2 DEF Ids
  <2> QED
    BY <1>3, <2>1, <2>3 DEF Ids
<1>4. AccountsDistinct'
  BY <1>1 DEF AccountInv, AccountsDistinct
<1>5. \A a \in table' : 0 < a.id /\ pc'[a.by] \in {"send", "in", "gone"}
  BY <1>1, <1>2 DEF AccountInv, TableOK
<1>6. \A u \in Sessions : pc'[u] \in Inserting => u # s /\ pc[u] \in Inserting
  BY <1>1, <1>2 DEF Inserting
<1>7. \A u \in Sessions : pc'[u] \in Inserting =>
          /\ player'[u] \in 1..(idGenerator' - 1)
          /\ \A a \in table' : a.id # player'[u]
          /\ \A v \in Sessions : pc'[v] \in Inserting /\ player'[v] = player'[u] => v = u
  BY <1>1, <1>6 DEF AccountInv
<1>8. \A u \in Sessions : pc'[u] \in Inserting \cup {"announce", "take"} =>
          \A a \in table' : a.name = name'[u] => a.by \in met'[u]
  BY <1>1, <1>2, <1>3 DEF AccountInv, Inserting
<1> QED
  BY <1>4, <1>5, <1>7, <1>8 DEF AccountInv

LEMMA TakeKeepsAccounts ==
  ASSUME TypeOK, AccountInv, NEW s \in Sessions, Take(s)
  PROVE  AccountInv'
<1> USE DEF TypeOK, SessionsOK, TableOK
<1>1. /\ pc[s] = "take" /\ pc' = [pc EXCEPT ![s] = "popInsert"]
      /\ player' = [player EXCEPT ![s] = idGenerator] /\ idGenerator' = idGenerator + 1
      /\ UNCHANGED <<table, name, met>>
  BY DEF Take, Advanced
<1>2. \A a \in table : a.id \in Nat /\ a.id < idGenerator
  BY DEF AccountInv, AccountsDistinct
<1>3. AccountsDistinct'
  BY <1>1, <1>2 DEF AccountInv, AccountsDistinct
<1>4. \A a \in table' : 0 < a.id /\ pc'[a.by] \in {"send", "in", "gone"}
  BY <1>1 DEF AccountInv
<1>5. \A u \in Sessions : pc'[u] \in Inserting =>
          u = s \/ (u # s /\ pc[u] \in Inserting /\ player'[u] = player[u]
                    /\ player[u] \in 1..(idGenerator - 1))
  BY <1>1 DEF AccountInv, Inserting
<1>6. \A u \in Sessions : pc'[u] \in Inserting =>
          /\ player'[u] \in 1..(idGenerator' - 1)
          /\ \A a \in table' : a.id # player'[u]
          /\ \A v \in Sessions : pc'[v] \in Inserting /\ player'[v] = player'[u] => v = u
  BY <1>1, <1>2, <1>5 DEF AccountInv
<1>7. \A u \in Sessions : pc'[u] \in Inserting \cup {"announce", "take"} =>
          \A a \in table' : a.name = name'[u] => a.by \in met'[u]
  BY <1>1 DEF AccountInv, Inserting
<1> QED
  BY <1>3, <1>4, <1>6, <1>7 DEF AccountInv

LEMMA InsertKeepsAccounts ==
  ASSUME TypeOK, PoolInv, MetInv, AccountInv, NEW s \in Sessions, Insert(s)
  PROVE  AccountInv'
<1> USE DEF TypeOK, SessionsOK, TableOK
<1> DEFINE row == [id |-> player[s], name |-> name[s], by |-> s]
<1>1. /\ pc[s] = "insert" /\ pc' = [pc EXCEPT ![s] = "send"]
      /\ table' = table \cup {row} /\ UNCHANGED <<player, name, met, idGenerator>>
  BY InsertStores DEF Insert
<1>2. /\ row.id \in 1..(idGenerator - 1) /\ \A a \in table : a.id # row.id
      /\ \A u \in Sessions : u # s /\ pc[u] \in Inserting => player[u] # row.id
      /\ \A a \in table : a.name = row.name => a.by \in met[s]
  BY <1>1 DEF AccountInv, Inserting
<1>3. \A a \in table : a.name = row.name => row.by \in met[a.by]
  BY <1>2 DEF MetInv
<1>4. AccountsDistinct'
  BY <1>1, <1>2, <1>3 DEF AccountInv, AccountsDistinct
<1>5. \A a \in table' : 0 < a.id /\ pc'[a.by] \in {"send", "in", "gone"}
  BY <1>1, <1>2 DEF AccountInv
<1>6. \A u \in Sessions : pc'[u] \in Inserting => u # s /\ pc[u] \in Inserting
  BY <1>1 DEF Inserting
<1>7. \A u \in Sessions : pc'[u] \in Inserting =>
          /\ player'[u] \in 1..(idGenerator' - 1)
          /\ \A a \in table' : a.id # player'[u]
          /\ \A v \in Sessions : pc'[v] \in Inserting /\ player'[v] = player'[u] => v = u
  BY <1>1, <1>2, <1>6 DEF AccountInv
<1>8. \A u \in Sessions : u # s /\ pc[u] \in Handling => s \in met[u]
  BY <1>1 DEF MetInv
<1>9. \A u \in Sessions : pc'[u] \in Inserting \cup {"announce", "take"} =>
          \A a \in table' : a.name = name'[u] => a.by \in met'[u]
  BY <1>1, <1>8 DEF AccountInv, Inserting
<1> QED
  BY <1>4, <1>5, <1>7, <1>9 DEF AccountInv

LEMMA AccountStep ==
  ASSUME TypeOK, PoolInv, MetInv, AccountInv, [Next]_vars PROVE AccountInv'
<1> USE DEF TypeOK, SessionsOK, MetGrows, Inserting
<1>1. CASE UNCHANGED vars
  BY <1>1, OthersKeepAccounts DEF vars
<1>2. ASSUME NEW s \in Sessions, Connect(s) \/ Leave(s) PROVE AccountInv'
  BY <1>2, OthersKeepAccounts DEF Connect, Leave, Disconnected
<1>3. ASSUME NEW s \in Sessions, Login(s) PROVE AccountInv'
  <2>1. CASE \/ Pop(s, "popSelect", "bindSelect") \/ Pop(s, "popInsert", "bindInsert") \/ PopNull(s)
             \/ Bind(s, "bindSelect", "select", 1, 2) \/ Bind(s, "bindInsert", "insert", 2, 0)
             \/ Announce(s)
    BY <2>1, OthersKeepAccounts DEF Pop, PopNull, Bind, Announce
  <2>2. ASSUME NEW n \in Names, Begin(s, n) PROVE AccountInv'
    BY <2>2, BeginMeets, OthersKeepAccounts DEF Begin
  <2>3. CASE StartLoop(s) \/ TornLoop(s) \/ Kick(s) \/ Assign(s) \/ Send(s)
    BY <2>3, OthersKeepAccounts DEF StartLoop, TornLoop, Kick, Disconnected, Assign, Send
  <2>4. ASSUME NEW among \in SUBSET Sessions, EndLoop(s, among) PROVE AccountInv'
    BY <2>4, OthersKeepAccounts DEF EndLoop
  <2> QED
    BY <1>3, <2>1, <2>2, <2>3, <2>4, SelectKeepsAccounts, TakeKeepsAccounts, InsertKeepsAccounts
    DEF Login
<1> QED
  BY <1>1, <1>2, <1>3 DEF Next, Finished

-----------------------------------------------------------------------------
(* What the table holds of a login.                                           *)

LEMMA StoredInit == Init => StoredInv
  BY DEF Init, StoredInv, Inserting, LoggedIn

LEMMA OthersKeepStored ==
  ASSUME TypeOK, StoredInv, UNCHANGED <<table, idGenerator>>, MetGrows,
         \A u \in Sessions :
             /\ pc'[u] \in {"check", "loop", "kick", "assign"} =>
                    /\ pc[u] \in {"check", "loop", "kick", "assign"}
                    /\ outId'[u] = outId[u] /\ name'[u] = name[u]
             /\ pc'[u] = "take" => pc[u] = "take" /\ announced'[u] = announced[u]
             /\ pc'[u] \in Inserting =>
                    pc[u] \in Inserting /\ player'[u] = player[u] /\ announced'[u] = announced[u]
             /\ pc'[u] = "send" \/ LoggedIn(u)' =>
                    /\ pc[u] = "send" \/ LoggedIn(u)
                    /\ UNCHANGED <<player[u], name[u], announced[u]>>
  PROVE  StoredInv'
<1>1. \A u \in Sessions : pc'[u] \in {"check", "loop", "kick", "assign"} => Row(outId[u], name[u])'
  BY DEF StoredInv, Row
<1>2. \A u \in Sessions : pc'[u] = "take" => Told(u, idGenerator)'
  BY DEF StoredInv, Told, MetGrows
<1>3. \A u \in Sessions : pc'[u] \in Inserting => Told(u, player[u])'
  BY DEF StoredInv, Told, MetGrows, Inserting
<1>4. \A u \in Sessions : pc'[u] = "send" \/ LoggedIn(u)' => Row(player[u], name[u])'
  BY DEF StoredInv, Row
<1>5. \A u \in Sessions : pc'[u] = "send" \/ LoggedIn(u)' => Told(u, player[u])'
  BY DEF StoredInv, Told, MetGrows, LoggedIn
<1> QED
  BY <1>1, <1>2, <1>3, <1>4, <1>5 DEF StoredInv

LEMMA SelectKeepsStored ==
  ASSUME TypeOK, PoolInv, StoredInv, NEW s \in Sessions, NEW id \in 0..idGenerator, Select(s, id)
  PROVE  StoredInv'
<1> USE DEF TypeOK, SessionsOK
<1>1. pc[s] = "select" /\ UNCHANGED <<table, idGenerator, player, name, met, announced, connected>>
  BY DEF Select
<1>2. /\ pc' = [pc EXCEPT ![s] = IF id = 0 THEN "announce" ELSE "check"]
      /\ outId' = [outId EXCEPT ![s] = id] /\ id \in Nat
  BY SelectReads
<1>3. id # 0 => Row(id, name[s])
  BY SelectReads DEF Ids, Row
<1>4. \A u \in Sessions : pc'[u] \in {"check", "loop", "kick", "assign"} => Row(outId[u], name[u])'
  BY <1>1, <1>2, <1>3 DEF StoredInv, Row
<1>5. \A u \in Sessions : pc'[u] = "take" => Told(u, idGenerator)'
  BY <1>1, <1>2 DEF StoredInv, Told
<1>6. \A u \in Sessions : pc'[u] \in Inserting => Told(u, player[u])'
  BY <1>1, <1>2 DEF StoredInv, Told, Inserting
<1>7. \A u \in Sessions :
          pc'[u] = "send" \/ LoggedIn(u)' => Row(player[u], name[u])' /\ Told(u, player[u])'
  BY <1>1, <1>2 DEF StoredInv, Told, Row, LoggedIn
<1> QED
  BY <1>4, <1>5, <1>6, <1>7 DEF StoredInv

LEMMA AccountStepsKeepStored ==
  ASSUME TypeOK, PoolInv, MetInv, StoredInv, NEW s \in Sessions, Announce(s) \/ Take(s) \/ Insert(s)
  PROVE  StoredInv'
<1> USE DEF TypeOK, SessionsOK, TableOK
<1>1. UNCHANGED <<name, outId, met, connected>>
  BY DEF Announce, Take, Insert
<1>2. \A a \in table : a \in table'
  BY InsertStores DEF Announce, Take
<1>3. \A u \in Sessions : pc'[u] \in {"check", "loop", "kick", "assign"} => Row(outId[u], name[u])'
  BY <1>1, <1>2 DEF Announce, Take, Insert, StoredInv, Row
<1>4. \A u \in Sessions : pc'[u] = "take" => Told(u, idGenerator)'
  <2>1. CASE Announce(s)
    BY <1>1, <2>1 DEF Announce, NextId, StoredInv, Told
  <2>2. CASE Take(s)
    <3>1. \A u \in Sessions : pc'[u] = "take" => u # s /\ pc[u] \in Handling /\ pc[s] \in Handling
      BY <2>2 DEF Take
    <3>2. \A u \in Sessions : pc'[u] = "take" => s \in met[u]
      BY <3>1 DEF MetInv
    <3> QED
      BY <1>1, <3>2 DEF Told
  <2>3. CASE Insert(s)
    BY <1>1, <2>3 DEF Insert, StoredInv, Told
  <2> QED
    BY <2>1, <2>2, <2>3
<1>5. \A u \in Sessions : pc'[u] \in Inserting => Told(u, player[u])'
  BY <1>1 DEF Announce, Take, Insert, StoredInv, Told, Inserting
<1>6. \A u \in Sessions : pc'[u] = "send" \/ LoggedIn(u)' => Row(player[u], name[u])'
  <2>1. CASE Announce(s) \/ Take(s)
    BY <1>1, <1>2, <2>1 DEF Announce, Take, StoredInv, Row, LoggedIn
  <2>2. CASE Insert(s)
    <3>1. Row(player[s], name[s])'
      <4>1. [id |-> player[s], name |-> name[s], by |-> s] \in table' /\ player' = player
        BY <2>2, InsertStores DEF Insert
      <4> QED
        BY <1>1, <4>1 DEF Row
    <3> QED
      BY <1>1, <1>2, <2>2, <3>1 DEF Insert, StoredInv, Row, LoggedIn
  <2> QED
    BY <2>1, <2>2
<1>7. \A u \in Sessions : pc'[u] = "send" \/ LoggedIn(u)' => Told(u, player[u])'
  BY <1>1 DEF Announce, Take, Insert, StoredInv, Told, Inserting, LoggedIn
<1> QED
  BY <1>3, <1>4, <1>5, <1>6, <1>7 DEF StoredInv

LEMMA AssignKeepsStored ==
  ASSUME TypeOK, StoredInv, NEW s \in Sessions, Assign(s)
  PROVE  StoredInv'
<1> USE DEF TypeOK, SessionsOK
<1>1. /\ pc[s] = "assign" /\ pc' = [pc EXCEPT ![s] = "send"]
      /\ player' = [player EXCEPT ![s] = outId[s]] /\ announced' = [announced EXCEPT ![s] = outId[s]]
      /\ UNCHANGED <<table, idGenerator, outId, name, met, connected>>
  BY DEF Assign
<1>2. \A u \in Sessions : pc'[u] \in {"check", "loop", "kick", "assign"} => Row(outId[u], name[u])'
  BY <1>1 DEF StoredInv, Row
<1>3. \A u \in Sessions : pc'[u] = "take" => Told(u, idGenerator)'
  BY <1>1 DEF StoredInv, Told
<1>4. \A u \in Sessions : pc'[u] \in Inserting => Told(u, player[u])'
  BY <1>1 DEF StoredInv, Told, Inserting
<1>5. \A u \in Sessions :
          pc'[u] = "send" \/ LoggedIn(u)' => Row(player[u], name[u])' /\ Told(u, player[u])'
  BY <1>1 DEF StoredInv, Told, Row, LoggedIn
<1> QED
  BY <1>2, <1>3, <1>4, <1>5 DEF StoredInv

LEMMA StoredStep ==
  ASSUME TypeOK, PoolInv, MetInv, StoredInv, [Next]_vars PROVE StoredInv'
<1> USE DEF TypeOK, SessionsOK, MetGrows, Inserting, LoggedIn
<1>1. CASE UNCHANGED vars
  BY <1>1, OthersKeepStored DEF vars
<1>2. ASSUME NEW s \in Sessions, Connect(s) \/ Leave(s) PROVE StoredInv'
  BY <1>2, OthersKeepStored DEF Connect, Leave, Disconnected
<1>3. ASSUME NEW s \in Sessions, Login(s) PROVE StoredInv'
  <2>1. CASE \/ Pop(s, "popSelect", "bindSelect") \/ Pop(s, "popInsert", "bindInsert") \/ PopNull(s)
             \/ Bind(s, "bindSelect", "select", 1, 2) \/ Bind(s, "bindInsert", "insert", 2, 0)
    BY <2>1, OthersKeepStored DEF Pop, PopNull, Bind
  <2>2. ASSUME NEW n \in Names, Begin(s, n) PROVE StoredInv'
    BY <2>2, BeginMeets, OthersKeepStored DEF Begin
  <2>3. CASE StartLoop(s) \/ TornLoop(s) \/ Kick(s) \/ Send(s)
    BY <2>3, OthersKeepStored DEF StartLoop, TornLoop, Kick, Disconnected, Send
  <2>4. ASSUME NEW among \in SUBSET Sessions, EndLoop(s, among) PROVE StoredInv'
    BY <2>4, OthersKeepStored DEF EndLoop
  <2> QED
    BY <1>3, <2>1, <2>2, <2>3, <2>4, SelectKeepsStored, AccountStepsKeepStored, AssignKeepsStored
    DEF Login
<1> QED
  BY <1>1, <1>2, <1>3 DEF Next, Finished

-----------------------------------------------------------------------------
(* Accounts in use.                                                           *)

LEMMA UseInit == Init => UseInv
  BY DEF Init, UseInv, OneSessionUnlessMet, LoggedIn

LEMMA OthersKeepUse ==
  ASSUME TypeOK, UseInv, MetGrows,
         \A u \in Sessions :
             /\ connected'[u] <=> u \in registered'
             /\ LoggedIn(u)' => LoggedIn(u) /\ player'[u] = player[u]
             /\ pc'[u] = "loop" => pc[u] = "loop" /\ seen'[u] = seen[u]
             /\ pc'[u] = "assign" /\ connected'[u] =>
                    pc[u] = "assign" /\ connected[u] /\ outId'[u] = outId[u]
             /\ pc'[u] = "send" /\ connected'[u] =>
                    pc[u] = "send" /\ connected[u] /\ player'[u] = player[u]
  PROVE  UseInv'
<1>1. \A s \in Sessions : pc'[s] = "loop" =>
          \A u \in Sessions : LoggedIn(u)' /\ u \notin met'[s] => u \in seen'[s]
  BY DEF UseInv, MetGrows
<1>2. \A s \in Sessions : pc'[s] = "assign" /\ connected'[s] => Unshared(s, outId[s])'
  BY DEF UseInv, MetGrows, Unshared
<1>3. \A s \in Sessions : pc'[s] = "send" /\ connected'[s] => Unshared(s, player[s])'
  BY DEF UseInv, MetGrows, Unshared
<1>4. OneSessionUnlessMet'
  BY DEF UseInv, OneSessionUnlessMet, MetGrows, LoggedIn
<1> QED
  BY <1>1, <1>2, <1>3, <1>4 DEF UseInv

\* The loop begins with all who are logged in,
LEMMA StartLoopKeepsUse ==
  ASSUME TypeOK, UseInv, NEW s \in Sessions, StartLoop(s)
  PROVE  UseInv'
<1> USE DEF TypeOK, SessionsOK
<1>1. /\ pc[s] = "check" /\ pc' = [pc EXCEPT ![s] = "loop"] /\ seen' = [seen EXCEPT ![s] = registered]
      /\ UNCHANGED <<connected, registered, player, outId, met>>
  BY DEF StartLoop
<1>2. \A u \in Sessions : LoggedIn(u)' => LoggedIn(u) /\ u \in registered
  BY <1>1 DEF LoggedIn, UseInv
<1>3. \A v \in Sessions : pc'[v] = "loop" =>
          \A u \in Sessions : LoggedIn(u)' /\ u \notin met'[v] => u \in seen'[v]
  BY <1>1, <1>2 DEF UseInv
<1>4. \A v \in Sessions : pc'[v] = "assign" /\ connected'[v] => Unshared(v, outId[v])'
  BY <1>1, <1>2 DEF UseInv, Unshared
<1>5. \A v \in Sessions : pc'[v] = "send" /\ connected'[v] => Unshared(v, player[v])'
  BY <1>1, <1>2 DEF UseInv, Unshared
<1>6. OneSessionUnlessMet'
  BY <1>1, <1>2 DEF UseInv, OneSessionUnlessMet
<1> QED
  BY <1>1, <1>3, <1>4, <1>5, <1>6 DEF UseInv

\* and ends having seen those of them that are still there.
LEMMA EndLoopKeepsUse ==
  ASSUME TypeOK, UseInv, NEW s \in Sessions, NEW among \in SUBSET Sessions, EndLoop(s, among)
  PROVE  UseInv'
<1> USE DEF TypeOK, SessionsOK
<1>1. /\ pc[s] = "loop" /\ pc' = [pc EXCEPT ![s] = IF InUse(s, among) THEN "kick" ELSE "assign"]
      /\ seen' = [seen EXCEPT ![s] = {}] /\ seen[s] \cap registered \subseteq among
      /\ UNCHANGED <<connected, registered, player, outId, met>>
  BY DEF EndLoop
<1>2. \A u \in Sessions : LoggedIn(u)' => LoggedIn(u) /\ u \in registered
  BY <1>1 DEF LoggedIn, UseInv
<1>3. \A v \in Sessions : pc'[v] = "loop" =>
          \A u \in Sessions : LoggedIn(u)' /\ u \notin met'[v] => u \in seen'[v]
  BY <1>1, <1>2 DEF UseInv
<1>4. ASSUME ~InUse(s, among) PROVE Unshared(s, outId[s])
  BY <1>1, <1>2, <1>4 DEF InUse, Unshared, UseInv, LoggedIn
<1>5. \A v \in Sessions : pc'[v] = "assign" /\ connected'[v] => Unshared(v, outId[v])'
  BY <1>1, <1>2, <1>4 DEF UseInv, Unshared
<1>6. \A v \in Sessions : pc'[v] = "send" /\ connected'[v] => Unshared(v, player[v])'
  BY <1>1, <1>2 DEF UseInv, Unshared
<1>7. OneSessionUnlessMet'
  BY <1>1, <1>2 DEF UseInv, OneSessionUnlessMet
<1> QED
  BY <1>1, <1>3, <1>5, <1>6, <1>7 DEF UseInv

LEMMA AssignKeepsUse ==
  ASSUME TypeOK, UseInv, NEW s \in Sessions, Assign(s)
  PROVE  UseInv'
<1> USE DEF TypeOK, SessionsOK
<1>1. /\ pc[s] = "assign" /\ pc' = [pc EXCEPT ![s] = "send"]
      /\ player' = [player EXCEPT ![s] = outId[s]]
      /\ UNCHANGED <<connected, registered, seen, outId, met>>
  BY DEF Assign
<1>2. \A u \in Sessions : LoggedIn(u)' => LoggedIn(u) /\ u # s
  BY <1>1 DEF LoggedIn
<1>3. \A v \in Sessions : pc'[v] = "loop" =>
          \A u \in Sessions : LoggedIn(u)' /\ u \notin met'[v] => u \in seen'[v]
  BY <1>1, <1>2 DEF UseInv
<1>4. \A v \in Sessions : pc'[v] = "assign" /\ connected'[v] => Unshared(v, outId[v])'
  BY <1>1, <1>2 DEF UseInv, Unshared
<1>5. \A v \in Sessions : pc'[v] = "send" /\ connected'[v] => Unshared(v, player[v])'
  BY <1>1, <1>2 DEF UseInv, Unshared
<1>6. OneSessionUnlessMet'
  BY <1>1, <1>2 DEF UseInv, OneSessionUnlessMet
<1> QED
  BY <1>1, <1>3, <1>4, <1>5, <1>6 DEF UseInv

\* The account just stored is nobody else's.
LEMMA InsertKeepsUse ==
  ASSUME TypeOK, PoolInv, AccountInv, StoredInv, UseInv, NEW s \in Sessions, Insert(s)
  PROVE  UseInv'
<1> USE DEF TypeOK, SessionsOK
<1>1. /\ pc[s] = "insert" /\ pc' = [pc EXCEPT ![s] = "send"]
      /\ UNCHANGED <<connected, registered, seen, player, outId, met>>
  BY DEF Insert
<1>2. \A u \in Sessions : LoggedIn(u)' => LoggedIn(u)
  BY <1>1 DEF LoggedIn
<1>3. Unshared(s, player[s])
  <2>1. \A u \in Sessions : LoggedIn(u) => \E a \in table : a.id = player[u]
    BY DEF StoredInv, Row
  <2>2. \A a \in table : a.id # player[s]
    BY <1>1 DEF AccountInv, Inserting
  <2> QED
    BY <2>1, <2>2 DEF Unshared
<1>4. \A v \in Sessions : pc'[v] = "loop" =>
          \A u \in Sessions : LoggedIn(u)' /\ u \notin met'[v] => u \in seen'[v]
  BY <1>1, <1>2 DEF UseInv
<1>5. \A v \in Sessions : pc'[v] = "assign" /\ connected'[v] => Unshared(v, outId[v])'
  BY <1>1, <1>2 DEF UseInv, Unshared
<1>6. \A v \in Sessions : pc'[v] = "send" /\ connected'[v] => Unshared(v, player[v])'
  BY <1>1, <1>2, <1>3 DEF UseInv, Unshared
<1>7. OneSessionUnlessMet'
  BY <1>1, <1>2 DEF UseInv, OneSessionUnlessMet
<1> QED
  BY <1>1, <1>4, <1>5, <1>6, <1>7 DEF UseInv

\* Who is being handled while another logs in has met it.
LEMMA SendKeepsUse ==
  ASSUME TypeOK, MetInv, UseInv, NEW s \in Sessions, Send(s)
  PROVE  UseInv'
<1> USE DEF TypeOK, SessionsOK
<1>1. /\ pc[s] = "send" /\ pc' = [pc EXCEPT ![s] = "in"]
      /\ UNCHANGED <<connected, registered, seen, player, outId, met>>
  BY DEF Send
<1>2. \A u \in Sessions : LoggedIn(u)' => LoggedIn(u) \/ u = s
  BY <1>1 DEF LoggedIn
<1>3. \A v \in Sessions : pc'[v] \in Handling => v # s /\ s \in met[v] /\ pc'[v] = pc[v]
  BY <1>1 DEF MetInv
<1>4. \A v \in Sessions : pc'[v] = "loop" =>
          \A u \in Sessions : LoggedIn(u)' /\ u \notin met'[v] => u \in seen'[v]
  BY <1>1, <1>2, <1>3 DEF UseInv
<1>5. \A v \in Sessions : pc'[v] = "assign" /\ connected'[v] => Unshared(v, outId[v])'
  BY <1>1, <1>2, <1>3 DEF UseInv, Unshared
<1>6. \A v \in Sessions : pc'[v] = "send" /\ connected'[v] => Unshared(v, player[v])'
  BY <1>1, <1>2, <1>3 DEF UseInv, Unshared
<1>7. OneSessionUnlessMet'
  <2>1. ASSUME NEW u \in Sessions, NEW v \in Sessions,
               LoggedIn(u)', LoggedIn(v)', player[u] = player[v]
        PROVE  u = v \/ v \in met[u]
    <3>1. CASE u # s /\ v # s
      BY <1>2, <2>1, <3>1 DEF UseInv, OneSessionUnlessMet
    <3>2. CASE u = s /\ v # s
      BY <1>1, <1>2, <2>1, <3>2 DEF UseInv, Unshared, LoggedIn
    <3>3. CASE v = s /\ u # s
      <4>1. u \in met[s]
        BY <1>1, <1>2, <2>1, <3>3 DEF UseInv, Unshared, LoggedIn
      <4> QED
        BY <2>1, <3>3, <4>1 DEF MetInv
    <3> QED
      BY <3>1, <3>2, <3>3
  <2> QED
    BY <1>1, <2>1 DEF OneSessionUnlessMet
<1> QED
  BY <1>1, <1>4, <1>5, <1>6, <1>7 DEF UseInv

LEMMA UseStep ==
  ASSUME TypeOK, PoolInv, MetInv, AccountInv, StoredInv, UseInv, [Next]_vars PROVE UseInv'
<1> USE DEF TypeOK, SessionsOK, MetGrows, LoggedIn
<1>0. \A u \in Sessions : connected[u] <=> u \in registered
  BY DEF UseInv
<1>1. CASE UNCHANGED vars
  BY <1>0, <1>1, OthersKeepUse DEF vars
<1>2. ASSUME NEW s \in Sessions, Connect(s) \/ Leave(s) PROVE UseInv'
  BY <1>0, <1>2, OthersKeepUse DEF Connect, Leave, Disconnected
<1>3. ASSUME NEW s \in Sessions, Login(s) PROVE UseInv'
  <2>1. CASE \/ Pop(s, "popSelect", "bindSelect") \/ Pop(s, "popInsert", "bindInsert") \/ PopNull(s)
             \/ Bind(s, "bindSelect", "select", 1, 2) \/ Bind(s, "bindInsert", "insert", 2, 0)
    BY <1>0, <2>1, OthersKeepUse DEF Pop, PopNull, Bind
  <2>2. ASSUME NEW n \in Names, Begin(s, n) PROVE UseInv'
    BY <1>0, <2>2, BeginMeets, OthersKeepUse DEF Begin
  <2>3. CASE Announce(s) \/ Take(s) \/ TornLoop(s) \/ Kick(s)
    BY <1>0, <2>3, OthersKeepUse DEF Announce, Take, TornLoop, Kick, Disconnected
  <2>4. ASSUME NEW id \in 0..idGenerator, Select(s, id) PROVE UseInv'
    BY <1>0, <2>4, SelectReads, OthersKeepUse DEF Select
  <2> QED
    BY <1>3, <2>1, <2>2, <2>3, <2>4, StartLoopKeepsUse, EndLoopKeepsUse, AssignKeepsUse,
       InsertKeepsUse, SendKeepsUse DEF Login
<1> QED
  BY <1>1, <1>2, <1>3 DEF Next, Finished

-----------------------------------------------------------------------------
(* The theorems.                                                              *)

LEMMA LoginStep == LoginInv /\ [Next]_vars => LoginInv'
  BY SessionsStep, TableStep, PoolStep, MetStep, AccountStep, StoredStep, UseStep
  DEF LoginInv, TypeOK

LEMMA LoginInvariance == Spec => []LoginInv
<1>1. Init => LoginInv
  BY TypeInit, PoolInit, MetInit, AccountInit, StoredInit, UseInit DEF LoginInv
<1> QED
  BY <1>1, LoginStep, PTL DEF Spec

\* However many handlers wait, take and give back connections, each connection
\* is in one place, and a query works on the locals of the handler that has it.
THEOREM ConnectionsAreKept == Spec => []ConnectionsKept
<1>1. LoginInv => ConnectionsKept
  BY DEF LoginInv, PoolInv
<1> QED
  BY <1>1, LoginInvariance, PTL

\* However logins interleave, ids are unique.  A name has a second account only
\* if the logins that stored them overlapped, as the code lets them.
THEOREM AccountsAreDistinct == Spec => []AccountsDistinct
<1>1. LoginInv => AccountsDistinct
  BY DEF LoginInv, AccountInv
<1> QED
  BY <1>1, LoginInvariance, PTL

\* The half of it that has no exception: the generator gives no id twice.
THEOREM IdsAreDistinct == Spec => [](\A a, b \in table : a.id = b.id => a = b)
<1>1. AccountsDistinct => \A a, b \in table : a.id = b.id => a = b
  BY DEF AccountsDistinct
<1> QED
  BY <1>1, AccountsAreDistinct, PTL

\* DuplicationCheck finds the account in use although it holds no lock, unless
\* the two logins overlapped.
THEOREM OneSessionOnly == Spec => []OneSessionUnlessMet
<1>1. LoginInv => OneSessionUnlessMet
  BY DEF LoginInv, UseInv
<1> QED
  BY <1>1, LoginInvariance, PTL

\* S_LOGIN and the table agree on the id, unless another login took it.
THEOREM AnnouncedAgrees == Spec => []AnnouncedIsStored
<1>1. LoginInv => AnnouncedIsStored
  BY DEF LoginInv, StoredInv, AnnouncedIsStored, Row, Told
<1> QED
  BY <1>1, LoginInvariance, PTL
=============================================================================
