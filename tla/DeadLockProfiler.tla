--------------------------- MODULE DeadLockProfiler ---------------------------
(* The lock profiler of debug builds: every lock is announced by the name of  *)
(* its class before it is taken, the profiler records which class was asked   *)
(* for under which, and ends the process when the record has a cycle.  Below  *)
(* it are the locks themselves, as far as the profiler's promise goes: each   *)
(* has one holder, who may take it again, and is given back in reverse order. *)
(* A step is one use of the profiler's mutex; a walk over the record has a    *)
(* step for each turn of its loops, and keeps the mutex.                      *)
EXTENDS Naturals, FiniteSets, Sequences, SequencesExt

CONSTANTS
    Workers, Locks,
    Class,                 \* the class of each lock, whose typeid is its name
    MaxNested,             \* BOUND: locks a thread holds or waits for
    MaxLocked,             \* BOUND: locks all threads hold or wait for
    Nobody

ASSUME NobodyAssumption == Nobody \notin Locks \cup Workers
ASSUME NestedAssumption == {MaxNested, MaxLocked} \subseteq Nat /\ DOMAIN Class = Locks

VARIABLES
    names,                 \* _idToName; a class's id is its place here
    lockHistory,           \* _lockHistory, as pairs of ids
    lockStack,             \* LLockStack of each thread
    guards,                \* each thread's guards
    asked,                 \* the lock each thread waits for, or Nobody
    ended,                 \* how the process ended, or "no"
    walker, pushing,       \* who is in CheckCycle, and the lock it announced
    order, count,          \* _discoveredOrder, 0 is undiscovered, and its counter
    finished, parent,      \* _finished, as a set, and _parent, 0 is none
    calls, left,           \* the calls of Dfs, and what their loops have left
    now, until             \* the printing loop, from now up to until; 0 is neither

lockVars == <<lockStack, guards, asked>>
walkVars == <<order, count, finished, parent, calls, left, now, until>>
profilerVars == <<names, lockHistory, lockVars, ended, walker, pushing, walkVars>>

Ids == 1..Len(names)

ProfilerInit ==
    /\ names = <<>> /\ lockHistory = {}
    /\ lockStack = [t \in Workers |-> <<>>]
    /\ guards = [t \in Workers |-> <<>>]
    /\ asked = [t \in Workers |-> Nobody]
    /\ ended = "no"
    /\ walker = Nobody /\ pushing = Nobody
    /\ order = <<>> /\ count = 0 /\ finished = {} /\ parent = <<>>
    /\ calls = <<>> /\ left = <<>>
    /\ now = 0 /\ until = 0

-----------------------------------------------------------------------------
(* PushLock, at the start of WriteLock.                                       *)

\* The names once class has an id.
Named(class) == IF Contains(names, class) THEN names ELSE Append(names, class)

Id(class, among) == CHOOSE i \in 1..Len(among) : among[i] = class

\* MUTANT: only the first lock asked for under another one is recorded.
IfFirst(prev, id) == IF \E e \in lockHistory : e[1] = prev THEN lockHistory ELSE lockHistory \cup {<<prev, id>>}

Recorded(prev, id) == lockHistory \cup {<<prev, id>>}

Announced(t, l, id) ==
    /\ lockStack' = [lockStack EXCEPT ![t] = Append(@, id)]
    /\ asked' = [asked EXCEPT ![t] = l]

MayLock(t) ==
    /\ Len(lockStack[t]) < MaxNested
    /\ Cardinality({p \in Workers \X (1..MaxNested) : p[2] <= Len(lockStack[p[1]])}) < MaxLocked

\* A new pair is followed by CheckCycle, which starts with fresh vectors.
PushLock(t, l) ==
    LET known == Named(Class[l])
        id == Id(Class[l], known)
        edges == IF lockStack[t] # <<>> /\ Last(lockStack[t]) # id
                 THEN Recorded(Last(lockStack[t]), id) ELSE lockHistory IN
    /\ ended = "no" /\ walker = Nobody /\ asked[t] = Nobody
    /\ MayLock(t)
    /\ names' = known /\ lockHistory' = edges
    /\ IF edges = lockHistory
       THEN Announced(t, l, id) /\ UNCHANGED <<walker, pushing, walkVars>>
       ELSE /\ walker' = t /\ pushing' = l
            /\ order' = [i \in 1..Len(known) |-> 0] /\ count' = 0
            /\ finished' = {} /\ parent' = [i \in 1..Len(known) |-> 0]
            /\ left' = [i \in 1..Len(known) |-> {}]
            /\ UNCHANGED <<lockStack, asked, calls, now, until>>
    /\ UNCHANGED <<guards, ended>>

-----------------------------------------------------------------------------
(* CheckCycle and Dfs.                                                        *)

IsLeast(i, S) == i \in S /\ \A j \in S : i <= j
Successors(i) == {j \in Ids : <<i, j>> \in lockHistory}
Undiscovered == {i \in Ids : order[i] = 0}

Walking == ended = "no" /\ walker # Nobody /\ now = 0
InDfs(here) == Walking /\ calls # <<>> /\ here = Last(calls)

\* The walk's own variables are all that a step of it changes.
Beside == UNCHANGED <<names, lockHistory, lockVars, walker, pushing>>

\* A call of Dfs for what is undiscovered.
Dfs(here) ==
    /\ order' = [order EXCEPT ![here] = count + 1]
    /\ count' = count + 1
    /\ calls' = Append(calls, here)

\* The loop of CheckCycle: Dfs returns at once from what has been discovered.
DfsRoot(here) ==
    /\ Walking /\ calls = <<>> /\ IsLeast(here, Undiscovered)
    /\ Dfs(here)
    /\ left' = [left EXCEPT ![here] = Successors(here)]
    /\ UNCHANGED <<finished, parent, now, until, ended>> /\ Beside

\* MUTANT: any discovered node will do.
Earlier(here, there) == order[there] <= order[here]

\* The edge leads back to a node that is not finished.
BackEdge(here, there) == order[there] <= order[here] /\ there \notin finished

\* One turn of the loop of Dfs(here), with there.
Looks(here, there) == InDfs(here) /\ IsLeast(there, left[here])

DfsDown(here, there) ==
    /\ Looks(here, there)
    /\ order[there] = 0
    /\ parent' = [parent EXCEPT ![there] = here]
    /\ Dfs(there)
    /\ left' = [left EXCEPT ![here] = @ \ {there}, ![there] = Successors(there)]
    /\ UNCHANGED <<finished, now, until, ended>> /\ Beside

DfsPast(here, there) ==
    /\ Looks(here, there)
    /\ order[there] # 0 /\ ~BackEdge(here, there)
    /\ left' = [left EXCEPT ![here] = @ \ {there}]
    /\ UNCHANGED <<order, count, finished, parent, calls, now, until, ended>> /\ Beside

DfsBack(here, there) ==
    /\ Looks(here, there)
    /\ order[there] # 0 /\ BackEdge(here, there)
    /\ now' = here /\ until' = there
    /\ UNCHANGED <<order, count, finished, parent, calls, left, ended>> /\ Beside

DfsReturn(here) ==
    /\ InDfs(here) /\ left[here] = {}
    /\ finished' = finished \cup {here}
    /\ calls' = Front(calls)
    /\ UNCHANGED <<order, count, parent, left, now, until, ended>> /\ Beside

\* A turn of the loop that prints the cycle, and DEADLOCK_DETECTED at its end.
GoUp ==
    /\ ended = "no" /\ now # 0
    /\ now' = parent[now]
    /\ ended' = IF parent[now] = until THEN "cycle" ELSE IF parent[now] = 0 THEN "lost" ELSE "no"
    /\ UNCHANGED <<order, count, finished, parent, calls, left, until>> /\ Beside

\* CheckCycle clears the vectors, and PushLock goes on.
WalkEnd ==
    /\ Walking /\ calls = <<>> /\ Undiscovered = {}
    /\ Announced(walker, pushing, Id(Class[pushing], names))
    /\ walker' = Nobody /\ pushing' = Nobody
    /\ order' = <<>> /\ count' = 0 /\ finished' = {} /\ parent' = <<>> /\ left' = <<>>
    /\ UNCHANGED <<names, lockHistory, guards, ended, calls, now, until>>

Walk ==
    \/ \E here \in Ids :
          \/ DfsRoot(here) \/ DfsReturn(here)
          \/ \E there \in Ids : DfsDown(here, there) \/ DfsPast(here, there) \/ DfsBack(here, there)
    \/ GoUp \/ WalkEnd

-----------------------------------------------------------------------------
(* The locks, and PopLock.                                                    *)

HeldByOther(t, l) == \E u \in Workers \ {t} : Contains(guards[u], l)

\* WriteLock gets the lock, which may be its own already.
WriteLock(t) ==
    /\ ended = "no" /\ asked[t] # Nobody
    /\ ~HeldByOther(t, asked[t])
    /\ guards' = [guards EXCEPT ![t] = Append(@, asked[t])]
    /\ asked' = [asked EXCEPT ![t] = Nobody]
    /\ UNCHANGED <<names, lockHistory, lockStack, ended, walker, pushing, walkVars>>

\* WriteLock gives up after ten seconds.
GiveUp(t) ==
    /\ ended = "no" /\ asked[t] # Nobody
    /\ HeldByOther(t, asked[t])
    /\ ended' = "timeout"
    /\ UNCHANGED <<names, lockHistory, lockVars, walker, pushing, walkVars>>

\* The end of a guard: PopLock with its two checks, and the lock is free.
PopLock(t) ==
    /\ ended = "no" /\ walker = Nobody /\ asked[t] = Nobody /\ guards[t] # <<>>
    /\ IF lockStack[t] = <<>> \/ Last(lockStack[t]) # Id(Class[Last(guards[t])], names)
       THEN ended' = "unlock" /\ UNCHANGED <<lockStack, guards>>
       ELSE /\ lockStack' = [lockStack EXCEPT ![t] = Front(@)]
            /\ guards' = [guards EXCEPT ![t] = Front(@)]
            /\ UNCHANGED ended
    /\ UNCHANGED <<names, lockHistory, asked, walker, pushing, walkVars>>

ProcessEnded == ended # "no" /\ UNCHANGED profilerVars

ProfilerNext ==
    \/ \E t \in Workers : (\E l \in Locks : PushLock(t, l)) \/ WriteLock(t) \/ GiveUp(t) \/ PopLock(t)
    \/ Walk \/ ProcessEnded

ProfilerSpec == ProfilerInit /\ [][ProfilerNext]_profilerVars

-----------------------------------------------------------------------------
(* Properties.                                                                *)

\* A set of classes each of which was asked for under another one of them.
Cyclic == \E S \in SUBSET Ids : S # {} /\ \A i \in S : \E j \in S : <<i, j>> \in lockHistory

\* The profiler ends the process for recorded cycles only and lets go of its
\* mutex only when there is none: no cycle is missed because nodes were visited
\* before, and classes that are reached twice are not taken for one.  The path
\* that is printed leads to its end.
CyclesReported ==
    /\ ended = "cycle" => Cyclic
    /\ walker = Nobody => ~Cyclic
    /\ ended # "lost"

\* Threads that wait for one another.
Stuck(ts) ==
    ts # {} /\ \A t \in ts : asked[t] # Nobody /\ \E u \in ts \ {t} : Contains(guards[u], asked[t])

\* Threads deadlock in spite of the profiler only over locks of one class, which
\* PushLock skips: it has ended the process before any other deadlock.
DeadlocksForeseen ==
    \A ts \in SUBSET Workers : Stuck(ts) /\ ended = "no" =>
        \E us \in SUBSET ts : Stuck(us) /\ \A t, u \in us : Class[asked[t]] = Class[asked[u]]
=============================================================================
