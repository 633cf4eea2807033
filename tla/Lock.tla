--------------------------------- MODULE Lock ---------------------------------
(* ServerCore's Lock: a recursive spin lock for one writer or many readers in *)
(* one 32-bit word, the writer's thread id above the number of read guards.   *)
(* Guards are objects of C++ scopes, so a thread gives them back in the       *)
(* reverse of the order in which it took them; held[t] is that stack.         *)
(* Steps are the atomic operations on the word and on _writeCount.            *)
EXTENDS Naturals, FiniteSets, Sequences

CONSTANTS
    Threads,               \* thread ids (LThreadId), never 0
    ReadMax,               \* READ_COUNT_MASK: the readers the low half counts
    WriteCountMax,         \* the largest value of _writeCount
    MaxDepth,              \* BOUND: guards one thread holds at a time
    MaxTaken,              \* BOUND: guards one thread takes in all
    WriteUnderRead         \* may a holder of a read guard take a write guard?

ASSUME ThreadsAssumption == Threads \subseteq Nat \ {0}
ASSUME LimitsAssumption ==
    /\ ReadMax \in Nat /\ WriteCountMax \in Nat /\ WriteUnderRead \in BOOLEAN
    /\ MaxTaken \in Nat /\ MaxDepth \in Nat /\ MaxDepth <= WriteCountMax
\* The counters are wide enough for all guards there may be: 65535 in the code.
ASSUME FitsAssumption == IsFiniteSet(Threads) /\ Cardinality(Threads) * MaxDepth <= ReadMax

VARIABLES
    flag,                  \* _lockFlag: [w: upper half, r: lower half]
    writeCount,            \* _writeCount
    held,                  \* the guards of each thread, outermost first
    pc,                    \* what each thread is doing in the lock
    expected,              \* the read count ReadLock loaded
    taken,                 \* guards taken so far, for MaxTaken
    crashed                \* the cause given to CRASH, or "no"

vars == <<flag, writeCount, held, pc, expected, taken, crashed>>

Empty == [w |-> 0, r |-> 0]

\* Adding one to, and subtracting one from, the whole word.
Inc(f) == IF f.r < ReadMax THEN [f EXCEPT !.r = @ + 1] ELSE [w |-> f.w + 1, r |-> 0]
Dec(f) == IF f.r > 0 THEN [f EXCEPT !.r = @ - 1]
          ELSE [w |-> IF f.w > 0 THEN f.w - 1 ELSE ReadMax, r |-> ReadMax]

Init ==
    /\ flag = Empty
    /\ writeCount = 0
    /\ held = [t \in Threads |-> <<>>]
    /\ pc = [t \in Threads |-> "run"]
    /\ expected = [t \in Threads |-> 0]
    /\ taken = [t \in Threads |-> 0]
    /\ crashed = "no"

Advance(t, from, to) ==
    /\ crashed = "no"
    /\ pc[t] = from
    /\ pc' = [pc EXCEPT ![t] = to]

Innermost(t) == held[t][Len(held[t])]

\* _writeCount++ and --_writeCount.
Counted == IF writeCount = WriteCountMax THEN 0 ELSE writeCount + 1
Uncounted == IF writeCount = 0 THEN WriteCountMax ELSE writeCount - 1

Took(t, kind) == held' = [held EXCEPT ![t] = Append(@, kind)]
GaveBack(t) == held' = [held EXCEPT ![t] = SubSeq(@, 1, Len(@) - 1)]
HoldsRead(t) == \E i \in 1..Len(held[t]) : held[t][i] = "R"

Takes(t) ==
    /\ Len(held[t]) < MaxDepth
    /\ taken[t] < MaxTaken
    /\ taken' = [taken EXCEPT ![t] = @ + 1]
-----------------------------------------------------------------------------
(* WriteLock and WriteUnlock.                                                 *)

OwnerIs(t) == flag.w = t

\* The owner only counts; everybody else spins.
WriteLockOwner(t) ==
    /\ Advance(t, "run", "run")
    /\ Takes(t) /\ (HoldsRead(t) => WriteUnderRead)
    /\ OwnerIs(t)
    /\ writeCount' = Counted
    /\ Took(t, "W")
    /\ UNCHANGED <<flag, expected, crashed>>

WriteLockSpin(t) ==
    /\ Advance(t, "run", "writeSpin")
    /\ Takes(t) /\ (HoldsRead(t) => WriteUnderRead)
    /\ ~OwnerIs(t)
    /\ UNCHANGED <<flag, writeCount, held, expected, crashed>>

\* MUTANT: a writer only waits for other writers.
FreeOfWriters == flag.w = 0

FreeForWriter == flag = Empty

WriteCas(t) ==
    /\ Advance(t, "writeSpin", "writeCount")
    /\ FreeForWriter
    /\ flag' = [w |-> t, r |-> 0]
    /\ UNCHANGED <<writeCount, held, expected, taken, crashed>>

CountWrite(t) ==
    /\ Advance(t, "writeCount", "run")
    /\ writeCount' = Counted
    /\ Took(t, "W")
    /\ UNCHANGED <<flag, expected, taken, crashed>>

\* The guard given back was taken last, yet an outer read guard of the same
\* thread counts here as a violation of the unlock order.
WriteUnlock(t) ==
    /\ held[t] # <<>> /\ Innermost(t) = "W"
    /\ Advance(t, "run", "unlockCount")
    /\ crashed' = IF flag.r # 0 THEN "INVALID_UNLOCK_ORDER" ELSE crashed
    /\ UNCHANGED <<flag, writeCount, held, expected, taken>>

UncountWrite(t) ==
    /\ Advance(t, "unlockCount", IF writeCount = 1 THEN "unlockStore" ELSE "run")
    /\ writeCount' = Uncounted
    /\ GaveBack(t)
    /\ UNCHANGED <<flag, expected, taken, crashed>>

\* MUTANT: the word is not emptied.
StoreNothing(t) ==
    /\ Advance(t, "unlockStore", "run")
    /\ UNCHANGED <<flag, writeCount, held, expected, taken, crashed>>

StoreEmpty(t) ==
    /\ Advance(t, "unlockStore", "run")
    /\ flag' = Empty
    /\ UNCHANGED <<writeCount, held, expected, taken, crashed>>

-----------------------------------------------------------------------------
(* ReadLock and ReadUnlock.                                                   *)

ReadLockOwner(t) ==
    /\ Advance(t, "run", "run")
    /\ Takes(t)
    /\ OwnerIs(t)
    /\ flag' = Inc(flag)
    /\ Took(t, "R")
    /\ UNCHANGED <<writeCount, expected, crashed>>

ReadLockSpin(t) ==
    /\ Advance(t, "run", "readLoad")
    /\ Takes(t)
    /\ ~OwnerIs(t)
    /\ UNCHANGED <<flag, writeCount, held, expected, crashed>>

ReadLoad(t) ==
    /\ Advance(t, "readLoad", "readCas")
    /\ expected' = [expected EXCEPT ![t] = flag.r]
    /\ UNCHANGED <<flag, writeCount, held, taken, crashed>>

\* MUTANT: the compare-and-swap stores without comparing the writer's half.
AsLoadedHalf(t) == flag.r = expected[t]

\* Only the count was loaded, so a word with a writer never compares equal.
AsLoaded(t) == flag = [w |-> 0, r |-> expected[t]]

ReadCas(t) ==
    /\ Advance(t, "readCas", "run")
    /\ AsLoaded(t)
    /\ flag' = Inc(flag)
    /\ Took(t, "R")
    /\ UNCHANGED <<writeCount, expected, taken, crashed>>

ReadCasFails(t) ==
    /\ Advance(t, "readCas", "readLoad")
    /\ ~AsLoaded(t)
    /\ UNCHANGED <<flag, writeCount, held, expected, taken, crashed>>

ReadUnlock(t) ==
    /\ held[t] # <<>> /\ Innermost(t) = "R"
    /\ Advance(t, "run", "run")
    /\ flag' = Dec(flag)
    /\ crashed' = IF flag.r = 0 THEN "MULTIPLE_UNLOCK" ELSE crashed
    /\ GaveBack(t)
    /\ UNCHANGED <<writeCount, expected, taken>>

-----------------------------------------------------------------------------
Waiting(t) == pc[t] \in {"writeSpin", "readLoad", "readCas"}

Blocked(t) ==
    \/ pc[t] = "writeSpin" /\ ~FreeForWriter
    \/ pc[t] = "readCas" /\ ~AsLoaded(t)

\* A thread that has spun for ACQUIRE_TIMEOUT_TICK crashes the process.
Timeout(t) ==
    /\ Blocked(t)
    /\ crashed = "no" /\ crashed' = "LOCK_TIMEOUT"
    /\ UNCHANGED <<flag, writeCount, held, pc, expected, taken>>

\* What a thread inside the lock, or at the end of a guard's scope, does.
Proceed(t) ==
    \/ WriteCas(t) \/ CountWrite(t) \/ WriteUnlock(t) \/ UncountWrite(t) \/ StoreEmpty(t)
    \/ ReadLoad(t) \/ ReadCas(t) \/ ReadCasFails(t) \/ ReadUnlock(t)

Call(t) ==
    WriteLockOwner(t) \/ WriteLockSpin(t) \/ ReadLockOwner(t) \/ ReadLockSpin(t)

\* The process has ended, or no thread has anything left to do.
Finished ==
    /\ \/ crashed # "no"
       \/ \A t \in Threads : pc[t] = "run" /\ held[t] = <<>> /\ taken[t] = MaxTaken
    /\ UNCHANGED vars

Next ==
    \/ \E t \in Threads : Proceed(t) \/ Call(t) \/ Timeout(t)
    \/ Finished

Spec == Init /\ [][Next]_vars

\* A thread in the lock spins on; a guard's scope ends.
FairSpec == Spec /\ \A t \in Threads : WF_vars(Proceed(t))

-----------------------------------------------------------------------------
(* Properties.                                                                *)

\* The types; the halves of the word and the counter stay in their widths.
TypeOK ==
    /\ flag \in [w : Threads \cup {0}, r : 0..ReadMax]
    /\ writeCount \in 0..WriteCountMax
    /\ held \in [Threads -> Seq({"R", "W"})]
    /\ pc \in [Threads -> {"run", "writeSpin", "writeCount", "unlockCount", "unlockStore",
                           "readLoad", "readCas"}]
    /\ expected \in [Threads -> 0..ReadMax]
    /\ taken \in [Threads -> 0..MaxTaken]
    /\ crashed \in {"no", "LOCK_TIMEOUT", "INVALID_UNLOCK_ORDER", "MULTIPLE_UNLOCK"}

HoldsWrite(t) == \E i \in 1..Len(held[t]) : held[t][i] = "W"

\* While a thread holds a write guard no other thread holds any guard, also in
\* the moments between the compare-and-swap and the count beside it.
MutualExclusion ==
    \A t, u \in Threads : t # u /\ HoldsWrite(t) => held[u] = <<>>

\* _writeCount is a plain integer: at most one thread at a time is about to
\* change it, or may.
WriteCountUnshared ==
    \A t, u \in Threads :
        /\ pc[t] \in {"writeCount", "unlockCount"} \/ HoldsWrite(t)
        /\ pc[u] \in {"writeCount", "unlockCount"} \/ HoldsWrite(u)
        => t = u

\* Guards given back in reverse order never meet one of the unlock crashes, as
\* long as no thread takes a write guard under its own read guard
\* (WriteUnderRead = FALSE).  With such guards WriteUnlock finds the reader's
\* count in the word and crashes, whatever the order; the code takes none.
GuardsUnlockInOrder == crashed \notin {"INVALID_UNLOCK_ORDER", "MULTIPLE_UNLOCK"}

\* When the last guard is gone the word is free again: no count leaks.
FreeWhenUnused ==
    (\A t \in Threads : held[t] = <<>> /\ (pc[t] = "run" \/ Waiting(t)))
        => flag = Empty /\ writeCount = 0

\* A thread that waits gets its guard once the others stop taking new ones.
WaiterProceeds ==
    \A t \in Threads : Waiting(t) ~> (~Waiting(t) \/ crashed # "no")
=============================================================================
