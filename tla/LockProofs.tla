------------------------------ MODULE LockProofs ------------------------------
(* For every finite set of threads, as long as the guards fit into the word's *)
(* counters: the lock excludes, _writeCount is never shared, the unlock       *)
(* checks never fire, and an unused lock is free.  In the second half, for    *)
(* every set of threads, locks and classes: the profiler reports the cycles   *)
(* of its record and nothing else, and foresees the deadlocks it can name.    *)
EXTENDS Lock, DeadLockProfiler, FiniteSetTheorems, SequenceTheorems, TLAPS

Kinds == {"R", "W"}
Places == Threads \X (1..MaxDepth)

-----------------------------------------------------------------------------
(* The guards of one kind that all threads hold, and how Took and GaveBack    *)
(* change their number.                                                       *)

Stacks == {h \in [Threads -> Seq(Kinds)] : \A t \in Threads : Len(h[t]) <= MaxDepth}

Guards(h, kind) == {g \in Places : g[2] <= Len(h[g[1]]) /\ h[g[1]][g[2]] = kind}

\* There are finitely many guards, no more than the threads may nest together.
LEMMA GuardsCount ==
    ASSUME NEW h \in Stacks, NEW kind
    PROVE  /\ IsFiniteSet(Guards(h, kind))
           /\ Cardinality(Guards(h, kind)) \in Nat
           /\ Cardinality(Guards(h, kind)) <= Cardinality(Threads) * MaxDepth
<1>1. IsFiniteSet(1..MaxDepth) /\ Cardinality(1..MaxDepth) = MaxDepth
  BY LimitsAssumption, FS_Interval
<1>2. IsFiniteSet(Places) /\ Cardinality(Places) = Cardinality(Threads) * MaxDepth
  BY <1>1, FitsAssumption, FS_Product DEF Places
<1>3. Guards(h, kind) \in SUBSET Places
  BY DEF Guards
<1> QED
  BY <1>2, <1>3, FS_Subset, FS_CardinalityType

\* No guard is counted exactly when no thread holds one.
LEMMA NoGuards ==
    ASSUME NEW h \in Stacks, NEW kind
    PROVE  Cardinality(Guards(h, kind)) = 0
             <=> \A t \in Threads : \A i \in 1..Len(h[t]) : h[t][i] # kind
<1>1. Cardinality(Guards(h, kind)) = 0 <=> Guards(h, kind) = {}
  BY GuardsCount, FS_EmptySet
<1>2. ASSUME NEW t \in Threads, NEW i \in 1..Len(h[t]), h[t][i] = kind
      PROVE  <<t, i>> \in Guards(h, kind)
  <2>1. Len(h[t]) \in Nat /\ Len(h[t]) <= MaxDepth
    BY DEF Stacks
  <2>2. i \in 1..MaxDepth
    BY <2>1, LimitsAssumption
  <2> QED
    BY <1>2, <2>1, <2>2 DEF Guards, Places
<1>3. ASSUME NEW g \in Guards(h, kind)
      PROVE  \E t \in Threads : \E i \in 1..Len(h[t]) : h[t][i] = kind
  <2>1. g[1] \in Threads /\ g[2] \in 1..MaxDepth /\ g[2] <= Len(h[g[1]]) /\ h[g[1]][g[2]] = kind
    BY DEF Guards, Places
  <2>2. Len(h[g[1]]) \in Nat
    BY <2>1 DEF Stacks
  <2>3. g[2] \in 1..Len(h[g[1]])
    BY <2>1, <2>2
  <2> QED
    BY <2>1, <2>3
<1> QED
  BY <1>1, <1>2, <1>3

\* A thread's stack with one guard more, and with one less.
Pushed(h, t, kind) == [h EXCEPT ![t] = Append(@, kind)]
Popped(h, t) == [h EXCEPT ![t] = SubSeq(@, 1, Len(@) - 1)]

\* Taking a guard adds one of its kind and leaves the other kind alone.
LEMMA PushedGuards ==
    ASSUME NEW h \in Stacks, NEW t \in Threads, NEW kind \in Kinds, Len(h[t]) < MaxDepth
    PROVE  LET h2 == Pushed(h, t, kind) IN
           /\ h2 \in Stacks
           /\ Cardinality(Guards(h2, kind)) = Cardinality(Guards(h, kind)) + 1
           /\ \A other \in Kinds \ {kind} : Guards(h2, other) = Guards(h, other)
<1> DEFINE n == Len(h[t]) + 1
           h2 == Pushed(h, t, kind)
<1>0. h2 = [h EXCEPT ![t] = Append(@, kind)]
  BY DEF Pushed
<1> HIDE DEF h2
<1>1. h[t] \in Seq(Kinds) /\ Len(h[t]) \in Nat /\ n \in 1..MaxDepth
  BY LimitsAssumption DEF Stacks
<1>2. /\ h2[t] \in Seq(Kinds) /\ Len(h2[t]) = n /\ h2[t][n] = kind
      /\ \A i \in 1..Len(h[t]) : h2[t][i] = h[t][i]
      /\ \A u \in Threads \ {t} : h2[u] = h[u]
  BY <1>0, <1>1 DEF Stacks
<1>3. h2 \in Stacks
  BY <1>0, <1>1, <1>2 DEF Stacks
<1>4. ASSUME NEW k
      PROVE  Guards(h2, k) = IF k = kind THEN Guards(h, k) \cup {<<t, n>>} ELSE Guards(h, k)
  <2>1. ASSUME NEW g \in Places
        PROVE  g \in Guards(h2, k) <=> g \in Guards(h, k) \/ (k = kind /\ g = <<t, n>>)
    <3>1. g[1] \in Threads /\ g[2] \in 1..MaxDepth /\ g = <<g[1], g[2]>> /\ Len(h[g[1]]) \in Nat
      BY DEF Places, Stacks
    <3>2. CASE g[1] # t
      BY <3>1, <3>2, <1>2 DEF Guards
    <3>3. CASE g[1] = t /\ g[2] = n
      BY <3>1, <3>3, <1>1, <1>2 DEF Guards
    <3>4. CASE g[1] = t /\ g[2] # n
      <4>1. g[2] <= n <=> g[2] <= Len(h[t])
        BY <3>1, <3>4, <1>1
      <4>2. g[2] <= Len(h[t]) => h2[t][g[2]] = h[t][g[2]]
        BY <3>1, <1>1, <1>2
      <4>3. g \in Guards(h2, k) <=> g[2] <= Len(h2[t]) /\ h2[t][g[2]] = k
        BY <3>4 DEF Guards
      <4>4. g \in Guards(h, k) <=> g[2] <= Len(h[t]) /\ h[t][g[2]] = k
        BY <3>4 DEF Guards
      <4>5. g # <<t, n>>
        BY <3>4
      <4> QED
        BY <4>1, <4>2, <4>3, <4>4, <4>5, <1>2
    <3> QED
      BY <3>2, <3>3, <3>4
  <2>2. <<t, n>> \in Places
    BY <1>1 DEF Places
  <2>3. Guards(h2, k) \subseteq Places /\ Guards(h, k) \subseteq Places
    BY DEF Guards
  <2> HIDE DEF n
  <2> QED
    BY <2>1, <2>2, <2>3
<1>5. <<t, n>> \notin Guards(h, kind)
  BY <1>1 DEF Guards
<1>6. IsFiniteSet(Guards(h, kind))
  BY GuardsCount
<1>7. Cardinality(Guards(h2, kind)) = Cardinality(Guards(h, kind)) + 1
  BY <1>4, <1>5, <1>6, FS_AddElement
<1> QED
  BY <1>3, <1>4, <1>7 DEF h2

\* Giving the innermost guard back removes one of its kind.
LEMMA PoppedGuards ==
    ASSUME NEW h \in Stacks, NEW t \in Threads, h[t] # <<>>
    PROVE  LET h2 == Popped(h, t)
               kind == h[t][Len(h[t])] IN
           /\ h2 \in Stacks
           /\ Cardinality(Guards(h2, kind)) = Cardinality(Guards(h, kind)) - 1
           /\ \A other \in Kinds \ {kind} : Guards(h2, other) = Guards(h, other)
<1> DEFINE n == Len(h[t])
           kind == h[t][n]
           h2 == Popped(h, t)
<1>0. h2 = [h EXCEPT ![t] = SubSeq(@, 1, Len(@) - 1)]
  BY DEF Popped
<1> HIDE DEF h2
<1>1. h[t] \in Seq(Kinds) /\ n \in Nat \ {0} /\ n \in 1..MaxDepth
  BY LimitsAssumption DEF Stacks
<1>2. /\ h2[t] \in Seq(Kinds) /\ Len(h2[t]) = n - 1
      /\ \A i \in 1..(n - 1) : h2[t][i] = h[t][i]
      /\ \A u \in Threads \ {t} : h2[u] = h[u]
  <2>1. h2 \in [Threads -> Seq(Kinds)] /\ h2[t] = SubSeq(h[t], 1, n - 1)
        /\ \A u \in Threads \ {t} : h2[u] = h[u]
    <3>1. SubSeq(h[t], 1, n - 1) \in Seq(Kinds)
      BY <1>1, SubSeqProperties
    <3> QED
      BY <1>0, <3>1 DEF Stacks
  <2>2. \A i \in 1..(n - 1) : h[t][i] \in Kinds
    BY <1>1
  <2>3. /\ SubSeq(h[t], 1, n - 1) \in Seq(Kinds)
        /\ Len(SubSeq(h[t], 1, n - 1)) = n - 1
        /\ \A i \in 1..(n - 1) : SubSeq(h[t], 1, n - 1)[i] = h[t][i]
    BY <1>1, <2>2
  <2> QED
    BY <2>1, <2>3
<1>3. h2 \in Stacks
  <2>1. h2 \in [Threads -> Seq(Kinds)]
    BY <1>0, <1>1, <1>2 DEF Stacks
  <2>2. ASSUME NEW u \in Threads PROVE Len(h2[u]) <= MaxDepth
    <3>1. CASE u = t
      BY <3>1, <1>1, <1>2, LimitsAssumption
    <3>2. CASE u # t
      BY <3>2, <1>2 DEF Stacks
    <3> QED
      BY <3>1, <3>2
  <2> QED
    BY <2>1, <2>2 DEF Stacks
<1>4. ASSUME NEW k
      PROVE  Guards(h2, k) = IF k = kind THEN Guards(h, k) \ {<<t, n>>} ELSE Guards(h, k)
  <2>1. ASSUME NEW g \in Places
        PROVE  g \in Guards(h2, k) <=> g \in Guards(h, k) /\ (k = kind => g # <<t, n>>)
    <3>1. g[1] \in Threads /\ g[2] \in 1..MaxDepth /\ g = <<g[1], g[2]>> /\ Len(h[g[1]]) \in Nat
      BY DEF Places, Stacks
    <3>2. CASE g[1] # t
      BY <3>1, <3>2, <1>2 DEF Guards
    <3>3. CASE g[1] = t /\ g[2] = n
      BY <3>1, <3>3, <1>1, <1>2 DEF Guards
    <3>4. CASE g[1] = t /\ g[2] # n
      <4>1. g[2] <= n - 1 <=> g[2] <= n
        BY <3>1, <3>4, <1>1
      <4>2. g[2] <= n - 1 => h2[t][g[2]] = h[t][g[2]]
        BY <3>1, <1>1, <1>2
      <4>3. g \in Guards(h2, k) <=> g[2] <= Len(h2[t]) /\ h2[t][g[2]] = k
        BY <3>4 DEF Guards
      <4>4. g \in Guards(h, k) <=> g[2] <= Len(h[t]) /\ h[t][g[2]] = k
        BY <3>4 DEF Guards
      <4>5. g # <<t, n>>
        BY <3>4
      <4> QED
        BY <4>1, <4>2, <4>3, <4>4, <4>5, <1>2
    <3> QED
      BY <3>2, <3>3, <3>4
  <2>2. Guards(h2, k) \subseteq Places /\ Guards(h, k) \subseteq Places
    BY DEF Guards
  <2> HIDE DEF n
  <2> QED
    BY <2>1, <2>2
<1>5. <<t, n>> \in Guards(h, kind)
  BY <1>1 DEF Guards, Places
<1>6. IsFiniteSet(Guards(h, kind))
  BY GuardsCount
<1>7. Cardinality(Guards(h2, kind)) = Cardinality(Guards(h, kind)) - 1
  BY <1>4, <1>5, <1>6, FS_RemoveElement
<1> QED
  BY <1>3, <1>4, <1>7 DEF h2
-----------------------------------------------------------------------------
(* The inductive invariant.                                                   *)

\* A thread in the lock has room for the guard it is about to take.
DepthInv ==
    /\ held \in Stacks
    /\ \A t \in Threads : pc[t] \in {"writeSpin", "writeCount", "readLoad", "readCas"} =>
          Len(held[t]) < MaxDepth

\* The counters count the guards.
CountInv ==
    /\ flag.r = Cardinality(Guards(held, "R"))
    /\ writeCount = Cardinality(Guards(held, "W"))

Owns(t) == pc[t] \in {"writeCount", "unlockCount", "unlockStore"} \/ HoldsWrite(t)

\* The upper half of the word is the thread that owns the lock, and while there
\* is one the others hold nothing.
OwnerInv ==
    /\ \A t \in Threads : Owns(t) <=> flag.w = t
    /\ \A t \in Threads : flag.w \notin {0, t} => held[t] = <<>>

\* At the statements of WriteUnlock: the guard is a write guard; past the check
\* there are no readers; the word is stored when the last guard is gone.
UnlockInv ==
    /\ \A t \in Threads : pc[t] = "unlockCount" => held[t] # <<>> /\ Innermost(t) = "W"
    /\ \A t \in Threads : crashed = "no" /\ pc[t] \in {"unlockCount", "unlockStore"} => flag.r = 0
    /\ \A t \in Threads : pc[t] = "unlockStore" => writeCount = 0

LockInv == TypeOK /\ DepthInv /\ CountInv /\ OwnerInv /\ UnlockInv

\* Where no thread takes a write guard under its read guard, none has one.
Nested(h) == \A i, j \in 1..Len(h) : i < j /\ h[j] = "W" => h[i] = "W"

NestInv ==
    /\ \A t \in Threads : Nested(held[t])
    /\ \A t \in Threads : pc[t] \in {"writeSpin", "writeCount"} => ~HoldsRead(t)

-----------------------------------------------------------------------------
(* The steps.                                                                 *)

\* There is room in the counters for the guard that is about to be taken.
LEMMA ReadersFit ==
    ASSUME LockInv, NEW t \in Threads, Len(held[t]) < MaxDepth
    PROVE  flag.r + 1 <= ReadMax
<1> DEFINE more == Pushed(held, t, "R")
<1>1. held \in Stacks /\ flag.r = Cardinality(Guards(held, "R"))
  BY DEF LockInv, DepthInv, CountInv
<1>2. more \in Stacks /\ Cardinality(Guards(more, "R")) = flag.r + 1
  BY <1>1, PushedGuards DEF Kinds
<1>3. Cardinality(Guards(more, "R")) <= Cardinality(Threads) * MaxDepth
  BY <1>2, GuardsCount
<1>4. Cardinality(Threads) * MaxDepth \in Nat
  BY FitsAssumption, LimitsAssumption, FS_CardinalityType
<1>5. flag.r \in Nat
  BY <1>1, GuardsCount
<1> HIDE DEF more
<1> QED
  BY <1>2, <1>3, <1>4, <1>5, FitsAssumption, LimitsAssumption

LEMMA WritersFit ==
    ASSUME LockInv, NEW t \in Threads, flag.w = t, Len(held[t]) < MaxDepth
    PROVE  writeCount + 1 <= WriteCountMax
<1> DEFINE mine == {t} \X (1..Len(held[t]))
<1>1. held \in Stacks /\ Len(held[t]) \in Nat
  BY DEF LockInv, DepthInv, Stacks
<1>2. t # 0
  BY ThreadsAssumption
<1>3. Guards(held, "W") \in SUBSET mine
  <2>1. ASSUME NEW g \in Guards(held, "W") PROVE g \in mine
    <3>1. g[1] \in Threads /\ g[2] \in 1..MaxDepth /\ g = <<g[1], g[2]>> /\ g[2] <= Len(held[g[1]])
      BY DEF Guards, Places
    <3>2. g[1] = t
      <4>1. g[1] # t => held[g[1]] = <<>>
        BY <3>1, <1>2 DEF LockInv, OwnerInv
      <4> QED
        BY <3>1, <4>1
    <3> QED
      BY <3>1, <3>2, <1>1
  <2> QED
    BY <2>1
<1>4. IsFiniteSet(mine) /\ Cardinality(mine) = Len(held[t])
  <2>1. IsFiniteSet({t}) /\ Cardinality({t}) = 1
    BY FS_Singleton
  <2>2. IsFiniteSet(1..Len(held[t])) /\ Cardinality(1..Len(held[t])) = Len(held[t])
    BY <1>1, FS_Interval
  <2>3. IsFiniteSet(mine) /\ Cardinality(mine) = Cardinality({t}) * Cardinality(1..Len(held[t]))
    BY <2>1, <2>2, FS_Product
  <2> QED
    BY <2>1, <2>2, <2>3, <1>1
<1>5. Cardinality(Guards(held, "W")) <= Cardinality(mine)
  BY <1>3, <1>4, FS_Subset
<1>6. writeCount = Cardinality(Guards(held, "W")) /\ writeCount \in Nat
  BY <1>1, GuardsCount DEF LockInv, CountInv
<1> HIDE DEF mine
<1> QED
  BY <1>1, <1>4, <1>5, <1>6, LimitsAssumption

\* A thread whose guards are of neither kind has none.
LEMMA NoneHeld ==
    ASSUME held \in Stacks, NEW t \in Threads,
           \A i \in 1..Len(held[t]) : held[t][i] # "R" /\ held[t][i] # "W"
    PROVE  held[t] = <<>>
<1>1. held[t] \in Seq(Kinds) /\ Len(held[t]) \in Nat
  BY DEF Stacks
<1>2. Len(held[t]) = 0
  <2> SUFFICES ASSUME Len(held[t]) # 0 PROVE FALSE
    OBVIOUS
  <2>1. 1 \in 1..Len(held[t])
    BY <1>1
  <2>2. held[t][1] \in Kinds
    BY <1>1, <2>1
  <2> QED
    BY <2>1, <2>2 DEF Kinds
<1> QED
  BY <1>1, <1>2

\* Nobody holds anything when the word is empty.
LEMMA FreeMeansUnheld ==
    ASSUME LockInv, flag = Empty PROVE \A t \in Threads : held[t] = <<>>
<1> SUFFICES ASSUME NEW t \in Threads PROVE held[t] = <<>>
  OBVIOUS
<1>1. held \in Stacks
  BY DEF LockInv, DepthInv
<1>2. Cardinality(Guards(held, "R")) = 0 /\ flag.w # t
  BY ThreadsAssumption DEF LockInv, CountInv, Empty
<1>3. \A i \in 1..Len(held[t]) : held[t][i] # "R"
  BY <1>1, <1>2, NoGuards
<1>4. \A i \in 1..Len(held[t]) : held[t][i] # "W"
  BY <1>2 DEF LockInv, OwnerInv, Owns, HoldsWrite
<1> QED
  BY <1>1, <1>3, <1>4, NoneHeld

\* The guards after one was taken, and after the innermost was given back.
LEMMA AfterTook ==
    ASSUME LockInv, NEW t \in Threads, NEW kind \in Kinds, Len(held[t]) < MaxDepth, Took(t, kind)
    PROVE  /\ held' \in Stacks
           /\ Cardinality(Guards(held', kind)) = Cardinality(Guards(held, kind)) + 1
           /\ \A other \in Kinds \ {kind} : Guards(held', other) = Guards(held, other)
           /\ Len(held'[t]) = Len(held[t]) + 1 /\ held'[t][Len(held[t]) + 1] = kind
           /\ \A i \in 1..Len(held[t]) : held'[t][i] = held[t][i]
           /\ \A u \in Threads \ {t} : held'[u] = held[u]
<1>1. held \in Stacks
  BY DEF LockInv, DepthInv
<1>2. held' = Pushed(held, t, kind)
  BY DEF Took, Pushed
<1>3. /\ held' \in Stacks
      /\ Cardinality(Guards(held', kind)) = Cardinality(Guards(held, kind)) + 1
      /\ \A other \in Kinds \ {kind} : Guards(held', other) = Guards(held, other)
  BY <1>1, <1>2, PushedGuards
<1>4. held[t] \in Seq(Kinds) /\ held'[t] = Append(held[t], kind)
      /\ \A u \in Threads \ {t} : held'[u] = held[u]
  BY <1>1, <1>2 DEF Stacks, Pushed
<1> QED
  BY <1>3, <1>4

LEMMA AfterGaveBack ==
    ASSUME LockInv, NEW t \in Threads, held[t] # <<>>, GaveBack(t)
    PROVE  /\ held' \in Stacks /\ Innermost(t) \in Kinds
           /\ Cardinality(Guards(held', Innermost(t))) = Cardinality(Guards(held, Innermost(t))) - 1
           /\ \A other \in Kinds \ {Innermost(t)} : Guards(held', other) = Guards(held, other)
           /\ Len(held'[t]) = Len(held[t]) - 1
           /\ \A i \in 1..(Len(held[t]) - 1) : held'[t][i] = held[t][i]
           /\ \A u \in Threads \ {t} : held'[u] = held[u]
<1> DEFINE n == Len(held[t])
<1>1. held \in Stacks /\ held[t] \in Seq(Kinds) /\ n \in Nat \ {0}
  BY DEF LockInv, DepthInv, Stacks
<1>2. held' = Popped(held, t)
  BY DEF GaveBack, Popped
<1>3. held'[t] = SubSeq(held[t], 1, n - 1) /\ \A u \in Threads \ {t} : held'[u] = held[u]
  BY <1>1, <1>2 DEF Stacks, Popped
<1>4. Len(SubSeq(held[t], 1, n - 1)) = n - 1
      /\ \A i \in 1..(n - 1) : SubSeq(held[t], 1, n - 1)[i] = held[t][i]
  BY <1>1
<1>5. Innermost(t) = held[t][n] /\ Innermost(t) \in Kinds
  BY <1>1 DEF Innermost
<1>6. /\ held' \in Stacks
      /\ Cardinality(Guards(held', Innermost(t))) = Cardinality(Guards(held, Innermost(t))) - 1
      /\ \A other \in Kinds \ {Innermost(t)} : Guards(held', other) = Guards(held, other)
  BY <1>1, <1>2, PoppedGuards DEF Innermost
<1> QED
  BY <1>3, <1>4, <1>5, <1>6

\* The innermost guard of a thread counts.
LEMMA InnermostCounts ==
    ASSUME LockInv, NEW t \in Threads, held[t] # <<>>
    PROVE  /\ Innermost(t) = "R" => flag.r > 0
           /\ Innermost(t) = "W" => writeCount > 0 /\ flag.w = t
<1>1. held \in Stacks /\ held[t] \in Seq(Kinds) /\ Len(held[t]) \in 1..Len(held[t])
  BY DEF LockInv, DepthInv, Stacks
<1>2. Cardinality(Guards(held, Innermost(t))) # 0
  BY <1>1, NoGuards DEF Innermost
<1>3. \A kind : Cardinality(Guards(held, kind)) \in Nat
  BY <1>1, GuardsCount
<1>4. Innermost(t) = "W" => flag.w = t
  BY <1>1 DEF Innermost, LockInv, OwnerInv, Owns, HoldsWrite
<1> QED
  BY <1>2, <1>3, <1>4 DEF LockInv, CountInv

\* Each step keeps the word and the counter in their ranges.
LEMMA TypeStep ==
    ASSUME LockInv, [Next]_vars
    PROVE  TypeOK'
<1> USE DEF TypeOK, Advance, Takes
<1>0. TypeOK
  BY DEF LockInv
<1> USE <1>0
<1>1. ASSUME NEW t \in Threads, Proceed(t) \/ Call(t) \/ Timeout(t) PROVE TypeOK'
  <2>1. CASE WriteLockOwner(t)
    <3>1. held' \in [Threads -> Seq(Kinds)]
      BY <2>1, AfterTook DEF WriteLockOwner, Takes, Kinds, Stacks
    <3>2. writeCount' \in 0..WriteCountMax
      BY <2>1, LimitsAssumption DEF WriteLockOwner, Counted
    <3>4. taken' \in [Threads -> 0..MaxTaken]
      BY <2>1, LimitsAssumption DEF WriteLockOwner
    <3>5. pc' = pc
      BY <2>1 DEF WriteLockOwner
    <3> QED
      BY <2>1, <3>1, <3>2, <3>4, <3>5 DEF WriteLockOwner, Kinds
  <2>2. CASE WriteLockSpin(t)
    BY <2>2, LimitsAssumption, SMT DEF WriteLockSpin
  <2>3. CASE WriteCas(t)
    BY <2>3, LimitsAssumption DEF WriteCas
  <2>4. CASE CountWrite(t)
    <3>1. held' \in [Threads -> Seq(Kinds)]
      BY <2>4, AfterTook DEF CountWrite, LockInv, DepthInv, Kinds, Stacks
    <3>2. writeCount' \in 0..WriteCountMax
      BY <2>4, LimitsAssumption DEF CountWrite, Counted
    <3> QED
      BY <2>4, <3>1, <3>2 DEF CountWrite, Kinds
  <2>5. CASE WriteUnlock(t)
    BY <2>5, LimitsAssumption, SMT DEF WriteUnlock
  <2>6. CASE UncountWrite(t)
    <3>1. held' \in [Threads -> Seq(Kinds)]
      BY <2>6, AfterGaveBack DEF UncountWrite, LockInv, UnlockInv, Stacks
    <3>2. writeCount' \in 0..WriteCountMax
      BY <2>6, LimitsAssumption DEF UncountWrite, Uncounted
    <3> QED
      BY <2>6, <3>1, <3>2 DEF UncountWrite, Kinds
  <2>7. CASE StoreEmpty(t)
    BY <2>7, LimitsAssumption DEF StoreEmpty, Empty
  <2>8. CASE ReadLockOwner(t)
    <3>1. held' \in [Threads -> Seq(Kinds)]
      BY <2>8, AfterTook DEF ReadLockOwner, Kinds, Stacks
    <3>2. flag' = [w |-> flag.w, r |-> flag.r + 1] /\ flag.r + 1 <= ReadMax
      <4>1. flag.r + 1 <= ReadMax
        BY <2>8, ReadersFit DEF ReadLockOwner
      <4>2. flag.r < ReadMax
        BY <4>1, LimitsAssumption
      <4> QED
        BY <2>8, <4>1, <4>2 DEF ReadLockOwner, Inc
    <3>3. flag' \in [w : Threads \cup {0}, r : 0..ReadMax]
      BY <3>2, LimitsAssumption
    <3>4. taken' \in [Threads -> 0..MaxTaken]
      BY <2>8, LimitsAssumption DEF ReadLockOwner
    <3>5. pc' = pc
      BY <2>8 DEF ReadLockOwner
    <3> QED
      BY <2>8, <3>1, <3>3, <3>4, <3>5 DEF ReadLockOwner, Kinds
  <2>9. CASE ReadLockSpin(t)
    BY <2>9, LimitsAssumption, SMT DEF ReadLockSpin
  <2>10. CASE ReadLoad(t)
    BY <2>10, LimitsAssumption, SMT DEF ReadLoad
  <2>11. CASE ReadCas(t)
    <3>1. held' \in [Threads -> Seq(Kinds)]
      BY <2>11, AfterTook DEF ReadCas, LockInv, DepthInv, Kinds, Stacks
    <3>2. flag' = [w |-> flag.w, r |-> flag.r + 1] /\ flag.r + 1 <= ReadMax
      <4>1. flag.r + 1 <= ReadMax
        BY <2>11, ReadersFit DEF ReadCas, LockInv, DepthInv
      <4>2. flag.r < ReadMax
        BY <4>1, LimitsAssumption
      <4> QED
        BY <2>11, <4>2, <4>1 DEF ReadCas, Inc
    <3>3. flag' \in [w : Threads \cup {0}, r : 0..ReadMax]
      BY <3>2, LimitsAssumption
    <3> QED
      BY <2>11, <3>1, <3>3, LimitsAssumption DEF ReadCas, Kinds
  <2>12. CASE ReadCasFails(t)
    BY <2>12, LimitsAssumption, SMT DEF ReadCasFails
  <2>13. CASE ReadUnlock(t)
    <3>1. held' \in [Threads -> Seq(Kinds)]
      BY <2>13, AfterGaveBack DEF ReadUnlock, Stacks
    <3>2. flag' = [w |-> flag.w, r |-> flag.r - 1] /\ flag.r > 0
      BY <2>13, InnermostCounts DEF ReadUnlock, Dec
    <3>3. flag' \in [w : Threads \cup {0}, r : 0..ReadMax]
      BY <3>2, LimitsAssumption
    <3> QED
      BY <2>13, <3>1, <3>3, LimitsAssumption DEF ReadUnlock, Kinds
  <2>14. CASE Timeout(t)
    BY <2>14, LimitsAssumption, SMT DEF Timeout
  <2> QED
    BY <1>1, <2>1, <2>2, <2>3, <2>4, <2>5, <2>6, <2>7,
       <2>8, <2>9, <2>10, <2>11, <2>12, <2>13, <2>14 DEF Proceed, Call
<1>2. CASE UNCHANGED vars
  BY <1>2 DEF vars
<1> QED
  BY <1>1, <1>2 DEF Next, Finished

\* Each step keeps the nesting within its bound.
LEMMA DepthStep ==
    ASSUME LockInv, [Next]_vars
    PROVE  DepthInv'
<1> USE DEF Advance, DepthInv
<1>0. TypeOK /\ DepthInv
  BY DEF LockInv
<1> USE <1>0
<1>1. ASSUME NEW t \in Threads, Proceed(t) \/ Call(t) \/ Timeout(t) PROVE DepthInv'
  <2>1. CASE WriteLockOwner(t)
    <3>1. /\ held' \in Stacks
          /\ \A u \in Threads \ {t} : held'[u] = held[u]
      BY <2>1, AfterTook DEF WriteLockOwner, Takes, Kinds
    <3> QED
      BY <2>1, <3>1 DEF WriteLockOwner, TypeOK
  <2>2. CASE WriteLockSpin(t)
    BY <2>2 DEF WriteLockSpin, Takes, TypeOK
  <2>3. CASE WriteCas(t)
    BY <2>3 DEF WriteCas, TypeOK, DepthInv
  <2>4. CASE CountWrite(t)
    <3>1. /\ held' \in Stacks
          /\ \A u \in Threads \ {t} : held'[u] = held[u]
      BY <2>4, AfterTook DEF CountWrite, Kinds
    <3> QED
      BY <2>4, <3>1 DEF CountWrite, TypeOK
  <2>5. CASE WriteUnlock(t)
    BY <2>5 DEF WriteUnlock, TypeOK, DepthInv
  <2>6. CASE UncountWrite(t)
    <3>1. /\ held' \in Stacks
          /\ \A u \in Threads \ {t} : held'[u] = held[u]
      BY <2>6, AfterGaveBack DEF UncountWrite, UnlockInv, LockInv
    <3> QED
      BY <2>6, <3>1 DEF UncountWrite, TypeOK
  <2>7. CASE StoreEmpty(t)
    BY <2>7 DEF StoreEmpty, TypeOK, DepthInv
  <2>8. CASE ReadLockOwner(t)
    <3>1. /\ held' \in Stacks
          /\ \A u \in Threads \ {t} : held'[u] = held[u]
      BY <2>8, AfterTook DEF ReadLockOwner, Takes, Kinds
    <3> QED
      BY <2>8, <3>1 DEF ReadLockOwner, TypeOK
  <2>9. CASE ReadLockSpin(t)
    BY <2>9 DEF ReadLockSpin, Takes, TypeOK
  <2>10. CASE ReadLoad(t)
    BY <2>10 DEF ReadLoad, TypeOK, DepthInv
  <2>11. CASE ReadCas(t)
    <3>1. /\ held' \in Stacks
          /\ \A u \in Threads \ {t} : held'[u] = held[u]
      BY <2>11, AfterTook DEF ReadCas, Kinds
    <3> QED
      BY <2>11, <3>1 DEF ReadCas, TypeOK
  <2>12. CASE ReadCasFails(t)
    BY <2>12 DEF ReadCasFails, TypeOK, DepthInv
  <2>13. CASE ReadUnlock(t)
    <3>1. /\ held' \in Stacks
          /\ \A u \in Threads \ {t} : held'[u] = held[u]
      BY <2>13, AfterGaveBack DEF ReadUnlock
    <3> QED
      BY <2>13, <3>1 DEF ReadUnlock, TypeOK
  <2>14. CASE Timeout(t)
    BY <2>14 DEF Timeout, TypeOK, DepthInv
  <2> QED
    BY <1>1, <2>1, <2>2, <2>3, <2>4, <2>5, <2>6, <2>7,
       <2>8, <2>9, <2>10, <2>11, <2>12, <2>13, <2>14 DEF Proceed, Call
<1>2. CASE UNCHANGED vars
  BY <1>2 DEF vars
<1> QED
  BY <1>1, <1>2 DEF Next, Finished

\* Each step changes a counter exactly when it changes the guards.
LEMMA CountStep ==
    ASSUME LockInv, [Next]_vars
    PROVE  CountInv'
<1> USE DEF Advance, CountInv
<1>0. TypeOK /\ CountInv
  BY DEF LockInv
<1> USE <1>0 DEF TypeOK
<1>1. ASSUME NEW t \in Threads, Proceed(t) \/ Call(t) \/ Timeout(t) PROVE CountInv'
  <2>1. CASE WriteLockOwner(t)
    <3>1. /\ Cardinality(Guards(held', "W")) = Cardinality(Guards(held, "W")) + 1
          /\ Guards(held', "R") = Guards(held, "R")
      BY <2>1, AfterTook DEF WriteLockOwner, Takes, Kinds, LockInv, DepthInv
    <3>2. writeCount' = writeCount + 1
      <4>1. writeCount + 1 <= WriteCountMax
        BY <2>1, WritersFit DEF WriteLockOwner, Takes, OwnerIs, LockInv, DepthInv, OwnerInv, Owns
      <4> QED
        BY <2>1, <4>1, LimitsAssumption DEF WriteLockOwner, Counted
    <3> QED
      BY <2>1, <3>1, <3>2 DEF WriteLockOwner
  <2>2. CASE WriteLockSpin(t)
    <3>1. flag'.r = flag.r /\ writeCount' = writeCount /\ held' = held
      BY <2>2 DEF WriteLockSpin
    <3> QED
      BY <3>1
  <2>3. CASE WriteCas(t)
    <3>1. flag'.r = flag.r /\ writeCount' = writeCount /\ held' = held
      BY <2>3 DEF WriteCas, FreeForWriter, Empty
    <3> QED
      BY <3>1
  <2>4. CASE CountWrite(t)
    <3>1. /\ Cardinality(Guards(held', "W")) = Cardinality(Guards(held, "W")) + 1
          /\ Guards(held', "R") = Guards(held, "R")
      BY <2>4, AfterTook DEF CountWrite, Takes, Kinds, LockInv, DepthInv
    <3>2. writeCount' = writeCount + 1
      <4>1. writeCount + 1 <= WriteCountMax
        BY <2>4, WritersFit DEF CountWrite, Takes, OwnerIs, LockInv, DepthInv, OwnerInv, Owns
      <4> QED
        BY <2>4, <4>1, LimitsAssumption DEF CountWrite, Counted
    <3> QED
      BY <2>4, <3>1, <3>2 DEF CountWrite
  <2>5. CASE WriteUnlock(t)
    <3>1. flag'.r = flag.r /\ writeCount' = writeCount /\ held' = held
      BY <2>5 DEF WriteUnlock
    <3> QED
      BY <3>1
  <2>6. CASE UncountWrite(t)
    <3>1. /\ Cardinality(Guards(held', "W")) = Cardinality(Guards(held, "W")) - 1
          /\ Guards(held', "R") = Guards(held, "R") /\ writeCount > 0
      BY <2>6, AfterGaveBack, InnermostCounts DEF UncountWrite, UnlockInv, LockInv, Kinds
    <3>2. writeCount' = writeCount - 1
      BY <2>6, <3>1 DEF UncountWrite, Uncounted
    <3> QED
      BY <2>6, <3>1, <3>2 DEF UncountWrite
  <2>7. CASE StoreEmpty(t)
    <3>1. flag'.r = flag.r /\ writeCount' = writeCount /\ held' = held
      BY <2>7 DEF StoreEmpty, Empty, LockInv, UnlockInv
    <3> QED
      BY <3>1
  <2>8. CASE ReadLockOwner(t)
    <3>1. /\ Cardinality(Guards(held', "R")) = Cardinality(Guards(held, "R")) + 1
          /\ Guards(held', "W") = Guards(held, "W")
      BY <2>8, AfterTook DEF ReadLockOwner, Takes, Kinds, LockInv, DepthInv
    <3>2. flag'.r = flag.r + 1
      <4>1. flag.r + 1 <= ReadMax
        BY <2>8, ReadersFit DEF ReadLockOwner, Takes, LockInv, DepthInv
      <4>2. flag.r < ReadMax
        BY <4>1, LimitsAssumption
      <4> QED
        BY <2>8, <4>2 DEF ReadLockOwner, Inc
    <3> QED
      BY <2>8, <3>1, <3>2 DEF ReadLockOwner
  <2>9. CASE ReadLockSpin(t)
    <3>1. flag'.r = flag.r /\ writeCount' = writeCount /\ held' = held
      BY <2>9 DEF ReadLockSpin
    <3> QED
      BY <3>1
  <2>10. CASE ReadLoad(t)
    <3>1. flag'.r = flag.r /\ writeCount' = writeCount /\ held' = held
      BY <2>10 DEF ReadLoad
    <3> QED
      BY <3>1
  <2>11. CASE ReadCas(t)
    <3>1. /\ Cardinality(Guards(held', "R")) = Cardinality(Guards(held, "R")) + 1
          /\ Guards(held', "W") = Guards(held, "W")
      BY <2>11, AfterTook DEF ReadCas, Takes, Kinds, LockInv, DepthInv
    <3>2. flag'.r = flag.r + 1
      <4>1. flag.r + 1 <= ReadMax
        BY <2>11, ReadersFit DEF ReadCas, Takes, LockInv, DepthInv
      <4>2. flag.r < ReadMax
        BY <4>1, LimitsAssumption
      <4> QED
        BY <2>11, <4>2 DEF ReadCas, Inc
    <3> QED
      BY <2>11, <3>1, <3>2 DEF ReadCas
  <2>12. CASE ReadCasFails(t)
    <3>1. flag'.r = flag.r /\ writeCount' = writeCount /\ held' = held
      BY <2>12 DEF ReadCasFails
    <3> QED
      BY <3>1
  <2>13. CASE ReadUnlock(t)
    <3>1. /\ Cardinality(Guards(held', "R")) = Cardinality(Guards(held, "R")) - 1
          /\ Guards(held', "W") = Guards(held, "W") /\ flag.r > 0
      BY <2>13, AfterGaveBack, InnermostCounts DEF ReadUnlock, Kinds
    <3>2. flag'.r = flag.r - 1
      BY <2>13, <3>1 DEF ReadUnlock, Dec
    <3> QED
      BY <2>13, <3>1, <3>2 DEF ReadUnlock
  <2>14. CASE Timeout(t)
    <3>1. flag'.r = flag.r /\ writeCount' = writeCount /\ held' = held
      BY <2>14 DEF Timeout
    <3> QED
      BY <3>1
  <2> QED
    BY <1>1, <2>1, <2>2, <2>3, <2>4, <2>5, <2>6, <2>7,
       <2>8, <2>9, <2>10, <2>11, <2>12, <2>13, <2>14 DEF Proceed, Call
<1>2. CASE UNCHANGED vars
  BY <1>2 DEF vars
<1> QED
  BY <1>1, <1>2 DEF Next, Finished

\* Each step keeps the upper half of the word the owner of the lock.
LEMMA OwnerStep ==
    ASSUME LockInv, [Next]_vars
    PROVE  OwnerInv'
<1> USE DEF Advance, OwnerInv
<1>0. TypeOK /\ OwnerInv
  BY DEF LockInv
<1> USE <1>0 DEF TypeOK
<1>1. ASSUME NEW t \in Threads, Proceed(t) \/ Call(t) \/ Timeout(t) PROVE OwnerInv'
  <2>1. CASE WriteLockOwner(t)
    <3>1. /\ Len(held'[t]) = Len(held[t]) + 1 /\ held'[t][Len(held[t]) + 1] = "W"
          /\ \A u \in Threads \ {t} : held'[u] = held[u]
      BY <2>1, AfterTook DEF WriteLockOwner, Takes, Kinds, LockInv, DepthInv
    <3>2. Len(held[t]) \in Nat /\ flag.w = t /\ flag' = flag
      BY <2>1 DEF WriteLockOwner, Owns, OwnerIs, Stacks, LockInv, DepthInv
    <3>3. HoldsWrite(t)'
      BY <3>1, <3>2 DEF HoldsWrite
    <3>4. \A u \in Threads \ {t} : Owns(u)' <=> Owns(u)
      BY <2>1, <3>1 DEF WriteLockOwner, Owns, HoldsWrite
    <3> QED
      BY <3>1, <3>2, <3>3, <3>4 DEF Owns
  <2>2. CASE WriteLockSpin(t)
    <3>1. flag'.w = flag.w /\ held' = held /\ \A u \in Threads : Owns(u)' <=> Owns(u)
      BY <2>2 DEF WriteLockSpin, Owns, HoldsWrite
    <3> QED
      BY <3>1
  <2>3. CASE WriteCas(t)
    <3>1. \A u \in Threads : held[u] = <<>>
      BY <2>3, FreeMeansUnheld DEF WriteCas, FreeForWriter
    <3>2. flag.w = 0 /\ flag'.w = t /\ held' = held
      BY <2>3 DEF WriteCas, FreeForWriter, Empty
    <3>3. \A u \in Threads : ~Owns(u)
      BY <3>2, ThreadsAssumption
    <3>4. \A u \in Threads \ {t} : ~Owns(u)'
      BY <2>3, <3>3 DEF WriteCas, Owns, HoldsWrite
    <3>5. Owns(t)'
      BY <2>3 DEF WriteCas, Owns
    <3> QED
      BY <3>1, <3>2, <3>4, <3>5
  <2>4. CASE CountWrite(t)
    <3>1. /\ Len(held'[t]) = Len(held[t]) + 1 /\ held'[t][Len(held[t]) + 1] = "W"
          /\ \A u \in Threads \ {t} : held'[u] = held[u]
      BY <2>4, AfterTook DEF CountWrite, Takes, Kinds, LockInv, DepthInv
    <3>2. Len(held[t]) \in Nat /\ flag.w = t /\ flag' = flag
      BY <2>4 DEF CountWrite, Owns, OwnerIs, Stacks, LockInv, DepthInv
    <3>3. HoldsWrite(t)'
      BY <3>1, <3>2 DEF HoldsWrite
    <3>4. \A u \in Threads \ {t} : Owns(u)' <=> Owns(u)
      BY <2>4, <3>1 DEF CountWrite, Owns, HoldsWrite
    <3> QED
      BY <3>1, <3>2, <3>3, <3>4 DEF Owns
  <2>5. CASE WriteUnlock(t)
    <3>1. HoldsWrite(t) /\ held' = held /\ flag' = flag
      BY <2>5 DEF WriteUnlock, Innermost, HoldsWrite, Stacks, LockInv, DepthInv
    <3>2. \A u \in Threads : Owns(u)' <=> Owns(u)
      BY <2>5, <3>1 DEF WriteUnlock, Owns, HoldsWrite
    <3> QED
      BY <3>1, <3>2
  <2>6. CASE UncountWrite(t)
    <3>1. /\ \A u \in Threads \ {t} : held'[u] = held[u]
          /\ held' \in Stacks
      BY <2>6, AfterGaveBack DEF UncountWrite, UnlockInv, LockInv
    <3>2. flag.w = t /\ flag' = flag
      BY <2>6 DEF UncountWrite, Owns
    <3>3. \A u \in Threads \ {t} : ~Owns(u)'
      <4>1. \A u \in Threads \ {t} : ~Owns(u)
        BY <3>2
      <4> QED
        BY <2>6, <3>1, <4>1 DEF UncountWrite, Owns, HoldsWrite
    <3>4. Owns(t)'
      <4>1. CASE writeCount = 1
        BY <2>6, <4>1 DEF UncountWrite, Owns
      <4>2. CASE writeCount # 1
        <5>1. Cardinality(Guards(held', "W")) # 0
          <6>1. CountInv' /\ writeCount > 0
            BY <2>6, CountStep, InnermostCounts DEF Next, Proceed, LockInv, UnlockInv, UncountWrite
          <6>2. writeCount' # 0
            BY <2>6, <6>1, <4>2 DEF UncountWrite, Uncounted
          <6> QED
            BY <6>1, <6>2 DEF CountInv
        <5>2. PICK u \in Threads : \E i \in 1..Len(held'[u]) : held'[u][i] = "W"
          <6>1. Cardinality(Guards(held', "W")) = 0
                  <=> \A u \in Threads : \A i \in 1..Len(held'[u]) : held'[u][i] # "W"
            BY <3>1, NoGuards
          <6> QED
            BY <5>1, <6>1
        <5>3. Owns(u)'
          BY <5>2 DEF Owns, HoldsWrite
        <5> QED
          BY <3>3, <5>3
      <4> QED
        BY <4>1, <4>2
    <3> QED
      BY <3>1, <3>2, <3>3, <3>4
  <2>7. CASE StoreEmpty(t)
    <3>1. flag.w = t /\ flag'.w = 0 /\ held' = held
      BY <2>7 DEF StoreEmpty, Owns, Empty
    <3>2. ~HoldsWrite(t)
      <4>1. Cardinality(Guards(held, "W")) = 0 /\ held \in Stacks
        BY <2>7 DEF StoreEmpty, LockInv, UnlockInv, CountInv, DepthInv
      <4> QED
        BY <4>1, NoGuards DEF HoldsWrite
    <3>3. \A u \in Threads \ {t} : ~Owns(u)
      BY <3>1
    <3>4. \A u \in Threads : ~Owns(u)'
      BY <2>7, <3>1, <3>2, <3>3 DEF StoreEmpty, Owns, HoldsWrite
    <3> QED
      BY <3>1, <3>4, ThreadsAssumption
  <2>8. CASE ReadLockOwner(t)
    <3>1. /\ Len(held'[t]) = Len(held[t]) + 1 /\ held'[t][Len(held[t]) + 1] = "R"
          /\ \A i \in 1..Len(held[t]) : held'[t][i] = held[t][i]
          /\ \A u \in Threads \ {t} : held'[u] = held[u]
      BY <2>8, AfterTook DEF ReadLockOwner, Takes, Kinds, LockInv, DepthInv
    <3>2. Len(held[t]) \in Nat
      BY DEF Stacks, LockInv, DepthInv
    <3>3. HoldsWrite(t)' <=> HoldsWrite(t)
      <4>1. ASSUME NEW i \in 1..Len(held'[t]), held'[t][i] = "W" PROVE HoldsWrite(t)
        <5>1. i \in 1..Len(held[t]) \/ i = Len(held[t]) + 1
          BY <3>1, <3>2
        <5>2. i # Len(held[t]) + 1
          BY <3>1, <4>1
        <5>3. held[t][i] = "W"
          BY <3>1, <4>1, <5>1, <5>2
        <5> QED
          BY <5>1, <5>2, <5>3 DEF HoldsWrite
      <4>2. ASSUME NEW i \in 1..Len(held[t]), held[t][i] = "W" PROVE HoldsWrite(t)'
        <5>1. i \in 1..Len(held'[t]) /\ held'[t][i] = "W"
          BY <3>1, <3>2, <4>2
        <5> QED
          BY <5>1 DEF HoldsWrite
      <4> QED
        BY <4>1, <4>2 DEF HoldsWrite
    <3>4. \A u \in Threads : Owns(u)' <=> Owns(u)
      <4>1. Owns(t)' <=> Owns(t)
        BY <2>8, <3>3 DEF ReadLockOwner, Owns
      <4>2. ASSUME NEW u \in Threads \ {t} PROVE Owns(u)' <=> Owns(u)
        <5>1. pc'[u] = pc[u]
          BY <2>8 DEF ReadLockOwner
        <5>2. held'[u] = held[u]
          BY <3>1
        <5> QED
          BY <5>1, <5>2 DEF Owns, HoldsWrite
      <4> QED
        BY <4>1, <4>2
    <3>5. flag'.w = flag.w /\ flag.w \in {0, t}
      <4>1. flag.r < ReadMax
        BY <2>8, ReadersFit, LimitsAssumption DEF ReadLockOwner, Takes, LockInv, DepthInv
      <4> QED
        BY <2>8, <4>1 DEF ReadLockOwner, Inc, OwnerIs, AsLoaded
    <3> QED
      BY <3>1, <3>4, <3>5
  <2>9. CASE ReadLockSpin(t)
    <3>1. flag'.w = flag.w /\ held' = held /\ \A u \in Threads : Owns(u)' <=> Owns(u)
      BY <2>9 DEF ReadLockSpin, Owns, HoldsWrite
    <3> QED
      BY <3>1
  <2>10. CASE ReadLoad(t)
    <3>1. flag'.w = flag.w /\ held' = held /\ \A u \in Threads : Owns(u)' <=> Owns(u)
      BY <2>10 DEF ReadLoad, Owns, HoldsWrite
    <3> QED
      BY <3>1
  <2>11. CASE ReadCas(t)
    <3>1. /\ Len(held'[t]) = Len(held[t]) + 1 /\ held'[t][Len(held[t]) + 1] = "R"
          /\ \A i \in 1..Len(held[t]) : held'[t][i] = held[t][i]
          /\ \A u \in Threads \ {t} : held'[u] = held[u]
      BY <2>11, AfterTook DEF ReadCas, Takes, Kinds, LockInv, DepthInv
    <3>2. Len(held[t]) \in Nat
      BY DEF Stacks, LockInv, DepthInv
    <3>3. HoldsWrite(t)' <=> HoldsWrite(t)
      <4>1. ASSUME NEW i \in 1..Len(held'[t]), held'[t][i] = "W" PROVE HoldsWrite(t)
        <5>1. i \in 1..Len(held[t]) \/ i = Len(held[t]) + 1
          BY <3>1, <3>2
        <5>2. i # Len(held[t]) + 1
          BY <3>1, <4>1
        <5>3. held[t][i] = "W"
          BY <3>1, <4>1, <5>1, <5>2
        <5> QED
          BY <5>1, <5>2, <5>3 DEF HoldsWrite
      <4>2. ASSUME NEW i \in 1..Len(held[t]), held[t][i] = "W" PROVE HoldsWrite(t)'
        <5>1. i \in 1..Len(held'[t]) /\ held'[t][i] = "W"
          BY <3>1, <3>2, <4>2
        <5> QED
          BY <5>1 DEF HoldsWrite
      <4> QED
        BY <4>1, <4>2 DEF HoldsWrite
    <3>4. \A u \in Threads : Owns(u)' <=> Owns(u)
      <4>1. Owns(t)' <=> Owns(t)
        BY <2>11, <3>3 DEF ReadCas, Owns
      <4>2. ASSUME NEW u \in Threads \ {t} PROVE Owns(u)' <=> Owns(u)
        <5>1. pc'[u] = pc[u]
          BY <2>11 DEF ReadCas
        <5>2. held'[u] = held[u]
          BY <3>1
        <5> QED
          BY <5>1, <5>2 DEF Owns, HoldsWrite
      <4> QED
        BY <4>1, <4>2
    <3>5. flag'.w = flag.w /\ flag.w \in {0, t}
      <4>1. flag.r < ReadMax
        BY <2>11, ReadersFit, LimitsAssumption DEF ReadCas, Takes, LockInv, DepthInv
      <4> QED
        BY <2>11, <4>1 DEF ReadCas, Inc, OwnerIs, AsLoaded
    <3> QED
      BY <3>1, <3>4, <3>5
  <2>12. CASE ReadCasFails(t)
    <3>1. flag'.w = flag.w /\ held' = held /\ \A u \in Threads : Owns(u)' <=> Owns(u)
      BY <2>12 DEF ReadCasFails, Owns, HoldsWrite
    <3> QED
      BY <3>1
  <2>13. CASE ReadUnlock(t)
    <3>1. /\ Len(held'[t]) = Len(held[t]) - 1
          /\ \A i \in 1..(Len(held[t]) - 1) : held'[t][i] = held[t][i]
          /\ \A u \in Threads \ {t} : held'[u] = held[u]
      BY <2>13, AfterGaveBack DEF ReadUnlock
    <3>2. Len(held[t]) \in Nat /\ held[t][Len(held[t])] = "R"
      BY <2>13 DEF ReadUnlock, Innermost, Stacks, LockInv, DepthInv
    <3>3. HoldsWrite(t)' <=> HoldsWrite(t)
      <4>1. ASSUME NEW i \in 1..Len(held'[t]), held'[t][i] = "W" PROVE HoldsWrite(t)
        <5>1. i \in 1..Len(held[t]) /\ held[t][i] = "W"
          <6>1. i \in 1..(Len(held[t]) - 1)
            BY <3>1, <3>2, <4>1
          <6>2. i \in 1..Len(held[t])
            BY <3>2, <6>1
          <6> QED
            BY <3>1, <4>1, <6>1, <6>2
        <5> QED
          BY <5>1 DEF HoldsWrite
      <4>2. ASSUME NEW i \in 1..Len(held[t]), held[t][i] = "W" PROVE HoldsWrite(t)'
        <5>1. i \in 1..Len(held'[t]) /\ held'[t][i] = "W"
          BY <3>1, <3>2, <4>2
        <5> QED
          BY <5>1 DEF HoldsWrite
      <4> QED
        BY <4>1, <4>2 DEF HoldsWrite
    <3>4. \A u \in Threads : Owns(u)' <=> Owns(u)
      <4>1. Owns(t)' <=> Owns(t)
        BY <2>13, <3>3 DEF ReadUnlock, Owns
      <4>2. ASSUME NEW u \in Threads \ {t} PROVE Owns(u)' <=> Owns(u)
        <5>1. pc'[u] = pc[u]
          BY <2>13 DEF ReadUnlock
        <5>2. held'[u] = held[u]
          BY <3>1
        <5> QED
          BY <5>1, <5>2 DEF Owns, HoldsWrite
      <4> QED
        BY <4>1, <4>2
    <3>5. flag'.w = flag.w
      BY <2>13, InnermostCounts DEF ReadUnlock, Dec
    <3>6. flag.w \in {0, t}
      BY <2>13 DEF ReadUnlock
    <3> QED
      BY <3>1, <3>4, <3>5, <3>6
  <2>14. CASE Timeout(t)
    <3>1. flag'.w = flag.w /\ held' = held /\ \A u \in Threads : Owns(u)' <=> Owns(u)
      BY <2>14 DEF Timeout, Owns, HoldsWrite
    <3> QED
      BY <3>1
  <2> QED
    BY <1>1, <2>1, <2>2, <2>3, <2>4, <2>5, <2>6, <2>7,
       <2>8, <2>9, <2>10, <2>11, <2>12, <2>13, <2>14 DEF Proceed, Call
<1>2. CASE UNCHANGED vars
  BY <1>2 DEF vars, Owns, HoldsWrite
<1> QED
  BY <1>1, <1>2 DEF Next, Finished

\* Each step keeps true, until the store, what WriteUnlock has checked.
LEMMA UnlockStep ==
    ASSUME LockInv, [Next]_vars
    PROVE  UnlockInv'
<1> USE DEF Advance, UnlockInv
<1>0. TypeOK /\ UnlockInv
  BY DEF LockInv
<1> USE <1>0 DEF TypeOK
<1>1. ASSUME NEW t \in Threads, Proceed(t) \/ Call(t) \/ Timeout(t) PROVE UnlockInv'
  <2>1. CASE WriteLockOwner(t)
    <3>1. \A u \in Threads : pc[u] \notin {"unlockCount", "unlockStore"}
      <4>1. flag.w = t /\ pc[t] \notin {"unlockCount", "unlockStore"}
        BY <2>1 DEF WriteLockOwner, OwnerIs, OwnerInv, Owns, LockInv
      <4> QED
        BY <4>1 DEF OwnerInv, Owns, LockInv
    <3>2. \A u \in Threads : pc'[u] \notin {"unlockCount", "unlockStore"}
      BY <2>1, <3>1 DEF WriteLockOwner
    <3> QED
      BY <3>2
  <2>2. CASE WriteLockSpin(t)
    <3>1. /\ \A u \in Threads : pc'[u] \in {"unlockCount", "unlockStore"} => u # t /\ pc'[u] = pc[u]
          /\ held' = held /\ flag' = flag /\ writeCount' = writeCount /\ crashed' = crashed
      BY <2>2 DEF WriteLockSpin
    <3> QED
      BY <3>1 DEF Innermost
  <2>3. CASE WriteCas(t)
    <3>1. \A u \in Threads : pc[u] \notin {"unlockCount", "unlockStore"}
      <4>1. flag.w = 0
        BY <2>3 DEF WriteCas, FreeForWriter, Empty, AsLoaded
      <4> QED
        BY <4>1, ThreadsAssumption DEF OwnerInv, Owns, LockInv
    <3>2. \A u \in Threads : pc'[u] \notin {"unlockCount", "unlockStore"}
      BY <2>3, <3>1 DEF WriteCas
    <3> QED
      BY <3>2
  <2>4. CASE CountWrite(t)
    <3>1. \A u \in Threads : pc[u] \notin {"unlockCount", "unlockStore"}
      <4>1. flag.w = t /\ pc[t] \notin {"unlockCount", "unlockStore"}
        BY <2>4 DEF CountWrite, OwnerIs, OwnerInv, Owns, LockInv
      <4> QED
        BY <4>1 DEF OwnerInv, Owns, LockInv
    <3>2. \A u \in Threads : pc'[u] \notin {"unlockCount", "unlockStore"}
      BY <2>4, <3>1 DEF CountWrite
    <3> QED
      BY <3>2
  <2>5. CASE WriteUnlock(t)
    <3>1. flag.w = t
      BY <2>5, InnermostCounts DEF WriteUnlock
    <3>2. \A u \in Threads \ {t} : pc'[u] \notin {"unlockCount", "unlockStore"}
      BY <2>5, <3>1 DEF WriteUnlock, OwnerInv, Owns, LockInv
    <3>3. pc'[t] = "unlockCount" /\ held' = held /\ flag' = flag /\ (crashed' = "no" => flag.r = 0)
      BY <2>5 DEF WriteUnlock
    <3> QED
      BY <2>5, <3>2, <3>3 DEF WriteUnlock, Innermost
  <2>6. CASE UncountWrite(t)
    <3>1. flag.w = t
      BY <2>6 DEF UncountWrite, OwnerInv, Owns, LockInv
    <3>2. \A u \in Threads \ {t} : pc'[u] \notin {"unlockCount", "unlockStore"}
      BY <2>6, <3>1 DEF UncountWrite, OwnerInv, Owns, LockInv
    <3>3. pc'[t] # "unlockCount" /\ flag' = flag /\ crashed' = crashed
      BY <2>6 DEF UncountWrite
    <3>4. pc'[t] = "unlockStore" => writeCount' = 0
      BY <2>6 DEF UncountWrite, Uncounted
    <3> QED
      BY <2>6, <3>2, <3>3, <3>4 DEF UncountWrite
  <2>7. CASE StoreEmpty(t)
    <3>1. \A u \in Threads \ {t} : pc[u] \notin {"unlockCount", "unlockStore"}
      BY <2>7 DEF StoreEmpty, OwnerInv, Owns, LockInv
    <3>2. \A u \in Threads : pc'[u] \notin {"unlockCount", "unlockStore"}
      BY <2>7, <3>1 DEF StoreEmpty
    <3> QED
      BY <3>2
  <2>8. CASE ReadLockOwner(t)
    <3>1. \A u \in Threads : pc[u] \notin {"unlockCount", "unlockStore"}
      <4>1. flag.w = t /\ pc[t] \notin {"unlockCount", "unlockStore"}
        BY <2>8 DEF ReadLockOwner, OwnerIs, OwnerInv, Owns, LockInv
      <4> QED
        BY <4>1 DEF OwnerInv, Owns, LockInv
    <3>2. \A u \in Threads : pc'[u] \notin {"unlockCount", "unlockStore"}
      BY <2>8, <3>1 DEF ReadLockOwner
    <3> QED
      BY <3>2
  <2>9. CASE ReadLockSpin(t)
    <3>1. /\ \A u \in Threads : pc'[u] \in {"unlockCount", "unlockStore"} => u # t /\ pc'[u] = pc[u]
          /\ held' = held /\ flag' = flag /\ writeCount' = writeCount /\ crashed' = crashed
      BY <2>9 DEF ReadLockSpin
    <3> QED
      BY <3>1 DEF Innermost
  <2>10. CASE ReadLoad(t)
    <3>1. /\ \A u \in Threads : pc'[u] \in {"unlockCount", "unlockStore"} => u # t /\ pc'[u] = pc[u]
          /\ held' = held /\ flag' = flag /\ writeCount' = writeCount /\ crashed' = crashed
      BY <2>10 DEF ReadLoad
    <3> QED
      BY <3>1 DEF Innermost
  <2>11. CASE ReadCas(t)
    <3>1. \A u \in Threads : pc[u] \notin {"unlockCount", "unlockStore"}
      <4>1. flag.w = 0
        BY <2>11 DEF ReadCas, FreeForWriter, Empty, AsLoaded
      <4> QED
        BY <4>1, ThreadsAssumption DEF OwnerInv, Owns, LockInv
    <3>2. \A u \in Threads : pc'[u] \notin {"unlockCount", "unlockStore"}
      BY <2>11, <3>1 DEF ReadCas
    <3> QED
      BY <3>2
  <2>12. CASE ReadCasFails(t)
    <3>1. /\ \A u \in Threads : pc'[u] \in {"unlockCount", "unlockStore"} => u # t /\ pc'[u] = pc[u]
          /\ held' = held /\ flag' = flag /\ writeCount' = writeCount /\ crashed' = crashed
      BY <2>12 DEF ReadCasFails
    <3> QED
      BY <3>1 DEF Innermost
  <2>13. CASE ReadUnlock(t)
    <3>1. \A u \in Threads \ {t} : pc[u] \notin {"unlockCount", "unlockStore"}
      BY <2>13, ThreadsAssumption DEF ReadUnlock, OwnerInv, Owns, LockInv
    <3>2. \A u \in Threads : pc'[u] \notin {"unlockCount", "unlockStore"}
      BY <2>13, <3>1 DEF ReadUnlock
    <3> QED
      BY <3>2
  <2>14. CASE Timeout(t)
    <3>1. pc' = pc /\ held' = held /\ flag' = flag /\ writeCount' = writeCount /\ crashed' # "no"
      BY <2>14 DEF Timeout
    <3> QED
      BY <3>1 DEF Innermost
  <2> QED
    BY <1>1, <2>1, <2>2, <2>3, <2>4, <2>5, <2>6, <2>7,
       <2>8, <2>9, <2>10, <2>11, <2>12, <2>13, <2>14 DEF Proceed, Call
<1>2. CASE UNCHANGED vars
  BY <1>2 DEF vars, Innermost
<1> QED
  BY <1>1, <1>2 DEF Next, Finished

\* Each step leaves no write guard inside a read guard.
LEMMA NestStep ==
    ASSUME ~WriteUnderRead, LockInv, NestInv, [Next]_vars
    PROVE  NestInv'
<1> USE DEF Advance, NestInv
<1>0. TypeOK /\ NestInv
  BY DEF LockInv
<1> USE <1>0 DEF TypeOK
<1>same. ASSUME NEW u \in Threads, held'[u] = held[u] PROVE HoldsRead(u)' <=> HoldsRead(u)
  BY <1>same DEF HoldsRead
<1>1. ASSUME NEW t \in Threads, Proceed(t) \/ Call(t) \/ Timeout(t) PROVE NestInv'
  <2>1. CASE WriteLockOwner(t)
    <3>1. /\ Len(held'[t]) = Len(held[t]) + 1 /\ held'[t][Len(held[t]) + 1] = "W"
          /\ \A i \in 1..Len(held[t]) : held'[t][i] = held[t][i]
          /\ \A u \in Threads \ {t} : held'[u] = held[u]
      BY <2>1, AfterTook DEF WriteLockOwner, Takes, Kinds, LockInv, DepthInv
    <3>2. held[t] \in Seq(Kinds) /\ Len(held[t]) \in Nat
      BY DEF LockInv, DepthInv, Stacks
    <3>3. ASSUME NEW i \in 1..Len(held'[t]), NEW j \in 1..Len(held'[t]), i < j, held'[t][j] = "W"
          PROVE  held'[t][i] = "W"
      <4>1. i \in 1..Len(held[t]) /\ held'[t][i] = held[t][i]
        BY <3>1, <3>2, <3>3
      <4>2. CASE j \in 1..Len(held[t])
        <5>1. held[t][j] = "W"
          BY <3>1, <3>3, <4>2
        <5>2. held[t][i] = "W"
          BY <3>3, <4>1, <4>2, <5>1 DEF Nested
        <5> QED
          BY <4>1, <5>2
      <4>3. CASE j \notin 1..Len(held[t])
        <5>1. ~HoldsRead(t) /\ held[t][i] \in Kinds
          BY <2>1, <4>1, <3>2 DEF WriteLockOwner
        <5> QED
          BY <4>1, <5>1 DEF HoldsRead, Kinds
      <4> QED
        BY <4>2, <4>3
    <3>4. pc'[t] = "run" /\ \A u \in Threads \ {t} : pc'[u] = pc[u]
      BY <2>1 DEF WriteLockOwner
    <3>5. Nested(held'[t])
      BY <3>3 DEF Nested
    <3> QED
      BY <3>1, <3>4, <3>5, <1>same
  <2>2. CASE WriteLockSpin(t)
    <3>1. held' = held /\ ~HoldsRead(t) /\ \A u \in Threads \ {t} : pc'[u] = pc[u]
      BY <2>2 DEF WriteLockSpin
    <3> QED
      BY <3>1, <1>same
  <2>3. CASE WriteCas(t)
    <3>1. held' = held /\ \A u \in Threads : pc'[u] \in {"writeSpin", "writeCount"} =>
            pc[u] \in {"writeSpin", "writeCount"}
      BY <2>3 DEF WriteCas
    <3> QED
      BY <3>1, <1>same
  <2>4. CASE CountWrite(t)
    <3>1. /\ Len(held'[t]) = Len(held[t]) + 1 /\ held'[t][Len(held[t]) + 1] = "W"
          /\ \A i \in 1..Len(held[t]) : held'[t][i] = held[t][i]
          /\ \A u \in Threads \ {t} : held'[u] = held[u]
      BY <2>4, AfterTook DEF CountWrite, Takes, Kinds, LockInv, DepthInv
    <3>2. held[t] \in Seq(Kinds) /\ Len(held[t]) \in Nat
      BY DEF LockInv, DepthInv, Stacks
    <3>3. ASSUME NEW i \in 1..Len(held'[t]), NEW j \in 1..Len(held'[t]), i < j, held'[t][j] = "W"
          PROVE  held'[t][i] = "W"
      <4>1. i \in 1..Len(held[t]) /\ held'[t][i] = held[t][i]
        BY <3>1, <3>2, <3>3
      <4>2. CASE j \in 1..Len(held[t])
        <5>1. held[t][j] = "W"
          BY <3>1, <3>3, <4>2
        <5>2. held[t][i] = "W"
          BY <3>3, <4>1, <4>2, <5>1 DEF Nested
        <5> QED
          BY <4>1, <5>2
      <4>3. CASE j \notin 1..Len(held[t])
        <5>1. ~HoldsRead(t) /\ held[t][i] \in Kinds
          BY <2>4, <4>1, <3>2 DEF CountWrite
        <5> QED
          BY <4>1, <5>1 DEF HoldsRead, Kinds
      <4> QED
        BY <4>2, <4>3
    <3>4. pc'[t] = "run" /\ \A u \in Threads \ {t} : pc'[u] = pc[u]
      BY <2>4 DEF CountWrite
    <3>5. Nested(held'[t])
      BY <3>3 DEF Nested
    <3> QED
      BY <3>1, <3>4, <3>5, <1>same
  <2>5. CASE WriteUnlock(t)
    <3>1. held' = held /\ \A u \in Threads : pc'[u] \in {"writeSpin", "writeCount"} =>
            pc[u] \in {"writeSpin", "writeCount"}
      BY <2>5 DEF WriteUnlock
    <3> QED
      BY <3>1, <1>same
  <2>6. CASE UncountWrite(t)
    <3>1. /\ Len(held'[t]) = Len(held[t]) - 1
          /\ \A i \in 1..(Len(held[t]) - 1) : held'[t][i] = held[t][i]
          /\ \A u \in Threads \ {t} : held'[u] = held[u]
      BY <2>6, AfterGaveBack DEF UncountWrite, UnlockInv, LockInv
    <3>2. Len(held[t]) \in Nat
      BY DEF LockInv, DepthInv, Stacks
    <3>3. ASSUME NEW i \in 1..Len(held'[t]), NEW j \in 1..Len(held'[t]), i < j, held'[t][j] = "W"
          PROVE  held'[t][i] = "W"
      <4>1. /\ i \in 1..(Len(held[t]) - 1) /\ j \in 1..(Len(held[t]) - 1)
            /\ i \in 1..Len(held[t]) /\ j \in 1..Len(held[t])
        BY <3>1, <3>2
      <4>2. held[t][j] = "W"
        BY <3>1, <3>3, <4>1
      <4>3. held[t][i] = "W"
        BY <3>3, <4>1, <4>2 DEF Nested
      <4> QED
        BY <3>1, <4>1, <4>3
    <3>4. pc'[t] \notin {"writeSpin", "writeCount"} /\ \A u \in Threads \ {t} : pc'[u] = pc[u]
      BY <2>6 DEF UncountWrite
    <3>5. Nested(held'[t])
      BY <3>3 DEF Nested
    <3> QED
      BY <3>1, <3>4, <3>5, <1>same
  <2>7. CASE StoreEmpty(t)
    <3>1. held' = held /\ \A u \in Threads : pc'[u] \in {"writeSpin", "writeCount"} =>
            pc[u] \in {"writeSpin", "writeCount"}
      BY <2>7 DEF StoreEmpty
    <3> QED
      BY <3>1, <1>same
  <2>8. CASE ReadLockOwner(t)
    <3>1. /\ Len(held'[t]) = Len(held[t]) + 1 /\ held'[t][Len(held[t]) + 1] = "R"
          /\ \A i \in 1..Len(held[t]) : held'[t][i] = held[t][i]
          /\ \A u \in Threads \ {t} : held'[u] = held[u]
      BY <2>8, AfterTook DEF ReadLockOwner, Takes, Kinds, LockInv, DepthInv
    <3>2. held[t] \in Seq(Kinds) /\ Len(held[t]) \in Nat
      BY DEF LockInv, DepthInv, Stacks
    <3>3. ASSUME NEW i \in 1..Len(held'[t]), NEW j \in 1..Len(held'[t]), i < j, held'[t][j] = "W"
          PROVE  held'[t][i] = "W"
      <4>1. i \in 1..Len(held[t]) /\ held'[t][i] = held[t][i]
        BY <3>1, <3>2, <3>3
      <4>2. CASE j \in 1..Len(held[t])
        <5>1. held[t][j] = "W"
          BY <3>1, <3>3, <4>2
        <5>2. held[t][i] = "W"
          BY <3>3, <4>1, <4>2, <5>1 DEF Nested
        <5> QED
          BY <4>1, <5>2
      <4>3. CASE j \notin 1..Len(held[t])
        BY <3>1, <3>2, <3>3, <4>3
      <4> QED
        BY <4>2, <4>3
    <3>4. pc'[t] = "run" /\ \A u \in Threads \ {t} : pc'[u] = pc[u]
      BY <2>8 DEF ReadLockOwner
    <3>5. Nested(held'[t])
      BY <3>3 DEF Nested
    <3> QED
      BY <3>1, <3>4, <3>5, <1>same
  <2>9. CASE ReadLockSpin(t)
    <3>1. held' = held /\ \A u \in Threads : pc'[u] \in {"writeSpin", "writeCount"} =>
            pc[u] \in {"writeSpin", "writeCount"}
      BY <2>9 DEF ReadLockSpin
    <3> QED
      BY <3>1, <1>same
  <2>10. CASE ReadLoad(t)
    <3>1. held' = held /\ \A u \in Threads : pc'[u] \in {"writeSpin", "writeCount"} =>
            pc[u] \in {"writeSpin", "writeCount"}
      BY <2>10 DEF ReadLoad
    <3> QED
      BY <3>1, <1>same
  <2>11. CASE ReadCas(t)
    <3>1. /\ Len(held'[t]) = Len(held[t]) + 1 /\ held'[t][Len(held[t]) + 1] = "R"
          /\ \A i \in 1..Len(held[t]) : held'[t][i] = held[t][i]
          /\ \A u \in Threads \ {t} : held'[u] = held[u]
      BY <2>11, AfterTook DEF ReadCas, Takes, Kinds, LockInv, DepthInv
    <3>2. held[t] \in Seq(Kinds) /\ Len(held[t]) \in Nat
      BY DEF LockInv, DepthInv, Stacks
    <3>3. ASSUME NEW i \in 1..Len(held'[t]), NEW j \in 1..Len(held'[t]), i < j, held'[t][j] = "W"
          PROVE  held'[t][i] = "W"
      <4>1. i \in 1..Len(held[t]) /\ held'[t][i] = held[t][i]
        BY <3>1, <3>2, <3>3
      <4>2. CASE j \in 1..Len(held[t])
        <5>1. held[t][j] = "W"
          BY <3>1, <3>3, <4>2
        <5>2. held[t][i] = "W"
          BY <3>3, <4>1, <4>2, <5>1 DEF Nested
        <5> QED
          BY <4>1, <5>2
      <4>3. CASE j \notin 1..Len(held[t])
        BY <3>1, <3>2, <3>3, <4>3
      <4> QED
        BY <4>2, <4>3
    <3>4. pc'[t] = "run" /\ \A u \in Threads \ {t} : pc'[u] = pc[u]
      BY <2>11 DEF ReadCas
    <3>5. Nested(held'[t])
      BY <3>3 DEF Nested
    <3> QED
      BY <3>1, <3>4, <3>5, <1>same
  <2>12. CASE ReadCasFails(t)
    <3>1. held' = held /\ \A u \in Threads : pc'[u] \in {"writeSpin", "writeCount"} =>
            pc[u] \in {"writeSpin", "writeCount"}
      BY <2>12 DEF ReadCasFails
    <3> QED
      BY <3>1, <1>same
  <2>13. CASE ReadUnlock(t)
    <3>1. /\ Len(held'[t]) = Len(held[t]) - 1
          /\ \A i \in 1..(Len(held[t]) - 1) : held'[t][i] = held[t][i]
          /\ \A u \in Threads \ {t} : held'[u] = held[u]
      BY <2>13, AfterGaveBack DEF ReadUnlock, UnlockInv, LockInv
    <3>2. Len(held[t]) \in Nat
      BY DEF LockInv, DepthInv, Stacks
    <3>3. ASSUME NEW i \in 1..Len(held'[t]), NEW j \in 1..Len(held'[t]), i < j, held'[t][j] = "W"
          PROVE  held'[t][i] = "W"
      <4>1. /\ i \in 1..(Len(held[t]) - 1) /\ j \in 1..(Len(held[t]) - 1)
            /\ i \in 1..Len(held[t]) /\ j \in 1..Len(held[t])
        BY <3>1, <3>2
      <4>2. held[t][j] = "W"
        BY <3>1, <3>3, <4>1
      <4>3. held[t][i] = "W"
        BY <3>3, <4>1, <4>2 DEF Nested
      <4> QED
        BY <3>1, <4>1, <4>3
    <3>4. pc'[t] \notin {"writeSpin", "writeCount"} /\ \A u \in Threads \ {t} : pc'[u] = pc[u]
      BY <2>13 DEF ReadUnlock
    <3>5. Nested(held'[t])
      BY <3>3 DEF Nested
    <3> QED
      BY <3>1, <3>4, <3>5, <1>same
  <2>14. CASE Timeout(t)
    <3>1. held' = held /\ \A u \in Threads : pc'[u] \in {"writeSpin", "writeCount"} =>
            pc[u] \in {"writeSpin", "writeCount"}
      BY <2>14 DEF Timeout
    <3> QED
      BY <3>1, <1>same
  <2> QED
    BY <1>1, <2>1, <2>2, <2>3, <2>4, <2>5, <2>6, <2>7,
       <2>8, <2>9, <2>10, <2>11, <2>12, <2>13, <2>14 DEF Proceed, Call
<1>2. CASE UNCHANGED vars
  BY <1>2, <1>same DEF vars
<1> QED
  BY <1>1, <1>2 DEF Next, Finished

\* No step meets an unlock crash.
LEMMA OrderStep ==
    ASSUME LockInv, NestInv, GuardsUnlockInOrder, [Next]_vars
    PROVE  GuardsUnlockInOrder'
<1> USE DEF Advance, GuardsUnlockInOrder
<1>1. ASSUME NEW t \in Threads, Proceed(t) \/ Call(t) \/ Timeout(t) PROVE GuardsUnlockInOrder'
  <2>1. CASE WriteLockOwner(t)
    BY <2>1 DEF WriteLockOwner
  <2>2. CASE WriteLockSpin(t)
    BY <2>2 DEF WriteLockSpin
  <2>3. CASE WriteCas(t)
    BY <2>3 DEF WriteCas
  <2>4. CASE CountWrite(t)
    BY <2>4 DEF CountWrite
  <2>5. CASE WriteUnlock(t)
    <3>1. flag.w = t /\ held \in Stacks /\ t # 0
      BY <2>5, InnermostCounts, ThreadsAssumption DEF WriteUnlock, LockInv, DepthInv
    <3>2. ASSUME NEW u \in Threads, NEW i \in 1..Len(held[u]) PROVE held[u][i] # "R"
      <4>1. u = t
        BY <3>1 DEF LockInv, OwnerInv
      <4>2. Len(held[t]) \in Nat /\ Len(held[t]) \in 1..Len(held[t]) /\ held[t][Len(held[t])] = "W"
        BY <2>5, <3>1, <4>1 DEF WriteUnlock, Innermost, Stacks
      <4>3. i < Len(held[t]) => held[t][i] = "W"
        BY <4>1, <4>2 DEF NestInv, Nested
      <4> QED
        BY <4>1, <4>2, <4>3
    <3>3. flag.r = 0
      BY <3>1, <3>2, NoGuards DEF LockInv, CountInv
    <3> QED
      BY <2>5, <3>3 DEF WriteUnlock
  <2>6. CASE UncountWrite(t)
    BY <2>6 DEF UncountWrite
  <2>7. CASE StoreEmpty(t)
    BY <2>7 DEF StoreEmpty
  <2>8. CASE ReadLockOwner(t)
    BY <2>8 DEF ReadLockOwner
  <2>9. CASE ReadLockSpin(t)
    BY <2>9 DEF ReadLockSpin
  <2>10. CASE ReadLoad(t)
    BY <2>10 DEF ReadLoad
  <2>11. CASE ReadCas(t)
    BY <2>11 DEF ReadCas
  <2>12. CASE ReadCasFails(t)
    BY <2>12 DEF ReadCasFails
  <2>13. CASE ReadUnlock(t)
    <3>1. flag.r > 0
      BY <2>13, InnermostCounts DEF ReadUnlock
    <3> QED
      BY <2>13, <3>1 DEF ReadUnlock
  <2>14. CASE Timeout(t)
    BY <2>14 DEF Timeout
  <2> QED
    BY <1>1, <2>1, <2>2, <2>3, <2>4, <2>5, <2>6, <2>7,
       <2>8, <2>9, <2>10, <2>11, <2>12, <2>13, <2>14 DEF Proceed, Call
<1>2. CASE UNCHANGED vars
  BY <1>2 DEF vars
<1> QED
  BY <1>1, <1>2 DEF Next, Finished

\* The initial state.
LEMMA Start == Init => LockInv /\ NestInv /\ GuardsUnlockInOrder
<1> SUFFICES ASSUME Init PROVE LockInv /\ NestInv /\ GuardsUnlockInOrder
  OBVIOUS
<1>1. \A t \in Threads : held[t] = <<>> /\ pc[t] = "run"
  BY DEF Init
<1>2. TypeOK
  BY LimitsAssumption DEF Init, TypeOK, Empty
<1>3. DepthInv
  BY <1>1, LimitsAssumption DEF Init, DepthInv, Stacks, Kinds
<1>4. CountInv
  <2>1. \A kind : Cardinality(Guards(held, kind)) = 0
    BY <1>1, <1>3, NoGuards DEF DepthInv
  <2> QED
    BY <2>1 DEF Init, CountInv, Empty
<1>5. OwnerInv
  BY <1>1, ThreadsAssumption DEF Init, OwnerInv, Owns, HoldsWrite, Empty
<1>6. UnlockInv
  BY <1>1 DEF UnlockInv
<1>7. NestInv
  BY <1>1 DEF NestInv, Nested, Init
<1>8. GuardsUnlockInOrder
  BY DEF Init, GuardsUnlockInOrder
<1> QED
  BY <1>2, <1>3, <1>4, <1>5, <1>6, <1>7, <1>8 DEF LockInv

\* Every step keeps the whole invariant.
LEMMA Step == ASSUME LockInv, [Next]_vars PROVE LockInv'
<1>1. TypeOK' /\ DepthInv'
  BY TypeStep, DepthStep
<1>2. CountInv' /\ OwnerInv'
  BY CountStep, OwnerStep
<1>3. UnlockInv'
  BY UnlockStep
<1> QED
  BY <1>1, <1>2, <1>3 DEF LockInv

\* The invariant is one: everything below follows from it.
THEOREM Invariance == Spec => []LockInv
<1>1. Init => LockInv
  BY Start
<1>2. LockInv /\ [Next]_vars => LockInv'
  BY Step
<1> QED
  BY <1>1, <1>2, PTL DEF Spec

-----------------------------------------------------------------------------
(* The theorems.                                                              *)

\* The word's halves and _writeCount (Lock.h) never leave their ranges, whatever
\* the threads do: neither counter wraps.
THEOREM TypeCorrect == Spec => []TypeOK
<1>1. LockInv => TypeOK
  BY DEF LockInv
<1> QED
  BY <1>1, Invariance, PTL

\* WriteLock excludes: nobody holds a guard beside a write guard.
THEOREM Exclusion == Spec => []MutualExclusion
<1>1. LockInv => MutualExclusion
  BY ThreadsAssumption DEF LockInv, OwnerInv, Owns, MutualExclusion
<1> QED
  BY <1>1, Invariance, PTL

\* _writeCount, a plain integer, is used by one thread at a time.
THEOREM CountUnshared == Spec => []WriteCountUnshared
<1>1. LockInv => WriteCountUnshared
  BY DEF LockInv, OwnerInv, Owns, WriteCountUnshared
<1> QED
  BY <1>1, Invariance, PTL

\* When every guard has been given back, WriteUnlock and ReadUnlock have left the
\* word and the counter as the constructor made them.
THEOREM FreeAgain == Spec => []FreeWhenUnused
<1>1. LockInv => FreeWhenUnused
  <2> SUFFICES ASSUME LockInv, \A t \in Threads : held[t] = <<>> /\ (pc[t] = "run" \/ Waiting(t))
               PROVE  flag = Empty /\ writeCount = 0
    BY DEF FreeWhenUnused
  <2>1. \A t \in Threads : ~Owns(t)
    BY DEF Owns, Waiting, HoldsWrite
  <2>2. flag.w = 0 /\ flag = [w |-> flag.w, r |-> flag.r]
    BY <2>1 DEF LockInv, OwnerInv, TypeOK
  <2>3. \A kind : Cardinality(Guards(held, kind)) = 0
    BY NoGuards DEF LockInv, DepthInv
  <2> QED
    BY <2>2, <2>3 DEF LockInv, CountInv, Empty
<1> QED
  BY <1>1, Invariance, PTL

\* The checks of WriteUnlock and ReadUnlock never end the process, if guards are
\* scoped objects and no thread takes a write guard under its read guard.
THEOREM OrderKept == ASSUME ~WriteUnderRead PROVE Spec => []GuardsUnlockInOrder
<1>1. Init => LockInv /\ NestInv /\ GuardsUnlockInOrder
  BY Start
<1>2. LockInv /\ NestInv /\ GuardsUnlockInOrder /\ [Next]_vars
        => (LockInv /\ NestInv /\ GuardsUnlockInOrder)'
  BY Step, NestStep, OrderStep
<1> QED
  BY <1>1, <1>2, PTL DEF Spec

-----------------------------------------------------------------------------
(* The profiler: its inductive invariant.                                     *)

Classes == {Class[l] : l \in Locks}

\* A walk tells whether the pair that was recorded last closes a cycle.
Pending == <<Last(lockStack[walker]), Id(Class[pushing], names)>>
Known == IF walker = Nobody THEN lockHistory ELSE lockHistory \ {Pending}

NamesOK ==
    /\ names \in Seq(Classes)
    /\ \A i, j \in Ids : names[i] = names[j] => i = j
    /\ lockHistory \subseteq Ids \X Ids
    /\ \A i \in Ids : <<i, i>> \notin lockHistory

StacksOK ==
    /\ lockStack \in [Workers -> Seq(Ids)]
    /\ guards \in [Workers -> Seq(Locks)]
    /\ asked \in [Workers -> Locks \cup {Nobody}]

WalkerOK ==
    /\ ended \in {"no", "cycle", "timeout"}
    /\ walker \in Workers \cup {Nobody}
    /\ walker # Nobody =>
          /\ pushing \in Locks /\ asked[walker] = Nobody /\ lockStack[walker] # <<>>
          /\ Pending \in lockHistory
          /\ \E i \in Ids : names[i] = Class[pushing]

\* The stack of a thread has the classes of its guards, and of what it waits
\* for; whenever the class changes on it, the pair is known.
StackOK(t) ==
    LET stack == lockStack[t]
        depth == Len(guards[t]) IN
    /\ Len(stack) = IF asked[t] = Nobody THEN depth ELSE depth + 1
    /\ \A p \in 1..depth : names[stack[p]] = Class[guards[t][p]]
    /\ asked[t] # Nobody => names[stack[depth + 1]] = Class[asked[t]]
    /\ \A p, q \in 1..Len(stack) : p < q /\ stack[p] # stack[q] =>
          \E m \in p..(q - 1) : /\ stack[m] = stack[p] /\ stack[m + 1] # stack[p]
                                /\ <<stack[m], stack[m + 1]>> \in Known

CyclicIn(E) == \E S \in SUBSET Ids : S # {} /\ \A i \in S : \E j \in S : <<i, j>> \in E

RecordOK ==
    /\ ~CyclicIn(Known)
    /\ ended = "cycle" => Cyclic

RecordInv ==
    /\ NamesOK /\ StacksOK /\ WalkerOK /\ RecordOK
    /\ \A t \in Workers : StackOK(t)

\* The walk.
WalkTypes ==
    /\ order \in [Ids -> Nat] /\ parent \in [Ids -> Nat] /\ left \in [Ids -> SUBSET Ids]
    /\ count \in Nat /\ finished \subseteq Ids /\ calls \in Seq(Ids)
    /\ now \in Nat /\ until \in Nat

Active(i) == \E k \in 1..Len(calls) : calls[k] = i

\* What was discovered is finished or is a call that has not returned.
DiscoveredOK ==
    \A i \in Ids :
        /\ order[i] <= count
        /\ order[i] # 0 <=> i \in finished \/ Active(i)
        /\ ~(i \in finished /\ Active(i))

\* Each call was made by the one before it, over an edge.
CallsOK ==
    /\ \A k, m \in 1..Len(calls) : k < m => order[calls[k]] < order[calls[m]]
    /\ \A k \in 1..(Len(calls) - 1) :
          parent[calls[k + 1]] = calls[k] /\ <<calls[k], calls[k + 1]>> \in lockHistory

\* What a call has looked at is finished, but for the call it is waiting for.
LookedAt ==
    /\ \A k \in 1..Len(calls), j \in Ids :
          <<calls[k], j>> \in lockHistory /\ j \notin left[calls[k]] =>
              j \in finished \/ (k < Len(calls) /\ j = calls[k + 1])
    /\ \A i \in Ids : \A j \in left[i] : <<i, j>> \in lockHistory
    /\ \A i \in finished, j \in Ids : <<i, j>> \in lockHistory => j \in finished

NoCycleIn(F) == \A S \in SUBSET F : S # {} => \E i \in S : \A j \in S : <<i, j>> \notin lockHistory

\* The printing loop is at a call above the one where it will stop.
UpOK ==
    ended = "no" /\ now # 0 =>
        \E k, m \in 1..Len(calls) :
            /\ m < k /\ calls[k] = now /\ calls[m] = until
            /\ <<calls[Len(calls)], until>> \in lockHistory

WalkInv ==
    IF walker = Nobody THEN calls = <<>> /\ now = 0 /\ until \in Nat
    ELSE /\ WalkTypes /\ DiscoveredOK /\ CallsOK /\ LookedAt
         /\ NoCycleIn(finished) /\ UpOK

-----------------------------------------------------------------------------
(* The profiler: sequences, names and steps.                                  *)

LEMMA AppendFacts ==
  ASSUME NEW S, NEW q \in Seq(S), NEW e \in S
  PROVE  /\ Append(q, e) \in Seq(S) /\ Len(q) \in Nat /\ Len(Append(q, e)) = Len(q) + 1
         /\ Append(q, e)[Len(q) + 1] = e
         /\ \A i \in 1..Len(q) : Append(q, e)[i] = q[i]
  OBVIOUS

LEMMA FrontFacts ==
  ASSUME NEW S, NEW q \in Seq(S), q # <<>>
  PROVE  /\ Front(q) \in Seq(S) /\ Len(q) \in Nat \ {0} /\ Len(Front(q)) = Len(q) - 1
         /\ \A i \in 1..(Len(q) - 1) : Front(q)[i] = q[i]
         /\ Last(q) = q[Len(q)] /\ Last(q) \in S
<1>1. Len(q) \in Nat \ {0} /\ Last(q) = q[Len(q)]
  BY DEF Last
<1>2. Last(q) \in S
  BY <1>1
<1>3. Front(q) = [i \in 1..(Len(q) - 1) |-> q[i]]
  BY <1>1 DEF Front
<1>4. \A i \in 1..(Len(q) - 1) : q[i] \in S
  BY <1>1
<1>5. Front(q) \in Seq(S) /\ Len(Front(q)) = Len(q) - 1
  BY <1>1, <1>3, <1>4
<1> QED
  BY <1>1, <1>2, <1>3, <1>5

LEMMA SeqOver ==
  ASSUME NEW S, NEW T, NEW q \in Seq(S), \A i \in 1..Len(q) : q[i] \in T
  PROVE  q \in Seq(T)
  OBVIOUS

\* A class's id is its place among the names.
LEMMA IdIs ==
  ASSUME NEW among, NEW class, NEW i \in 1..Len(among), among[i] = class,
         \A j, k \in 1..Len(among) : among[j] = among[k] => j = k
  PROVE  Id(class, among) = i
  BY DEF Id

\* A new name gets the next id, and the others keep theirs.
LEMMA NamedFacts ==
  ASSUME NamesOK, NEW l \in Locks, NEW known, known = Named(Class[l])
  PROVE  /\ known \in Seq(Classes) /\ Len(known) \in Nat /\ Len(names) \in Nat /\ Len(names) <= Len(known)
         /\ \A i \in Ids : i \in 1..Len(known) /\ known[i] = names[i]
         /\ \A i, j \in 1..Len(known) : known[i] = known[j] => i = j
         /\ Id(Class[l], known) \in 1..Len(known) /\ known[Id(Class[l], known)] = Class[l]
<1>1. names \in Seq(Classes) /\ Len(names) \in Nat /\ Class[l] \in Classes
  BY DEF NamesOK, Classes
<1>2. CASE Contains(names, Class[l])
  <2>1. known = names /\ \E i \in 1..Len(names) : names[i] = Class[l]
    BY <1>2 DEF Named, Contains
  <2>2. \A i, j \in 1..Len(known) : known[i] = known[j] => i = j
    BY <2>1 DEF NamesOK, Ids
  <2>3. \E i \in 1..Len(names) : names[i] = Class[l] /\ Id(Class[l], known) = i
    BY <2>1, <2>2, IdIs
  <2> QED
    BY <1>1, <2>1, <2>2, <2>3 DEF Ids
<1>3. CASE ~Contains(names, Class[l])
  <2>1. known = Append(names, Class[l]) /\ \A i \in 1..Len(names) : names[i] # Class[l]
    BY <1>3 DEF Named, Contains
  <2>2. /\ known \in Seq(Classes) /\ Len(known) = Len(names) + 1
        /\ known[Len(names) + 1] = Class[l]
        /\ \A i \in 1..Len(names) : known[i] = names[i]
    BY <1>1, <2>1, AppendFacts
  <2>3. ASSUME NEW i \in 1..Len(known), NEW j \in 1..Len(known), known[i] = known[j] PROVE i = j
    <3>1. i = Len(names) + 1 \/ i \in 1..Len(names)
      BY <1>1, <2>2
    <3>2. j = Len(names) + 1 \/ j \in 1..Len(names)
      BY <1>1, <2>2
    <3>3. i \in 1..Len(names) /\ j \in 1..Len(names) => i = j
      BY <2>2, <2>3 DEF NamesOK, Ids
    <3> QED
      BY <2>1, <2>2, <2>3, <3>1, <3>2, <3>3
  <2>4. Len(names) + 1 \in 1..Len(known)
    BY <1>1, <2>2
  <2>5. Id(Class[l], known) = Len(names) + 1
    BY <2>2, <2>3, <2>4, IdIs
  <2> QED
    BY <1>1, <2>2, <2>3, <2>4, <2>5 DEF Ids
<1> QED
  BY <1>2, <1>3

\* PushLock goes on at once, or is about to walk.
PushesAt(t, l, known, id) ==
    /\ ended = "no" /\ walker = Nobody /\ asked[t] = Nobody
    /\ known = Named(Class[l]) /\ id = Id(Class[l], known) /\ names' = known
    /\ UNCHANGED <<guards, ended>>

PushesDirectly(t, l, known, id) ==
    /\ PushesAt(t, l, known, id)
    /\ lockStack[t] # <<>> /\ Last(lockStack[t]) # id => <<Last(lockStack[t]), id>> \in lockHistory
    /\ Announced(t, l, id)
    /\ UNCHANGED <<lockHistory, walker, pushing, walkVars>>

PushesAndWalks(t, l, known, id) ==
    /\ PushesAt(t, l, known, id)
    /\ lockStack[t] # <<>> /\ Last(lockStack[t]) # id /\ <<Last(lockStack[t]), id>> \notin lockHistory
    /\ lockHistory' = lockHistory \cup {<<Last(lockStack[t]), id>>}
    /\ walker' = t /\ pushing' = l
    /\ order' = [i \in 1..Len(known) |-> 0] /\ count' = 0
    /\ finished' = {} /\ parent' = [i \in 1..Len(known) |-> 0]
    /\ left' = [i \in 1..Len(known) |-> {}]
    /\ UNCHANGED <<lockStack, asked, calls, now, until>>

LEMMA PushCases ==
  ASSUME NEW t \in Workers, NEW l \in Locks, PushLock(t, l)
  PROVE  \E known, id : PushesDirectly(t, l, known, id) \/ PushesAndWalks(t, l, known, id)
<1> DEFINE known == Named(Class[l])
           id == Id(Class[l], known)
           edges == IF lockStack[t] # <<>> /\ Last(lockStack[t]) # id
                    THEN Recorded(Last(lockStack[t]), id) ELSE lockHistory
<1>1. /\ PushesAt(t, l, known, id) /\ lockHistory' = edges
      /\ IF edges = lockHistory
         THEN Announced(t, l, id) /\ UNCHANGED <<walker, pushing, walkVars>>
         ELSE /\ walker' = t /\ pushing' = l
              /\ order' = [i \in 1..Len(known) |-> 0] /\ count' = 0
              /\ finished' = {} /\ parent' = [i \in 1..Len(known) |-> 0]
              /\ left' = [i \in 1..Len(known) |-> {}]
              /\ UNCHANGED <<lockStack, asked, calls, now, until>>
  BY DEF PushLock, PushesAt
<1>2. CASE edges = lockHistory
  <2>1. lockStack[t] # <<>> /\ Last(lockStack[t]) # id => <<Last(lockStack[t]), id>> \in lockHistory
    BY <1>2 DEF Recorded
  <2>2. PushesDirectly(t, l, known, id)
    BY <1>1, <1>2, <2>1 DEF PushesDirectly
  <2> QED
    BY <2>2
<1>3. CASE edges # lockHistory
  <2>1. /\ lockStack[t] # <<>> /\ Last(lockStack[t]) # id
        /\ edges = lockHistory \cup {<<Last(lockStack[t]), id>>}
    BY <1>3 DEF Recorded
  <2>2. <<Last(lockStack[t]), id>> \notin lockHistory
    BY <1>3, <2>1
  <2>3. PushesAndWalks(t, l, known, id)
    BY <1>1, <1>3, <2>1, <2>2 DEF PushesAndWalks
  <2> QED
    BY <2>3
<1> QED
  BY <1>2, <1>3

\* Every step is one of these.
LEMMA ProfilerCases ==
  ASSUME [ProfilerNext]_profilerVars
  PROVE  \/ \E t \in Workers, l \in Locks : PushLock(t, l)
         \/ \E t \in Workers : WriteLock(t) \/ GiveUp(t) \/ PopLock(t)
         \/ GoUp \/ WalkEnd
         \/ \E here \in Ids : DfsRoot(here) \/ DfsReturn(here)
         \/ \E here, there \in Ids : DfsDown(here, there) \/ DfsPast(here, there) \/ DfsBack(here, there)
         \/ UNCHANGED profilerVars
  BY DEF ProfilerNext, Walk, ProcessEnded
-----------------------------------------------------------------------------
(* The profiler: stacks and record.                                           *)

LEMMA StackKeeps ==
  ASSUME NamesOK, StacksOK, NEW t \in Workers, StackOK(t), UNCHANGED <<lockStack[t], guards[t], asked[t]>>,
         \A i \in Ids : names'[i] = names[i], Known \subseteq Known'
  PROVE  StackOK(t)'
<1>1. lockStack[t] \in Seq(Ids) /\ guards[t] \in Seq(Locks)
  BY DEF StacksOK
<1>2. \A p \in 1..Len(lockStack[t]) : lockStack[t][p] \in Ids
  BY <1>1
<1>3. Len(guards[t]) \in Nat /\ Len(lockStack[t]) \in Nat
  BY <1>1
<1>4. /\ Len(lockStack[t]) = IF asked[t] = Nobody THEN Len(guards[t]) ELSE Len(guards[t]) + 1
      /\ \A p \in 1..Len(guards[t]) : names[lockStack[t][p]] = Class[guards[t][p]]
      /\ asked[t] # Nobody => names[lockStack[t][Len(guards[t]) + 1]] = Class[asked[t]]
      /\ \A p, q \in 1..Len(lockStack[t]) : p < q /\ lockStack[t][p] # lockStack[t][q] =>
            \E m \in p..(q - 1) : /\ lockStack[t][m] = lockStack[t][p] /\ lockStack[t][m + 1] # lockStack[t][p]
                                  /\ <<lockStack[t][m], lockStack[t][m + 1]>> \in Known
  BY DEF StackOK
<1>5. \A p \in 1..Len(guards[t]) : names'[lockStack[t][p]] = Class[guards[t][p]]
  BY <1>2, <1>3, <1>4
<1>6. asked[t] # Nobody => names'[lockStack[t][Len(guards[t]) + 1]] = Class[asked[t]]
  BY <1>2, <1>3, <1>4
<1>7. ASSUME NEW p \in 1..Len(lockStack[t]), NEW q \in 1..Len(lockStack[t]), p < q, lockStack[t][p] # lockStack[t][q]
      PROVE  \E m \in p..(q - 1) : /\ lockStack[t][m] = lockStack[t][p] /\ lockStack[t][m + 1] # lockStack[t][p]
                                   /\ <<lockStack[t][m], lockStack[t][m + 1]>> \in Known'
  BY <1>4, <1>7
<1>8. lockStack'[t] = lockStack[t] /\ guards'[t] = guards[t] /\ asked'[t] = asked[t]
  OBVIOUS
<1>9. /\ Len(lockStack'[t]) = IF asked'[t] = Nobody THEN Len(guards'[t]) ELSE Len(guards'[t]) + 1
      /\ \A p \in 1..Len(guards'[t]) : names'[lockStack'[t][p]] = Class[guards'[t][p]]
      /\ asked'[t] # Nobody => names'[lockStack'[t][Len(guards'[t]) + 1]] = Class[asked'[t]]
  BY <1>4, <1>5, <1>6, <1>8
<1> DEFINE Ordered(s) == \A p, q \in 1..Len(s) : p < q /\ s[p] # s[q] =>
             \E m \in p..(q - 1) : s[m] = s[p] /\ s[m + 1] # s[p] /\ <<s[m], s[m + 1]>> \in Known'
<1>10. Ordered(lockStack[t])
  BY <1>7
<1>11. Ordered(lockStack'[t])
  <2> HIDE DEF Ordered
  <2> QED
    BY <1>8, <1>10
<1> QED
  BY <1>9, <1>11 DEF StackOK

\* What is announced comes on top, over a known pair.
LEMMA AnnouncedKeeps ==
  ASSUME NamesOK, StacksOK, NEW t \in Workers, StackOK(t), NEW l \in Locks, NEW id \in Ids',
         asked[t] = Nobody, Announced(t, l, id), guards' = guards,
         \A i \in Ids : i \in Ids' /\ names'[i] = names[i], names'[id] = Class[l], Known \subseteq Known',
         lockStack[t] # <<>> /\ Last(lockStack[t]) # id => <<Last(lockStack[t]), id>> \in Known'
  PROVE  StackOK(t)' /\ StacksOK'
<1> DEFINE stack == lockStack[t]
           depth == Len(guards[t])
<1>1. stack \in Seq(Ids) /\ guards[t] \in Seq(Locks) /\ depth \in Nat /\ Len(stack) = depth /\ l # Nobody
  BY NobodyAssumption DEF StacksOK, StackOK
<1>2. stack \in Seq(Ids')
  <2>1. \A p \in 1..Len(stack) : stack[p] \in Ids'
    BY <1>1
  <2> QED
    BY <1>1, <2>1, SeqOver
<1>3. lockStack'[t] = Append(stack, id) /\ asked'[t] = l
  BY DEF Announced, StacksOK
<1>4. /\ Append(stack, id) \in Seq(Ids') /\ Len(Append(stack, id)) = depth + 1
      /\ Append(stack, id)[depth + 1] = id
      /\ \A p \in 1..depth : Append(stack, id)[p] = stack[p]
  BY <1>1, <1>2, AppendFacts
<1>5. StacksOK'
  <2>1. ASSUME NEW u \in Workers PROVE lockStack'[u] \in Seq(Ids')
    <3>1. CASE u = t
      BY <1>3, <1>4, <3>1
    <3>2. CASE u # t
      <4>1. lockStack'[u] = lockStack[u] /\ lockStack[u] \in Seq(Ids)
        BY <3>2 DEF Announced, StacksOK
      <4>2. \A p \in 1..Len(lockStack[u]) : lockStack[u][p] \in Ids'
        BY <4>1
      <4> QED
        BY <4>1, <4>2, SeqOver
    <3> QED
      BY <3>1, <3>2
  <2>2. lockStack' \in [Workers -> Seq(Ids')]
    BY <2>1 DEF Announced, StacksOK
  <2>3. asked' \in [Workers -> Locks \cup {Nobody}]
    BY DEF Announced, StacksOK
  <2> QED
    BY <2>2, <2>3 DEF StacksOK
<1>6. \A p \in 1..depth : stack[p] \in Ids /\ names[stack[p]] = Class[guards[t][p]]
  BY <1>1 DEF StackOK
<1>7. \A p \in 1..depth : names'[lockStack'[t][p]] = Class[guards'[t][p]]
  BY <1>3, <1>4, <1>6
<1>8. ASSUME NEW p \in 1..(depth + 1), NEW q \in 1..(depth + 1), p < q, lockStack'[t][p] # lockStack'[t][q]
      PROVE  \E m \in p..(q - 1) : /\ lockStack'[t][m] = lockStack'[t][p] /\ lockStack'[t][m + 1] # lockStack'[t][p]
                                   /\ <<lockStack'[t][m], lockStack'[t][m + 1]>> \in Known'
  <2>1. p \in 1..depth /\ lockStack'[t][p] = stack[p]
    BY <1>1, <1>3, <1>4, <1>8
  <2>2. ASSUME NEW r \in 1..depth, p < r, stack[p] # stack[r], r <= q
        PROVE  \E m \in p..(q - 1) : /\ lockStack'[t][m] = lockStack'[t][p] /\ lockStack'[t][m + 1] # lockStack'[t][p]
                                     /\ <<lockStack'[t][m], lockStack'[t][m + 1]>> \in Known'
    <3>1. PICK m \in p..(r - 1) : stack[m] = stack[p] /\ stack[m + 1] # stack[p] /\ <<stack[m], stack[m + 1]>> \in Known
      BY <1>1, <2>1, <2>2 DEF StackOK
    <3>2. m \in 1..depth /\ m + 1 \in 1..depth /\ m \in p..(q - 1)
      BY <1>1, <2>1, <2>2
    <3>3. lockStack'[t][m] = stack[m] /\ lockStack'[t][m + 1] = stack[m + 1]
      BY <1>3, <1>4, <3>2
    <3> QED
      BY <2>1, <3>1, <3>2, <3>3
  <2>3. CASE q \in 1..depth
    <3>1. lockStack'[t][q] = stack[q] /\ q <= q
      BY <1>1, <1>3, <1>4, <2>3
    <3>2. stack[p] # stack[q]
      BY <1>8, <2>1, <3>1
    <3> QED
      BY <1>8, <2>2, <2>3, <3>1, <3>2
  <2>4. CASE q = depth + 1 /\ stack[p] # stack[depth]
    <3>1. depth \in 1..depth /\ p < depth /\ depth <= q
      BY <1>1, <2>1, <2>4
    <3> QED
      BY <2>2, <2>4, <3>1
  <2>5. CASE q = depth + 1 /\ stack[p] = stack[depth]
    <3>1. stack # <<>> /\ Last(stack) = stack[depth] /\ depth \in 1..depth
      BY <1>1, <2>1 DEF Last
    <3>2. lockStack'[t][depth] = stack[depth] /\ lockStack'[t][depth + 1] = id
      BY <1>3, <1>4, <3>1
    <3>3. stack[p] # id
      BY <1>8, <2>1, <2>5, <3>2
    <3>4. depth \in p..(q - 1)
      BY <1>1, <2>1, <2>5
    <3> QED
      BY <2>1, <2>5, <3>1, <3>2, <3>3, <3>4
  <2>6. q \in 1..depth \/ q = depth + 1
    BY <1>1
  <2> QED
    BY <2>3, <2>4, <2>5, <2>6
<1>9. Len(lockStack'[t]) = depth + 1 /\ names'[lockStack'[t][depth + 1]] = Class[asked'[t]]
  BY <1>3, <1>4
<1>10. StackOK(t)'
  BY <1>1, <1>3, <1>7, <1>8, <1>9 DEF StackOK
<1> QED
  BY <1>5, <1>10

\* Names that are new have no pairs yet.
LEMMA AcyclicKeeps ==
  ASSUME Known \subseteq Ids \X Ids, ~CyclicIn(Known), Known' = Known
  PROVE  ~CyclicIn(Known)'
<1> SUFFICES ASSUME NEW S \in SUBSET Ids', S # {}, \A i \in S : \E j \in S : <<i, j>> \in Known PROVE FALSE
  BY DEF CyclicIn
<1>1. S \subseteq Ids
  OBVIOUS
<1> QED
  BY <1>1 DEF CyclicIn

LEMMA RecordSame ==
  ASSUME RecordInv, UNCHANGED <<names, lockHistory, lockVars, walker, pushing>>,
         ended' \in {"no", "cycle", "timeout"}, ended' = "cycle" => Cyclic
  PROVE  RecordInv'
<1> USE DEF lockVars
<1>1. Known' = Known /\ Ids' = Ids
  BY DEF Known, Pending, Ids
<1>2. NamesOK' /\ StacksOK' /\ WalkerOK'
  BY DEF RecordInv, NamesOK, StacksOK, WalkerOK, Pending, Ids
<1>3. RecordOK'
  BY <1>1 DEF RecordInv, RecordOK, CyclicIn, Cyclic, Ids
<1>4. ASSUME NEW t \in Workers PROVE StackOK(t)'
  BY <1>1, StackKeeps DEF RecordInv
<1> QED
  BY <1>2, <1>3, <1>4 DEF RecordInv

LEMMA PushDirectKeeps ==
  ASSUME RecordInv, NEW t \in Workers, NEW l \in Locks, NEW known, NEW id, PushesDirectly(t, l, known, id)
  PROVE  RecordInv'
<1> USE DEF PushesDirectly, PushesAt
<1>1. NamesOK /\ StacksOK /\ WalkerOK /\ RecordOK /\ \A u \in Workers : StackOK(u)
  BY DEF RecordInv
<1>2. /\ known \in Seq(Classes) /\ Len(known) \in Nat /\ Len(names) \in Nat /\ Len(names) <= Len(known)
      /\ \A i \in Ids : i \in 1..Len(known) /\ known[i] = names[i]
      /\ \A i, j \in 1..Len(known) : known[i] = known[j] => i = j
      /\ id \in 1..Len(known) /\ known[id] = Class[l]
  BY <1>1, NamedFacts
<1>3. Ids' = 1..Len(known) /\ Ids \subseteq Ids' /\ Known' = lockHistory /\ Known = lockHistory
  BY <1>2 DEF Ids, Known
<1>4. NamesOK'
  <2>1. \A i \in Ids' : <<i, i>> \notin lockHistory
    BY <1>1 DEF NamesOK
  <2> QED
    BY <1>1, <1>2, <1>3, <2>1 DEF NamesOK
<1>5. StackOK(t)' /\ StacksOK'
  BY <1>1, <1>2, <1>3, AnnouncedKeeps
<1>6. ASSUME NEW u \in Workers, u # t PROVE StackOK(u)'
  <2>1. UNCHANGED <<lockStack[u], guards[u], asked[u]>>
    BY <1>1, <1>6 DEF Announced, StacksOK
  <2> QED
    BY <1>1, <1>2, <1>3, <2>1, StackKeeps
<1>7. WalkerOK'
  BY <1>1 DEF WalkerOK
<1>8. RecordOK'
  <2>1. ~CyclicIn(Known)'
    BY <1>1, <1>3, AcyclicKeeps DEF NamesOK, RecordOK
  <2>2. ended' # "cycle"
    OBVIOUS
  <2> QED
    BY <2>1, <2>2 DEF RecordOK
<1> QED
  BY <1>4, <1>5, <1>6, <1>7, <1>8 DEF RecordInv

LEMMA PushWalkKeeps ==
  ASSUME RecordInv, NEW t \in Workers, NEW l \in Locks, NEW known, NEW id, PushesAndWalks(t, l, known, id)
  PROVE  RecordInv'
<1> USE DEF PushesAndWalks, PushesAt
<1> DEFINE top == Last(lockStack[t])
<1>1. NamesOK /\ StacksOK /\ WalkerOK /\ RecordOK /\ \A u \in Workers : StackOK(u)
  BY DEF RecordInv
<1>2. /\ known \in Seq(Classes) /\ Len(known) \in Nat /\ Len(names) \in Nat /\ Len(names) <= Len(known)
      /\ \A i \in Ids : i \in 1..Len(known) /\ known[i] = names[i]
      /\ \A i, j \in 1..Len(known) : known[i] = known[j] => i = j
      /\ id \in 1..Len(known) /\ known[id] = Class[l]
  BY <1>1, NamedFacts
<1>3. Ids' = 1..Len(known) /\ Ids \subseteq Ids' /\ t # Nobody /\ walker = Nobody
  BY <1>2, NobodyAssumption DEF Ids
<1>4. top \in Ids
  <2>1. lockStack[t] \in Seq(Ids)
    BY <1>1 DEF StacksOK
  <2> QED
    BY <2>1, FrontFacts
<1>5. Pending' = <<top, id>> /\ Known' = lockHistory /\ Known = lockHistory
  <2>1. Pending' = <<top, id>>
    BY DEF Pending
  <2>2. Known' = lockHistory' \ {Pending'}
    BY <1>3 DEF Known
  <2> QED
    BY <1>3, <2>1, <2>2 DEF Known
<1>6. NamesOK'
  <2>1. \A i \in Ids' : <<i, i>> \notin lockHistory'
    BY <1>1 DEF NamesOK
  <2>2. lockHistory' \subseteq Ids' \X Ids'
    <3>1. <<top, id>> \in Ids' \X Ids'
      BY <1>2, <1>3, <1>4
    <3>2. lockHistory \subseteq Ids \X Ids /\ Ids \X Ids \subseteq Ids' \X Ids'
      BY <1>1, <1>3 DEF NamesOK
    <3>3. lockHistory' = lockHistory \cup {<<top, id>>}
      OBVIOUS
    <3> HIDE DEF top
    <3> QED
      BY <3>1, <3>2, <3>3
  <2> QED
    BY <1>2, <1>3, <2>1, <2>2 DEF NamesOK
<1>7. StacksOK'
  <2>1. ASSUME NEW u \in Workers PROVE lockStack[u] \in Seq(Ids')
    <3>1. lockStack[u] \in Seq(Ids)
      BY <1>1 DEF StacksOK
    <3>2. \A p \in 1..Len(lockStack[u]) : lockStack[u][p] \in Ids
      BY <3>1
    <3>3. \A p \in 1..Len(lockStack[u]) : lockStack[u][p] \in Ids'
      BY <1>3, <3>2
    <3> QED
      BY <3>1, <3>3, SeqOver
  <2> QED
    BY <1>1, <2>1 DEF StacksOK
<1>8. ASSUME NEW u \in Workers PROVE StackOK(u)'
  BY <1>1, <1>2, <1>5, StackKeeps
<1>9. WalkerOK'
  <2>1. \E i \in Ids' : names'[i] = Class[l]
    BY <1>2, <1>3
  <2>2. Pending' \in lockHistory'
    BY <1>5
  <2> QED
    BY <1>1, <2>1, <2>2 DEF WalkerOK
<1>10. RecordOK'
  <2>1. ~CyclicIn(Known)'
    BY <1>1, <1>3, <1>5, AcyclicKeeps DEF NamesOK, RecordOK
  <2> QED
    BY <2>1 DEF RecordOK
<1> QED
  BY <1>6, <1>7, <1>8, <1>9, <1>10 DEF RecordInv

LEMMA LockKeeps ==
  ASSUME RecordInv, NEW t \in Workers, WriteLock(t) PROVE RecordInv'
<1> DEFINE stack == lockStack[t]
           depth == Len(guards[t])
<1>1. NamesOK /\ StacksOK /\ WalkerOK /\ RecordOK /\ \A u \in Workers : StackOK(u)
  BY DEF RecordInv
<1>2. Known' = Known /\ Ids' = Ids /\ Pending' = Pending
  BY DEF WriteLock, Known, Pending, Ids
<1>3. guards[t] \in Seq(Locks) /\ asked[t] \in Locks /\ depth \in Nat /\ stack \in Seq(Ids)
  BY <1>1 DEF WriteLock, StacksOK
<1>4. /\ guards'[t] = Append(guards[t], asked[t]) /\ asked'[t] = Nobody /\ lockStack' = lockStack /\ names' = names
      /\ guards' \in [Workers -> Seq(Locks)] /\ asked' \in [Workers -> Locks \cup {Nobody}]
  <2>1. Append(guards[t], asked[t]) \in Seq(Locks)
    BY <1>3, AppendFacts
  <2> QED
    BY <1>1, <2>1 DEF WriteLock, StacksOK
<1>5. /\ Len(guards'[t]) = depth + 1 /\ guards'[t][depth + 1] = asked[t]
      /\ \A p \in 1..depth : guards'[t][p] = guards[t][p]
  BY <1>3, <1>4, AppendFacts
<1>6. /\ Len(stack) = depth + 1 /\ names[stack[depth + 1]] = Class[asked[t]]
      /\ \A p \in 1..depth : names[stack[p]] = Class[guards[t][p]]
  BY <1>1 DEF WriteLock, StackOK
<1>7. ASSUME NEW p \in 1..(depth + 1) PROVE names'[lockStack'[t][p]] = Class[guards'[t][p]]
  <2>1. p \in 1..depth \/ p = depth + 1
    BY <1>3
  <2> QED
    BY <1>4, <1>5, <1>6, <2>1
<1>8. \A p, q \in 1..Len(lockStack'[t]) : p < q /\ lockStack'[t][p] # lockStack'[t][q] =>
          \E m \in p..(q - 1) : /\ lockStack'[t][m] = lockStack'[t][p] /\ lockStack'[t][m + 1] # lockStack'[t][p]
                                /\ <<lockStack'[t][m], lockStack'[t][m + 1]>> \in Known'
  BY <1>1, <1>2, <1>4 DEF StackOK
<1>9. StackOK(t)'
  BY <1>4, <1>5, <1>6, <1>7, <1>8 DEF StackOK
<1>10. ASSUME NEW u \in Workers, u # t PROVE StackOK(u)'
  <2>1. UNCHANGED <<lockStack[u], guards[u], asked[u]>>
    BY <1>1, <1>10 DEF WriteLock, StacksOK
  <2> QED
    BY <1>1, <1>2, <1>4, <2>1, StackKeeps
<1>11. NamesOK' /\ StacksOK'
  BY <1>1, <1>2, <1>4 DEF WriteLock, NamesOK, StacksOK
<1>12. WalkerOK'
  <2>1. walker # Nobody => asked'[walker] = Nobody
    BY <1>1 DEF WriteLock, WalkerOK, StacksOK
  <2> QED
    BY <1>1, <1>2, <1>4, <2>1 DEF WriteLock, WalkerOK
<1>13. RecordOK'
  <2>1. ended' # "cycle"
    BY DEF WriteLock
  <2> QED
    BY <1>1, <1>2, <2>1 DEF RecordOK, CyclicIn
<1> QED
  BY <1>9, <1>10, <1>11, <1>12, <1>13 DEF RecordInv

\* The checks of PopLock never fail.
LEMMA PopKeeps ==
  ASSUME RecordInv, NEW t \in Workers, PopLock(t) PROVE RecordInv'
<1> DEFINE stack == lockStack[t]
           depth == Len(guards[t])
<1>1. NamesOK /\ StacksOK /\ WalkerOK /\ RecordOK /\ \A u \in Workers : StackOK(u)
  BY DEF RecordInv
<1>2. Known' = lockHistory /\ Known = lockHistory /\ Ids' = Ids /\ UNCHANGED <<names, lockHistory, walker, asked>> /\ walker = Nobody
  BY DEF PopLock, Known, Ids
<1>3. guards[t] \in Seq(Locks) /\ stack \in Seq(Ids) /\ guards[t] # <<>> /\ asked[t] = Nobody
  BY <1>1 DEF PopLock, StacksOK
<1>4. depth \in Nat \ {0} /\ Len(stack) = depth /\ Last(guards[t]) = guards[t][depth] /\ Last(stack) = stack[depth] /\ stack # <<>>
  BY <1>1, <1>3, FrontFacts DEF StackOK, Last
<1>5. \A p \in 1..depth : stack[p] \in Ids /\ names[stack[p]] = Class[guards[t][p]]
  BY <1>1, <1>3, <1>4 DEF StackOK
<1>6. Id(Class[Last(guards[t])], names) = Last(stack)
  <2>1. stack[depth] \in 1..Len(names) /\ names[stack[depth]] = Class[guards[t][depth]]
    BY <1>4, <1>5 DEF Ids
  <2> QED
    BY <1>1, <1>4, <2>1, IdIs DEF NamesOK, Ids
<1>7. /\ lockStack' = [lockStack EXCEPT ![t] = Front(@)] /\ guards' = [guards EXCEPT ![t] = Front(@)]
      /\ ended' = ended /\ ended = "no"
  BY <1>4, <1>6 DEF PopLock
<1>8. /\ lockStack'[t] = Front(stack) /\ guards'[t] = Front(guards[t])
      /\ \A u \in Workers : u # t => UNCHANGED <<lockStack[u], guards[u], asked[u]>>
  BY <1>1, <1>2, <1>7 DEF StacksOK
<1>9. /\ Front(stack) \in Seq(Ids) /\ Len(Front(stack)) = depth - 1
      /\ \A i \in 1..(depth - 1) : Front(stack)[i] = stack[i]
      /\ Front(guards[t]) \in Seq(Locks) /\ Len(Front(guards[t])) = depth - 1
      /\ \A i \in 1..(depth - 1) : Front(guards[t])[i] = guards[t][i]
  BY <1>3, <1>4, FrontFacts
<1>10. ASSUME NEW p \in 1..(depth - 1), NEW q \in 1..(depth - 1), p < q, lockStack'[t][p] # lockStack'[t][q]
       PROVE  \E m \in p..(q - 1) : /\ lockStack'[t][m] = lockStack'[t][p] /\ lockStack'[t][m + 1] # lockStack'[t][p]
                                    /\ <<lockStack'[t][m], lockStack'[t][m + 1]>> \in Known'
  <2>1. p \in 1..depth /\ q \in 1..depth /\ lockStack'[t][p] = stack[p] /\ lockStack'[t][q] = stack[q]
    BY <1>4, <1>8, <1>9
  <2>2. PICK m \in p..(q - 1) : stack[m] = stack[p] /\ stack[m + 1] # stack[p] /\ <<stack[m], stack[m + 1]>> \in Known
    BY <1>1, <1>4, <1>10, <2>1 DEF StackOK
  <2>3. m \in 1..(depth - 1) /\ m + 1 \in 1..(depth - 1)
    BY <1>4
  <2>4. lockStack'[t][m] = stack[m] /\ lockStack'[t][m + 1] = stack[m + 1]
    BY <1>8, <1>9, <2>3
  <2> QED
    BY <1>2, <2>1, <2>2, <2>4
<1>11. StackOK(t)'
  <2>1. \A p \in 1..(depth - 1) : names'[lockStack'[t][p]] = Class[guards'[t][p]]
    BY <1>2, <1>4, <1>5, <1>8, <1>9
  <2>2. asked'[t] = Nobody /\ Len(lockStack'[t]) = depth - 1 /\ Len(guards'[t]) = depth - 1
    BY <1>2, <1>3, <1>8, <1>9
  <2> QED
    BY <1>10, <2>1, <2>2 DEF StackOK
<1>12. ASSUME NEW u \in Workers, u # t PROVE StackOK(u)'
  BY <1>1, <1>2, <1>8, <1>12, StackKeeps
<1>13. NamesOK' /\ StacksOK'
  BY <1>1, <1>2, <1>7, <1>9 DEF NamesOK, StacksOK
<1>14. WalkerOK' /\ RecordOK'
  BY <1>1, <1>2, <1>7 DEF WalkerOK, RecordOK, CyclicIn
<1> QED
  BY <1>11, <1>12, <1>13, <1>14 DEF RecordInv
-----------------------------------------------------------------------------
(* The profiler: what a walk does to the record.                              *)

\* A walk that has returned to CheckCycle has finished every node.
LEMMA AllFinished ==
  ASSUME WalkInv, WalkEnd
  PROVE  ~Cyclic
<1>1. walker # Nobody /\ calls = <<>> /\ Undiscovered = {}
  BY DEF WalkEnd, Walking
<1>2. WalkTypes /\ DiscoveredOK /\ NoCycleIn(finished)
  BY <1>1 DEF WalkInv
<1>3. \A i \in Ids : order[i] # 0 /\ ~Active(i)
  BY <1>1 DEF Undiscovered, Active
<1>4. finished = Ids
  BY <1>2, <1>3 DEF DiscoveredOK, WalkTypes
<1>5. ASSUME NEW S \in SUBSET Ids, S # {} PROVE \E i \in S : \A j \in S : <<i, j>> \notin lockHistory
  BY <1>2, <1>4, <1>5 DEF NoCycleIn
<1> QED
  BY <1>5 DEF Cyclic

LEMMA WalkEndKeeps ==
  ASSUME RecordInv, WalkInv, WalkEnd
  PROVE  RecordInv'
<1> DEFINE id == Id(Class[pushing], names)
<1>1. NamesOK /\ StacksOK /\ WalkerOK /\ RecordOK /\ \A u \in Workers : StackOK(u)
  BY DEF RecordInv
<1>2. /\ walker # Nobody /\ walker' = Nobody /\ UNCHANGED <<names, lockHistory, guards, ended>> /\ ended = "no"
      /\ Announced(walker, pushing, id)
  BY DEF WalkEnd, Walking
<1>3. /\ walker \in Workers /\ pushing \in Locks /\ asked[walker] = Nobody /\ lockStack[walker] # <<>>
      /\ <<Last(lockStack[walker]), id>> \in lockHistory
  BY <1>1, <1>2 DEF WalkerOK, Pending
<1>4. id \in Ids /\ names[id] = Class[pushing]
  <2>1. PICK i \in Ids : names[i] = Class[pushing]
    BY <1>1, <1>2 DEF WalkerOK
  <2>2. id = i
    BY <1>1, <2>1, IdIs DEF NamesOK, Ids
  <2> QED
    BY <2>1, <2>2
<1>5. Known' = lockHistory /\ Ids' = Ids /\ Known \subseteq Known'
  BY <1>2 DEF Known, Ids
<1> HIDE DEF id
<1>6. PICK t \in Workers : t = walker
  BY <1>3
<1>7. StackOK(t)' /\ StacksOK'
  <2>1. id \in Ids' /\ (\A i \in Ids : i \in Ids' /\ names'[i] = names[i]) /\ names'[id] = Class[pushing]
    BY <1>2, <1>4, <1>5
  <2> QED
    BY <1>1, <1>2, <1>3, <1>5, <1>6, <2>1, AnnouncedKeeps
<1>8. ASSUME NEW u \in Workers, u # t PROVE StackOK(u)'
  <2>1. UNCHANGED <<lockStack[u], guards[u], asked[u]>>
    BY <1>1, <1>2, <1>6, <1>8 DEF Announced, StacksOK
  <2> QED
    BY <1>1, <1>2, <1>5, <2>1, StackKeeps
<1>9. NamesOK'
  BY <1>1, <1>2, <1>5 DEF NamesOK
<1>10. WalkerOK'
  BY <1>1, <1>2 DEF WalkerOK
<1>11. RecordOK'
  <2>1. ~CyclicIn(Known)'
    BY <1>2, <1>5, AllFinished DEF CyclicIn, Cyclic
  <2> QED
    BY <1>2, <2>1 DEF RecordOK
<1> QED
  BY <1>7, <1>8, <1>9, <1>10, <1>11 DEF RecordInv

\* The calls of Dfs are over different nodes, each known and discovered.
LEMMA CallsFacts ==
  ASSUME WalkTypes, DiscoveredOK, CallsOK
  PROVE  /\ Len(calls) \in Nat
         /\ \A k \in 1..Len(calls) : calls[k] \in Ids /\ calls[k] # 0 /\ order[calls[k]] # 0 /\ calls[k] \notin finished
         /\ \A k, m \in 1..Len(calls) : calls[k] = calls[m] => k = m
<1>1. Len(calls) \in Nat /\ \A k \in 1..Len(calls) : calls[k] \in Ids
  BY DEF WalkTypes
<1>2. \A k \in 1..Len(calls) : calls[k] # 0
  BY <1>1 DEF Ids
<1>3. \A k \in 1..Len(calls) : order[calls[k]] # 0 /\ calls[k] \notin finished
  BY <1>1 DEF DiscoveredOK, Active
<1>4. \A k \in 1..Len(calls) : order[calls[k]] \in Nat
  BY <1>1 DEF WalkTypes
<1>5. ASSUME NEW k \in 1..Len(calls), NEW m \in 1..Len(calls), calls[k] = calls[m] PROVE k = m
  <2>1. ~(k < m) /\ ~(m < k)
    BY <1>4, <1>5 DEF CallsOK
  <2> QED
    BY <1>1, <2>1
<1> QED
  BY <1>1, <1>2, <1>3, <1>5

\* The printing loop goes from a call to the one that made it, and ends at one
\* that its first edge leads back to.
LEMMA GoUpEnds ==
  ASSUME RecordInv, WalkInv, GoUp
  PROVE  /\ ended' \in {"no", "cycle"} /\ (ended' = "cycle" => Cyclic)
         /\ UpOK' /\ now' \in Nat
<1>1. walker # Nobody /\ WalkTypes /\ DiscoveredOK /\ CallsOK /\ UpOK
  BY DEF WalkInv, GoUp
<1>2. /\ Len(calls) \in Nat
      /\ \A k \in 1..Len(calls) : calls[k] \in Ids /\ calls[k] # 0
      /\ \A k, m \in 1..Len(calls) : calls[k] = calls[m] => k = m
  BY <1>1, CallsFacts
<1>3. PICK k \in 1..Len(calls), m \in 1..Len(calls) :
        m < k /\ calls[k] = now /\ calls[m] = until /\ <<calls[Len(calls)], until>> \in lockHistory
  BY <1>1 DEF UpOK, GoUp
<1>4. k - 1 \in 1..Len(calls) /\ k - 1 \in 1..(Len(calls) - 1) /\ (k - 1) + 1 = k /\ m <= k - 1
  BY <1>2, <1>3
<1>5. parent[now] = calls[k - 1] /\ calls[k - 1] # 0
  <2>1. \A j \in 1..(Len(calls) - 1) : parent[calls[j + 1]] = calls[j]
    BY <1>1 DEF CallsOK
  <2>2. parent[calls[(k - 1) + 1]] = calls[k - 1]
    BY <1>4, <2>1
  <2> QED
    BY <1>2, <1>3, <1>4, <2>2
<1>6. now' = calls[k - 1] /\ until' = until /\ UNCHANGED <<calls, lockHistory>>
  BY <1>5 DEF GoUp, Beside
<1>7. CASE calls[k - 1] = until
  <2>1. Cyclic
    <3> DEFINE S == {calls[j] : j \in m..Len(calls)}
    <3>1. S \subseteq Ids /\ until \in S
      BY <1>2, <1>3
    <3>2. ASSUME NEW i \in S PROVE \E j \in S : <<i, j>> \in lockHistory
      <4>1. PICK p \in m..Len(calls) : i = calls[p]
        OBVIOUS
      <4>2. CASE p = Len(calls)
        BY <1>3, <3>1, <4>1, <4>2
      <4>3. CASE p < Len(calls)
        <5>1. p \in 1..(Len(calls) - 1) /\ p + 1 \in m..Len(calls)
          BY <1>2, <1>3, <4>3
        <5>2. <<calls[p], calls[p + 1]>> \in lockHistory
          BY <1>1, <5>1 DEF CallsOK
        <5> QED
          BY <4>1, <5>1, <5>2
      <4>4. p = Len(calls) \/ p < Len(calls)
        BY <1>2, <1>3
      <4> QED
        BY <4>2, <4>3, <4>4
    <3>3. S # {} /\ S \in SUBSET Ids
      BY <3>1
    <3> HIDE DEF S
    <3> QED
      BY <3>2, <3>3 DEF Cyclic
  <2>2. ended' = "cycle"
    BY <1>5, <1>7 DEF GoUp
  <2> QED
    BY <1>2, <1>4, <1>6, <2>1, <2>2 DEF UpOK, Ids
<1>8. CASE calls[k - 1] # until
  <2>1. ended' = "no"
    BY <1>5, <1>8 DEF GoUp
  <2>2. m < k - 1
    BY <1>2, <1>3, <1>4, <1>8
  <2>3. UpOK'
    BY <1>3, <1>4, <1>6, <2>2 DEF UpOK
  <2> QED
    BY <1>2, <1>4, <1>6, <2>1, <2>3 DEF Ids
<1> QED
  BY <1>7, <1>8

LEMMA RecordStep ==
  ASSUME RecordInv, WalkInv, [ProfilerNext]_profilerVars
  PROVE  RecordInv'
<1>1. ASSUME NEW t \in Workers, NEW l \in Locks, PushLock(t, l) PROVE RecordInv'
  BY <1>1, PushCases, PushDirectKeeps, PushWalkKeeps
<1>2. ASSUME NEW t \in Workers, GiveUp(t) PROVE RecordInv'
  BY <1>2, RecordSame DEF GiveUp
<1>3. CASE GoUp
  BY <1>3, GoUpEnds, RecordSame DEF GoUp, Beside
<1>4. ASSUME NEW here, DfsRoot(here) \/ DfsReturn(here) PROVE RecordInv'
  BY <1>4, RecordSame DEF DfsRoot, DfsReturn, InDfs, Walking, Beside
<1>5. ASSUME NEW here, NEW there, DfsDown(here, there) \/ DfsPast(here, there) \/ DfsBack(here, there) PROVE RecordInv'
  BY <1>5, RecordSame DEF DfsDown, DfsPast, DfsBack, Looks, InDfs, Walking, Beside
<1>6. CASE UNCHANGED profilerVars
  BY <1>6, RecordSame DEF profilerVars, RecordInv, WalkerOK, RecordOK
<1> QED
  BY <1>1, <1>2, <1>3, <1>4, <1>5, <1>6, LockKeeps, PopKeeps, WalkEndKeeps, ProfilerCases
-----------------------------------------------------------------------------
(* The profiler: the steps of a walk.                                         *)

\* The loop of CheckCycle, or a call of Dfs that looks at here.
Calls(here) ==
    /\ calls # <<>> => /\ parent'[here] = Last(calls)
                       /\ <<Last(calls), here>> \in lockHistory
    /\ parent' \in [Ids -> Nat] /\ left' \in [Ids -> SUBSET Ids]
    /\ \A i \in Ids \ {here} : parent'[i] = parent[i] /\ left'[i] \subseteq left[i]
    /\ \A i \in Ids \ {here}, j \in Ids :
          j \in left[i] /\ j \notin left'[i] => j = here /\ calls # <<>> /\ i = Last(calls)
    /\ left'[here] = Successors(here)

LEMMA DfsKeeps ==
  ASSUME RecordInv, WalkInv, Walking, NEW here \in Ids, order[here] = 0, Dfs(here), Calls(here),
         UNCHANGED <<finished, now, until, ended>>, Beside
  PROVE  WalkInv'
<1> DEFINE n == Len(calls)
<1>1. WalkTypes /\ DiscoveredOK /\ CallsOK /\ LookedAt /\ NoCycleIn(finished) /\ walker # Nobody
  BY DEF WalkInv, Walking
<1>2. /\ n \in Nat
      /\ \A k \in 1..n : calls[k] \in Ids /\ calls[k] # 0 /\ order[calls[k]] # 0 /\ calls[k] \notin finished
      /\ \A k, m \in 1..n : calls[k] = calls[m] => k = m
  BY <1>1, CallsFacts
<1>3. /\ calls' \in Seq(Ids) /\ Len(calls') = n + 1 /\ calls'[n + 1] = here
      /\ \A k \in 1..n : calls'[k] = calls[k]
  <2>1. calls \in Seq(Ids) /\ calls' = Append(calls, here)
    BY <1>1 DEF WalkTypes, Dfs
  <2> QED
    BY <2>1, AppendFacts
<1>4. Ids' = Ids /\ lockHistory' = lockHistory /\ walker' = walker /\ names' = names
  BY DEF Beside, Ids
<1>5. calls # <<>> => n \in 1..n /\ Last(calls) = calls[n]
  BY <1>1, <1>2 DEF WalkTypes, Last
<1>6. /\ order' \in [Ids -> Nat] /\ order'[here] = count + 1 /\ count' = count + 1 /\ count \in Nat
      /\ \A i \in Ids \ {here} : order'[i] = order[i]
  BY <1>1 DEF Dfs, WalkTypes
<1>7. \A i \in Ids : Active(i)' <=> Active(i) \/ i = here
  <2>1. ASSUME NEW i \in Ids, Active(i)' PROVE Active(i) \/ i = here
    <3>1. PICK k \in 1..(n + 1) : calls'[k] = i
      BY <1>3, <2>1 DEF Active
    <3>2. k \in 1..n \/ k = n + 1
      BY <1>2
    <3> QED
      BY <1>3, <3>1, <3>2 DEF Active
  <2>2. ASSUME NEW i \in Ids, Active(i) PROVE Active(i)'
    <3>1. PICK k \in 1..n : calls[k] = i
      BY <2>2 DEF Active
    <3>2. k \in 1..(n + 1)
      BY <1>2
    <3> QED
      BY <1>3, <3>1, <3>2 DEF Active
  <2>3. Active(here)'
    BY <1>2, <1>3 DEF Active
  <2> QED
    BY <2>1, <2>2, <2>3
<1>8. \A k \in 1..n : calls[k] # here
  BY <1>2
<1>9. here \notin finished /\ ~Active(here)
  BY <1>1 DEF DiscoveredOK
<1>10. WalkTypes'
  BY <1>1, <1>3, <1>4, <1>6 DEF WalkTypes, Calls
<1>11. DiscoveredOK'
  <2>1. ASSUME NEW i \in Ids
        PROVE  order'[i] <= count' /\ (order'[i] # 0 <=> i \in finished \/ Active(i)') /\ ~(i \in finished /\ Active(i)')
    <3>1. CASE i = here
      BY <1>6, <1>7, <1>9, <3>1
    <3>2. CASE i # here
      <4>1. order[i] \in Nat /\ order[i] <= count /\ order'[i] = order[i]
        BY <1>1, <1>6, <3>2 DEF WalkTypes, DiscoveredOK
      <4>2. (order[i] # 0 <=> i \in finished \/ Active(i)) /\ ~(i \in finished /\ Active(i))
        BY <1>1 DEF DiscoveredOK
      <4>3. Active(i)' <=> Active(i)
        BY <1>7, <3>2
      <4>4. order'[i] <= count'
        BY <1>6, <4>1
      <4> QED
        BY <4>1, <4>2, <4>3, <4>4
    <3> QED
      BY <3>1, <3>2
  <2> QED
    BY <1>4, <2>1 DEF DiscoveredOK
<1>12. CallsOK'
  <2>1. ASSUME NEW k \in 1..(n + 1), NEW m \in 1..(n + 1), k < m PROVE order'[calls'[k]] < order'[calls'[m]]
    <3>1. k \in 1..n /\ calls'[k] = calls[k] /\ order'[calls[k]] = order[calls[k]] /\ order[calls[k]] \in Nat
      <4>1. k \in 1..n
        BY <1>2, <2>1
      <4> QED
        BY <1>1, <1>2, <1>3, <1>6, <1>8, <4>1 DEF WalkTypes
    <3>2. CASE m = n + 1
      <4>1. order[calls[k]] <= count
        BY <1>1, <1>2, <3>1 DEF DiscoveredOK
      <4> QED
        BY <1>3, <1>6, <3>1, <3>2, <4>1
    <3>3. CASE m \in 1..n
      <4>1. calls'[m] = calls[m] /\ order'[calls[m]] = order[calls[m]]
        BY <1>2, <1>3, <1>6, <1>8, <3>3
      <4> QED
        BY <1>1, <2>1, <3>1, <3>3, <4>1 DEF CallsOK
    <3>4. m \in 1..n \/ m = n + 1
      BY <1>2
    <3> QED
      BY <3>2, <3>3, <3>4
  <2>2. ASSUME NEW k \in 1..n
        PROVE  parent'[calls'[k + 1]] = calls'[k] /\ <<calls'[k], calls'[k + 1]>> \in lockHistory
    <3>1. CASE k = n
      <4>1. calls # <<>> /\ calls'[k] = Last(calls) /\ calls'[k + 1] = here
        BY <1>1, <1>2, <1>3, <1>5, <3>1 DEF WalkTypes
      <4> QED
        BY <4>1 DEF Calls
    <3>2. CASE k # n
      <4>1. k \in 1..(n - 1) /\ k + 1 \in 1..n
        BY <1>2, <3>2
      <4>2. calls'[k] = calls[k] /\ calls'[k + 1] = calls[k + 1] /\ parent'[calls[k + 1]] = parent[calls[k + 1]]
        BY <1>2, <1>3, <1>8, <4>1 DEF Calls
      <4> QED
        BY <1>1, <4>1, <4>2 DEF CallsOK
    <3> QED
      BY <3>1, <3>2
  <2>3. Len(calls') - 1 = n
    BY <1>2, <1>3
  <2> QED
    BY <1>3, <1>4, <2>1, <2>2, <2>3 DEF CallsOK
<1>13. LookedAt'
  <2>1. ASSUME NEW k \in 1..(n + 1), NEW j \in Ids, <<calls'[k], j>> \in lockHistory, j \notin left'[calls'[k]]
        PROVE  j \in finished \/ (k < n + 1 /\ j = calls'[k + 1])
    <3>1. CASE k = n + 1
      BY <1>3, <2>1, <3>1 DEF Calls, Successors
    <3>2. CASE k \in 1..n /\ j \in left[calls[k]]
      <4>1. calls'[k] = calls[k] /\ calls[k] \in Ids \ {here}
        BY <1>2, <1>3, <1>8, <3>2
      <4>2. j = here /\ calls # <<>> /\ calls[k] = Last(calls)
        BY <2>1, <3>2, <4>1 DEF Calls
      <4>3. k = n
        BY <1>2, <1>5, <3>2, <4>2
      <4> QED
        BY <1>2, <1>3, <4>2, <4>3
    <3>3. CASE k \in 1..n /\ j \notin left[calls[k]]
      <4>1. calls'[k] = calls[k] /\ <<calls[k], j>> \in lockHistory
        BY <1>3, <2>1, <3>3
      <4>2. j \in finished \/ (k < n /\ j = calls[k + 1])
        BY <1>1, <3>3, <4>1 DEF LookedAt
      <4>3. k < n => k + 1 \in 1..n /\ k < n + 1
        BY <1>2, <3>3
      <4> QED
        BY <1>3, <4>2, <4>3
    <3>4. k \in 1..n \/ k = n + 1
      BY <1>2
    <3> QED
      BY <3>1, <3>2, <3>3, <3>4
  <2>2. ASSUME NEW i \in Ids, NEW j \in left'[i] PROVE <<i, j>> \in lockHistory
    <3>1. CASE i = here
      BY <2>2, <3>1 DEF Calls, Successors
    <3>2. CASE i # here
      BY <1>1, <2>2, <3>2 DEF Calls, LookedAt
    <3> QED
      BY <3>1, <3>2
  <2>3. \A i \in finished, j \in Ids : <<i, j>> \in lockHistory => j \in finished
    BY <1>1 DEF LookedAt
  <2> QED
    BY <1>3, <1>4, <2>1, <2>2, <2>3 DEF LookedAt
<1>14. NoCycleIn(finished)' /\ UpOK'
  BY <1>1, <1>4 DEF NoCycleIn, UpOK, Walking
<1> QED
  BY <1>1, <1>4, <1>10, <1>11, <1>12, <1>13, <1>14 DEF WalkInv

LEMMA RootKeeps ==
  ASSUME RecordInv, WalkInv, NEW here \in Ids, DfsRoot(here)
  PROVE  WalkInv'
<1>1. WalkTypes /\ LookedAt
  BY DEF WalkInv, DfsRoot, Walking
<1>2. order[here] = 0 /\ calls = <<>> /\ parent' = parent /\ left' = [left EXCEPT ![here] = Successors(here)]
  BY DEF DfsRoot, IsLeast, Undiscovered
<1>3. Successors(here) \in SUBSET Ids
  BY DEF Successors
<1>4. left' \in [Ids -> SUBSET Ids] /\ left'[here] = Successors(here) /\ \A i \in Ids \ {here} : left'[i] = left[i]
  BY <1>1, <1>2, <1>3 DEF WalkTypes
<1>5. Calls(here)
  BY <1>1, <1>2, <1>4 DEF WalkTypes, Calls
<1> QED
  BY <1>2, <1>5, DfsKeeps DEF DfsRoot

LEMMA DownKeeps ==
  ASSUME RecordInv, WalkInv, NEW here \in Ids, NEW there \in Ids, DfsDown(here, there)
  PROVE  WalkInv'
<1>1. WalkTypes /\ LookedAt /\ DiscoveredOK /\ CallsOK
  BY DEF WalkInv, DfsDown, Looks, InDfs, Walking
<1>2. /\ order[there] = 0 /\ calls # <<>> /\ here = Last(calls) /\ there \in left[here] /\ Walking /\ Dfs(there)
      /\ parent' = [parent EXCEPT ![there] = here]
      /\ left' = [left EXCEPT ![here] = @ \ {there}, ![there] = Successors(there)]
      /\ UNCHANGED <<finished, now, until, ended>> /\ Beside
  BY DEF DfsDown, Looks, InDfs, IsLeast
<1>3. here # there /\ here \in Nat
  <2>1. calls \in Seq(Ids) /\ Len(calls) \in 1..Len(calls) /\ here = calls[Len(calls)]
    BY <1>1, <1>2, FrontFacts DEF WalkTypes
  <2>2. order[here] # 0
    BY <1>1, <2>1, CallsFacts
  <2> QED
    BY <1>2, <2>2 DEF Ids
<1>4. Successors(there) \in SUBSET Ids /\ left[here] \in SUBSET Ids
  BY <1>1 DEF Successors, WalkTypes
<1>5. /\ left' \in [Ids -> SUBSET Ids] /\ left'[there] = Successors(there) /\ left'[here] = left[here] \ {there}
      /\ \A i \in Ids : i # here /\ i # there => left'[i] = left[i]
  BY <1>1, <1>2, <1>3, <1>4 DEF WalkTypes
<1>6. /\ parent' \in [Ids -> Nat] /\ parent'[there] = here
      /\ \A i \in Ids : i # there => parent'[i] = parent[i]
  BY <1>1, <1>2, <1>3 DEF WalkTypes
<1>7. ASSUME NEW i \in Ids \ {there} PROVE left'[i] \subseteq left[i]
  BY <1>5
<1>8. ASSUME NEW i \in Ids \ {there}, NEW j \in Ids, j \in left[i], j \notin left'[i]
      PROVE  j = there /\ calls # <<>> /\ i = Last(calls)
  BY <1>2, <1>5, <1>8
<1>9. <<Last(calls), there>> \in lockHistory
  BY <1>1, <1>2 DEF LookedAt
<1>10. Calls(there)
  BY <1>2, <1>5, <1>6, <1>7, <1>8, <1>9 DEF Calls
<1> QED
  BY <1>2, <1>10, DfsKeeps

\* A node that Dfs goes past is finished.
LEMMA PastKeeps ==
  ASSUME RecordInv, WalkInv, NEW here \in Ids, NEW there \in Ids, DfsPast(here, there)
  PROVE  WalkInv'
<1> DEFINE n == Len(calls)
<1>1. WalkTypes /\ DiscoveredOK /\ CallsOK /\ LookedAt /\ NoCycleIn(finished) /\ UpOK /\ walker # Nobody
  BY DEF WalkInv, DfsPast, Looks, InDfs, Walking
<1>2. /\ order[there] # 0 /\ ~BackEdge(here, there) /\ calls # <<>> /\ here = Last(calls)
      /\ left' = [left EXCEPT ![here] = @ \ {there}]
      /\ UNCHANGED <<order, count, finished, parent, calls, now, until, ended>> /\ Beside
  BY DEF DfsPast, Looks, InDfs
<1>3. n \in 1..n /\ here = calls[n] /\ n \in Nat
  BY <1>1, <1>2, FrontFacts DEF WalkTypes
<1>4. there \in finished
  <2> SUFFICES ASSUME there \notin finished PROVE FALSE
    OBVIOUS
  <2>1. PICK m \in 1..n : calls[m] = there
    BY <1>1, <1>2 DEF DiscoveredOK, Active
  <2>2. m < n \/ m = n
    BY <1>3
  <2>3. order[there] \in Nat /\ order[here] \in Nat
    BY <1>1 DEF WalkTypes
  <2>4. m < n => order[there] < order[here]
    BY <1>1, <1>3, <2>1 DEF CallsOK
  <2>5. m = n => order[there] = order[here]
    BY <1>3, <2>1
  <2>6. order[there] <= order[here]
    BY <2>2, <2>3, <2>4, <2>5
  <2> QED
    BY <1>2, <2>6 DEF BackEdge
<1>5. /\ left' \in [Ids -> SUBSET Ids] /\ left'[here] = left[here] \ {there}
      /\ \A i \in Ids : i # here => left'[i] = left[i]
  BY <1>1, <1>2 DEF WalkTypes
<1>6. Ids' = Ids /\ lockHistory' = lockHistory /\ walker' = walker
  BY <1>2 DEF Beside, Ids
<1>7. \A i \in Ids, j \in Ids : j \notin left'[i] => j \notin left[i] \/ j \in finished
  BY <1>4, <1>5
<1>8. \A i \in Ids : left'[i] \subseteq left[i]
  BY <1>5
<1>9. LookedAt'
  <2>1. ASSUME NEW k \in 1..n, NEW j \in Ids, <<calls[k], j>> \in lockHistory, j \notin left'[calls[k]]
        PROVE  j \in finished \/ (k < n /\ j = calls[k + 1])
    <3>1. calls[k] \in Ids
      BY <1>1, <1>3 DEF WalkTypes
    <3> QED
      BY <1>1, <1>7, <2>1, <3>1 DEF LookedAt
  <2>2. \A i \in Ids : \A j \in left'[i] : <<i, j>> \in lockHistory
    BY <1>1, <1>8 DEF LookedAt
  <2>3. \A i \in finished, j \in Ids : <<i, j>> \in lockHistory => j \in finished
    BY <1>1 DEF LookedAt
  <2> QED
    BY <1>2, <1>6, <2>1, <2>2, <2>3 DEF LookedAt
<1>10. WalkTypes' /\ DiscoveredOK'
  BY <1>1, <1>2, <1>5, <1>6 DEF WalkTypes, DiscoveredOK, Active
<1>11. CallsOK' /\ NoCycleIn(finished)' /\ UpOK'
  BY <1>1, <1>2, <1>6 DEF CallsOK, NoCycleIn, UpOK
<1> QED
  BY <1>1, <1>6, <1>9, <1>10, <1>11 DEF WalkInv

\* A node that is discovered and not finished is a call above.
LEMMA BackKeeps ==
  ASSUME RecordInv, WalkInv, NEW here \in Ids, NEW there \in Ids, DfsBack(here, there)
  PROVE  WalkInv'
<1> DEFINE n == Len(calls)
<1>1. WalkTypes /\ DiscoveredOK /\ CallsOK /\ LookedAt /\ NoCycleIn(finished) /\ walker # Nobody
  BY DEF WalkInv, DfsBack, Looks, InDfs, Walking
<1>2. /\ order[there] # 0 /\ there \notin finished /\ there \in left[here] /\ calls # <<>> /\ here = Last(calls)
      /\ now' = here /\ until' = there
      /\ UNCHANGED <<order, count, finished, parent, calls, left, ended>> /\ Beside
  BY DEF DfsBack, BackEdge, Looks, InDfs, IsLeast
<1>3. n \in 1..n /\ here = calls[n] /\ n \in Nat
  BY <1>1, <1>2, FrontFacts DEF WalkTypes
<1>4. <<here, there>> \in lockHistory /\ here # there
  BY <1>1, <1>2 DEF LookedAt, RecordInv, NamesOK
<1>5. PICK m \in 1..n : calls[m] = there
  BY <1>1, <1>2 DEF DiscoveredOK, Active
<1>6. m < n
  BY <1>3, <1>4, <1>5
<1>7. Ids' = Ids /\ lockHistory' = lockHistory /\ walker' = walker
  BY <1>2 DEF Beside, Ids
<1>8. UpOK'
  BY <1>2, <1>3, <1>4, <1>5, <1>6, <1>7 DEF UpOK
<1>9. now' \in Nat /\ until' \in Nat
  BY <1>2 DEF Ids
<1>10. WalkTypes' /\ DiscoveredOK'
  BY <1>1, <1>2, <1>7, <1>9 DEF WalkTypes, DiscoveredOK, Active
<1>11. CallsOK' /\ LookedAt' /\ NoCycleIn(finished)'
  BY <1>1, <1>2, <1>7 DEF CallsOK, LookedAt, NoCycleIn
<1> QED
  BY <1>1, <1>7, <1>8, <1>10, <1>11 DEF WalkInv

\* A call that returns leaves no way from it to a node that is not finished.
LEMMA ReturnKeeps ==
  ASSUME RecordInv, WalkInv, NEW here \in Ids, DfsReturn(here)
  PROVE  WalkInv'
<1> DEFINE n == Len(calls)
<1>1. WalkTypes /\ DiscoveredOK /\ CallsOK /\ LookedAt /\ NoCycleIn(finished) /\ UpOK /\ walker # Nobody /\ now = 0
  BY DEF WalkInv, DfsReturn, InDfs, Walking
<1>2. /\ left[here] = {} /\ calls # <<>> /\ here = Last(calls)
      /\ finished' = finished \cup {here} /\ calls' = Front(calls)
      /\ UNCHANGED <<order, count, parent, left, now, until, ended>> /\ Beside
  BY DEF DfsReturn, InDfs
<1>3. /\ n \in Nat \ {0} /\ here = calls[n] /\ calls' \in Seq(Ids) /\ Len(calls') = n - 1
      /\ \A k \in 1..(n - 1) : calls'[k] = calls[k]
  BY <1>1, <1>2, FrontFacts DEF WalkTypes
<1>4. Ids' = Ids /\ lockHistory' = lockHistory /\ walker' = walker
  BY <1>2 DEF Beside, Ids
<1>5. /\ \A k \in 1..n : calls[k] \in Ids /\ calls[k] # 0 /\ order[calls[k]] # 0 /\ calls[k] \notin finished
      /\ \A k, m \in 1..n : calls[k] = calls[m] => k = m
  BY <1>1, CallsFacts
<1>6. \A i \in Ids : Active(i)' <=> Active(i) /\ i # here
  <2>1. ASSUME NEW i \in Ids, Active(i)' PROVE Active(i) /\ i # here
    <3>1. PICK k \in 1..(n - 1) : calls'[k] = i
      BY <1>3, <2>1 DEF Active
    <3>2. k \in 1..n /\ n \in 1..n /\ k # n
      BY <1>3
    <3> QED
      BY <1>3, <1>5, <3>1, <3>2 DEF Active
  <2>2. ASSUME NEW i \in Ids, Active(i), i # here PROVE Active(i)'
    <3>1. PICK k \in 1..n : calls[k] = i
      BY <2>2 DEF Active
    <3>2. k \in 1..(n - 1)
      BY <1>3, <2>2, <3>1
    <3> QED
      BY <1>3, <3>1, <3>2 DEF Active
  <2> QED
    BY <2>1, <2>2
<1>7. Active(here) /\ here \notin finished /\ order[here] # 0
  BY <1>3, <1>5 DEF Active
<1>8. \A j \in Ids : <<here, j>> \in lockHistory => j \in finished
  <2>1. ASSUME NEW j \in Ids, <<here, j>> \in lockHistory PROVE j \in finished \/ (n < n /\ j = calls[n + 1])
    <3>1. n \in 1..n /\ here = calls[n]
      BY <1>3
    <3>2. <<calls[n], j>> \in lockHistory /\ left[calls[n]] = {}
      BY <1>2, <2>1, <3>1
    <3> QED
      BY <1>1, <3>1, <3>2 DEF LookedAt
  <2> QED
    BY <1>3, <2>1
<1>9. DiscoveredOK'
  <2>1. ASSUME NEW i \in Ids
        PROVE  order[i] <= count /\ (order[i] # 0 <=> i \in finished' \/ Active(i)') /\ ~(i \in finished' /\ Active(i)')
    BY <1>1, <1>2, <1>6, <1>7 DEF DiscoveredOK
  <2> QED
    BY <1>2, <1>4, <2>1 DEF DiscoveredOK
<1>10. CallsOK'
  <2>1. ASSUME NEW k \in 1..(n - 1), NEW m \in 1..(n - 1), k < m PROVE order[calls'[k]] < order[calls'[m]]
    BY <1>1, <1>3, <2>1 DEF CallsOK
  <2>2. ASSUME NEW k \in 1..((n - 1) - 1)
        PROVE  parent[calls'[k + 1]] = calls'[k] /\ <<calls'[k], calls'[k + 1]>> \in lockHistory
    <3>1. k \in 1..(n - 1) /\ k + 1 \in 1..(n - 1)
      BY <1>3
    <3> QED
      BY <1>1, <1>3, <3>1 DEF CallsOK
  <2> QED
    BY <1>2, <1>3, <1>4, <2>1, <2>2 DEF CallsOK
<1>11. LookedAt'
  <2>1. ASSUME NEW k \in 1..(n - 1), NEW j \in Ids, <<calls'[k], j>> \in lockHistory, j \notin left[calls'[k]]
        PROVE  j \in finished' \/ (k < n - 1 /\ j = calls'[k + 1])
    <3>1. k \in 1..n /\ calls'[k] = calls[k]
      BY <1>3
    <3>2. j \in finished \/ (k < n /\ j = calls[k + 1])
      BY <1>1, <2>1, <3>1 DEF LookedAt
    <3>3. CASE k = n - 1
      <4>1. k + 1 = n
        BY <1>3, <3>3
      <4> QED
        BY <1>2, <1>3, <3>2, <4>1
    <3>4. CASE k < n - 1
      <4>1. k + 1 \in 1..(n - 1)
        BY <1>3, <3>4
      <4> QED
        BY <1>2, <1>3, <3>2, <3>4, <4>1
    <3> QED
      BY <1>3, <3>3, <3>4
  <2>2. ASSUME NEW i \in finished', NEW j \in Ids, <<i, j>> \in lockHistory PROVE j \in finished'
    BY <1>1, <1>2, <1>8, <2>2 DEF LookedAt
  <2>3. \A i \in Ids : \A j \in left[i] : <<i, j>> \in lockHistory
    BY <1>1 DEF LookedAt
  <2>4. \A k \in 1..Len(calls'), j \in Ids' :
           <<calls'[k], j>> \in lockHistory' /\ j \notin left'[calls'[k]] =>
               j \in finished' \/ (k < Len(calls') /\ j = calls'[k + 1])
    BY <1>2, <1>3, <1>4, <2>1
  <2>5. \A i \in Ids' : \A j \in left'[i] : <<i, j>> \in lockHistory'
    BY <1>2, <1>4, <2>3
  <2>6. \A i \in finished', j \in Ids' : <<i, j>> \in lockHistory' => j \in finished'
    BY <1>4, <2>2
  <2> QED
    BY <2>4, <2>5, <2>6 DEF LookedAt
<1>12. NoCycleIn(finished)'
  <2>1. ASSUME NEW S \in SUBSET (finished \cup {here}), S # {}
        PROVE  \E i \in S : \A j \in S : <<i, j>> \notin lockHistory
    <3>1. CASE S \subseteq finished
      BY <1>1, <2>1, <3>1 DEF NoCycleIn
    <3>2. CASE S = {here}
      BY <3>2 DEF RecordInv, NamesOK
    <3>3. CASE here \in S /\ S # {here}
      <4>1. S \ {here} \in SUBSET finished /\ S \ {here} # {}
        BY <3>3
      <4>2. PICK i \in S \ {here} : \A j \in S \ {here} : <<i, j>> \notin lockHistory
        BY <1>1, <4>1 DEF NoCycleIn
      <4>3. <<i, here>> \notin lockHistory
        BY <1>1, <1>7, <4>1, <4>2 DEF LookedAt
      <4> QED
        BY <4>2, <4>3
    <3> QED
      BY <3>1, <3>2, <3>3
  <2> QED
    BY <1>2, <1>4, <2>1 DEF NoCycleIn
<1>13. WalkTypes' /\ UpOK'
  BY <1>1, <1>2, <1>3, <1>4 DEF WalkTypes, UpOK
<1> QED
  BY <1>1, <1>4, <1>9, <1>10, <1>11, <1>12, <1>13 DEF WalkInv

LEMMA GoUpKeeps ==
  ASSUME RecordInv, WalkInv, GoUp
  PROVE  WalkInv'
<1>1. WalkTypes /\ DiscoveredOK /\ CallsOK /\ LookedAt /\ NoCycleIn(finished) /\ walker # Nobody
  BY DEF WalkInv, GoUp
<1>2. UNCHANGED <<order, count, finished, parent, calls, left, until, walker, lockHistory, names>>
  BY DEF GoUp, Beside
<1>3. UpOK' /\ now' \in Nat
  BY GoUpEnds
<1>4. WalkTypes' /\ DiscoveredOK'
  BY <1>1, <1>2, <1>3 DEF WalkTypes, DiscoveredOK, Active, Ids
<1>5. CallsOK' /\ LookedAt' /\ NoCycleIn(finished)'
  BY <1>1, <1>2 DEF CallsOK, LookedAt, NoCycleIn, Ids
<1> QED
  BY <1>1, <1>2, <1>3, <1>4, <1>5 DEF WalkInv

\* A walk starts with nothing discovered.
LEMMA StartKeeps ==
  ASSUME RecordInv, WalkInv, NEW t \in Workers, NEW l \in Locks, NEW known, NEW id, PushesAndWalks(t, l, known, id)
  PROVE  WalkInv'
<1> USE DEF PushesAndWalks, PushesAt
<1>1. calls' = <<>> /\ now' = 0 /\ until' \in Nat /\ walker' # Nobody
  BY NobodyAssumption DEF WalkInv
<1>2. /\ Ids' = 1..Len(known) /\ order' = [i \in 1..Len(known) |-> 0] /\ parent' = [i \in 1..Len(known) |-> 0]
      /\ left' = [i \in 1..Len(known) |-> {}] /\ finished' = {} /\ count' = 0
  BY DEF Ids
<1>3. WalkTypes'
  BY <1>1, <1>2 DEF WalkTypes
<1>4. DiscoveredOK' /\ CallsOK'
  BY <1>1, <1>2 DEF DiscoveredOK, Active, CallsOK
<1>5. LookedAt' /\ NoCycleIn(finished)' /\ UpOK'
  BY <1>1, <1>2 DEF LookedAt, NoCycleIn, UpOK
<1> QED
  BY <1>1, <1>3, <1>4, <1>5 DEF WalkInv

LEMMA WalkSame ==
  ASSUME WalkInv, UNCHANGED <<walker, walkVars>>,
         walker # Nobody => UNCHANGED <<names, lockHistory>> /\ (ended' = "no" => ended = "no")
  PROVE  WalkInv'
<1> USE DEF walkVars
<1>1. CASE walker = Nobody
  BY <1>1 DEF WalkInv
<1>2. CASE walker # Nobody
  <2>1. WalkTypes /\ DiscoveredOK /\ CallsOK /\ LookedAt /\ NoCycleIn(finished) /\ UpOK
    BY <1>2 DEF WalkInv
  <2>2. Ids' = Ids /\ lockHistory' = lockHistory
    BY <1>2 DEF Ids
  <2>3. WalkTypes' /\ DiscoveredOK' /\ CallsOK'
    BY <2>1, <2>2 DEF WalkTypes, DiscoveredOK, Active, CallsOK
  <2>4. LookedAt' /\ NoCycleIn(finished)' /\ UpOK'
    BY <1>2, <2>1, <2>2 DEF LookedAt, NoCycleIn, UpOK
  <2> QED
    BY <1>2, <2>3, <2>4 DEF WalkInv
<1> QED
  BY <1>1, <1>2

LEMMA WalkStep ==
  ASSUME RecordInv, WalkInv, [ProfilerNext]_profilerVars
  PROVE  WalkInv'
<1>1. ASSUME NEW t \in Workers, NEW l \in Locks, PushLock(t, l) PROVE WalkInv'
  <2>1. PICK known, id : PushesDirectly(t, l, known, id) \/ PushesAndWalks(t, l, known, id)
    BY <1>1, PushCases
  <2>2. CASE PushesDirectly(t, l, known, id)
    BY <2>2, WalkSame DEF PushesDirectly, PushesAt
  <2> QED
    BY <2>1, <2>2, StartKeeps
<1>2. ASSUME NEW t \in Workers, WriteLock(t) \/ GiveUp(t) \/ PopLock(t) PROVE WalkInv'
  BY <1>2, WalkSame DEF WriteLock, GiveUp, PopLock
<1>3. CASE WalkEnd
  BY <1>3 DEF WalkEnd, Walking, WalkInv, WalkTypes
<1>4. CASE UNCHANGED profilerVars
  BY <1>4, WalkSame DEF profilerVars
<1> QED
  BY <1>1, <1>2, <1>3, <1>4, GoUpKeeps, RootKeeps, ReturnKeeps, DownKeeps, PastKeeps, BackKeeps, ProfilerCases
-----------------------------------------------------------------------------
(* The profiler: theorems.                                                    *)

LEMMA ProfilerStarts ==
  ASSUME ProfilerInit
  PROVE  RecordInv /\ WalkInv
<1> USE DEF ProfilerInit
<1>1. Ids = {} /\ names \in Seq(Classes) /\ Known = {}
  BY DEF Ids, Known
<1>2. NamesOK /\ StacksOK /\ WalkerOK
  BY <1>1 DEF NamesOK, StacksOK, WalkerOK
<1>3. RecordOK
  BY <1>1 DEF RecordOK, CyclicIn
<1>4. \A t \in Workers : StackOK(t)
  BY DEF StackOK
<1>5. WalkInv
  BY DEF WalkInv
<1> QED
  BY <1>2, <1>3, <1>4, <1>5 DEF RecordInv

LEMMA ProfilerInvariant ==
  ProfilerSpec => [](RecordInv /\ WalkInv)
<1>1. ProfilerInit => RecordInv /\ WalkInv
  BY ProfilerStarts
<1>2. RecordInv /\ WalkInv /\ [ProfilerNext]_profilerVars => (RecordInv /\ WalkInv)'
  BY RecordStep, WalkStep
<1> QED
  BY <1>1, <1>2, PTL DEF ProfilerSpec

\* The profiler ends the process for a cycle of the record only, and a cycle
\* never outlives the PushLock that closed it.
THEOREM CyclesAreReported == ProfilerSpec => []CyclesReported
<1>1. ASSUME RecordInv, WalkInv PROVE CyclesReported
  <2>1. ended = "cycle" => Cyclic
    BY <1>1 DEF RecordInv, RecordOK
  <2>2. walker = Nobody => ~Cyclic
    BY <1>1 DEF RecordInv, RecordOK, Known, CyclicIn, Cyclic
  <2>3. ended # "lost"
    BY <1>1 DEF RecordInv, WalkerOK
  <2> QED
    BY <2>1, <2>2, <2>3 DEF CyclesReported
<1>2. RecordInv /\ WalkInv => CyclesReported
  BY <1>1
<1> QED
  BY <1>2, ProfilerInvariant, PTL

\* Who waits for a lock of one class under another class knows the pair.
LEMMA WaitsOverKnown ==
  ASSUME RecordInv, NEW t \in Workers, asked[t] # Nobody,
         NEW p \in 1..Len(lockStack[t]), names[lockStack[t][p]] # Class[asked[t]]
  PROVE  LET i == lockStack[t][p] IN
         \E m \in 1..Len(lockStack[t]) :
            /\ m + 1 \in 1..Len(lockStack[t]) /\ lockStack[t][m] = i
            /\ <<i, lockStack[t][m + 1]>> \in Known
<1> DEFINE top == Len(lockStack[t])
<1>1. StackOK(t) /\ NamesOK /\ StacksOK
  BY DEF RecordInv
<1>2. Len(guards[t]) \in Nat /\ top = Len(guards[t]) + 1 /\ names[lockStack[t][top]] = Class[asked[t]]
  BY <1>1 DEF StackOK, StacksOK
<1>3. p < top /\ top \in 1..top /\ lockStack[t][p] # lockStack[t][top]
  BY <1>2
<1>4. PICK m \in p..(top - 1) : lockStack[t][m] = lockStack[t][p] /\ <<lockStack[t][m], lockStack[t][m + 1]>> \in Known
  BY <1>1, <1>3 DEF StackOK
<1>5. m \in 1..top /\ m + 1 \in 1..top
  BY <1>2
<1> QED
  BY <1>4, <1>5

\* Some of the threads wait for one another over locks of one class.
StuckInOne(ts) == \E us \in SUBSET ts : Stuck(us) /\ \A t, u \in us : Class[asked[t]] = Class[asked[u]]

\* Of threads that are stuck over several classes, some hold what the others
\* of any one class wait for.
LEMMA HeldUnderOther ==
  ASSUME RecordInv, NEW ts \in SUBSET Workers, Stuck(ts),
         ~StuckInOne(ts),
         NEW t \in ts
  PROVE  \E w \in ts : \E p \in 1..Len(lockStack[w]) :
            names[lockStack[w][p]] = Class[asked[t]] /\ Class[asked[w]] # Class[asked[t]]
<1> DEFINE us == {u \in ts : Class[asked[u]] = Class[asked[t]]}
<1>1. us \in SUBSET ts /\ us # {} /\ \A v, u \in us : Class[asked[v]] = Class[asked[u]]
  OBVIOUS
<1>2. ~Stuck(us)
  BY <1>1 DEF StuckInOne
<1>3. \A u \in ts : asked[u] # Nobody /\ \E w \in ts \ {u} : Contains(guards[w], asked[u])
  BY DEF Stuck
<1>4. PICK u \in us : ~\E w \in us \ {u} : Contains(guards[w], asked[u])
  BY <1>1, <1>2, <1>3 DEF Stuck
<1>5. PICK w \in ts \ {u} : Contains(guards[w], asked[u])
  BY <1>3
<1>6. w \notin us
  BY <1>4, <1>5
<1>7. Class[asked[w]] # Class[asked[t]] /\ Class[asked[u]] = Class[asked[t]]
  BY <1>5, <1>6
<1>8. PICK p \in 1..Len(guards[w]) : guards[w][p] = asked[u]
  BY <1>5 DEF Contains
<1>9. StackOK(w) /\ StacksOK /\ asked[w] # Nobody
  BY <1>3, <1>5 DEF RecordInv
<1>10. names[lockStack[w][p]] = Class[guards[w][p]] /\ p \in 1..Len(lockStack[w])
  <2>1. Len(guards[w]) \in Nat /\ Len(lockStack[w]) = Len(guards[w]) + 1
    BY <1>5, <1>9 DEF StackOK, StacksOK
  <2> QED
    BY <1>9, <2>1 DEF StackOK
<1> QED
  BY <1>5, <1>7, <1>8, <1>10

\* A deadlock over several classes has closed a cycle, which the profiler has
\* ended the process for when the last pair of it was announced.
THEOREM ProfilerForeseesDeadlocks == ProfilerSpec => []DeadlocksForeseen
<1>1. ASSUME RecordInv, NEW ts \in SUBSET Workers, Stuck(ts),
             ~StuckInOne(ts)
      PROVE  FALSE
  <2> DEFINE S == {i \in Ids : \E w \in ts : \E p \in 1..Len(lockStack[w]) :
                                  lockStack[w][p] = i /\ names[i] # Class[asked[w]]}
  <2>1. NamesOK /\ StacksOK /\ RecordOK /\ \A w \in ts : asked[w] # Nobody
    BY <1>1 DEF RecordInv, Stuck
  <2>2. ASSUME NEW w \in ts, NEW p \in 1..Len(lockStack[w]) PROVE lockStack[w][p] \in Ids
    BY <2>1, <2>2 DEF StacksOK
  <2>3. ASSUME NEW t \in ts PROVE \E i \in S : names[i] = Class[asked[t]]
    <3>1. PICK w \in ts : \E p \in 1..Len(lockStack[w]) :
             names[lockStack[w][p]] = Class[asked[t]] /\ Class[asked[w]] # Class[asked[t]]
      BY <1>1, HeldUnderOther
    <3>2. PICK p \in 1..Len(lockStack[w]) :
             names[lockStack[w][p]] = Class[asked[t]] /\ Class[asked[w]] # Class[asked[t]]
      BY <3>1
    <3>3. lockStack[w][p] \in S
      BY <2>2, <3>2
    <3> HIDE DEF S
    <3> QED
      BY <3>2, <3>3
  <2>4. S # {}
    <3>1. PICK t \in ts : TRUE
      BY <1>1 DEF Stuck
    <3> HIDE DEF S
    <3> QED
      BY <2>3
  <2>5. ASSUME NEW i \in S PROVE \E j \in S : <<i, j>> \in Known
    <3>0. PICK w \in ts : \E p \in 1..Len(lockStack[w]) : lockStack[w][p] = i /\ names[i] # Class[asked[w]]
      OBVIOUS
    <3>1. PICK p \in 1..Len(lockStack[w]) : lockStack[w][p] = i /\ names[i] # Class[asked[w]]
      BY <3>0
    <3>2. PICK m \in 1..Len(lockStack[w]) :
             m + 1 \in 1..Len(lockStack[w]) /\ <<i, lockStack[w][m + 1]>> \in Known
      BY <1>1, <2>1, <3>1, WaitsOverKnown
    <3>3. PICK j \in Ids : j = lockStack[w][m + 1]
      BY <2>2, <3>2
    <3>4. CASE names[j] # Class[asked[w]]
      BY <3>2, <3>3, <3>4
    <3>5. CASE names[j] = Class[asked[w]]
      <4>1. PICK k \in S : names[k] = Class[asked[w]]
        BY <2>3
      <4>2. k = j
        BY <2>1, <3>5, <4>1 DEF NamesOK
      <4> QED
        BY <3>2, <3>3, <4>1, <4>2
    <3> QED
      BY <3>4, <3>5
  <2>6. S \in SUBSET Ids
    OBVIOUS
  <2> HIDE DEF S
  <2> QED
    BY <2>1, <2>4, <2>5, <2>6 DEF RecordOK, CyclicIn
<1>2. RecordInv => DeadlocksForeseen
  BY <1>1 DEF DeadlocksForeseen, StuckInOne
<1> QED
  BY <1>2, ProfilerInvariant, PTL

\* PopLock finds what the guard announced on top of its thread's stack: neither
\* of its two checks fails.
THEOREM UnlocksMatch == ProfilerSpec => [](ended # "unlock")
<1>1. RecordInv => ended # "unlock"
  BY DEF RecordInv, WalkerOK
<1> QED
  BY <1>1, ProfilerInvariant, PTL

\* The loop that prints a cycle goes up the calls of Dfs, and so comes to its end.
THEOREM LoopGoesUp == ProfilerSpec => [][GoUp => order[now'] < order[now]]_profilerVars
<1>1. ASSUME RecordInv, WalkInv, GoUp PROVE order[now'] < order[now]
  <2>1. walker # Nobody /\ WalkTypes /\ DiscoveredOK /\ CallsOK /\ UpOK
    BY <1>1 DEF WalkInv, GoUp
  <2>2. PICK k \in 1..Len(calls) : \E m \in 1..Len(calls) : m < k /\ calls[k] = now
    BY <1>1, <2>1 DEF UpOK, GoUp
  <2>3. k - 1 \in 1..Len(calls) /\ k - 1 \in 1..(Len(calls) - 1) /\ (k - 1) + 1 = k /\ k - 1 < k
    BY <2>1, <2>2, CallsFacts
  <2>4. parent[calls[(k - 1) + 1]] = calls[k - 1]
    BY <2>1, <2>3 DEF CallsOK
  <2>5. now' = calls[k - 1]
    BY <1>1, <2>2, <2>3, <2>4 DEF GoUp
  <2> QED
    BY <2>1, <2>2, <2>3, <2>5 DEF CallsOK
<1>2. RecordInv /\ WalkInv /\ [ProfilerNext]_profilerVars => [GoUp => order[now'] < order[now]]_profilerVars
  BY <1>1
<1> QED
  BY <1>2, ProfilerInvariant, PTL DEF ProfilerSpec
=============================================================================
