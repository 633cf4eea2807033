-------------------------- MODULE MCDeadLockProfiler --------------------------
(* The instance of DeadLockProfiler that TLC checks.                          *)
EXTENDS DeadLockProfiler, TLC

CONSTANTS a1, a2, b, c

\* Two rooms, a session and the service, say.
LockClass == (a1 :> "A") @@ (a2 :> "A") @@ (b :> "B") @@ (c :> "C")

Symmetry == Permutations(Workers) \cup Permutations({a1, a2})
=============================================================================
