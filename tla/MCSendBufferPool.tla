--------------------------- MODULE MCSendBufferPool ---------------------------
(* The instance of SendBufferPool that TLC checks.                            *)
EXTENDS SendBufferPool, TLC

\* Threads, buffers and chunks are only compared with one another.
Symmetry == Permutations(Threads) \cup Permutations(Buffers) \cup Permutations(Chunks)
=============================================================================
