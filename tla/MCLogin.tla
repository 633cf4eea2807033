------------------------------- MODULE MCLogin -------------------------------
(* The instances of Login that TLC checks.                                    *)
EXTENDS Login, TLC

\* Sessions and names are only compared with one another.
Symmetry == Permutations(Sessions) \cup Permutations(Names)
=============================================================================
