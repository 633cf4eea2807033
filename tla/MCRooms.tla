------------------------------- MODULE MCRooms -------------------------------
(* The instances of Rooms that TLC checks.                                    *)
EXTENDS Rooms, TLC

\* Sessions and rooms are only compared with one another.
Symmetry == Permutations(Sessions) \cup Permutations(Rooms)

\* Some clients are in a room already, as they are once their C_ENTER_GAME has
\* been answered and nobody has asked for anything since.
SettledInit ==
    \E in \in [Sessions -> Rooms \cup {None}] :
        LET there(r) == {s \in Sessions : in[s] = r}
            settled == [r \in Rooms |-> there(r)] IN
        /\ \A r \in Rooms : Cardinality(there(r)) <= MaxPlayers
        /\ members = settled /\ roomId = in
        /\ screen = [s \in Sessions |-> IF in[s] = None THEN Lobby
                                        ELSE [room |-> in[s], roster |-> settled[in[s]]]]
        /\ InitIdle

SettledSpec == SettledInit /\ [][Next]_vars
=============================================================================
