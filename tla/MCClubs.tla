-------------------------------- MODULE MCClubs --------------------------------
(* Two clubs, two managers and three players, of which two fill a squad. *)
EXTENDS Clubs, TLC
CONSTANTS c1, c2, m1, m2, t1, t2, p1, p2, p3, r1, r2
MCClients == {c1, c2}
MCManagers == {m1, m2}
MCTeams == {t1, t2}
MCPlayers == {p1, p2, p3}
MCRequestIds == {r1, r2}
MCDesks == {"management", "squads"}
Symmetry == Permutations(MCClients) \cup Permutations(MCManagers) \cup Permutations(MCTeams)
              \cup Permutations(MCPlayers) \cup Permutations(MCRequestIds)
=============================================================================
