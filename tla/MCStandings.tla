----------------------------- MODULE MCStandings -----------------------------
(* Four teams: ties of two, with and without a game between them, of three  *)
(* and of four, and two groups at once.                                      *)
EXTENDS Standings
CONSTANTS c1, c2
MCClients == {c1, c2}
MCTeams == 1..4
MCFixtures == {<<1, 2>>, <<2, 3>>, <<3, 4>>}
MCScores == {<<0, 0>>, <<1, 0>>, <<0, 1>>}
Symmetry == Permutations(MCClients)
=============================================================================
