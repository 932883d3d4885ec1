----------------------------- MODULE MCInvitations -----------------------------
(* Two top teams or fewer, one promoted slot: every list of the code is cut. *)
EXTENDS Invitations, TLC
CONSTANTS c1, c2, t1, t2, t3
MCClients == {c1, c2}
MCTeams == {t1, t2, t3}
MCTop == {t1}
Symmetry == Permutations(MCClients) \cup Permutations(MCTeams \ MCTop)
=============================================================================
