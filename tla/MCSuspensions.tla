--------------------------- MODULE MCSuspensions ---------------------------
(* Small instances of Suspensions for TLC. *)
EXTENDS Suspensions

Body(type, player, team) == [type |-> type, player |-> player, team |-> team]

TwoRounds == [match \in 1..2 |-> [round |-> match, teams |-> {"a", "b"}]]
Two == {"a", "b"}

\* Cards and other events of a player of team "a".
OnePlayer == {Body(type, "p", "a") : type \in EventTypes}
=============================================================================
