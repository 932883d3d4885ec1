---------------------------- MODULE MCRoundRobin ---------------------------
(* The ten teams of the league, registered in forty different orders.      *)
EXTENDS RoundRobin

TenTeams == 1..10
SomeOrders == {[i \in Places |-> ((i * step + start) % TeamCount) + 1] :
                  step \in {1, 3, 7, 9}, start \in Places}
=============================================================================
