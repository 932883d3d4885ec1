------------------------------ MODULE MCAccounts ------------------------------
(* A small instance of Accounts; clients and passwords are interchangeable. *)
EXTENDS Accounts, TLC
CONSTANTS c1, c2, p1, p2
MCClients == {c1, c2}
MCPasswords == {p1, p2}
Symmetry == Permutations(MCClients) \cup Permutations(MCPasswords)
=============================================================================
