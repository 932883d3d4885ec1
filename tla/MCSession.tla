------------------------------ MODULE MCSession ------------------------------
(* A small instance of Session.                                            *)
EXTENDS Session
CONSTANTS q1, q2, s1, s2
MCRequests == {q1, q2}
MCSessions == {s1, s2}
=============================================================================
