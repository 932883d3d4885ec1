------------------------------ MODULE MCSeasons ----------------------------
(* Small instances of Seasons for TLC. *)
EXTENDS Seasons

AllEndpoints == {"create", "update", "delete", "updateStatus", "regulations"}
=============================================================================
