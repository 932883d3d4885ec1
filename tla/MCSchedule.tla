----------------------------- MODULE MCSchedule ----------------------------
(* Small instances of Schedule for TLC.                                    *)
EXTENDS WatchedSchedule, TLC

ScheduleSymmetry == Permutations(Clients) \cup Permutations(TeamIds)
=============================================================================
