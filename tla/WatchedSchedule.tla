-------------------------- MODULE WatchedSchedule --------------------------
(***************************************************************************)
(* Schedule under observation: what generate, updateStatus and the team    *)
(* calls promise of each other holds as long as no two requests overlap,   *)
(* and overlapped remembers whether that has happened yet.                 *)
(***************************************************************************)
EXTENDS Schedule

VARIABLE overlapped

Overlapping == \E c, d \in Clients : c # d /\ call[c] # Idle /\ call[d] # Idle

WatchedInit == Init /\ overlapped = FALSE
WatchedNext == Next /\ overlapped' = (overlapped \/ Overlapping')
WatchedSpec == WatchedInit /\ [][WatchedNext]_<<vars, overlapped>>

\* Until requests overlap, and wherever one dies, the season holds the matches
\* of one call of generate only, so no fixture is there twice.
\* "Delete ALL existing matches for this season (clean slate)"
\* (scheduling.service.ts:78).
CleanSlateUntilOverlap == ~overlapped => CleanSlate

\* Until requests overlap, a match is created for teams that are APPROVED then.
\* "Only approved teams are eligible for official league scheduling"
\* (scheduling.service.ts:63).
ScheduledTeamsAreApproved ==
    [][\A m \in matches' :
        ~overlapped' /\ m.batch \notin {n.batch : n \in matches}
            => {m.home, m.away} \subseteq Approved]_vars

\* Until requests overlap, no team leaves a season that has started
\* (season.service.ts:441, "only while the season is upcoming").
NoTeamLeavesStartedSeason ==
    [][~overlapped' /\ seasonStatus # "UPCOMING" =>
        \A team \in TeamIds : teams[team] # "NONE" => teams'[team] # "NONE"]_vars
=============================================================================
