------------------------------ MODULE MCMatch ------------------------------
(* Small instances of Match for TLC. *)
EXTENDS Match, TLC

Body(type, team) == [type |-> type, team |-> team]

\* A goal, an own goal and a card of the home team: both sides can score.
HomeBodies == {Body("GOAL", "home"), Body("OWN_GOAL", "home"), Body("YELLOW_CARD", "home")}
OneGoal == {Body("GOAL", "home")}

RaceEndpoints == {"updateStatus", "submitLineup", "reviewLineup", "assignOfficial",
                  "removeAssignment", "submitDisciplineReport"}
SerialEndpoints == RaceEndpoints \cup {"updateMatch", "publish", "submitMatchReport"}
ScoreEndpoints == {"updateMatch", "addEvent", "updateEvent", "removeEvent",
                   "submitMatchReport"}
AdminOnly == {Admin}
AdminAndOfficials == {Admin} \cup Officials
SomeRoles == {"MAIN_REFEREE", "SUPERVISOR"}

\* A later start for the races on the way to FINISHED: a new match whose
\* report an admin has already entered, as submitMatchReport allows.
ReportedInit ==
    /\ status = "DRAFT"
    /\ score = [side \in Sides |-> 0] /\ scoreSource = "REFEREE"
    /\ events = [i \in EventIds |-> Null] /\ created = 0
    /\ lineups = [side \in Sides |-> "NONE"]
    /\ assigned = {} /\ discipline = Null
    /\ report = [score |-> [side \in Sides |-> 0], by |-> Admin]
    /\ call = [c \in Clients |-> Idle]
    /\ approvedEver = {} /\ rolesEver = {}

ReportedSpec == ReportedInit /\ [][Next]_vars

OfficialSymmetry == Permutations(Officials)
ClientSymmetry == Permutations(Clients) \cup OfficialSymmetry
=============================================================================
