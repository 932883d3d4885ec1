------------------------------- MODULE Match -------------------------------
(***************************************************************************)
(* One match row and the rows that hang off it: score, events, the two     *)
(* lineup registrations, the officials' assignments, the referee's report  *)
(* and the supervisor's report, as match.service.ts, match-lineup.service  *)
(* and match-official.service.ts of apps/api/src change them.              *)
(*                                                                         *)
(* A handler is an async function that awaits one SQL statement after the  *)
(* other and opens no transaction, so each action below is one statement   *)
(* that reads or writes a row another request may write; call[c] holds     *)
(* what the handler has kept in its local variables between two of them.   *)
(* A handler that throws before its first write changes nothing; it is an  *)
(* action that is not taken, or a step back to Idle.                       *)
(*                                                                         *)
(* The card half of the event handlers (one red card per player, the       *)
(* suspension sync) and the roster checks of submitLineup touch other      *)
(* tables and are left out here: they add no write to the rows above.      *)
(***************************************************************************)
EXTENDS Integers, FiniteSets, Sequences

CONSTANTS
    Clients,          \* the HTTP requests that may be in flight together
    Endpoints,        \* the endpoints the clients call (all of them, or a workload)
    Officials,        \* rows of officials; createOfficial makes every one ACTIVE
    AssignedRoles,    \* the match roles assignOfficial is called with
    Reporters,        \* the accounts that call submitMatchReport
    EventInputs,      \* the event bodies clients send: [type, team] records
    MaxEvents,        \* bound: event rows ever created
    MaxScore,         \* bound: the largest score in a request body
    MaxReportEvents,  \* bound: events in one report body
    MayFail,          \* TRUE: a request may die between two statements
    Null, Undefined   \* SQL NULL / JS null, and a field absent from a body

Sides == {"home", "away"}
Teams == Sides \cup {"other"}      \* teamId is any team: no handler compares it
Statuses == {"DRAFT", "PUBLISHED", "LOCKED", "FINISHED", "POSTPONED"}
GoalTypes == {"GOAL", "OWN_GOAL", "PENALTY"}
EventTypes == GoalTypes \cup {"PENALTY_MISS", "YELLOW_CARD", "RED_CARD", "SUBSTITUTION"}
RefereeRoles == {"MAIN_REFEREE", "ASSISTANT_REFEREE", "FOURTH_OFFICIAL"}
Roles == RefereeRoles \cup {"SUPERVISOR"}
Verdicts == {"APPROVED", "REJECTED"}
Admin == "ADMIN"

Reports == [score : [Sides -> Nat], by : Reporters]
Rows == [type : EventTypes, team : Teams, source : {"MANUAL", "MATCH_REPORT"}]

ASSUME MatchAssumption ==
    /\ EventInputs \subseteq [type : EventTypes, team : Teams]
    /\ AssignedRoles \subseteq Roles
    /\ Reporters \subseteq Officials \cup {Admin}
    /\ MaxEvents \in Nat /\ MaxScore \in Nat /\ MaxReportEvents \in Nat
    /\ MayFail \in BOOLEAN
    /\ Null \notin Nat /\ Undefined \notin Nat /\ Null # Undefined
    /\ Admin \notin Officials /\ Null \notin Officials /\ Null \notin Reports \cup Rows

MATCH_STATUS_TRANSITIONS ==
    [DRAFT     |-> {"PUBLISHED", "POSTPONED"},
     PUBLISHED |-> {"LOCKED", "POSTPONED"},
     LOCKED    |-> {"FINISHED"},
     FINISHED  |-> {},
     POSTPONED |-> {"DRAFT"}]

VARIABLES
    status,        \* matches.status
    score,         \* matches.home_score, away_score
    scoreSource,   \* matches.score_source
    events,        \* match_events, by id; Null where there is no row
    created,       \* ids handed out so far: a deleted id is never reused
    lineups,       \* match_team_registrations.status of each side, or "NONE"
    assigned,      \* match_official_assignments
    report,        \* match_reports: Null, or the row
    discipline,    \* discipline_reports: Null, or the supervisor who signed
    call,          \* the local state of each request
    approvedEver,  \* history: sides whose lineup has been approved
    rolesEver      \* history: roles that have been assigned

rows == <<status, score, scoreSource, events, created, lineups, assigned,
          report, discipline, approvedEver, rolesEver>>
vars == <<rows, call>>

Scores == [Sides -> Nat \cup {Null}]
EventIds == 1..MaxEvents
EventBodies == [type : EventTypes, team : Teams]
EventLists == UNION {[1..n -> EventInputs] : n \in 0..MaxReportEvents}
ReportBodies == [score : [Sides -> 0..MaxScore], events : EventLists \cup {Undefined}]
ScorePatches == [Sides -> (0..MaxScore) \cup {Null, Undefined}]

Idle == [at |-> "idle"]
Goto(c, next) == call' = [call EXCEPT ![c] = next]
Reply(c) == Goto(c, Idle)
Starts(c, endpoint) == endpoint \in Endpoints /\ call[c] = Idle
At(c, label) == call[c].at = label

-----------------------------------------------------------------------------
(* Scores from events.                                                     *)

IsGoal(type) == type \in GoalTypes
Opposite(side) == IF side = "home" THEN "away" ELSE "home"

\* recalculateScore compares the event's team with the home team only, so
\* every other team counts as the away team.
RecalculatedSide(row) ==
    LET scoring == IF row.team = "home" THEN "home" ELSE "away"
    IN  IF row.type = "OWN_GOAL" THEN Opposite(scoring) ELSE scoring

\* calculateEventScore credits nobody when the team is neither of the two.
ReportedSide(row) ==
    IF row.team \notin Sides THEN Null
    ELSE IF row.type = "OWN_GOAL" THEN Opposite(row.team) ELSE row.team

Live == {i \in EventIds : events[i] # Null}
ReportRows == {i \in Live : events[i].source = "MATCH_REPORT"}

recalculateScore ==
    [side \in Sides |-> Cardinality({i \in Live :
        IsGoal(events[i].type) /\ RecalculatedSide(events[i]) = side})]

\* list is a sequence of bodies or the table itself, ids its indices.
calculateEventScore(list, ids) ==
    [side \in Sides |-> Cardinality({i \in ids :
        IsGoal(list[i].type) /\ ReportedSide(list[i]) = side})]

-----------------------------------------------------------------------------
(* PATCH /matches/:id/status                                               *)

\* Mutants: a gate that is not asked for.
QueriesButLineups(to) ==
    CASE to = "LOCKED"   -> {"referees", "supervisors", "roles"}
      [] to = "FINISHED" -> {"matchReport", "disciplineReport"}
      [] OTHER           -> {}

QueriesButDiscipline(to) ==
    CASE to = "LOCKED"   -> {"lineups", "referees", "supervisors", "roles"}
      [] to = "FINISHED" -> {"matchReport"}
      [] OTHER           -> {}

\* The queries of assertCanLockMatch and of assertCanFinishMatch run under
\* Promise.all: they answer in any order, each on the rows of its moment.
Queries(to) ==
    CASE to = "LOCKED"   -> {"lineups", "referees", "supervisors", "roles"}
      [] to = "FINISHED" -> {"matchReport", "disciplineReport"}
      [] OTHER           -> {}

HasRole(role) == \E o \in Officials : [official |-> o, role |-> role] \in assigned

Answer(query) ==
    CASE query = "lineups"     -> \A side \in Sides : lineups[side] = "APPROVED"
      [] query = "referees"    -> \E role \in RefereeRoles : HasRole(role)
      [] query = "supervisors" -> HasRole("SUPERVISOR")
      [] query = "roles"       -> \A a, b \in assigned :
                                    a.role = "SUPERVISOR" /\ b.role \in RefereeRoles
                                        => a.official # b.official
      [] query = "matchReport"      -> report # Null
      [] query = "disciplineReport" -> discipline # Null

UpdateStatusBegin(c, to) ==
    /\ Starts(c, "updateStatus")
    /\ to \in MATCH_STATUS_TRANSITIONS[status]
    /\ to = "FINISHED" => \A side \in Sides : score[side] # Null
    /\ Goto(c, [at |-> "updateStatus", to |-> to, todo |-> Queries(to)])
    /\ UNCHANGED rows

UpdateStatusQuery(c, query) ==
    /\ At(c, "updateStatus") /\ query \in call[c].todo
    /\ IF Answer(query)
       THEN Goto(c, [call[c] EXCEPT !.todo = @ \ {query}])
       ELSE Reply(c)
    /\ UNCHANGED rows

UpdateStatusWrite(c) ==
    /\ At(c, "updateStatus") /\ call[c].todo = {}
    /\ status' = call[c].to
    /\ Reply(c)
    /\ UNCHANGED <<score, scoreSource, events, created, lineups, assigned,
                   report, discipline, approvedEver, rolesEver>>

\* POST /schedule/publish, as far as it concerns this match: one updateMany of
\* the DRAFT rows.
PublishSchedule ==
    /\ "publish" \in Endpoints
    /\ status = "DRAFT" /\ status' = "PUBLISHED"
    /\ UNCHANGED <<score, scoreSource, events, created, lineups, assigned,
                   report, discipline, approvedEver, rolesEver, call>>

-----------------------------------------------------------------------------
(* PATCH /matches/:id, the score fields of the body                        *)

\* A mutant: only FINISHED is refused.
UpdateMatchBeginLocked(c, patch) ==
    /\ Starts(c, "updateMatch")
    /\ \E side \in Sides : patch[side] # Undefined
    /\ status # "FINISHED"
    /\ Goto(c, [at |-> "updateMatch", patch |-> patch])
    /\ UNCHANGED rows

UpdateMatchBegin(c, patch) ==
    /\ Starts(c, "updateMatch")
    /\ \E side \in Sides : patch[side] # Undefined
    /\ status \notin {"FINISHED", "LOCKED"}
    /\ Goto(c, [at |-> "updateMatch", patch |-> patch])
    /\ UNCHANGED rows

UpdateMatchWrite(c) ==
    LET patch == call[c].patch
        new == [side \in Sides |-> IF patch[side] = Undefined
                                   THEN score[side] ELSE patch[side]]
    IN  /\ At(c, "updateMatch")
        /\ score' = new
        /\ scoreSource' = IF \A side \in Sides : patch[side] = Null
                          THEN Null ELSE Admin
        /\ IF \A side \in Sides : new[side] # Null
           THEN Goto(c, [at |-> "updateMatch.report", score |-> new])
           ELSE Reply(c)
        /\ UNCHANGED <<status, events, created, lineups, assigned, report,
                       discipline, approvedEver, rolesEver>>

UpdateMatchReport(c) ==
    /\ At(c, "updateMatch.report")
    /\ report' = IF report = Null THEN Null
                 ELSE [report EXCEPT !.score = call[c].score]
    /\ Reply(c)
    /\ UNCHANGED <<status, score, scoreSource, events, created, lineups,
                   assigned, discipline, approvedEver, rolesEver>>

-----------------------------------------------------------------------------
(* POST, PATCH and DELETE /matches/:id/events                              *)

\* Every event handler ends in recalculateScore when a goal is concerned.
AfterEvent(c, goal) ==
    IF goal THEN Goto(c, [at |-> "recalculate"]) ELSE Reply(c)

AddEventBegin(c, body) ==
    /\ Starts(c, "addEvent")
    /\ created < MaxEvents
    /\ status # "FINISHED"
    /\ Goto(c, [at |-> "addEvent", body |-> body])
    /\ UNCHANGED rows

Row(body, source) == [type |-> body.type, team |-> body.team, source |-> source]

AddEventWrite(c) ==
    LET body == call[c].body
    IN  /\ At(c, "addEvent") /\ created < MaxEvents
        /\ created' = created + 1
        /\ events' = [events EXCEPT ![created + 1] = Row(body, "MANUAL")]
        /\ AfterEvent(c, IsGoal(body.type))
        /\ UNCHANGED <<status, score, scoreSource, lineups, assigned, report,
                       discipline, approvedEver, rolesEver>>

UpdateEventBegin(c, id, body) ==
    /\ Starts(c, "updateEvent")
    /\ id \in Live
    /\ Goto(c, [at |-> "updateEvent.status", id |-> id, body |-> body,
                wasGoal |-> IsGoal(events[id].type)])
    /\ UNCHANGED rows

UpdateEventStatus(c) ==
    /\ At(c, "updateEvent.status")
    /\ IF status # "FINISHED"
       THEN Goto(c, [call[c] EXCEPT !.at = "updateEvent"])
       ELSE Reply(c)
    /\ UNCHANGED rows

\* A mutant: no recalculation for an event that stops being a goal.
UpdateEventWriteNewGoal(c) ==
    LET id == call[c].id
        body == call[c].body
    IN  /\ At(c, "updateEvent") /\ id \in Live
        /\ events' = [events EXCEPT ![id] = Row(body, events[id].source)]
        /\ AfterEvent(c, IsGoal(body.type))
        /\ UNCHANGED <<status, score, scoreSource, created, lineups, assigned,
                       report, discipline, approvedEver, rolesEver>>

\* Updating or deleting a row that has gone is an error of the statement.
UpdateEventWrite(c) ==
    LET id == call[c].id
        body == call[c].body
    IN  /\ At(c, "updateEvent")
        /\ IF id \in Live
           THEN /\ events' = [events EXCEPT ![id] = Row(body, events[id].source)]
                /\ AfterEvent(c, call[c].wasGoal \/ IsGoal(body.type))
           ELSE Reply(c) /\ UNCHANGED events
        /\ UNCHANGED <<status, score, scoreSource, created, lineups, assigned,
                       report, discipline, approvedEver, rolesEver>>

RemoveEventBegin(c, id) ==
    /\ Starts(c, "removeEvent")
    /\ id \in Live
    /\ Goto(c, [at |-> "removeEvent.status", id |-> id,
                wasGoal |-> IsGoal(events[id].type)])
    /\ UNCHANGED rows

RemoveEventStatus(c) ==
    /\ At(c, "removeEvent.status")
    /\ IF status # "FINISHED"
       THEN Goto(c, [call[c] EXCEPT !.at = "removeEvent"])
       ELSE Reply(c)
    /\ UNCHANGED rows

RemoveEventWrite(c) ==
    LET id == call[c].id
    IN  /\ At(c, "removeEvent")
        /\ IF id \in Live
           THEN events' = [events EXCEPT ![id] = Null] /\ AfterEvent(c, call[c].wasGoal)
           ELSE Reply(c) /\ UNCHANGED events
        /\ UNCHANGED <<status, score, scoreSource, created, lineups, assigned,
                       report, discipline, approvedEver, rolesEver>>

\* recalculateScore reads the goals in one statement and writes in another.
RecalculateRead(c) ==
    /\ At(c, "recalculate")
    /\ Goto(c, [at |-> "recalculate.write", score |-> recalculateScore])
    /\ UNCHANGED rows

RecalculateWrite(c) ==
    /\ At(c, "recalculate.write")
    /\ score' = call[c].score
    /\ Reply(c)
    /\ UNCHANGED <<status, scoreSource, events, created, lineups, assigned,
                   report, discipline, approvedEver, rolesEver>>

-----------------------------------------------------------------------------
(* POST /matches/:id/lineups and its review                                *)

\* A mutant: a lineup may be submitted until the match is over.
SubmitLineupBeginLocked(c, side) ==
    /\ Starts(c, "submitLineup")
    /\ status \in {"PUBLISHED", "LOCKED"}
    /\ Goto(c, [at |-> "submitLineup", side |-> side])
    /\ UNCHANGED rows

SubmitLineupBegin(c, side) ==
    /\ Starts(c, "submitLineup")
    /\ status = "PUBLISHED"
    /\ Goto(c, [at |-> "submitLineup", side |-> side])
    /\ UNCHANGED rows

SubmitLineupWrite(c) ==
    /\ At(c, "submitLineup")
    /\ lineups' = [lineups EXCEPT ![call[c].side] = "SUBMITTED"]
    /\ Reply(c)
    /\ UNCHANGED <<status, score, scoreSource, events, created, assigned,
                   report, discipline, approvedEver, rolesEver>>

ReviewLineupBegin(c, side, verdict) ==
    /\ Starts(c, "reviewLineup")
    /\ status # "FINISHED"
    /\ Goto(c, [at |-> "reviewLineup.row", side |-> side, verdict |-> verdict])
    /\ UNCHANGED rows

ReviewLineupRow(c) ==
    /\ At(c, "reviewLineup.row")
    /\ IF lineups[call[c].side] = "SUBMITTED"
       THEN Goto(c, [call[c] EXCEPT !.at = "reviewLineup"])
       ELSE Reply(c)
    /\ UNCHANGED rows

ReviewLineupWrite(c) ==
    LET side == call[c].side
    IN  /\ At(c, "reviewLineup")
        /\ lineups' = [lineups EXCEPT ![side] = call[c].verdict]
        /\ approvedEver' = IF call[c].verdict = "APPROVED"
                           THEN approvedEver \cup {side} ELSE approvedEver
        /\ Reply(c)
        /\ UNCHANGED <<status, score, scoreSource, events, created, assigned,
                       report, discipline, rolesEver>>

-----------------------------------------------------------------------------
(* POST /matches/:id/officials and DELETE of an assignment                 *)

AssignOfficialBegin(c, official, role) ==
    /\ Starts(c, "assignOfficial")
    /\ \A a \in assigned : a.official = official => a.role = role
    /\ Goto(c, [at |-> IF role = "SUPERVISOR" THEN "assignOfficial.count"
                                              ELSE "assignOfficial",
                official |-> official, role |-> role])
    /\ UNCHANGED rows

\* A mutant: nobody counts the supervisors.
AssignOfficialCountNobody(c) ==
    /\ At(c, "assignOfficial.count")
    /\ Goto(c, [call[c] EXCEPT !.at = "assignOfficial"])
    /\ UNCHANGED rows

AssignOfficialCount(c) ==
    /\ At(c, "assignOfficial.count")
    /\ IF HasRole("SUPERVISOR")
       THEN Reply(c)
       ELSE Goto(c, [call[c] EXCEPT !.at = "assignOfficial"])
    /\ UNCHANGED rows

\* An upsert on (match, official, role): a repeated assignment is one row.
AssignOfficialWrite(c) ==
    /\ At(c, "assignOfficial")
    /\ assigned' = assigned \cup {[official |-> call[c].official, role |-> call[c].role]}
    /\ rolesEver' = rolesEver \cup {call[c].role}
    /\ Reply(c)
    /\ UNCHANGED <<status, score, scoreSource, events, created, lineups,
                   report, discipline, approvedEver>>

\* One deleteMany, whatever the status of the match.
RemoveAssignment(a) ==
    /\ "removeAssignment" \in Endpoints
    /\ assigned' = assigned \ {a}
    /\ UNCHANGED <<status, score, scoreSource, events, created, lineups,
                   report, discipline, approvedEver, rolesEver, call>>

-----------------------------------------------------------------------------
(* PUT /matches/:id/discipline-report                                      *)

DisciplineReportBegin(c, supervisor, byAdmin) ==
    /\ Starts(c, "submitDisciplineReport")
    /\ byAdmin \/ discipline = Null
    /\ Goto(c, [at |-> "submitDisciplineReport.assignment", supervisor |-> supervisor])
    /\ UNCHANGED rows

DisciplineReportAssignment(c) ==
    /\ At(c, "submitDisciplineReport.assignment")
    /\ IF [official |-> call[c].supervisor, role |-> "SUPERVISOR"] \in assigned
       THEN Goto(c, [call[c] EXCEPT !.at = "submitDisciplineReport"])
       ELSE Reply(c)
    /\ UNCHANGED rows

DisciplineReportWrite(c) ==
    /\ At(c, "submitDisciplineReport")
    /\ discipline' = call[c].supervisor
    /\ Reply(c)
    /\ UNCHANGED <<status, score, scoreSource, events, created, lineups,
                   assigned, report, approvedEver, rolesEver>>

-----------------------------------------------------------------------------
(* PUT /matches/:id/report                                                 *)

\* A score set by an admin takes precedence over the one in the body.
FinalScore(body) ==
    [side \in Sides |-> IF scoreSource = Admin /\ score[side] # Null
                        THEN score[side] ELSE body.score[side]]

MatchReportBegin(c, by, body) ==
    /\ Starts(c, "submitMatchReport")
    /\ body.events # Undefined => created + Len(body.events) <= MaxEvents
    /\ Goto(c, [at |-> IF by = Admin THEN "submitMatchReport.existing"
                                     ELSE "submitMatchReport.assignment",
                by |-> by, body |-> body,
                adminScoreLocked |-> scoreSource = Admin,
                final |-> FinalScore(body)])
    /\ UNCHANGED rows

MatchReportAssignment(c) ==
    /\ At(c, "submitMatchReport.assignment")
    /\ IF \E role \in RefereeRoles : [official |-> call[c].by, role |-> role] \in assigned
       THEN Goto(c, [call[c] EXCEPT !.at = "submitMatchReport.existing"])
       ELSE Reply(c)
    /\ UNCHANGED rows

\* Once the score is accepted: replace the events, then the match row unless
\* an admin holds the score, then the report row.
AfterEvents(locked) ==
    IF locked THEN "submitMatchReport" ELSE "submitMatchReport.score"

\* A mutant: a referee may replace a report.
MatchReportExistingReplaced(c) ==
    LET body == call[c].body
    IN  /\ At(c, "submitMatchReport.existing")
        /\ IF body.events = Undefined
           THEN Goto(c, [call[c] EXCEPT !.at = "submitMatchReport.events"])
           ELSE IF calculateEventScore(body.events, DOMAIN body.events) = call[c].final
           THEN Goto(c, [call[c] EXCEPT !.at = "submitMatchReport.delete"])
           ELSE Reply(c)
        /\ UNCHANGED rows

MatchReportExisting(c) ==
    LET body == call[c].body
        refused == call[c].by # Admin /\ report # Null
    IN  /\ At(c, "submitMatchReport.existing")
        /\ IF refused THEN Reply(c)
           ELSE IF body.events = Undefined
           THEN Goto(c, [call[c] EXCEPT !.at = "submitMatchReport.events"])
           ELSE IF calculateEventScore(body.events, DOMAIN body.events) = call[c].final
           THEN Goto(c, [call[c] EXCEPT !.at = "submitMatchReport.delete"])
           ELSE Reply(c)
        /\ UNCHANGED rows

MatchReportEvents(c) ==
    /\ At(c, "submitMatchReport.events")
    /\ IF calculateEventScore(events, ReportRows) = call[c].final
       THEN Goto(c, [call[c] EXCEPT !.at = AfterEvents(call[c].adminScoreLocked)])
       ELSE Reply(c)
    /\ UNCHANGED rows

MatchReportDelete(c) ==
    /\ At(c, "submitMatchReport.delete")
    /\ events' = [i \in EventIds |-> IF i \in ReportRows THEN Null ELSE events[i]]
    /\ Goto(c, [call[c] EXCEPT !.at =
                    IF call[c].body.events = <<>>
                    THEN AfterEvents(call[c].adminScoreLocked)
                    ELSE "submitMatchReport.create"])
    /\ UNCHANGED <<status, score, scoreSource, created, lineups, assigned,
                   report, discipline, approvedEver, rolesEver>>

MatchReportCreate(c) ==
    LET list == call[c].body.events
    IN  /\ At(c, "submitMatchReport.create")
        /\ created + Len(list) <= MaxEvents
        /\ created' = created + Len(list)
        /\ events' = [i \in EventIds |->
                        IF i \in created + 1 .. created + Len(list)
                        THEN Row(list[i - created], "MATCH_REPORT") ELSE events[i]]
        /\ Goto(c, [call[c] EXCEPT !.at = AfterEvents(call[c].adminScoreLocked)])
        /\ UNCHANGED <<status, score, scoreSource, lineups, assigned, report,
                       discipline, approvedEver, rolesEver>>

MatchReportScore(c) ==
    /\ At(c, "submitMatchReport.score")
    /\ score' = call[c].body.score
    /\ scoreSource' = "REFEREE"
    /\ Goto(c, [call[c] EXCEPT !.at = "submitMatchReport"])
    /\ UNCHANGED <<status, events, created, lineups, assigned, report,
                   discipline, approvedEver, rolesEver>>

MatchReportWrite(c) ==
    /\ At(c, "submitMatchReport")
    /\ report' = [score |-> call[c].final, by |-> call[c].by]
    /\ Reply(c)
    /\ UNCHANGED <<status, score, scoreSource, events, created, lineups,
                   assigned, discipline, approvedEver, rolesEver>>

-----------------------------------------------------------------------------

\* The process restarts or the database refuses a statement: the request is
\* gone, and what it has written so far stays.
Fail(c) ==
    /\ MayFail /\ call[c] # Idle
    /\ Reply(c)
    /\ UNCHANGED rows

Init ==
    /\ status = "DRAFT"
    /\ score = [side \in Sides |-> Null] /\ scoreSource = Null
    /\ events = [i \in EventIds |-> Null] /\ created = 0
    /\ lineups = [side \in Sides |-> "NONE"]
    /\ assigned = {} /\ report = Null /\ discipline = Null
    /\ call = [c \in Clients |-> Idle]
    /\ approvedEver = {} /\ rolesEver = {}

StatusStep(c) ==
    \/ \E to \in Statuses : UpdateStatusBegin(c, to)
    \/ \E query \in Queries("LOCKED") \cup Queries("FINISHED") : UpdateStatusQuery(c, query)
    \/ UpdateStatusWrite(c)

ScoreStep(c) ==
    \/ \E patch \in ScorePatches : UpdateMatchBegin(c, patch)
    \/ UpdateMatchWrite(c)
    \/ UpdateMatchReport(c)

EventStep(c) ==
    \/ \E body \in EventInputs : AddEventBegin(c, body)
    \/ AddEventWrite(c)
    \/ \E id \in EventIds, body \in EventInputs : UpdateEventBegin(c, id, body)
    \/ UpdateEventStatus(c)
    \/ UpdateEventWrite(c)
    \/ \E id \in EventIds : RemoveEventBegin(c, id)
    \/ RemoveEventStatus(c)
    \/ RemoveEventWrite(c)
    \/ RecalculateRead(c)
    \/ RecalculateWrite(c)

LineupStep(c) ==
    \/ \E side \in Sides : SubmitLineupBegin(c, side)
    \/ SubmitLineupWrite(c)
    \/ \E side \in Sides, verdict \in Verdicts : ReviewLineupBegin(c, side, verdict)
    \/ ReviewLineupRow(c)
    \/ ReviewLineupWrite(c)

OfficialStep(c) ==
    \/ \E o \in Officials, role \in AssignedRoles : AssignOfficialBegin(c, o, role)
    \/ AssignOfficialCount(c)
    \/ AssignOfficialWrite(c)
    \/ \E o \in Officials, byAdmin \in BOOLEAN : DisciplineReportBegin(c, o, byAdmin)
    \/ DisciplineReportAssignment(c)
    \/ DisciplineReportWrite(c)

ReportStep(c) ==
    \/ \E by \in Reporters, body \in ReportBodies : MatchReportBegin(c, by, body)
    \/ MatchReportAssignment(c)
    \/ MatchReportExisting(c)
    \/ MatchReportEvents(c)
    \/ MatchReportDelete(c)
    \/ MatchReportCreate(c)
    \/ MatchReportScore(c)
    \/ MatchReportWrite(c)

Next ==
    \/ \E c \in Clients :
        \/ StatusStep(c) \/ ScoreStep(c) \/ EventStep(c)
        \/ LineupStep(c) \/ OfficialStep(c) \/ ReportStep(c)
        \/ Fail(c)
    \/ \E a \in assigned : RemoveAssignment(a)
    \/ PublishSchedule

Spec == Init /\ [][Next]_vars

-----------------------------------------------------------------------------
(* Properties.                                                             *)

Calls ==
    {Idle}
    \cup [at : {"updateStatus"}, to : Statuses,
          todo : SUBSET (Queries("LOCKED") \cup Queries("FINISHED"))]
    \cup [at : {"updateMatch"}, patch : ScorePatches]
    \cup [at : {"updateMatch.report"}, score : [Sides -> Nat]]
    \cup [at : {"addEvent"}, body : EventInputs]
    \cup [at : {"updateEvent.status", "updateEvent"}, id : EventIds,
          body : EventInputs, wasGoal : BOOLEAN]
    \cup [at : {"removeEvent.status", "removeEvent"}, id : EventIds, wasGoal : BOOLEAN]
    \cup [at : {"recalculate"}]
    \cup [at : {"recalculate.write"}, score : [Sides -> Nat]]
    \cup [at : {"submitLineup"}, side : Sides]
    \cup [at : {"reviewLineup.row", "reviewLineup"}, side : Sides, verdict : Verdicts]
    \cup [at : {"assignOfficial.count", "assignOfficial"}, official : Officials,
          role : Roles]
    \cup [at : {"submitDisciplineReport.assignment", "submitDisciplineReport"},
          supervisor : Officials]
    \cup [at : {"submitMatchReport.assignment", "submitMatchReport.existing",
                "submitMatchReport.events", "submitMatchReport.score",
                "submitMatchReport"},
          by : Reporters, body : ReportBodies,
          adminScoreLocked : BOOLEAN, final : [Sides -> Nat]]
    \cup [at : {"submitMatchReport.delete", "submitMatchReport.create"},
          by : Reporters, body : {body \in ReportBodies : body.events # Undefined},
          adminScoreLocked : BOOLEAN, final : [Sides -> Nat]]

\* Every row has a value the schema allows and every request is at one of its
\* awaits with the local variables it has there (schema.prisma, the handlers).
TypeOK ==
    /\ status \in Statuses
    /\ score \in Scores /\ scoreSource \in {Admin, "REFEREE", Null}
    /\ events \in [EventIds -> Rows \cup {Null}] /\ created \in 0..MaxEvents
    /\ lineups \in [Sides -> {"NONE", "SUBMITTED", "APPROVED", "REJECTED"}]
    /\ assigned \subseteq [official : Officials, role : Roles]
    /\ report \in Reports \cup {Null} /\ discipline \in Officials \cup {Null}
    /\ call \in [Clients -> Calls]
    /\ approvedEver \subseteq Sides /\ rolesEver \subseteq Roles

\* A match is FINISHED only with both reports on file, whatever the requests
\* that race with the one that finished it and wherever one of them dies:
\* assertCanFinishMatch checks them long before the write, unguarded.
FinishedHasReports ==
    status = "FINISHED" => report # Null /\ discipline # Null

\* What assertCanLockMatch looks for has been there at one time or another.
WasReady ==
    /\ approvedEver = Sides
    /\ "SUPERVISOR" \in rolesEver
    /\ rolesEver \cap RefereeRoles # {}

\* A match that is LOCKED or FINISHED has had both lineups approved and a
\* referee and a supervisor assigned, however assertCanLockMatch interleaves
\* with the review of lineups and the removal of assignments.
LockedWasReady == status \in {"LOCKED", "FINISHED"} => WasReady

GatesPassed(c) ==
    /\ call[c].to = "LOCKED" =>
        /\ "lineups" \notin call[c].todo => approvedEver = Sides
        /\ "supervisors" \notin call[c].todo => "SUPERVISOR" \in rolesEver
        /\ "referees" \notin call[c].todo => rolesEver \cap RefereeRoles # {}
    /\ call[c].to = "FINISHED" =>
        /\ WasReady
        /\ "matchReport" \notin call[c].todo => report # Null
        /\ "disciplineReport" \notin call[c].todo => discipline # Null

\* An update of the status that is under way: the gates it has passed so far
\* stay passed, since no row it has looked for is ever unwritten from history.
GateInv ==
    /\ LockedWasReady /\ FinishedHasReports
    /\ \A side \in Sides : lineups[side] = "APPROVED" => side \in approvedEver
    /\ \A a \in assigned : a.role \in rolesEver
    /\ \A c \in Clients : At(c, "updateStatus") => GatesPassed(c)

Quiet == \A c \in Clients : call[c] = Idle

\* One request at a time: a LOCKED or FINISHED match has both lineups
\* APPROVED as they stand now, not only at the time of the check
\* (submitLineup needs PUBLISHED, reviewLineup a SUBMITTED row).
LockedLineupsApproved ==
    status \in {"LOCKED", "FINISHED"} => \A side \in Sides : lineups[side] = "APPROVED"

\* One request at a time: a match has at most one supervisor and an official
\* at most one role in it. No unique index says so: the two checks of
\* assignOfficial do (match-official.service.spec.ts:219 and :232).
OfficialsHaveOneRole ==
    \A a, b \in assigned :
        /\ a.role = "SUPERVISOR" /\ b.role = "SUPERVISOR" => a = b
        /\ a.official = b.official => a = b

\* One request at a time and none that died: between requests the score of a
\* match that no admin has set is what its events add up to: all of them
\* after an event request, those of the report after a report.
ScoreFollowsEvents ==
    Quiet =>
        \/ scoreSource = Admin
        \/ scoreSource = Null /\ \A side \in Sides : score[side] = Null
        \/ score = recalculateScore
        \/ scoreSource = "REFEREE" /\ score = calculateEventScore(events, ReportRows)

\* One request at a time: once a report is on file only an admin replaces its
\* author, so a referee's report is submitted once
\* (match-official.service.spec.ts:568).
RefereeReportsOnce ==
    [][report # Null /\ report'.by # report.by => report'.by = Admin]_vars

Lifecycle == INSTANCE MatchLifecycle WITH
    lineupsApproved <- \A side \in Sides : lineups[side] = "APPROVED",
    scored          <- \A side \in Sides : score[side] # Null,
    reported        <- report # Null /\ discipline # Null

\* One request at a time, the handlers implement the lifecycle of
\* MatchLifecycle: the status moves along MATCH_STATUS_TRANSITIONS only, each
\* gate holds at the moment the status is written, and behind a lock lineups
\* and scores no longer fall back.
ImplementsLifecycle == Lifecycle!Spec
=============================================================================
