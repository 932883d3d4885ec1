----------------------------- MODULE Schedule ------------------------------
(***************************************************************************)
(* One season: its status, the teams registered for it and the match rows  *)
(* that SchedulingService.generate and publish write (scheduling.service   *)
(* and season.service.ts).  As in Match an action is one SQL statement and *)
(* call[c] what the handler keeps between two of them.                     *)
(*                                                                         *)
(* What the loop of generate builds is RoundRobin's subject: here a        *)
(* schedule is what RoundRobin shows it to be, every team at home to every *)
(* other.  The later life of a match is Match's.  Whether a team may be    *)
(* approved (application, roster, stadium) is data of other tables: a      *)
(* refusal is a step that is not taken.                                    *)
(***************************************************************************)
EXTENDS Integers, FiniteSets

CONSTANTS
    Clients,     \* the HTTP requests that may be in flight together
    TeamIds,     \* the teams of the league
    requiredTeamCount,  \* the approved teams a season needs: 10 in the code
    MaxBatches,  \* bound: calls of generate
    MayFail      \* TRUE: a request may die between two statements

ASSUME ScheduleAssumption ==
    /\ requiredTeamCount \in Nat \ {0} /\ MaxBatches \in Nat
    /\ IsFiniteSet(TeamIds)
    /\ MayFail \in BOOLEAN

SEASON_STATUS_TRANSITIONS ==
    [UPCOMING |-> {"IN_PROGRESS"}, IN_PROGRESS |-> {"COMPLETED"}, COMPLETED |-> {}]

SeasonStatuses == DOMAIN SEASON_STATUS_TRANSITIONS
validStatuses == {"REGISTERED", "APPROVED", "REJECTED", "WITHDRAWN"}

VARIABLES
    seasonStatus,  \* seasons.status
    teams,         \* season_teams.status of each team, "NONE" without a row
    matches,       \* the season's match rows
    batches,       \* calls of generate so far; a row knows the one that made it
    call           \* the local state of each request

rows == <<seasonStatus, teams, matches, batches>>
vars == <<rows, call>>

Idle == [at |-> "idle"]
Goto(c, next) == call' = [call EXCEPT ![c] = next]
Reply(c) == Goto(c, Idle)
At(c, label) == call[c].at = label

Approved == {team \in TeamIds : teams[team] = "APPROVED"}

\* The rows generate creates for a set of teams.
DoubleRoundRobin(group, batch) ==
    {[batch |-> batch, home |-> pair[1], away |-> pair[2], status |-> "DRAFT"] :
        pair \in {p \in group \X group : p[1] # p[2]}}

-----------------------------------------------------------------------------
(* POST /schedule/generate and /schedule/publish                           *)

\* Mutants: every team with a row is scheduled; only drafts are deleted.
GenerateBeginAll(c) ==
    LET group == {team \in TeamIds : teams[team] # "NONE"}
    IN  /\ call[c] = Idle /\ batches < MaxBatches
        /\ Cardinality(group) = requiredTeamCount
        /\ batches' = batches + 1
        /\ Goto(c, [at |-> "generate.delete", group |-> group, batch |-> batches + 1])
        /\ UNCHANGED <<seasonStatus, teams, matches>>

GenerateDeleteDrafts(c) ==
    /\ At(c, "generate.delete")
    /\ matches' = {m \in matches : m.status # "DRAFT"}
    /\ Goto(c, [call[c] EXCEPT !.at = "generate"])
    /\ UNCHANGED <<seasonStatus, teams, batches>>

GenerateBegin(c) ==
    /\ call[c] = Idle /\ batches < MaxBatches
    /\ Cardinality(Approved) = requiredTeamCount
    /\ batches' = batches + 1
    /\ Goto(c, [at |-> "generate.delete", group |-> Approved, batch |-> batches + 1])
    /\ UNCHANGED <<seasonStatus, teams, matches>>

GenerateDelete(c) ==
    /\ At(c, "generate.delete")
    /\ matches' = {}
    /\ Goto(c, [call[c] EXCEPT !.at = "generate"])
    /\ UNCHANGED <<seasonStatus, teams, batches>>

GenerateCreate(c) ==
    /\ At(c, "generate")
    /\ matches' = matches \cup DoubleRoundRobin(call[c].group, call[c].batch)
    /\ Reply(c)
    /\ UNCHANGED <<seasonStatus, teams, batches>>

\* A mutant: one row at a time.
PublishOne ==
    /\ \E m \in matches :
        matches' = (matches \ {m}) \cup {[m EXCEPT !.status = "PUBLISHED"]}
    /\ UNCHANGED <<seasonStatus, teams, batches, call>>

\* One updateMany: every DRAFT row is PUBLISHED.
Publish ==
    /\ matches' = {[m EXCEPT !.status = "PUBLISHED"] : m \in matches}
    /\ UNCHANGED <<seasonStatus, teams, batches, call>>

-----------------------------------------------------------------------------
(* The season and its teams                                                *)

UpdateStatusBegin(c, to) ==
    /\ call[c] = Idle
    /\ to \in SEASON_STATUS_TRANSITIONS[seasonStatus]
    /\ Goto(c, [at |-> "updateStatus", to |-> to])
    /\ UNCHANGED rows

UpdateStatusWrite(c) ==
    /\ At(c, "updateStatus")
    /\ seasonStatus' = call[c].to
    /\ Reply(c)
    /\ UNCHANGED <<teams, matches, batches>>

RegisterTeam(team) ==
    /\ teams[team] = "NONE"
    /\ teams' = [teams EXCEPT ![team] = "REGISTERED"]
    /\ UNCHANGED <<seasonStatus, matches, batches, call>>

UpdateTeamStatusBegin(c, team, to) ==
    /\ call[c] = Idle
    /\ teams[team] # "NONE"
    /\ Goto(c, [at |-> "updateTeamStatus", team |-> team, to |-> to])
    /\ UNCHANGED rows

\* Updating or deleting a row that has gone is an error of the statement.
UpdateTeamStatusWrite(c) ==
    LET team == call[c].team
    IN  /\ At(c, "updateTeamStatus")
        /\ teams' = IF teams[team] = "NONE" THEN teams
                    ELSE [teams EXCEPT ![team] = call[c].to]
        /\ Reply(c)
        /\ UNCHANGED <<seasonStatus, matches, batches>>

\* A mutant: whatever the status of the season.
RemoveTeamBeginAnyTime(c, team) ==
    /\ call[c] = Idle
    /\ teams[team] # "NONE"
    /\ Goto(c, [at |-> "removeTeam", team |-> team])
    /\ UNCHANGED rows

RemoveTeamBegin(c, team) ==
    /\ call[c] = Idle
    /\ teams[team] # "NONE" /\ seasonStatus = "UPCOMING"
    /\ Goto(c, [at |-> "removeTeam", team |-> team])
    /\ UNCHANGED rows

RemoveTeamWrite(c) ==
    /\ At(c, "removeTeam")
    /\ teams' = [teams EXCEPT ![call[c].team] = "NONE"]
    /\ Reply(c)
    /\ UNCHANGED <<seasonStatus, matches, batches>>

-----------------------------------------------------------------------------

\* The process restarts or the database refuses a statement: the request is
\* gone, and what it has written so far stays.
Fail(c) ==
    /\ MayFail /\ call[c] # Idle
    /\ Reply(c)
    /\ UNCHANGED rows

Init ==
    /\ seasonStatus = "UPCOMING"
    /\ teams = [team \in TeamIds |-> "NONE"]
    /\ matches = {} /\ batches = 0
    /\ call = [c \in Clients |-> Idle]

Step(c) ==
    \/ GenerateBegin(c) \/ GenerateDelete(c) \/ GenerateCreate(c)
    \/ \E to \in SeasonStatuses : UpdateStatusBegin(c, to)
    \/ UpdateStatusWrite(c)
    \/ \E team \in TeamIds, to \in validStatuses : UpdateTeamStatusBegin(c, team, to)
    \/ UpdateTeamStatusWrite(c)
    \/ \E team \in TeamIds : RemoveTeamBegin(c, team)
    \/ RemoveTeamWrite(c)
    \/ Fail(c)

Next ==
    \/ \E c \in Clients : Step(c)
    \/ Publish
    \/ \E team \in TeamIds : RegisterTeam(team)

Spec == Init /\ [][Next]_vars

-----------------------------------------------------------------------------
(* Properties.                                                             *)

MatchRows == [batch : 1..MaxBatches, home : TeamIds, away : TeamIds,
              status : {"DRAFT", "PUBLISHED"}]

Calls ==
    {Idle}
    \cup [at : {"generate.delete", "generate"}, group : SUBSET TeamIds,
          batch : 1..MaxBatches]
    \cup [at : {"updateStatus"}, to : SeasonStatuses]
    \cup [at : {"updateTeamStatus"}, team : TeamIds, to : validStatuses]
    \cup [at : {"removeTeam"}, team : TeamIds]

\* Every row has a value the schema allows and every request is at one of its
\* awaits with the local variables it has there.
TypeOK ==
    /\ seasonStatus \in SeasonStatuses
    /\ teams \in [TeamIds -> validStatuses \cup {"NONE"}]
    /\ matches \subseteq MatchRows /\ batches \in 0..MaxBatches
    /\ call \in [Clients -> Calls]

BatchRows(batch) == {m \in matches : m.batch = batch}

\* One batch is the whole schedule of a group of teams, published or not.
Whole(batch) ==
    \E group \in SUBSET TeamIds, published \in {"DRAFT", "PUBLISHED"} :
        /\ Cardinality(group) = requiredTeamCount
        /\ BatchRows(batch) = {[m EXCEPT !.status = published] :
                                  m \in DoubleRoundRobin(group, batch)}

\* Whatever the requests that race and wherever one dies, a call of generate
\* leaves all of its matches or none of them, and they are published
\* together: createMany, deleteMany and updateMany are one statement each.
BatchesWhole ==
    \A batch \in 1..MaxBatches : BatchRows(batch) # {} => Whole(batch)

\* The season holds the matches of one call of generate only.
\* "Delete ALL existing matches for this season (clean slate)"
\* (scheduling.service.ts:78).
CleanSlate == \A m, n \in matches : m.batch = n.batch
=============================================================================
