------------------------------ MODULE Seasons ------------------------------
(***************************************************************************)
(* The seasons table and the regulations of each season                    *)
(* (season.service.ts, regulation.service.ts).  As in Match an action is   *)
(* one SQL statement, or one transaction, and call[c] is what the handler  *)
(* keeps between two of them.                                              *)
(*                                                                         *)
(* Ids are given out in order of creation, so that id order stands for     *)
(* createdAt order.  Names are left out: a unique index guards them.       *)
(***************************************************************************)
EXTENDS Integers, FiniteSets

CONSTANTS
    Clients,       \* the HTTP requests that may be in flight together
    Endpoints,     \* the endpoints the clients call (all of them, or a workload)
    MaxSeasons,    \* bound: seasons ever created
    Years, Days,   \* the years and dates in request bodies
    Keys, Values,  \* regulation keys and values; every key has a default
    DefaultValue,  \* its value in DEFAULT_REGULATIONS
    StatusInBody,  \* TRUE: bodies of create and update carry a status
    Null, Undefined

SEASON_STATUS_TRANSITIONS ==
    [UPCOMING |-> {"IN_PROGRESS"}, IN_PROGRESS |-> {"COMPLETED"}, COMPLETED |-> {}]
Statuses == DOMAIN SEASON_STATUS_TRANSITIONS

SeasonIds == 1..MaxSeasons

Optional(S) == S \cup {Undefined}
BodyStatuses == IF StatusInBody THEN Optional(Statuses) ELSE {Undefined}
Dates == Days \cup {Null}
Seasons == [year : Years, status : Statuses, startDate : Dates, endDate : Dates]
CreateBodies == [year : Years, status : BodyStatuses, startDate : Dates, endDate : Dates]
UpdateBodies == [year : Optional(Years), status : BodyStatuses,
                 startDate : Optional(Dates), endDate : Optional(Dates)]

ASSUME SeasonsAssumption ==
    /\ MaxSeasons \in Nat
    /\ Years \subseteq Nat /\ Days \subseteq Nat
    /\ DefaultValue \in Values
    /\ StatusInBody \in BOOLEAN
    /\ Null \notin Nat \cup Values \cup Seasons
    /\ Undefined \notin Nat /\ Null # Undefined

VARIABLES
    seasons,      \* the rows by id; Null where there is none
    created,      \* ids given out so far
    regulations,  \* of each season, the value of each key or Null
    call          \* the local state of each request

rows == <<seasons, created, regulations>>
vars == <<rows, call>>

Idle == [at |-> "idle"]
Goto(c, next) == call' = [call EXCEPT ![c] = next]
Reply(c) == Goto(c, Idle)
Starts(c, endpoint) == endpoint \in Endpoints /\ call[c] = Idle
At(c, label) == call[c].at = label
Continue(c, label) == Goto(c, [call[c] EXCEPT !.at = label])

Stored == {id \in SeasonIds : seasons[id] # Null}

\* A field of a body that is absent, or null, leaves what is there.
Given(value, existing) == IF value = Undefined THEN existing ELSE value
OrExisting(value, existing) == IF value \in {Undefined, Null} THEN existing ELSE value

ValidDateRange(start, end) == Null \notin {start, end} => start <= end

-----------------------------------------------------------------------------
(* POST /seasons and PATCH /seasons/:id                                    *)

\* call[c].id is Null for a season that is still to be created.
CreateBegin(c, dto) ==
    /\ Starts(c, "create")
    /\ ValidDateRange(dto.startDate, dto.endDate)
    /\ Goto(c, [at |-> "conflict.year", id |-> Null, dto |-> dto,
                start |-> dto.startDate, end |-> dto.endDate])
    /\ UNCHANGED rows

UpdateBegin(c, id, dto) ==
    LET start == OrExisting(dto.startDate, seasons[id].startDate)
        end   == OrExisting(dto.endDate, seasons[id].endDate)
    IN  /\ Starts(c, "update")
        /\ id \in Stored
        /\ ValidDateRange(start, end)
        /\ Goto(c, [at |-> "conflict.year", id |-> id, dto |-> dto,
                    start |-> start, end |-> end])
        /\ UNCHANGED rows

\* assertSeasonDoesNotConflict: one query for the year, one for the dates.
ConflictYear(c) ==
    /\ At(c, "conflict.year")
    /\ IF \E other \in Stored \ {call[c].id} : seasons[other].year = call[c].dto.year
       THEN Reply(c) ELSE Continue(c, "conflict.dates")
    /\ UNCHANGED rows

Overlaps(season, start, end) ==
    /\ Null \notin {season.startDate, season.endDate, start, end}
    /\ season.startDate <= end /\ season.endDate >= start

\* A mutant: the dates are compared on creation only.
ConflictDatesCreate(c) ==
    /\ At(c, "conflict.dates")
    /\ IF call[c].id = Null /\ \E other \in Stored :
            Overlaps(seasons[other], call[c].start, call[c].end)
       THEN Reply(c)
       ELSE Continue(c, IF call[c].id = Null THEN "create" ELSE "update")
    /\ UNCHANGED rows

ConflictDates(c) ==
    /\ At(c, "conflict.dates")
    /\ IF \E other \in Stored \ {call[c].id} :
            Overlaps(seasons[other], call[c].start, call[c].end)
       THEN Reply(c)
       ELSE Continue(c, IF call[c].id = Null THEN "create" ELSE "update")
    /\ UNCHANGED rows

\* copyCurrentRegulationsToSeason: from the season in progress, else from any
\* other season that has regulations, the latest first; else the defaults.
Latest(ids) == CHOOSE id \in ids : \A other \in ids :
    \/ seasons[other].year < seasons[id].year
    \/ seasons[other].year = seasons[id].year /\ other <= id

CurrentRegulations ==
    LET regulated == {id \in Stored : \E key \in Keys : regulations[id][key] # Null}
        active == {id \in regulated : seasons[id].status = "IN_PROGRESS"}
    IN  IF active # {} THEN regulations[Latest(active)]
        ELSE IF regulated # {} THEN regulations[Latest(regulated)]
        ELSE [key \in Keys |-> DefaultValue]

CreateCommit(c) ==
    LET dto == call[c].dto
        id  == created + 1
    IN  /\ At(c, "create") /\ created < MaxSeasons
        /\ created' = id
        /\ seasons' = [seasons EXCEPT ![id] =
                [dto EXCEPT !.status = Given(dto.status, "UPCOMING")]]
        /\ regulations' = [regulations EXCEPT ![id] = CurrentRegulations]
        /\ Reply(c)

\* Updating a row that has gone is an error of the statement.
UpdateWrite(c) ==
    LET dto == call[c].dto
        id  == call[c].id
    IN  /\ At(c, "update")
        /\ seasons' = IF id \notin Stored THEN seasons ELSE
             [seasons EXCEPT ![id] =
                [field \in DOMAIN dto |-> Given(dto[field], seasons[id][field])]]
        /\ Reply(c)
        /\ UNCHANGED <<created, regulations>>

-----------------------------------------------------------------------------
(* DELETE /seasons/:id and PATCH /seasons/:id/status                       *)

Empty == [key \in Keys |-> Null]

\* The regulations go with their season (onDelete: Cascade).
Delete(id) ==
    /\ "delete" \in Endpoints
    /\ id \in Stored
    /\ seasons' = [seasons EXCEPT ![id] = Null]
    /\ regulations' = [regulations EXCEPT ![id] = Empty]
    /\ UNCHANGED <<created, call>>

UpdateStatusBegin(c, id, to) ==
    /\ Starts(c, "updateStatus")
    /\ id \in Stored
    /\ to \in SEASON_STATUS_TRANSITIONS[seasons[id].status]
    /\ Goto(c, [at |-> IF to = "IN_PROGRESS" THEN "status.active" ELSE "status",
                id |-> id, to |-> to, year |-> seasons[id].year])
    /\ UNCHANGED rows

\* Mutants: no look at the other seasons; those created before stand for those
\* of earlier years.
StatusActiveNever(c) ==
    At(c, "status.active") /\ Continue(c, "status.previous") /\ UNCHANGED rows

StatusPreviousById(c) ==
    /\ At(c, "status.previous")
    /\ IF \E other \in Stored : other < call[c].id /\ seasons[other].status # "COMPLETED"
       THEN Reply(c) ELSE Continue(c, "status")
    /\ UNCHANGED rows

StatusActive(c) ==
    /\ At(c, "status.active")
    /\ IF \E other \in Stored \ {call[c].id} : seasons[other].status = "IN_PROGRESS"
       THEN Reply(c) ELSE Continue(c, "status.previous")
    /\ UNCHANGED rows

StatusPrevious(c) ==
    /\ At(c, "status.previous")
    /\ IF \E other \in Stored \ {call[c].id} :
            seasons[other].year < call[c].year /\ seasons[other].status # "COMPLETED"
       THEN Reply(c) ELSE Continue(c, "status")
    /\ UNCHANGED rows

StatusWrite(c) ==
    LET id == call[c].id
    IN  /\ At(c, "status")
        /\ seasons' = IF id \notin Stored THEN seasons
                      ELSE [seasons EXCEPT ![id].status = call[c].to]
        /\ Reply(c)
        /\ UNCHANGED <<created, regulations>>

-----------------------------------------------------------------------------
(* PUT, PATCH, DELETE and seeding of /seasons/:id/regulations               *)

\* A mutant: rules are refused only when the season is over.
RegulationBeginStarted(c, id, label, key, value) ==
    /\ Starts(c, "regulations")
    /\ id \in Stored /\ seasons[id].status # "COMPLETED"
    /\ Goto(c, [at |-> label, id |-> id, key |-> key, value |-> value])
    /\ UNCHANGED rows

\* assertSeasonCanManageRegulations, then the statements of the handler.
RegulationBegin(c, id, label, key, value) ==
    /\ Starts(c, "regulations")
    /\ id \in Stored /\ seasons[id].status = "UPCOMING"
    /\ Goto(c, [at |-> label, id |-> id, key |-> key, value |-> value])
    /\ UNCHANGED rows

SetRegulation(c, value) ==
    /\ regulations' = [regulations EXCEPT ![call[c].id][call[c].key] = value]
    /\ UNCHANGED <<seasons, created>>

\* The foreign key refuses a row for a season that has gone.
RegulationUpsert(c) ==
    /\ At(c, "upsert")
    /\ SetRegulation(c, IF call[c].id \in Stored THEN call[c].value ELSE Null)
    /\ Reply(c)

\* update and delete look the row up before they write it.
RegulationFind(c) ==
    /\ At(c, "find")
    /\ IF regulations[call[c].id][call[c].key] # Null
       THEN Continue(c, "write") ELSE Reply(c)
    /\ UNCHANGED rows

RegulationWrite(c) ==
    /\ At(c, "write")
    /\ SetRegulation(c, IF regulations[call[c].id][call[c].key] = Null
                        THEN Null ELSE call[c].value)
    /\ Reply(c)

SeedBegin(c, id) ==
    /\ Starts(c, "regulations")
    /\ id \in Stored /\ seasons[id].status = "UPCOMING"
    /\ Goto(c, [at |-> "seed", id |-> id, todo |-> Keys])
    /\ UNCHANGED rows

\* seedDefaults upserts the defaults one by one and overwrites none.
SeedKey(c, key) ==
    LET id == call[c].id
    IN  /\ At(c, "seed") /\ key \in call[c].todo
        /\ regulations' = IF id \in Stored /\ regulations[id][key] = Null
                          THEN [regulations EXCEPT ![id][key] = DefaultValue]
                          ELSE regulations
        /\ IF id \notin Stored \/ call[c].todo = {key}
           THEN Reply(c)
           ELSE Goto(c, [call[c] EXCEPT !.todo = @ \ {key}])
        /\ UNCHANGED <<seasons, created>>

-----------------------------------------------------------------------------

Init ==
    /\ seasons = [id \in SeasonIds |-> Null] /\ created = 0
    /\ regulations = [id \in SeasonIds |-> Empty]
    /\ call = [c \in Clients |-> Idle]

SeasonStep(c) ==
    \/ created < MaxSeasons /\ \E dto \in CreateBodies : CreateBegin(c, dto)
    \/ \E id \in SeasonIds, dto \in UpdateBodies : UpdateBegin(c, id, dto)
    \/ ConflictYear(c) \/ ConflictDates(c) \/ CreateCommit(c) \/ UpdateWrite(c)
    \/ \E id \in SeasonIds, to \in Statuses : UpdateStatusBegin(c, id, to)
    \/ StatusActive(c) \/ StatusPrevious(c) \/ StatusWrite(c)

RegulationStep(c) ==
    \/ \E id \in SeasonIds, key \in Keys, value \in Values :
        \/ RegulationBegin(c, id, "upsert", key, value)
        \/ RegulationBegin(c, id, "find", key, value)
    \/ \E id \in SeasonIds, key \in Keys : RegulationBegin(c, id, "find", key, Null)
    \/ RegulationUpsert(c) \/ RegulationFind(c) \/ RegulationWrite(c)
    \/ \E id \in SeasonIds : SeedBegin(c, id)
    \/ \E key \in Keys : SeedKey(c, key)

Next ==
    \/ \E c \in Clients : SeasonStep(c) \/ RegulationStep(c)
    \/ \E id \in SeasonIds : Delete(id)

Spec == Init /\ [][Next]_vars

-----------------------------------------------------------------------------
(* Properties.                                                             *)

\* Every row has a value the schema allows, and only a season that exists has
\* regulations.
TypeOK ==
    /\ seasons \in [SeasonIds -> Seasons \cup {Null}] /\ created \in 0..MaxSeasons
    /\ regulations \in [SeasonIds -> [Keys -> Values \cup {Null}]]
    /\ \A id \in SeasonIds : seasons[id] = Null => regulations[id] = Empty

\* One request at a time: "Only ONE season can be IN_PROGRESS at a time"
\* (business-rules/SKILL.md:85, season.service.ts:295).
OneInProgress ==
    \A a, b \in Stored :
        seasons[a].status = "IN_PROGRESS" /\ seasons[b].status = "IN_PROGRESS" => a = b

\* One request at a time: two seasons differ in their year
\* (season.service.spec.ts:212) and their dates do not overlap (:234, :272),
\* whatever was patched, cleared or deleted before.
SeasonsAreDisjoint ==
    \A a, b \in Stored : a # b =>
        /\ seasons[a].year # seasons[b].year
        /\ ~Overlaps(seasons[a], seasons[b].startDate, seasons[b].endDate)

\* No season ends before it starts, though update checks the dates it will
\* not write when it is given null.
DatesInOrder ==
    \A id \in Stored : ValidDateRange(seasons[id].startDate, seasons[id].endDate)

\* The two together: whatever was patched, cleared or deleted before, the dates
\* and years of the seasons are those of a calendar.
CalendarHolds == SeasonsAreDisjoint /\ DatesInOrder

\* One request at a time: a season starts only when every season of an earlier
\* year is COMPLETED (season.service.spec.ts:385).
PredecessorsCompleted ==
    [][\A id \in Stored :
        /\ seasons'[id] # Null /\ seasons[id].status = "UPCOMING"
        /\ seasons'[id].status = "IN_PROGRESS"
        => \A other \in Stored :
            seasons[other].year < seasons[id].year => seasons[other].status = "COMPLETED"]_vars

\* One request at a time: the regulations of a season that has started do not
\* change (regulation.service.spec.ts:145, :189, :229, :267).
RulesFrozen ==
    [][\A id \in Stored :
        seasons[id].status # "UPCOMING" /\ seasons'[id] # Null
            => regulations'[id] = regulations[id]]_vars
=============================================================================
