---------------------------- MODULE Suspensions ----------------------------
(***************************************************************************)
(* The cards of one season and the suspensions computed from them:         *)
(* syncSuspensionsForMatch and markServedSuspensionsForMatch of            *)
(* match-lineup.service.ts, with the handlers of match.service.ts and      *)
(* match-official.service.ts that call them.  As in Match an action is one *)
(* SQL statement and call[c] is what the handler keeps between two.        *)
(*                                                                         *)
(* Scores, lineups, assignments and the gates of a status are Match's.  Of *)
(* the status only FINISHED matters here.  A match without a season has no *)
(* suspensions and is left out.                                            *)
(***************************************************************************)
EXTENDS Integers, FiniteSets, Sequences

CONSTANTS
    Clients,          \* the HTTP requests that may be in flight together
    Players, Teams,
    Fixtures,         \* by match id: its round and the two teams that play
    EventInputs,      \* the event bodies clients send: [type, player, team]
    MaxEvents,        \* bound: event rows ever created
    MaxReportEvents,  \* bound: events in one report body
    MayFail,          \* TRUE: a request may die between two statements
    Null

Matches == DOMAIN Fixtures
EventTypes == {"YELLOW_CARD", "RED_CARD", "SUBSTITUTION"}  \* the last for all others
Sources == {"MANUAL", "MATCH_REPORT"}
Reasons == {"RED_CARD", "ACCUMULATED_YELLOW_CARDS"}
SuspensionStatuses == {"ACTIVE", "SERVED", "CANCELLED"}

Bodies == [type : EventTypes, player : Players, team : Teams]
Keys == [player : Players, source : Matches, effective : Matches, reason : Reasons]
Suspended == [team : Teams, status : SuspensionStatuses]

ASSUME SuspensionsAssumption ==
    /\ \A match \in Matches : Fixtures[match] \in [round : Nat, teams : SUBSET Teams]
    /\ EventInputs \subseteq Bodies
    /\ MaxEvents \in Nat /\ MaxReportEvents \in Nat /\ MayFail \in BOOLEAN
    /\ Null \notin Nat \cup Matches \cup Bodies \cup Suspended \cup SuspensionStatuses

VARIABLES
    finished,     \* matches.status = FINISHED, of each match
    events,       \* match_events, by id; Null where there is no row
    created,      \* ids handed out so far
    suspensions,  \* player_suspensions by unique key; Null where there is no row
    call,         \* the local state of each request
    unsynced,     \* history: matches whose cards or status no sync has seen yet
    played        \* history: matches that have been FINISHED

rows == <<finished, events, created, suspensions, unsynced, played>>
vars == <<rows, call>>

EventIds == 1..MaxEvents
Rows == [match : Matches, type : EventTypes, player : Players, team : Teams,
         source : Sources]
EventLists == UNION {[1..n -> EventInputs] : n \in 0..MaxReportEvents}

Idle == [at |-> "idle"]
Goto(c, next) == call' = [call EXCEPT ![c] = next]
Reply(c) == Goto(c, Idle)
At(c, label) == call[c].at = label
Continue(c, label) == Goto(c, [call[c] EXCEPT !.at = label])

Live == {id \in EventIds : events[id] # Null}
IsCard(type) == type \in {"YELLOW_CARD", "RED_CARD"}
CardsOf(match) == {id \in Live : events[id].match = match /\ IsCard(events[id].type)}
Row(match, body, source) ==
    [match |-> match, type |-> body.type, player |-> body.player,
     team |-> body.team, source |-> source]

\* The team's first match of a later round.
findNextTeamMatch(match, team) ==
    LET later == {m \in Matches : /\ Fixtures[m].round > Fixtures[match].round
                                  /\ team \in Fixtures[m].teams}
    IN  IF later = {} THEN Null
        ELSE CHOOSE m \in later : \A n \in later : Fixtures[m].round <= Fixtures[n].round

countSeasonYellowCards(player, team) ==
    Cardinality({id \in Live : /\ events[id].type = "YELLOW_CARD"
                               /\ events[id].player = player /\ events[id].team = team})

-----------------------------------------------------------------------------
(* The event handlers: a new event has id Null, one to delete body Null.    *)

\* assertSingleRedCardPerPlayer has a query for red cards only.
Checked(body) ==
    IF body # Null /\ body.type = "RED_CARD" THEN "event.red" ELSE "event"

AfterEvent(c, match, card) ==
    IF card
    THEN Goto(c, [at |-> "sync", match |-> match]) /\ unsynced' = unsynced \cup {match}
    ELSE Reply(c) /\ UNCHANGED unsynced

AddEventBegin(c, match, body) ==
    /\ call[c] = Idle /\ created < MaxEvents
    /\ ~finished[match]
    /\ Goto(c, [at |-> Checked(body), match |-> match, id |-> Null, body |-> body,
                wasCard |-> FALSE])
    /\ UNCHANGED rows

\* updateEvent, and removeEvent with body Null: the row, then the match.
ChangeEventBegin(c, id, body) ==
    /\ call[c] = Idle
    /\ id \in Live
    /\ Goto(c, [at |-> "event.status", match |-> events[id].match, id |-> id,
                body |-> body, wasCard |-> IsCard(events[id].type)])
    /\ UNCHANGED rows

ChangeEventStatus(c) ==
    /\ At(c, "event.status")
    /\ IF finished[call[c].match] THEN Reply(c) ELSE Continue(c, Checked(call[c].body))
    /\ UNCHANGED rows

assertSingleRedCardPerPlayer(c) ==
    /\ At(c, "event.red")
    /\ IF \E id \in CardsOf(call[c].match) \ {call[c].id} :
            events[id].type = "RED_CARD" /\ events[id].player = call[c].body.player
       THEN Reply(c) ELSE Continue(c, "event")
    /\ UNCHANGED rows

AddEventWrite(c) ==
    LET match == call[c].match
        body  == call[c].body
    IN  /\ At(c, "event") /\ call[c].id = Null /\ created < MaxEvents
        /\ created' = created + 1
        /\ events' = [events EXCEPT ![created + 1] = Row(match, body, "MANUAL")]
        /\ AfterEvent(c, match, IsCard(body.type))
        /\ UNCHANGED <<finished, suspensions, played>>

\* Updating or deleting a row that has gone is an error of the statement.
UpdateEventWrite(c) ==
    LET match == call[c].match
        id    == call[c].id
        body  == call[c].body
    IN  /\ At(c, "event") /\ id # Null /\ body # Null
        /\ IF id \in Live
           THEN /\ events' = [events EXCEPT ![id] = Row(match, body, events[id].source)]
                /\ AfterEvent(c, match, call[c].wasCard \/ IsCard(body.type))
           ELSE Reply(c) /\ UNCHANGED <<events, unsynced>>
        /\ UNCHANGED <<finished, created, suspensions, played>>

RemoveEventWrite(c) ==
    /\ At(c, "event") /\ call[c].id # Null /\ call[c].body = Null
    /\ IF call[c].id \in Live
       THEN /\ events' = [events EXCEPT ![call[c].id] = Null]
            /\ AfterEvent(c, call[c].match, call[c].wasCard)
       ELSE Reply(c) /\ UNCHANGED <<events, unsynced>>
    /\ UNCHANGED <<finished, created, suspensions, played>>

-----------------------------------------------------------------------------
(* The events of a match report (PUT /matches/:id/report)                  *)

RedPlayers(list) == {list[i].player : i \in {j \in DOMAIN list : list[j].type = "RED_CARD"}}

\* A body without events changes no card; the score of the body is Match's.
MatchReportBegin(c, match, list) ==
    /\ call[c] = Idle /\ created + Len(list) <= MaxEvents
    /\ \A i, j \in DOMAIN list :
        list[i].type = "RED_CARD" /\ list[j].type = "RED_CARD"
            /\ list[i].player = list[j].player => i = j
    /\ Goto(c, [at |-> "report.red", match |-> match, list |-> list])
    /\ UNCHANGED rows

\* A mutant: only the rows about to be replaced are looked at.
MatchReportRedOwn(c) ==
    /\ At(c, "report.red")
    /\ IF \E id \in CardsOf(call[c].match) :
            /\ events[id].type = "RED_CARD" /\ events[id].source = "MATCH_REPORT"
            /\ events[id].player \in RedPlayers(call[c].list)
       THEN Reply(c) ELSE Continue(c, "report.delete")
    /\ UNCHANGED rows

MatchReportRed(c) ==
    /\ At(c, "report.red")
    /\ IF \E id \in CardsOf(call[c].match) :
            /\ events[id].type = "RED_CARD" /\ events[id].source # "MATCH_REPORT"
            /\ events[id].player \in RedPlayers(call[c].list)
       THEN Reply(c) ELSE Continue(c, "report.delete")
    /\ UNCHANGED rows

MatchReportDelete(c) ==
    LET match == call[c].match
        replaced == {id \in Live : events[id].match = match
                                    /\ events[id].source = "MATCH_REPORT"}
    IN  /\ At(c, "report.delete")
        /\ events' = [id \in EventIds |-> IF id \in replaced THEN Null ELSE events[id]]
        /\ unsynced' = unsynced \cup {match}
        /\ IF call[c].list = <<>>
           THEN Goto(c, [at |-> "sync", match |-> match])
           ELSE Continue(c, "report.create")
        /\ UNCHANGED <<finished, created, suspensions, played>>

MatchReportCreate(c) ==
    LET list == call[c].list
    IN  /\ At(c, "report.create") /\ created + Len(list) <= MaxEvents
        /\ created' = created + Len(list)
        /\ events' = [id \in EventIds |->
                        IF id \in created + 1 .. created + Len(list)
                        THEN Row(call[c].match, list[id - created], "MATCH_REPORT")
                        ELSE events[id]]
        /\ unsynced' = unsynced \cup {call[c].match}
        /\ Goto(c, [at |-> "sync", match |-> call[c].match])
        /\ UNCHANGED <<finished, suspensions, played>>

-----------------------------------------------------------------------------
(* PATCH /matches/:id/status, to FINISHED or to another status             *)

UpdateStatusBegin(c, match, finish) ==
    /\ call[c] = Idle /\ ~finished[match]
    /\ Goto(c, [at |-> "status", match |-> match, finish |-> finish])
    /\ UNCHANGED rows

\* A write that is late takes the match back from FINISHED.
UpdateStatusWrite(c) ==
    LET match == call[c].match
        touched == IF call[c].finish THEN {match} ELSE {}
    IN  /\ At(c, "status")
        /\ finished' = [finished EXCEPT ![match] = call[c].finish]
        /\ unsynced' = unsynced \cup touched /\ played' = played \cup touched
        /\ IF call[c].finish THEN Goto(c, [at |-> "served", match |-> match]) ELSE Reply(c)
        /\ UNCHANGED <<events, created, suspensions>>

\* A mutant: the suspensions from this match, not for it.
markServedSuspensionsFromMatch(c) ==
    /\ At(c, "served")
    /\ suspensions' = [key \in Keys |->
            IF /\ key.source = call[c].match /\ suspensions[key] # Null
               /\ suspensions[key].status = "ACTIVE"
            THEN [suspensions[key] EXCEPT !.status = "SERVED"] ELSE suspensions[key]]
    /\ Continue(c, "sync")
    /\ UNCHANGED <<finished, events, created, unsynced, played>>

\* What fails from here on is logged and forgotten: see Fail.
markServedSuspensionsForMatch(c) ==
    /\ At(c, "served")
    /\ suspensions' = [key \in Keys |->
            IF /\ key.effective = call[c].match /\ suspensions[key] # Null
               /\ suspensions[key].status = "ACTIVE"
            THEN [suspensions[key] EXCEPT !.status = "SERVED"] ELSE suspensions[key]]
    /\ Continue(c, "sync")
    /\ UNCHANGED <<finished, events, created, unsynced, played>>

-----------------------------------------------------------------------------
(* syncSuspensionsForMatch                                                 *)

SyncMatch(c) ==
    /\ At(c, "sync")
    /\ Goto(c, [at |-> "sync.events", match |-> call[c].match,
                open |-> ~finished[call[c].match]])
    /\ UNCHANGED rows

\* The cards as they are now; the loop takes them in any order.
SyncEvents(c) ==
    LET cards == CardsOf(call[c].match)
    IN  /\ At(c, "sync.events")
        /\ Goto(c, [at |-> "sync.card", match |-> call[c].match, open |-> call[c].open,
                    reds |-> {<<events[id].player, events[id].team>> :
                                id \in {i \in cards : events[i].type = "RED_CARD"}},
                    todo |-> {[id |-> id, row |-> events[id]] : id \in cards}])
        /\ UNCHANGED rows

\* Suspends the player in the matches of the sequence effective.
Upserts(c, card, reason, effective) ==
    LET rest == [call[c] EXCEPT !.todo = @ \ {card}]
    IN  Goto(c, IF effective = <<>> THEN rest
                ELSE [at |-> "sync.find", loop |-> rest, player |-> card.row.player,
                      team |-> card.row.team, reason |-> reason, effective |-> effective])

NextMatch(c, card) ==
    LET next == findNextTeamMatch(call[c].match, card.row.team)
    IN  IF next = Null THEN <<>> ELSE <<next>>

createSuspensionsForRedCard(c, card) ==
    /\ At(c, "sync.card") /\ card \in call[c].todo /\ card.row.type = "RED_CARD"
    /\ Upserts(c, card, "RED_CARD",
               (IF call[c].open THEN <<call[c].match>> ELSE <<>>) \o NextMatch(c, card))
    /\ UNCHANGED rows

\* A mutant: two are not enough.
SyncYellowCardLater(c, card) ==
    LET yellowCount == countSeasonYellowCards(card.row.player, card.row.team)
    IN  /\ At(c, "sync.card") /\ card \in call[c].todo /\ card.row.type = "YELLOW_CARD"
        /\ Upserts(c, card, "ACCUMULATED_YELLOW_CARDS",
                   IF yellowCount > 2 /\ yellowCount % 2 = 0
                   THEN NextMatch(c, card) ELSE <<>>)
        /\ UNCHANGED rows

\* The count is of the season and of this moment, not of the card.
SyncYellowCard(c, card) ==
    LET yellowCount == countSeasonYellowCards(card.row.player, card.row.team)
    IN  /\ At(c, "sync.card") /\ card \in call[c].todo /\ card.row.type = "YELLOW_CARD"
        /\ Upserts(c, card, "ACCUMULATED_YELLOW_CARDS",
                   IF yellowCount > 0 /\ yellowCount % 2 = 0
                   THEN NextMatch(c, card) ELSE <<>>)
        /\ UNCHANGED rows

UpsertKey(c) ==
    [player |-> call[c].player, source |-> call[c].loop.match,
     effective |-> Head(call[c].effective), reason |-> call[c].reason]

UpsertFind(c) ==
    /\ At(c, "sync.find")
    /\ Continue(c, IF suspensions[UpsertKey(c)] # Null THEN "sync.update" ELSE "sync.create")
    /\ UNCHANGED rows

AfterUpsert(c) ==
    LET rest == Tail(call[c].effective)
    IN  Goto(c, IF rest = <<>> THEN call[c].loop
                ELSE [call[c] EXCEPT !.at = "sync.find", !.effective = rest])

\* A mutant: a row that is there stays as it is.
UpsertUpdateNever(c) ==
    At(c, "sync.update") /\ AfterUpsert(c) /\ UNCHANGED rows

\* Whatever the row was, SERVED or CANCELLED, it is ACTIVE now; it keeps its team.
UpsertUpdate(c) ==
    /\ At(c, "sync.update")
    /\ suspensions' = [suspensions EXCEPT ![UpsertKey(c)].status = "ACTIVE"]
    /\ AfterUpsert(c)
    /\ UNCHANGED <<finished, events, created, unsynced, played>>

\* The unique index refuses a row that another request has created since.
UpsertCreate(c) ==
    /\ At(c, "sync.create")
    /\ IF suspensions[UpsertKey(c)] = Null
       THEN /\ suspensions' = [suspensions EXCEPT ![UpsertKey(c)] =
                    [team |-> call[c].team, status |-> "ACTIVE"]]
            /\ AfterUpsert(c)
       ELSE Reply(c) /\ UNCHANGED suspensions
    /\ UNCHANGED <<finished, events, created, unsynced, played>>

\* ACTIVE suspensions for a red card that is no longer there are cancelled;
\* those for yellow cards stay.
SyncActive(c) ==
    LET stale == {key \in Keys :
            /\ key.source = call[c].match /\ key.reason = "RED_CARD"
            /\ suspensions[key] # Null /\ suspensions[key].status = "ACTIVE"
            /\ <<key.player, suspensions[key].team>> \notin call[c].reds}
    IN  /\ At(c, "sync.card") /\ call[c].todo = {}
        /\ Goto(c, [at |-> "sync.cancel", match |-> call[c].match, stale |-> stale])
        /\ UNCHANGED rows

CancelSuspension(c, key) ==
    /\ At(c, "sync.cancel") /\ key \in call[c].stale
    /\ suspensions' = [suspensions EXCEPT ![key].status = "CANCELLED"]
    /\ Goto(c, [call[c] EXCEPT !.stale = @ \ {key}])
    /\ UNCHANGED <<finished, events, created, unsynced, played>>

SyncEnd(c) ==
    /\ At(c, "sync.cancel") /\ call[c].stale = {}
    /\ unsynced' = unsynced \ {call[c].match}
    /\ Reply(c)
    /\ UNCHANGED <<finished, events, created, suspensions, played>>

-----------------------------------------------------------------------------

\* The process restarts or the database refuses a statement: the request is
\* gone, and what it has written so far stays.
Fail(c) ==
    /\ MayFail /\ call[c] # Idle
    /\ Reply(c)
    /\ UNCHANGED rows

Init ==
    /\ finished = [match \in Matches |-> FALSE]
    /\ events = [id \in EventIds |-> Null] /\ created = 0
    /\ suspensions = [key \in Keys |-> Null]
    /\ call = [c \in Clients |-> Idle]
    /\ unsynced = {} /\ played = {}

EventStep(c) ==
    \/ \E match \in Matches, body \in EventInputs : AddEventBegin(c, match, body)
    \/ \E id \in EventIds, body \in EventInputs \cup {Null} : ChangeEventBegin(c, id, body)
    \/ ChangeEventStatus(c) \/ assertSingleRedCardPerPlayer(c)
    \/ AddEventWrite(c) \/ UpdateEventWrite(c) \/ RemoveEventWrite(c)

MatchStep(c) ==
    \/ \E match \in Matches, list \in EventLists : MatchReportBegin(c, match, list)
    \/ MatchReportRed(c) \/ MatchReportDelete(c) \/ MatchReportCreate(c)
    \/ \E match \in Matches, finish \in BOOLEAN : UpdateStatusBegin(c, match, finish)
    \/ UpdateStatusWrite(c) \/ markServedSuspensionsForMatch(c)

SyncStep(c) ==
    \/ SyncMatch(c) \/ SyncEvents(c)
    \/ At(c, "sync.card") /\ \E card \in call[c].todo :
            createSuspensionsForRedCard(c, card) \/ SyncYellowCard(c, card)
    \/ UpsertFind(c) \/ UpsertUpdate(c) \/ UpsertCreate(c)
    \/ SyncActive(c)
    \/ At(c, "sync.cancel") /\ \E key \in call[c].stale : CancelSuspension(c, key)
    \/ SyncEnd(c)

Next == \E c \in Clients : EventStep(c) \/ MatchStep(c) \/ SyncStep(c) \/ Fail(c)

Spec == Init /\ [][Next]_vars

-----------------------------------------------------------------------------
(* Properties.                                                             *)

Cards == [id : EventIds, row : {row \in Rows : IsCard(row.type)}]
Loops == [at : {"sync.card"}, match : Matches, open : BOOLEAN,
          reds : SUBSET (Players \X Teams), todo : SUBSET Cards]

Calls ==
    {Idle}
    \cup [at : {"event.status", "event"}, match : Matches, id : EventIds,
          body : Bodies \cup {Null}, wasCard : BOOLEAN]
    \cup [at : {"event.red", "event"}, match : Matches, id : EventIds \cup {Null},
          body : Bodies, wasCard : BOOLEAN]
    \cup [at : {"report.red", "report.delete", "report.create"}, match : Matches,
          list : EventLists]
    \cup [at : {"status"}, match : Matches, finish : BOOLEAN]
    \cup [at : {"served", "sync"}, match : Matches]
    \cup [at : {"sync.events"}, match : Matches, open : BOOLEAN]
    \cup Loops
    \cup [at : {"sync.find", "sync.update", "sync.create"}, loop : Loops,
          player : Players, team : Teams, reason : Reasons,
          effective : {<<m>> : m \in Matches} \cup Matches \X Matches]
    \cup [at : {"sync.cancel"}, match : Matches, stale : SUBSET Keys]

\* Every row has a value the schema allows and every request is at one of its
\* awaits with the local variables it has there.
TypeOK ==
    /\ finished \in [Matches -> BOOLEAN]
    /\ events \in [EventIds -> Rows \cup {Null}] /\ created \in 0..MaxEvents
    /\ suspensions \in [Keys -> Suspended \cup {Null}]
    /\ call \in [Clients -> Calls]
    /\ unsynced \subseteq Matches /\ played \subseteq Matches

Status(key) == IF suspensions[key] = Null THEN Null ELSE suspensions[key].status
Key(player, source, effective, reason) ==
    [player |-> player, source |-> source, effective |-> effective, reason |-> reason]

\* A suspension is SERVED only for a match that has been FINISHED, whatever the
\* requests that race and wherever one dies: markServedSuspensionsForMatch
\* follows the write of FINISHED, and an upsert never serves.  The match need not
\* be FINISHED still: see UpdateStatusWrite.
ServedWhenPlayed ==
    \A key \in Keys : Status(key) = "SERVED" => key.effective \in played

\* One request at a time: a player has at most one red card in a match, however
\* events and reports replace each other ("Mỗi cầu thủ chỉ được nhận tối đa 1
\* thẻ đỏ trong 1 trận.", match.service.ts:545).
OneRedCardPerMatch ==
    \A i, j \in Live :
        /\ events[i].type = "RED_CARD" /\ events[j].type = "RED_CARD"
        /\ events[i].match = events[j].match /\ events[i].player = events[j].player
        => i = j

\* One request at a time: once a sync has seen the cards of a match, a red card
\* suspends its player in what is left of that match and in his team's next one
\* ("creates same-match and next-match suspensions from red card events",
\* match-lineup.service.spec.ts:335), whatever was cancelled, served or lost
\* before; provided the card keeps its team.
RedCardSuspends ==
    \A id \in Live : events[id].type = "RED_CARD" /\ events[id].match \notin unsynced =>
        LET row == events[id]
            next == findNextTeamMatch(row.match, row.team)
        IN  /\ ~finished[row.match] =>
                 Status(Key(row.player, row.match, row.match, "RED_CARD")) = "ACTIVE"
            /\ next # Null =>
                 Status(Key(row.player, row.match, next, "RED_CARD")) \in {"ACTIVE", "SERVED"}

\* One request at a time: once a sync has seen the cards of a match, nobody is
\* suspended for a red card that was taken back.
NoRedCardNoSuspension ==
    \A key \in Keys :
        key.reason = "RED_CARD" /\ key.source \notin unsynced /\ Status(key) = "ACTIVE" =>
            \E id \in CardsOf(key.source) :
                /\ events[id].type = "RED_CARD" /\ events[id].player = key.player
                /\ events[id].team = suspensions[key].team

\* The two together: as soon as a sync has seen the cards of a match, the red
\* cards in it and the suspensions for them are the same, through corrections,
\* replaced reports, matches finished out of order and syncs that died.
CardsAndSuspensionsAgree == RedCardSuspends /\ NoRedCardNoSuspension

\* One request at a time: a sync of a match with a yellow card of a player who
\* has an even number of them in the season leaves him suspended in the next
\* match of his team.
EvenYellowCardsSuspend ==
    [][\A id \in Live : \A next \in Matches :
        /\ events[id].type = "YELLOW_CARD"
        /\ events[id].match \in unsynced \ unsynced'
        /\ countSeasonYellowCards(events[id].player, events[id].team) % 2 = 0
        /\ next = findNextTeamMatch(events[id].match, events[id].team)
        => Status(Key(events[id].player, events[id].match, next,
                      "ACCUMULATED_YELLOW_CARDS")) = "ACTIVE"]_vars
=============================================================================
