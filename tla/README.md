# VLeague: a formal model of the league's API and of the session of its client

The repository is a national football league's management system: a NestJS API
over PostgreSQL (`apps/api`), and a React client (`apps/web`). These TLA+
modules model the part of the API that carries the league's own rules, and the
part of the client that is concurrent: the session of a browser tab. TLC checks
them on small instances and TLAPS proves the most important results for every
size. `PROJECT.json` maps each definition to the lines it models. All source
paths below are under `apps/api/src` unless they say otherwise.

## What makes this program hard

The API is a set of services. A service keeps nothing in memory: all state is
in tables, and a handler is an `async` function that awaits one SQL statement
after another. Few handlers open a transaction, almost no rule is repeated as a
constraint of the schema, and PostgreSQL runs at READ COMMITTED. So:

- every check is a statement of its own, earlier than the write it guards, and
  another request may write in between;
- a request may die between two of its writes (a crash, a lost connection, a
  refused statement), and what it has written stays;
- within one request nothing is concurrent, except queries under `Promise.all`.

The API has no timers and no background jobs: what is late is found to be late by
the next request that looks. A handler is straight-line code that ends in a
reply, so the only liveness to state about it is that the database answers, and
no liveness is stated of the API. The client is another matter. Its interceptor
parks requests in a queue until a refresh ends, several tabs share one
`localStorage`, and answers arrive in any order or not at all; there, that every
request settles is a property worth checking.

## The parts of the system

| Part | State | Operations | Interacts with | What makes it correct |
| --- | --- | --- | --- | --- |
| Match (`match/match.service.ts`) | match row: status, scores, score source; events | updateStatus, updateMatch, add/update/removeEvent | reads lineups, assignments and reports to lock and finish; syncs suspensions | the status moves along its table; the gates hold; the score is the events' or an admin's |
| Officials and reports (`match-official/`) | assignments, match report, discipline report | assignOfficial, removeAssignment, submitMatchReport, submitDisciplineReport | writes events and score of the match | one supervisor, one role per official, one report per referee |
| Lineups and suspensions (`match-lineup/`) | registration of each side, suspensions | submitLineup, reviewLineup, markServed, sync | reads cards, rosters, regulations | a locked match has approved lineups; a suspension follows from cards |
| Scheduling (`scheduling/`) | the season's match rows | generate, publish | reads approved teams; deletes matches | a double round-robin, once per season |
| Seasons (`season/`) | seasons, season teams | create, update, delete, updateStatus, registerTeam, updateTeamStatus, removeTeam | copies regulations | one in progress, no overlap, in order |
| Regulations (`regulation/`) | key/value rows of a season | upsert, update, delete, seedDefaults | read by most checks | frozen once the season has started |
| Standings (`standings/`) | draw-lot results; tables are computed | getStandings, execute/confirm/resetDrawLot | reads matches and regulations | the order follows points and tie-breakers; lots break ties and nothing else |
| Invitations (`team-invitation/`) | invitations, promotion candidates | send, approveAll, respond, expire, import | writes season teams and manager assignments | who accepts is registered; a refusal stands; slots are not overbooked |
| Roster, registration (`roster/`, `registration/`) | teams, players, roster rows | create, update, remove, transfer | reads regulations | one club per player, a squad within its limit |
| Team managers (`team-manager/`) | management, player and stadium requests | create, update, review | writes teams, players, stadiums, rosters | a request is carried out once; a club has one manager |
| Accounts (`auth/`, `users/`) | users, one-time codes, refresh tokens | register, verify, reset, login, refresh, revoke, delete | mail | a code works once; a session belongs to a verified account and ends with a reset |
| Session of a tab (`apps/web/src/lib/api.ts`, `apps/web/src/auth/AuthContext.tsx`) | access token in memory, refresh token in `localStorage`, user on screen, `pendingQueue` | the axios interceptors, login, logout, bootstrap | login, refresh and logout of the API; other tabs through `localStorage` | every request settles; tokens, user and storage belong together |
| Stadiums, notifications, mail, gateway, search, upload, audit | tables no rule reads | plain CRUD and output | - | - |
| Pages of the client (`apps/web/src/pages`) | forms and lists | user interface | call the API | - |

`PROJECT.json` lists each with its status and lists, under `hazards`, where each
of these could go wrong in a way a unit test would hardly reach.

## The modules

**`Match`** has one match row and every row that hangs off it. An action is one
SQL statement; `call[c]` is what request `c` keeps in its local variables
between two statements, with `call[c].at` naming the await it is at. A check
that fails is a step back to `Idle`; a check that throws before any await that
matters is a guard of the first action. The four queries of `assertCanLockMatch` are
a set `todo` that empties in any order. `Fail` drops a request between two
statements. `approvedEver` and `rolesEver` are history variables: they record
that a lineup was approved or a role assigned at some time, because that is what
a check made earlier can promise later.

Teams are `home`, `away` and `other`: the handlers compare an event's team with
the two of the match and nothing more. Cards, minutes, notes, formation and
roster checks are abstracted: they refuse a request, which in the model is a
step that is not taken. Notifications, gateway messages and the audit log are
left out: no handler reads them. The statement that deletes match rows belongs to
`Schedule`; a match of `Match` is never deleted.

**`MatchLifecycle`** is what the endpoints promise about a match: its status and
three facts (lineups approved, scores known, reports filed). `Match` implements
it under a refinement mapping when requests come one by one.

**`RoundRobin`** is the loop of `generate`, one round per step, then
`validateGeneratedSchedule`, and the kick-off days. A team count other than the
required ten is refused before the loop, so the bye for odd numbers never
occurs. The validation writes 9 where the module has `TeamCount - 1`.

**`Schedule`** is one season with its teams and match rows under `generate`,
`publish`, the season's status and the registration of teams. A batch number in
each row (a history variable in spirit) tells which call of `generate` made it.
That a schedule is every team at home to every other is what `RoundRobin` shows.
**`WatchedSchedule`** adds to it the history variable `overlapped`, whether two
requests have been under way together, and the three properties that hold until
they have.

**`Seasons`** is the table of seasons with the regulations of each. A
transaction is one action: `create` with its copy of regulations is one step,
although at READ COMMITTED each of its queries has a snapshot of its own.

**`Suspensions`** is the season's cards and the suspensions computed from them:
`syncSuspensionsForMatch` and `markServedSuspensionsForMatch`, with the handlers
on events, reports and status that call them. There are many matches here, each
with a round and two teams, and of each match only its cards and whether it is
FINISHED; scores, lineups and the gates of a status are `Match`'s. Suspensions
are keyed by the unique index of `player_suspensions`. A sync goes through the
cards it has read in any order and carries its loop through the upserts. Two
history variables: `unsynced`, the matches whose cards or status no sync has
seen since they changed, and `played`, the matches that have been FINISHED. The
list of suspended players that a lineup is checked against is a query of these
rows and is not modelled; neither are matches without a season.

**`Standings`** is the table of a season and the draw of lots. The table is an
operator of the approved teams and the results (`Rows`, `RawFinal`, `WithLots`
are `getStandings`, `getRawFinalStandings` and `applyDrawLotResults`); the state
is what is stored: results, approved teams and lots. `executeDrawLot` deletes,
shuffles and upserts team by team; `confirmDrawLot` reads the groups again and
confirms what is stored or writes the overrides. A request remembers the table it
has computed, so that lots are checked, stored and applied for a table that has
changed. Places are numbers; the order in which the code lists teams that share
one is a comparison of names and is left out.

**`Invitations`** is one season's invitations with the promotion list and the
season teams they write. The code's 8 + 2 slots are the parameters `TopTeams`
and `PromotedSlots`. `markExpiredInvitations` is a statement of the requests that
call it, as in the code: an invitation whose deadline has passed is `late`, and
EXPIRED only once somebody has swept. Three history variables say what a property
has to except: `torn` (an acceptance that died between its two writes), `older`
(the requests in flight while a team's refusal was) and `overlap`.

**`Clubs`** composes three services that write the same rows: the requests of
managers and their review (`team-manager/`), the administrator's edits of teams,
players and users (`registration/`, `users/`) and the rosters (`roster/`).
`desk` splits the instance: a behaviour is about the management of clubs or about
their squads, as otherwise the clubs multiply the squads and no request of the
one reads what only the other writes. `added` is a history variable: the request
whose approval created a player.

**`Accounts`** is one e-mail address: its row in `users`, its one-time codes and
its sessions, under registration, verification, reset, logins by password and by
provider, `createUser` and `deleteUser`. A code ages from `new` (no other may be
sent) over `live` to `dead`. An id is never used again, so that a request which
has looked up an account that was deleted and created anew does not find it.

**`Session`** is a browser tab with the API behind it. A fetch is sent, answered
by the server (or lost on the way), and its answer handled by the tab, in three
steps, so that answers are handled in any order. The tab has slots for protected
requests, one refresh of the interceptor, one login or bootstrap, and one logout.
Another tab changes `localStorage`, other devices revoke sessions, access tokens
expire in the order they were issued in.

The `MC` modules hold what the configurations need: sets of request bodies,
workloads (which endpoints the clients call) and symmetry. The `Proofs` modules
hold the proofs. A definition called a mutant in a comment is a plausible bug;
`PROJECT.json` says which property it breaks in which run.

## The runs

| Run | Instance | Properties | Shows |
| --- | --- | --- | --- |
| `match_race` | 2 racing requests that may die, 2 officials, 2 roles, from a match whose score and report are in | `LockedWasReady`, `FinishedHasReports` | a LOCKED match has been ready, a FINISHED one has its reports, whatever races |
| `match_serial` | 1 request at a time, may die | `ImplementsLifecycle`, `LockedLineupsApproved`, `OfficialsHaveOneRole`, `RefereeReportsOnce` | the handlers implement `MatchLifecycle`; one supervisor, one role, one referee report |
| `match_score` | 1 request at a time, never dies, 3 events | `ScoreFollowsEvents` | the score follows from events, report or admin |
| `round_robin` | the real 10 teams, 40 orders | `OncePerRound`, `EveryoneHostsEveryone`, `NeverRejected`, `TeamsRest` | the circle method and the kick-off days |
| `schedule` | 2 requests that may race and die, 3 teams, 2 calls of generate | `BatchesWhole`, `CleanSlateUntilOverlap`, `ScheduledTeamsAreApproved`, `NoTeamLeavesStartedSeason` | a schedule is whole or absent; until two requests overlap there is one, of approved teams, and teams stay |
| `seasons_serial` | 1 request at a time, 2 seasons, 2 years, 2 days | `OneInProgress`, `CalendarHolds`, `PredecessorsCompleted`, `RulesFrozen` | the rules of the seasons table |
| `suspensions` | 1 request at a time, may die, 2 rounds, 1 player, 2 events | `ServedWhenPlayed`, `OneRedCardPerMatch`, `CardsAndSuspensionsAgree`, `EvenYellowCardsSuspend` | what the suspensions are once a sync has seen the cards |
| `standings` | 2 racing requests that may die, 3 in all, 4 teams, 3 fixtures | `LotsOnlyBreakTies`, `ConfirmedDrawIsFinal` | lots move a team only within its tie, whatever half-written or stale lots are read; a confirmation served alone resolves every tie |
| `invitations` | 2 racing requests that may die, 3 teams, 1 top and 1 promoted slot | `AnswerRegisters`, `RefusalStands`, `ReplacementFits` | an acceptance registers, a refusal is overturned only in the ways named, a replacement finds a slot |
| `clubs` | 2 racing requests that may die, 4 in all, 2 clubs, 2 managers, 3 players | `OneClubPerPlayer`, `SquadsWithinLimit`, `AddsOnePlayer`, `NoSecondManager` | the rules of clubs and squads as long as requests do not overlap |
| `accounts` | 2 racing requests that may die, 1 address, 2 passwords, 2 accounts, codes and sessions | `VerifiedSessions`, `OneUsableCode`, `ResetEndsSessions` | no session without a verified account in any race; codes and resets as long as requests do not overlap |
| `session` | 2 requests, 2 sessions, 2 access tokens, answers lost, another tab and another device | `WaitsForRefresh`, `TokenOfTheUser`, `SessionKept`, `EveryRequestSettles`, `RevocationArrives` | nobody waits for a refresh that is not there, every request settles, sessions are dropped and mixed up only in the ways named |

Properties that say "as long as requests do not overlap" are over the history
variable `overlap` (`overlapped` in the instance of `schedule`): one run then asks
what holds always and what holds until two requests have been in flight together.
A request that dies does not count as an overlap, so such a property is about
partial failure too.

### What the checks are told not to claim

Most rules of the league hold when requests come one at a time and are lost
when two race. Each of these appears as soon as the serial run of its property is
given a second client, or its `~overlap` is dropped:

- two status updates skip an edge of the state machine, since the second writes a
  status it has checked against an older row; `updateMatch` clears the scores
  between the check and the write of FINISHED (`ImplementsLifecycle`);
- two `generate` calls both delete before either creates (`CleanSlateUntilOverlap`);
- two `assignOfficial` calls count no supervisor and both assign one
  (`OfficialsHaveOneRole`); a second referee replaces the first one's report
  (`RefereeReportsOnce`);
- the older of two recalculations is written last (`ScoreFollowsEvents`);
- a team is rejected, or leaves, between the check and the write of another
  request (`ScheduledTeamsAreApproved`, `NoTeamLeavesStartedSeason`);
- two `create` calls find no conflict (`CalendarHolds`); a regulation is written
  after the season has started (`RulesFrozen`);
- two red cards of a player are checked before either is written
  (`OneRedCardPerMatch`);
- two overlapping resends leave two usable codes (`OneUsableCode`); a login that
  has compared the old password opens its session after the reset
  (`ResetEndsSessions`); a second `register` deletes an account that is verified
  between its read and its delete;
- two reviews of one ADD_PLAYER request create two players (`AddsOnePlayer`), two
  additions fill the last place of a squad twice or put a player in two clubs
  (`SquadsWithinLimit`, `OneClubPerPlayer`), two approvals give a club two
  managers (`NoSecondManager`);
- an approval of all that has listed a team accepts it after it has declined
  (`RefusalStands` names this); two replacements take one slot (`ReplacementFits`).

What survives the races is what the gates of `updateStatus` and the single
statements of `generate` and `markServedSuspensionsForMatch` promise, that a
session needs a verified account, that lots only break ties, and that a tab waits
only for a refresh that is there; most of that is proved.

### Where the code and the repository's own words differ

Five disagreements were met while modelling; the runs above are stated so as not
to contradict them, and the mechanism of each can be read off the modules.

- `match/match.controller.ts:359` promises the state machine DRAFT, PUBLISHED,
  LOCKED, FINISHED; two calls of `updateStatus` that both read PUBLISHED can write
  LOCKED and then POSTPONED, an edge the table does not have.
- `updateMatch` refuses to change the score of a FINISHED match
  (`match/match.service.ts:200`), while `submitMatchReport`
  (`match-official/match-official.service.ts:215`) rewrites it at any time.
  `MatchLifecycle` therefore promises that scores stay known, not that they stay.
- `match-lineup/match-lineup.service.spec.ts:335` says that a red card suspends; one
  whose team is corrected suspends nobody. The index of `player_suspensions` has no
  team, so the sync after the correction finds the old row, makes it ACTIVE with its
  old team, and in the same pass cancels it because no red card of that team is
  left. The run `suspensions` therefore has cards of one team only.
- `.agent/skills/business-rules/SKILL.md:85` of the repository says that one season
  only can be IN_PROGRESS; `create` and `update` of seasons write the status of the
  body, past `updateStatus`. `seasons_serial` has `StatusInBody = FALSE`.
- `.omx/plans/vleague-requirements-implementation-plan.md:158` says that two yellow
  cards suspend; two cards of one report that step over the even count suspend
  nobody. `EvenYellowCardsSuspend` speaks of even counts.

Other things follow from the code and contradict nothing it says of itself:

- A late sync of an earlier match creates or revives an ACTIVE suspension for a
  match that has been played, and nobody serves it. A yellow card that is taken
  back never cancels the suspension it has caused. No handler checks that an
  event's team plays in the match: `recalculateScore` gives the goal of such a
  team to the away side, `calculateEventScore` to nobody. `updateTeamStatus`
  accepts any status from any other.
- An acceptance that dies after the invitation is written leaves a team that has
  accepted and is not registered, and no request repeats the rest (`torn`). An
  acceptance sets an APPROVED season team back to REGISTERED.
- A draw executed again overwrites confirmed lots as unconfirmed ones, and the
  table shows the tie again. A confirmed draw of three teams is applied to a later
  tie of two of them if their ranks happen to be the places of that tie.
- `createUser` and `updateRole` look at no other manager and can give a club a
  second one. A claim approved for a user who is no longer a manager gives the
  club a manager when the role comes back. `approveClaimExistingTeamRequest`
  writes the club the row names when it is approved, not when it was reviewed.
- The approval of an ADD_PLAYER request checks no limit of the squad, and
  `createPlayer` that fails at its second write leaves a player without a club.
- The answer to a refresh is applied whatever has happened since it was sent: after
  a logout, or after another login, a tab can hold the access token of the former
  user next to the refresh token and the name of the new one. `TokenOfTheUser`
  names the only way there.

### Bounds

Two requests are enough for every race found: each is one request's write
between another's check and write. Two officials and two roles (one refereeing,
one supervising) distinguish every check, since no handler treats the three
refereeing roles apart. `match_race` leaves `submitMatchReport` to `match_serial`
and `match_score`: its statements touch no row that the gate of LOCKED reads, and
that the report itself may race as well is `GatesHold`, the theorem. Three events
allow a goal, an own goal and a card at once, and an update of one into another.
`MaxEvents` also bounds ids, so a deleted event is not reused. Scores in bodies
go up to 1, as they are only copied and compared. `requiredTeamCount = 2` of three teams
makes who is approved vary; the real ten are in `round_robin`. The properties of
`Seasons` compare seasons two by two, so two seasons, created in either order of
their years, patched and deleted, give every order, overlap and gap. `Keys` has
one key, as keys do not interact. In `suspensions` two rounds are enough, since a
sync touches only rows of its own source match, effective in that match or the
next; two events, since the properties compare two cards; one player, since no
statement relates two.

`standings` starts from every table of its results. Three fixtures in a row
over four teams give ties of two with a game between them (decided by it or not)
and without one, ties of three, of four, and two ties at once; scores of one goal
are enough, since goals are only added and compared. Three requests are a draw,
its confirmation and one change or reset under them, or two racing draws and a
confirmation; a table being read meanwhile counts too. In `invitations` three
teams for two slots make every list of the code be cut; `MaxRank = 1` lets two
candidates share a rank or be ranked at all, which is what the code tests;
`MaxRequests = 3` counts sends, approvals of all and edits, while answers and
sweeps are free. In `clubs` two clubs, two managers and two requests make every
check between two rows fail and succeed; three players overfill squads of
`MaxRoster = 2`; four HTTP requests are what the longest stories take (a request
filed, refused, revised and reviewed again, or a club claimed, given back,
claimed and deleted), and every state of clubs and managers, and of squads under
managed clubs, that is within the rules is a start. In `accounts` two rows of each kind let an account be
deleted and opened again under another id while a request remembers the first,
and let a second code follow the first; a third code meets the same checks as the
second. In `session` a second request is what the queue is for, a second session
is what tokens are mixed up with, and a second access token is what follows the
first one's expiry; after `MaxIssued` tokens the server answers a refresh only
with a refusal or not at all, which it may do anyway.

Some runs serve a part of the endpoints (`RaceEndpoints`, `ScoreEndpoints`...)
or start later than `Init`, in a state `Init` reaches by one request after the
other: `ReportedInit` is a new match whose report an admin has entered.

`CHECK_DEADLOCK FALSE` is said where the system may stop: in `round_robin` the loop
ends, in `seasons_serial` all ids may be used up and all seasons deleted, in
`invitations`, `clubs` and `standings` the bounded requests end, in
`accounts` both accounts may be gone and in `session` the user may have left with
no session to log in to.

Clients, officials, teams, managers, players, passwords and request ids are
symmetric where a run permutes them: no handler orders them, every property there
is a safety property that names none, and in `standings`, where teams are numbers
for the sake of the fixtures, only clients are permuted. `session`, which has
liveness properties, permutes nothing.

### Fairness

Only `Session` assumes any. Its `Fairness` says that a fetch settles, if only with
the browser's own error, and that the event loop runs the callback of a settled
promise: weak fairness of each answer and of each handling of one. The answer is
the server's or its loss, so no fairness says that the server answers. Nothing
makes the user, the clock, the other tab or the other device move. This is what
a browser guarantees of a page it has not frozen, and it is needed:
`EveryRequestSettles` and `RevocationArrives` are false of a page whose promises
never settle. Neither property would hold of an interceptor that forgot its
queue when a refresh succeeds or fails; these are their mutants.

## The proofs

All theorems hold for every number of requests, officials, events, teams, users
and orders. What they assume is in two places. The `ASSUME`s of the modules say that
the null is no row, that bounds are numbers, that the sets counted by a limit (teams,
players) are finite, and that inputs are of the kinds the handlers take: bodies of
events, fixtures that pair teams, scores that pair numbers, and, for the round
robin, orders that list each of an even number of teams once. A hypothesis that
requests do not overlap is in the statement of the theorem (`OneAtATime`) or of the
property itself (`overlap`), and the paragraphs below name it.

**`MatchProofs`.** `TypeCorrect`: the type invariant, with one lemma per group
of handlers. `GatesHold`: `GateInv` is inductive. `FinishedHasReports` alone is
not, as the write of `updateStatus` does not look at the reports; `GateInv` adds
what a request in flight has already checked (`GatesPassed`), stated over facts
that are never unmade: reports are never deleted, and approvals and
assignments are kept in the history variables. The proof has three parts: these
facts only grow (`HistoryGrows`), rows agree with history (`HistoryRecords`),
and each step of `updateStatus` establishes its own gate; every other handler is
`OffStatus`. `FinishedMatchHasReports` and `LockedMatchWasReady` follow.

The rest of the match needs `OneAtATime`, requests that do not overlap: the
instances of `match_serial` and `match_score` satisfy it, and `match_race` shows
runs where they do. A request may still die between two statements. `SerialInv`
then says that what a handler has checked is true when it writes (`StillChecked`);
`LineupsStayApproved`, `OfficialsKeepOneRole` and `RefereeNeverReplacesReport`
follow, and `MatchImplementsLifecycle`: the refinement of `MatchLifecycle`, one
lemma per handler, each statement a step of the abstract machine or a stutter.
`ScoreIsSettled` needs that no request dies besides: `ScoreInv` says what a request
has yet to recalculate, and that event ids are handed out once.

**`SchedulingProofs`** has the two halves of `scheduling.service.ts`. Of the loop of
`RoundRobin`, `LoopCorrect`: after `round` rounds the array is
rotated by `round` and the rows are those of the closed form `Built(round)`, in which
`Place(i, r)` names the team at position `i` of round `r`. The rest is
arithmetic of that form: two positions of a round differ (`PlaceInjective`), two
places meet at most once in a leg (`MeetOnce`) and at least once (`MeetSome`). It
gives `NoFixtureTwice`, `EveryTeamOncePerRound`, `EveryFixtureIsThere` for any even
number of teams, where the code and its tests have ten. `EveryTeamRests` adds the
calendar: kick-offs of consecutive rounds are six days apart at least, by the next
Saturday of any base date and the odd Sunday of a round. `ScheduleNeverRejected`
counts: the rows are in bijection with the pairs of a round and a place, those of a
round with the places, and those of a team at home or away with its opponents, so
every number that `validateGeneratedSchedule` compares is the one it expects.

Of the requests of `Schedule`, `BatchesAreWhole`: besides `BatchesWhole` the invariant
says that a call of `generate` in flight has a batch of its own with no row yet.
The other three are of `WatchedSchedule`: as long as `overlapped` is false at most
one request is under way, and `WatchInv` says what it has read that is still true
(the approved teams, that the season is empty, that it has not started).
`SlateIsClean`, `OnlyApprovedAreScheduled` and `StartedSeasonKeepsTeams` follow, the
last two as action properties.

**`SuspensionsProofs`.** `ServedOnlyWhenPlayed`: besides `ServedWhenPlayed` the
invariant says what a request relies on between two statements: the row that an
upsert has found, and the rows a cancellation has read, are still there (the
types need this, so `TypeCorrect` follows from the same invariant), and a request
that marks suspensions served has written FINISHED. A step either keeps
suspensions and history (`Quiet`) or is looked at by itself; the requests that do
not move rely on what is `Kept`. That `findNextTeamMatch` returns a match of the
season for any rounds is `NextTeamMatchType`, by a least element of the rounds.

For requests that do not overlap, and may die at any statement, `SoloInv` relates
the cards to the suspensions at every await. `Owed` is the set of suspensions a
card is worth; `LoopHolds` says of the loop of a sync that it has the cards there
are, and that all it has dealt with are ACTIVE but for those the current upsert
still has `Pending`; `CancelHolds` says of its end that what remains to be
cancelled is all that is wrong. A match that no statement has touched since its
last sync then `Agrees`, until `markServedSuspensionsForMatch` serves a suspension
for a FINISHED match, which agrees too. `OneRedCard` comes from what
`assertSingleRedCardPerPlayer` and a report have read; `CardsAndSuspensionsMatch`
is the invariant between requests, and `YellowCardsSuspend` what holds at the end
of a sync. `CardsAndSuspensionsMatch` needs `OneTeamPerPlayer`, that a player's
cards name one team: the unique key of a suspension has no team and an upsert
keeps the team it finds, so the cancellation may take a row of another team for
stale. Nothing in the handlers checks the team of an event against its player, so
this is a hypothesis about what is entered: a player of one club for the season.
The run has one player of one team.

**`AuthProofs`** has the two ends of a login, `Accounts` and `Session`.
`SessionsAreVerified`: a session the API honours belongs to an
account with a verified address, for any number of racing requests. By itself it
is not inductive, as the insert of a session looks at nothing but the id of its
user. `OpensForVerified` adds that whoever is about to be given a session under
the account's id is verified; it is kept because no statement takes a
verification back and a new, unverified account comes under an id that no request
has seen, which is why the types say that no id is ahead of its counter.
`RequestStep` reduces a step of one request to what becomes of the account
(`AccountStep`), of its sessions and of what the request remembers (`Local`).
`OneCodeOpens` and `ResetsEndSessions` are about requests that do not overlap.
`SoloInv` says that nobody else is between two statements (`Alone`), that whoever
is about to send a code has used up the older ones, and that whoever is about to
open a session has checked the present password.

Of the tab, `RequestsWaitForOneRefresh`: any number of requests that fail
at once wait for one refresh. The invariant adds that without a refresh nobody
waits, so that the request which starts one is alone in having started it.
`SessionIsKept` and `TokensOfTheUser` are action properties and share `AnswerInv`:
an access token that has arrived is of the session it was asked for, a refusal
that has arrived is final, because a refresh token that was issued is revoked for
good (`TokensAge`), and the stored token is one that was issued. Then a refusal of
the stored token cannot meet a session the API still honours, and only a refresh
with another token than the user's can put a stranger's token in memory.

**`ClubsProofs`.** The foreign keys hold whatever overlaps (`Referential`): every
statement that writes a key looks for the row it names, or fails. The four
properties are of requests that have not overlapped, so `Alone` says what the one
request in flight has read and still relies on: the claimed club has no manager and
is still the one in the request, the player to be added has no club, the squad has
room, the player's request that is revised, refused or approved has added nobody.
Room is counted without the player himself (`HasRoom`), because `MoveClose` has
taken him out by the time the next statement puts him in. `OneClub`,
`SquadLimitHolds` and `RequestAddsOne` are its last conjunct; `OneManager` is an
action property and goes through the statements that write `managed`: a claim
relies on what it has read, a new club has no managers by `Referential`, the role
that is written back is the club that is there.

**`SeasonsProofs`.** `TypeCorrect` holds for any racing requests. Its one question is
whether the season that a new one copies regulations from exists: `Latest` of some
seasons is one of them, as the one with the fewest left behind it
(`LatestType`, by a least element). The properties are about requests one by one.
`SoloInv` adds to them `StillSo`, what a handler has read that is true when it
writes: that no other season has the year or overlaps the dates, that the dates it
compared are those of the row it updates, what the other seasons' statuses are, that
the season whose rules it edits is UPCOMING. A deletion may come at any moment, even
of the row itself: it takes a row away, and nothing read is about a row being there.
A row that has passed the checks of its handler fits among the others (`RowWritten`),
which gives `SeasonsFormCalendar`; `RulesStayFrozen` is an action property. `OneIsInProgress` and `PredecessorsAreCompleted` assume `~StatusInBody`:
`create` and `update` write a status of their body and ask none of the questions
of `updateStatus`. That is the run's case too.

**`InvitationsProofs`.** `RefusalsStand` holds whatever races and dies, and needs a
history variable: `older` is, for a team that has declined, who was under way while
the refusal was. The invariant `RefusalKnown` says that whoever may still write an
acceptance for such a team is among them, or is an `approveAll` that lists the team
because a registration holds it. That is a fact about `getInvitationCandidates`
(`ListEntries`): its three kinds of entries are filtered differently, and only the
one for teams registered by hand lets a refusal through. Everything else that
happens to an invitation is that time passes (`Ages`). `AnswersRegister` and
`ReplacementsFit` are about requests that have not overlapped, any of which may die:
`AloneKnows` says that who has accepted is registered or the request that registers
him is under way, that the team about to be dropped has declined, and that a
replacement about to be written still has its slot, by counting what is `Filled`.

**`StandingsProofs`.** A team's points and goals are sums over its matches
(`SumFunction` of the community modules, which is recursive), so the first fact
about them, that they are numbers (`SumType`), is an induction. It needs no induction
theorem: a set of numbers that is not empty has a least one (`LeastOfNats`), and a
smallest set of matches whose sum is no number, or for which the recursion has no
solution (`SumExists`), cannot be. `RawTableRanks` then shows that points, difference
and head-to-head goals order the teams: whoever is put before a team stands in a
smaller position, those who share a position are level and are all to be drawn
for, and a team stands among those it is level with (`IsRanking`). That is all the
lots need: ranks that cover a group are its places, each used once, as a
surjection between sets of one size (`LotsInPlaces`), so drawing again moves nobody out
of his group and leaves nobody a neighbour (`RedrawnPlaces`). `LotsKeepTheTable` is
these facts for whatever table and lots a request has read. `ConfirmedDrawsAreFinal`
adds what a request that is served alone knows (`AloneKnows`): the table it has is that
of the season, what it checked is still stored, and of an override what is not left
to store is stored.

The type invariants, the inductive ones and `NoFixtureTwice` are proved and not
listed in a run. Every safety property of a run, invariant or action property, is a
theorem. Model-checked only are `EveryRequestSettles` and `RevocationArrives`, the
liveness of `Session`: fairness and `ENABLED` are out of the prover's reach. No
recursive operator is used.

## Not modelled

- Home-stadium requests and season applications of managers, the season's
  manager assignments, and the eligibility and completeness checks of teams.
- Shirt numbers, the quota of foreign players and the other limits by data: they
  refuse a request, which is a step that is not taken.
- The statistics (top scorers, awards, dashboards, the compliance report): queries
  that write nothing.
- The compositions of seasons with standings and invitations beyond the tables they
  share: a season of `Invitations` takes its `TopTeams` as a parameter, where the
  code computes them from the final standings of the season before.
- Stadiums, notifications, mail, gateway, search, upload, CSV, audit log: create,
  read, update, delete and output of rows no rule reads.
- Controllers, DTOs and guards: the bodies the models take are those they admit.
- The pages of the client, two thirds of its code and the largest files of the
  repository, with their translations: they render, and hold no rule that the API
  does not decide.

## Plan

1. Done: all modules above.
2. Done: a theorem for every safety property of the runs. What comes next is to prove
   with weaker hypotheses, where requests one by one are assumed and the race is harmless.
3. Models next, if their state spaces allow: the stadium requests in `Clubs`, and a
   `League` that composes `Seasons`, `Schedule` and `Standings`.
