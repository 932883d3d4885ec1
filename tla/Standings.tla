------------------------------ MODULE Standings ------------------------------
(***************************************************************************)
(* The league table and the draw of lots: standings.service.ts.  The final *)
(* table is computed at every read from the teams, the results and the     *)
(* confirmed lots that are stored; a draw is executed, confirmed (as drawn *)
(* or overridden) and reset by separate requests, while scores and the     *)
(* teams' status change under it.                                          *)
(*                                                                         *)
(* Each query of a request is a step, except that the teams and the        *)
(* matches of a table are read in one; so is each write, and a request may *)
(* die between two.  A request that the code would refuse takes no step.   *)
(* The counts of games, the recent form, the notes and the order in which *)
(* the table lists teams that share a place are left out.                  *)
(***************************************************************************)
EXTENDS Integers, FiniteSets, FiniteSetsExt, Functions, TLC

CONSTANTS Clients, Nil,
          Teams,
          Fixtures,  \* pairs of home and away team
          Scores,    \* pairs of goals
          WinPoints, DrawPoints, LossPoints,
          MaxCalls   \* bound: HTTP requests

\* A row of draw_lot_results.
LotRows == [rank : Nat, confirmed : BOOLEAN]

ASSUME StandingsAssumption ==
  /\ IsFiniteSet(Teams) /\ Fixtures \subseteq Teams \X Teams /\ Scores \subseteq Nat \X Nat
  /\ {WinPoints, DrawPoints, LossPoints} \subseteq Int
  /\ Nil \notin LotRows

VARIABLES
  approved, \* teams whose season_teams row is APPROVED
  result,   \* fixtures: Nil, or the score if it counts
  lots,     \* draw_lot_results of the season: Nil, or a rank that may be confirmed
  call,     \* where each client's HTTP request is
  calls

season == <<approved, result>>
vars == <<season, lots, call, calls>>

NoCall == [at |-> "none", seen |-> Nil, raw |-> Nil, todo |-> Nil, alone |-> FALSE]

----------------------------------------------------------------------------
(* The table of a season s: its teams and results as a request read them.  *)

Now == [approved |-> approved, result |-> result]

Counted(s) == {f \in Fixtures : s.result[f] # Nil /\ f[1] \in s.approved /\ f[2] \in s.approved}
Of(s, t) == {f \in Counted(s) : t \in {f[1], f[2]}}
GoalsFor(s, t, f) == IF t = f[1] THEN s.result[f][1] ELSE s.result[f][2]
GoalsAgainst(s, t, f) == IF t = f[1] THEN s.result[f][2] ELSE s.result[f][1]
PointsOf(s, t, f) ==
  LET d == GoalsFor(s, t, f) - GoalsAgainst(s, t, f)
  IN  IF d > 0 THEN WinPoints ELSE IF d < 0 THEN LossPoints ELSE DrawPoints

Points(s, t) == SumFunction([f \in Of(s, t) |-> PointsOf(s, t, f)])
Difference(s, t) ==
  SumFunction([f \in Of(s, t) |-> GoalsFor(s, t, f) - GoalsAgainst(s, t, f)])
HeadToHead(s, a, b) ==
  SumFunction([f \in Of(s, a) \cap Of(s, b) |-> GoalsFor(s, a, f)])

Rows(s) == [t \in s.approved |-> <<Points(s, t), Difference(s, t)>>]

\* compareByPrimaryStandingRules, by which teams that are level share a place.
Above(r, a, b) == r[a][1] > r[b][1] \/ (r[a][1] = r[b][1] /\ r[a][2] > r[b][2])
LevelWith(r, a) == {b \in DOMAIN r : r[a] = r[b]}

\* applyFinalTieBreakers and resolveTwoTeamFinalTie.
Beats(s, r, a, b) == /\ a # b /\ LevelWith(r, a) = {a, b}
                     /\ HeadToHead(s, a, b) > HeadToHead(s, b, a)
NeedsLot(s, r, a) ==
  \E b \in LevelWith(r, a) \ {a} : ~Beats(s, r, a, b) /\ ~Beats(s, r, b, a)

\* assignPositions: a team's place is the first of the teams it shares it with.
PositionOf(before) == Cardinality(before) + 1
Running(r) == [t \in DOMAIN r |-> PositionOf({u \in DOMAIN r : Above(r, u, t)})]

\* getRawFinalStandings, without the order in which teams that share are listed.
RawFinal(s, r) ==
  [rows |-> r,
   open |-> {t \in DOMAIN r : NeedsLot(s, r, t)},
   position |-> [t \in DOMAIN r |->
                  PositionOf({u \in DOMAIN r : Above(r, u, t) \/ Beats(s, r, u, t)})]]
RawTable(s) == RawFinal(s, Rows(s))

----------------------------------------------------------------------------
(* Lots                                                                    *)

\* getDrawLotGroups: teams without a lot that share a position.
Groups(raw) == {{u \in raw.open : raw.position[u] = raw.position[t]} : t \in raw.open}
ExpectedRanks(raw, g) == LET first == Min({raw.position[t] : t \in g})
                         IN  first .. (first + Cardinality(g) - 1)

\* drawLotResultsCoverGroups; the mutants below settle for any ranks.
CoversAnyRanks(raw, ranks) == raw.open \subseteq DOMAIN ranks
Covers(raw, ranks) ==
  \A g \in Groups(raw) : /\ g \subseteq DOMAIN ranks
                         /\ {ranks[t] : t \in g} = ExpectedRanks(raw, g)

Draws(raw) == {d \in [raw.open -> UNION {ExpectedRanks(raw, g) : g \in Groups(raw)}] : Covers(raw, d)}

RanksOf(teams, confirmed) ==
  [t \in {u \in teams : lots[u] # Nil /\ lots[u].confirmed = confirmed} |-> lots[t].rank]

\* applyDrawLotResults and the positions that getStandings assigns after it.
\* A mutant: results for all the teams to draw for are applied, whatever ranks.
Redrawn(raw, ranks) ==
  LET teams == DOMAIN raw.position
      rank  == [t \in teams |-> IF t \in DOMAIN ranks THEN ranks[t] ELSE raw.position[t]]
  IN  [open |-> {}, position |-> [t \in teams |-> PositionOf({u \in teams : rank[u] < rank[t]})]]
WithLotsAnyRanks(raw, ranks) ==
  IF raw.open = {} \/ ~CoversAnyRanks(raw, ranks) THEN raw ELSE Redrawn(raw, ranks)
WithLots(raw, ranks) ==
  IF raw.open = {} \/ ~Covers(raw, ranks) THEN raw ELSE Redrawn(raw, ranks)
Final(raw) == WithLots(raw, RanksOf(raw.open, TRUE))

----------------------------------------------------------------------------
(* HTTP requests                                                           *)

Busy(c) == call[c].at # "none"
At(c, step) == call[c].at = step
Goto(c, step) == call' = [call EXCEPT ![c].at = step] /\ UNCHANGED calls
StoresLater(c, todo) == /\ call' = [call EXCEPT ![c].at = IF @ = "draw" THEN "drawing" ELSE @,
                                               ![c].raw = Nil, ![c].todo = todo]
                        /\ UNCHANGED calls
Reply(c) == call' = [call EXCEPT ![c] = NoCall] /\ UNCHANGED calls

\* Whoever is served meanwhile is no longer served alone.
Met == [c \in Clients |-> IF Busy(c) THEN [call[c] EXCEPT !.alone = FALSE] ELSE call[c]]
Counts == calls < MaxCalls /\ calls' = calls + 1
Free(c) == ~Busy(c) /\ calls < MaxCalls
Begin(c, local) ==
  /\ Counts
  /\ call' = [Met EXCEPT ![c] = [local EXCEPT !.alone = \A d \in Clients : ~Busy(d)]]
  /\ UNCHANGED <<season, lots>>
AtOnce == Counts /\ call' = Met

Die(c) == Busy(c) /\ Reply(c) /\ UNCHANGED <<season, lots>>

----------------------------------------------------------------------------
(* What the table is computed from                                         *)

\* A score is entered, corrected or no longer counts (match.service.ts).
Score(f, score) == /\ AtOnce /\ result[f] # score
                   /\ result' = [result EXCEPT ![f] = score] /\ UNCHANGED <<approved, lots>>

\* updateTeamStatus to APPROVED, or from it.
TeamStatus(t) == /\ AtOnce
                 /\ approved' = IF t \in approved THEN approved \ {t} ELSE approved \cup {t}
                 /\ UNCHANGED <<result, lots>>

\* getStandings reads the teams and matches first and the lots afterwards.
TableBegin(c) ==
  Free(c) /\ Begin(c, [NoCall EXCEPT !.at = "table", !.seen = Now, !.raw = RawTable(Now)])
TableEnd(c) == At(c, "table") /\ Reply(c) /\ UNCHANGED <<season, lots>>

----------------------------------------------------------------------------
(* The draw                                                                *)

Stored(t, rank, confirmed) == lots' = [lots EXCEPT ![t] = [rank |-> rank, confirmed |-> confirmed]]
Without(f, t) == [u \in DOMAIN f \ {t} |-> f[u]]

\* executeDrawLot: the results that are not confirmed are deleted, then each
\* group is shuffled and stored team by team, over what was confirmed.
DrawBegin(c) ==
  LET raw == RawTable(Now)
  IN  Free(c) /\ raw.open # {} /\ Begin(c, [NoCall EXCEPT !.at = "draw", !.raw = raw])

DrawDelete(c) ==
  /\ At(c, "draw")
  /\ lots' = [t \in Teams |-> IF lots[t] # Nil /\ ~lots[t].confirmed THEN Nil ELSE lots[t]]
  /\ \E d \in Draws(call[c].raw) : StoresLater(c, d)
  /\ UNCHANGED season

\* One upsert, of the rows that are left to store, in the order of the ranks.
StoreNext(c, confirmed) ==
  LET todo == call[c].todo
      t == CHOOSE u \in DOMAIN todo : \A v \in DOMAIN todo : todo[u] =< todo[v]
  IN  /\ Stored(t, todo[t], confirmed)
      /\ IF DOMAIN todo = {t} THEN Reply(c) ELSE StoresLater(c, Without(todo, t))
      /\ UNCHANGED season

DrawStore(c) == At(c, "drawing") /\ StoreNext(c, FALSE)

\* confirmDrawLot without overrides.
ConfirmBegin(c) ==
  LET raw == RawTable(Now)
  IN  Free(c) /\ raw.open # {} /\ Begin(c, [NoCall EXCEPT !.at = "confirm", !.raw = raw])

\* A mutant: a result for every team is enough.
ConfirmCheckPresence(c) ==
  /\ At(c, "confirm")
  /\ CoversAnyRanks(call[c].raw, RanksOf(call[c].raw.open, FALSE))
  /\ Goto(c, "confirming")
  /\ UNCHANGED <<season, lots>>
ConfirmCheck(c) ==
  /\ At(c, "confirm")
  /\ Covers(call[c].raw, RanksOf(call[c].raw.open, FALSE))
  /\ Goto(c, "confirming")
  /\ UNCHANGED <<season, lots>>

ConfirmWrite(c) ==
  /\ At(c, "confirming")
  /\ lots' = [t \in Teams |-> IF t \in call[c].raw.open /\ lots[t] # Nil
                              THEN [lots[t] EXCEPT !.confirmed = TRUE] ELSE lots[t]]
  /\ Reply(c)
  /\ UNCHANGED season

\* confirmDrawLot with overrides, that the page sends in the order of the ranks.
OverrideBegin(c) ==
  LET raw == RawTable(Now)
  IN  /\ Free(c) /\ raw.open # {}
      /\ \E d \in Draws(raw) : Begin(c, [NoCall EXCEPT !.at = "override", !.todo = d])

OverrideStore(c) == At(c, "override") /\ StoreNext(c, TRUE)

ResetDrawLot == AtOnce /\ lots' = [t \in Teams |-> Nil] /\ UNCHANGED season

----------------------------------------------------------------------------

Init ==
  /\ approved = Teams
  /\ result \in [Fixtures -> Scores]
  /\ lots = [t \in Teams |-> Nil]
  /\ call = [c \in Clients |-> NoCall] /\ calls = 0

Next ==
  \/ \E f \in Fixtures, score \in Scores \cup {Nil} : Score(f, score)
  \/ \E t \in Teams : TeamStatus(t)
  \/ ResetDrawLot
  \/ \E c \in Clients :
       \/ TableBegin(c) \/ TableEnd(c)
       \/ DrawBegin(c) \/ DrawDelete(c) \/ DrawStore(c)
       \/ ConfirmBegin(c) \/ ConfirmCheck(c) \/ ConfirmWrite(c)
       \/ OverrideBegin(c) \/ OverrideStore(c)
       \/ Die(c)

Spec == Init /\ [][Next]_vars

----------------------------------------------------------------------------
(* Properties                                                              *)

\* The final table that getStandings answers refines the running table of the
\* results it read, whatever half-written, stale or interleaved lots it reads
\* after them: a team stays within the places of the teams it is level with,
\* head-to-head goals decide between two, two teams share a position only if
\* they are level, and no draw is applied to some tied groups and not to others.
LotsOnlyBreakTies ==
  \A c \in Clients :
    At(c, "table") =>
      LET s == call[c].seen
          r == call[c].raw.rows
          final == Final(call[c].raw)
      IN  \A a \in s.approved :
            LET level == LevelWith(r, a) IN
            /\ final.position[a] \in Running(r)[a] .. (Running(r)[a] + Cardinality(level) - 1)
            /\ \A b \in level \ {a} :
                 /\ Beats(s, r, a, b) => final.position[a] < final.position[b]
                 /\ final.position[a] = final.position[b] => final.open = call[c].raw.open

\* A confirmation that is served alone leaves no team to draw for and no two
\* teams in one position, whatever earlier requests died or raced over the
\* stored lots: what confirmDrawLot accepts is what getStandings applies.
LastWrite(c) == At(c, "confirming") \/ (At(c, "override") /\ Cardinality(DOMAIN call[c].todo) = 1)
Resolved(raw) == LET final == WithLots(raw, [t \in {u \in raw.open : lots'[u] # Nil /\ lots'[u].confirmed}
                                              |-> lots'[t].rank])
                 IN  final.open = {} /\ IsInjective(final.position)
ConfirmedDrawIsFinal ==
  [][\A c \in Clients :
       call[c].alone /\ LastWrite(c) /\ ~Busy(c)' /\ lots' # lots
         => Resolved(RawTable(Now))]_vars
=============================================================================
