---------------------------- MODULE RoundRobin -----------------------------
(***************************************************************************)
(* The double round-robin of SchedulingService.generate                    *)
(* (scheduling.service.ts, steps 4 and 5): the circle method, one round of *)
(* the loop per step, then validateGeneratedSchedule.  generate refuses    *)
(* any number of teams but requiredTeamCount, so the bye that its code     *)
(* provides for an odd number never occurs and is left out.                *)
(***************************************************************************)
EXTENDS Integers, FiniteSets

CONSTANTS
    Teams,      \* the approved teams of the season
    TeamCount,  \* requiredTeamCount: 10 in the code
    Orders      \* the orders of registration looked at: 0..TeamCount-1 -> Teams

Places == 0..TeamCount - 1

ASSUME RoundRobinAssumption ==
    /\ TeamCount \in Nat /\ TeamCount >= 2 /\ TeamCount % 2 = 0
    /\ \A order \in Orders :
        /\ order \in [Places -> Teams]
        /\ \A i, j \in Places : order[i] = order[j] => i = j
        /\ \A team \in Teams : \E i \in Places : order[i] = team

numRounds == TeamCount - 1
matchesPerRound == TeamCount \div 2

VARIABLES
    teamList,   \* the teams, by registeredAt
    rotating,   \* all of them but the first, as rotated so far
    round,      \* the loop counter
    matchData,  \* the rows built so far, each with its index in the round
    outcome     \* "building", then what validateGeneratedSchedule makes of it

loopVars == <<teamList, rotating, round, matchData, outcome>>

Seats == 0..TeamCount - 2

current == [i \in Places |-> IF i = 0 THEN teamList[0] ELSE rotating[i - 1]]

\* rotating.unshift(rotating.pop())
Rotated == [i \in Seats |-> IF i = 0 THEN rotating[TeamCount - 2] ELSE rotating[i - 1]]

\* Mutants of the rows: leg 2 one round early, leg 2 with the home teams of leg 1.
Leg2Early(match) ==
    [roundNo |-> numRounds + round, leg |-> 2, match |-> match,
     home |-> current[TeamCount - 1 - match], away |-> current[match]]

Leg2SameHome(match) ==
    [roundNo |-> numRounds + round + 1, leg |-> 2, match |-> match,
     home |-> current[match], away |-> current[TeamCount - 1 - match]]

Leg1(match) ==
    [roundNo |-> round + 1, leg |-> 1, match |-> match,
     home |-> current[match], away |-> current[TeamCount - 1 - match]]

Leg2(match) ==
    [roundNo |-> numRounds + round + 1, leg |-> 2, match |-> match,
     home |-> current[TeamCount - 1 - match], away |-> current[match]]

RoundMatches == {Leg1(m) : m \in 0..matchesPerRound - 1}
                    \cup {Leg2(m) : m \in 0..matchesPerRound - 1}

LoopInit ==
    /\ teamList \in Orders
    /\ rotating = [i \in Seats |-> teamList[i + 1]]
    /\ round = 0 /\ matchData = {} /\ outcome = "building"

Round ==
    /\ round < numRounds
    /\ matchData' = matchData \cup RoundMatches
    /\ rotating' = Rotated
    /\ round' = round + 1
    /\ UNCHANGED <<teamList, outcome>>

\* A mutant: the rows of a single round-robin are expected.
validateSingle == Cardinality(matchData) = matchesPerRound * (TeamCount - 1)

validateGeneratedSchedule ==
    /\ Cardinality(matchData) = TeamCount * (TeamCount - 1)
    /\ \A r \in 1..2 * (TeamCount - 1) :
        Cardinality({m \in matchData : m.roundNo = r}) = TeamCount \div 2
    /\ \A team \in Teams :
        /\ Cardinality({m \in matchData : m.home = team}) = TeamCount - 1
        /\ Cardinality({m \in matchData : m.away = team}) = TeamCount - 1

Validate ==
    /\ round = numRounds /\ outcome = "building"
    /\ outcome' = IF validateGeneratedSchedule THEN "created" ELSE "rejected"
    /\ UNCHANGED <<teamList, rotating, round, matchData>>

LoopNext == Round \/ Validate

LoopSpec == LoopInit /\ [][LoopNext]_loopVars

-----------------------------------------------------------------------------
(* Kick-off days.  Day numbers count from a Sunday, as getDay does, so day  *)
(* d is a Saturday iff d % 7 = 6.                                           *)

getNextSaturday(day) == day + ((6 - (day % 7) + 7) % 7)

\* A mutant: leg 2 starts in the last week of leg 1.
WeekEarly(m) == IF m.leg = 1 THEN m.roundNo - 1 ELSE m.roundNo - 2

\* The week of a round; leg 2 starts after a free week.
Week(m) == IF m.leg = 1 THEN m.roundNo - 1
           ELSE numRounds + 1 + (m.roundNo - numRounds - 1)

\* The second half of the matches of a round is played on the Sunday.
KickoffDay(m, baseDay) ==
    getNextSaturday(baseDay + 7 * Week(m))
        + IF m.match >= (matchesPerRound + 1) \div 2 THEN 1 ELSE 0

-----------------------------------------------------------------------------
(* Properties.                                                             *)

Matches == [roundNo : 1..2 * numRounds, leg : {1, 2}, match : 0..matchesPerRound - 1,
            home : Teams, away : Teams]

\* What the loop of generate builds has the shape of match rows.
LoopTypeOK ==
    /\ teamList \in Orders /\ rotating \in [Seats -> Teams]
    /\ round \in 0..numRounds /\ matchData \subseteq Matches
    /\ outcome \in {"building", "created", "rejected"}

Plays(team, m) == team \in {m.home, m.away}

\* Every team has exactly one match in every round built so far: nobody sits
\* out and nobody is needed in two places (the circle method, :132-207).
OncePerRound ==
    \A r \in (1..round) \cup (numRounds + 1 .. numRounds + round), team \in Teams :
        \E m \in matchData :
            /\ m.roundNo = r /\ Plays(team, m)
            /\ \A other \in matchData :
                other.roundNo = r /\ Plays(team, other) => other = m

\* No fixture is ever generated twice: two rows with the same home and away
\* team are the same row, and in one leg two teams meet at most once.
NoRematch ==
    \A m, n \in matchData :
        /\ m.home # m.away
        /\ m.leg = n.leg /\ {m.home, m.away} = {n.home, n.away} => m = n
        /\ m.home = n.home /\ m.away = n.away => m = n

\* The full schedule has every team at home to every other team.
EveryoneHostsEveryone ==
    round = numRounds =>
        \A a, b \in Teams : a # b => \E m \in matchData : m.home = a /\ m.away = b

\* validateGeneratedSchedule never refuses what the loop built.  It runs after
\* the season's matches have been deleted (:79), so a refusal would cost the
\* season its schedule.
NeverRejected == outcome # "rejected"

\* A team has at least five whole days between two of its matches, whatever
\* day of the week the season starts on.
TeamsRest ==
    \A m, n \in matchData, baseDay \in 0..6 :
        m # n /\ {m.home, m.away} \cap {n.home, n.away} # {} =>
            \/ KickoffDay(m, baseDay) - KickoffDay(n, baseDay) >= 6
            \/ KickoffDay(n, baseDay) - KickoffDay(m, baseDay) >= 6
=============================================================================
