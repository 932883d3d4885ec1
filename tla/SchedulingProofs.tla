-------------------------- MODULE SchedulingProofs -------------------------
(***************************************************************************)
(* The two halves of scheduling.service.ts: what the loop of generate      *)
(* builds (RoundRobin), and the season's rows under racing requests and    *)
(* under requests that do not overlap (WatchedSchedule).  They share no    *)
(* variable: their theorems are about LoopSpec, and about Spec and         *)
(* WatchedSpec.                                                            *)
(***************************************************************************)
EXTENDS RoundRobin, WatchedSchedule, FiniteSetTheorems, TLAPS

(***************************************************************************)
(* The loop.                                                               *)
(*                                                                         *)
(* The circle method is right for any even number of teams registered in   *)
(* any order.  Teams are named by their place in teamList; in round r      *)
(* (counted from 0) position 0 holds place 0 and seat i of the rotating    *)
(* array holds place 1 + Origin(i, r), since every rotation moves a team   *)
(* one seat on.                                                            *)
(***************************************************************************)

Origin(i, r) == IF i >= r THEN i - r ELSE i - r + numRounds
Place(i, r) == IF i = 0 THEN 0 ELSE 1 + Origin(i - 1, r)

Rounds == 0..numRounds - 1
Tables == 0..matchesPerRound - 1

\* The two rows of match m of round r, and all rows of the first n rounds.
FirstLeg(m, r) ==
    [roundNo |-> r + 1, leg |-> 1, match |-> m,
     home |-> teamList[Place(m, r)], away |-> teamList[Place(TeamCount - 1 - m, r)]]
SecondLeg(m, r) ==
    [roundNo |-> numRounds + r + 1, leg |-> 2, match |-> m,
     home |-> teamList[Place(TeamCount - 1 - m, r)], away |-> teamList[Place(m, r)]]
Built(n) == {FirstLeg(m, r) : m \in Tables, r \in 0..n - 1}
                \cup {SecondLeg(m, r) : m \in Tables, r \in 0..n - 1}

\* What the loop has done after "round" rounds, in closed form.
LoopInv ==
    /\ teamList \in Orders
    /\ round \in 0..numRounds
    /\ rotating = [i \in Seats |-> teamList[1 + Origin(i, round)]]
    /\ matchData = Built(round)
    /\ outcome \in {"building", "created", "rejected"}

(***************************************************************************)
(* Arithmetic of the circle.                                               *)
(***************************************************************************)

LEMMA Half ==
    /\ matchesPerRound \in Nat /\ matchesPerRound >= 1
    /\ TeamCount = 2 * matchesPerRound
    /\ numRounds = 2 * matchesPerRound - 1
  BY RoundRobinAssumption DEF matchesPerRound, numRounds

\* The positions of a round hold every place once.
LEMMA PlaceType ==
    ASSUME NEW i \in Places, NEW r \in Rounds
    PROVE  Place(i, r) \in Places
  BY Half DEF Place, Origin, Places, Rounds

LEMMA PlaceInjective ==
    ASSUME NEW i \in Places, NEW j \in Places, NEW r \in Rounds,
           Place(i, r) = Place(j, r)
    PROVE  i = j
  BY Half DEF Place, Origin, Places, Rounds

LEMMA PlaceSurjective ==
    ASSUME NEW q \in Places, NEW r \in Rounds
    PROVE  \E i \in Places : Place(i, r) = q
  <1>1. CASE q = 0
    BY <1>1, Half DEF Place, Places
  <1>2. CASE q # 0 /\ q + r <= numRounds
    <2>1. q + r \in Places /\ Place(q + r, r) = q
      BY <1>2, Half DEF Place, Origin, Places, Rounds
    <2> QED
      BY <2>1
  <1>3. CASE q # 0 /\ q + r > numRounds
    <2>1. q + r - numRounds \in Places /\ Place(q + r - numRounds, r) = q
      BY <1>3, Half DEF Place, Origin, Places, Rounds
    <2> QED
      BY <2>1
  <1> QED
    BY <1>1, <1>2, <1>3, Half DEF Places, Rounds

\* Match m is between positions m and TeamCount - 1 - m.
LEMMA Opponents ==
    ASSUME NEW m \in Tables
    PROVE  /\ m \in Places /\ TeamCount - 1 - m \in Places
           /\ m # TeamCount - 1 - m
  BY Half DEF Tables, Places

\* Two places are opponents in one round only: their sum tells the round,
\* because numRounds is odd.
LEMMA MeetOnce ==
    ASSUME NEW m \in Tables, NEW n \in Tables, NEW r \in Rounds, NEW s \in Rounds,
           {Place(m, r), Place(TeamCount - 1 - m, r)}
               = {Place(n, s), Place(TeamCount - 1 - n, s)}
    PROVE  r = s /\ m = n
  <1> DEFINE a == Place(m, r)
             b == Place(TeamCount - 1 - m, r)
             c == Place(n, s)
             d == Place(TeamCount - 1 - n, s)
  <1> HIDE DEF a, b, c, d
  <1>0. (a = c /\ b = d) \/ (a = d /\ b = c)
    <2>1. {a, b} = {c, d}
      BY DEF a, b, c, d
    <2> QED
      BY <2>1
  <1>1. a + b = c + d /\ a \in Places /\ b \in Places /\ c \in Places /\ d \in Places
    <2>1. a \in Places /\ b \in Places /\ c \in Places /\ d \in Places
      BY PlaceType, Opponents DEF a, b, c, d
    <2> QED
      BY <1>0, <2>1, Half DEF Places
  <1>2. m = 0 <=> n = 0
    <2>1. (m = 0 <=> a = 0) /\ b # 0 /\ (n = 0 <=> c = 0) /\ d # 0
      BY Half DEF a, b, c, d, Place, Origin, Tables, Rounds
    <2> QED
      BY <1>0, <2>1
  <1> USE DEF a, b, c, d
  <1>3. r = s
    <2>1. CASE m = 0
      BY <1>1, <1>2, <2>1, Half DEF Place, Origin, Tables, Rounds
    <2>2. CASE m # 0
      BY <1>1, <1>2, <2>2, Half DEF Place, Origin, Tables, Rounds
    <2> QED
      BY <2>1, <2>2
  <1>4. m = n
    <2>1. m = n \/ m = TeamCount - 1 - n
      BY <1>3, PlaceInjective, Opponents
    <2> QED
      BY <2>1, Half DEF Tables
  <1> QED
    BY <1>3, <1>4

\* Any two places are opponents in some round.
LEMMA MeetSome ==
    ASSUME NEW a \in Places, NEW b \in Places, a # b
    PROVE  \E i \in Places, r \in Rounds :
             Place(i, r) = a /\ Place(TeamCount - 1 - i, r) = b
  <1> DEFINE h == matchesPerRound
  <1>1. CASE a = 0
    <2>1. numRounds - b \in Rounds
      BY <1>1, Half DEF Places, Rounds
    <2>2. Place(0, numRounds - b) = a /\ Place(TeamCount - 1 - 0, numRounds - b) = b
      BY <1>1, Half DEF Place, Origin, Places
    <2> QED
      BY <2>1, <2>2, Half DEF Places
  <1>2. CASE b = 0
    <2>1. numRounds - a \in Rounds
      BY <1>2, Half DEF Places, Rounds
    <2>2. Place(TeamCount - 1, numRounds - a) = a
          /\ Place(TeamCount - 1 - (TeamCount - 1), numRounds - a) = b
      BY <1>2, Half DEF Place, Origin, Places
    <2> QED
      BY <2>1, <2>2, Half DEF Places
  <1>3. CASE a # 0 /\ b # 0
    <2> DEFINE Seat(q, r) == IF q + r <= numRounds THEN q + r ELSE q + r - numRounds
    <2>1. ASSUME NEW r \in Rounds, Seat(a, r) + Seat(b, r) = numRounds
          PROVE  Place(Seat(a, r), r) = a /\ Place(TeamCount - 1 - Seat(a, r), r) = b
                 /\ Seat(a, r) \in Places
      BY <1>3, <2>1, Half DEF Place, Origin, Places, Rounds
    <2>2. \E r \in Rounds : Seat(a, r) + Seat(b, r) = numRounds
      <3>1. PICK k \in Nat : a + b = 2 * k \/ a + b = 2 * k + 1
        <4>1. (a + b) \div 2 \in Nat
              /\ (a + b = 2 * ((a + b) \div 2) \/ a + b = 2 * ((a + b) \div 2) + 1)
          BY Half DEF Places
        <4> QED
          BY <4>1
      <3>2. CASE a + b = 2 * k
        <4>1. numRounds - k \in Rounds
          BY <1>3, <3>2, Half DEF Places, Rounds
        <4>2. Seat(a, numRounds - k) + Seat(b, numRounds - k) = numRounds
          BY <1>3, <3>2, Half DEF Places
        <4> QED
          BY <4>1, <4>2
      <3>3. CASE a + b = 2 * k + 1 /\ a + b <= numRounds
        <4>1. h - 1 - k \in Rounds
          BY <1>3, <3>3, Half DEF Places, Rounds
        <4>2. Seat(a, h - 1 - k) + Seat(b, h - 1 - k) = numRounds
          BY <1>3, <3>3, Half DEF Places
        <4> QED
          BY <4>1, <4>2
      <3>4. CASE a + b = 2 * k + 1 /\ a + b > numRounds
        <4>1. h - 1 - k + numRounds \in Rounds
          BY <1>3, <3>4, Half DEF Places, Rounds
        <4>2. Seat(a, h - 1 - k + numRounds) + Seat(b, h - 1 - k + numRounds) = numRounds
          BY <1>3, <3>4, Half DEF Places
        <4> QED
          BY <4>1, <4>2
      <3> QED
        BY <3>1, <3>2, <3>3, <3>4, Half DEF Places
    <2> QED
      BY <2>1, <2>2
  <1> QED
    BY <1>1, <1>2, <1>3

(***************************************************************************)
(* The loop.                                                               *)
(***************************************************************************)

LEMMA LoopStarts == LoopInit => LoopInv
  <1> SUFFICES ASSUME LoopInit PROVE LoopInv
    OBVIOUS
  <1>1. rotating = [i \in Seats |-> teamList[1 + Origin(i, 0)]]
    BY Half DEF LoopInit, Seats, Origin
  <1>2. Built(0) = {}
    BY DEF Built
  <1> QED
    BY <1>1, <1>2, Half DEF LoopInit, LoopInv

\* At position i of the current round stands the team of Place(i, round).
LEMMA Current ==
    ASSUME LoopInv, round < numRounds, NEW i \in Places
    PROVE  current[i] = teamList[Place(i, round)]
  BY Half DEF LoopInv, current, Places, Seats, Place

LEMMA LoopStep == LoopInv /\ [LoopNext]_loopVars => LoopInv'
  <1> SUFFICES ASSUME LoopInv, [LoopNext]_loopVars PROVE LoopInv'
    OBVIOUS
  <1>1. CASE Round
    <2>1. rotating' = [i \in Seats |-> teamList[1 + Origin(i, round + 1)]]
      <3>1. ASSUME NEW i \in Seats
            PROVE  Rotated[i] = teamList[1 + Origin(i, round + 1)]
        <4> DEFINE j == IF i = 0 THEN TeamCount - 2 ELSE i - 1
        <4>1. j \in Seats /\ Rotated[i] = rotating[j]
          BY Half DEF Seats, Rotated
        <4>2. rotating[j] = teamList[1 + Origin(j, round)]
          BY <4>1 DEF LoopInv
        <4>3. Origin(j, round) = Origin(i, round + 1)
          BY <1>1, Half DEF Round, LoopInv, Seats, Origin
        <4> QED
          BY <4>1, <4>2, <4>3
      <3> QED
        BY <1>1, <3>1 DEF Round, Rotated
    <2>2. ASSUME NEW m \in Tables
          PROVE  Leg1(m) = FirstLeg(m, round) /\ Leg2(m) = SecondLeg(m, round)
      BY <1>1, Current, Opponents DEF Round, Leg1, Leg2, FirstLeg, SecondLeg
    <2>3. RoundMatches = {FirstLeg(m, round) : m \in Tables}
                            \cup {SecondLeg(m, round) : m \in Tables}
      BY <2>2 DEF RoundMatches, Tables
    <2>4. Built(round + 1) = Built(round) \cup RoundMatches
      <3>1. 0..round = (0..round - 1) \cup {round}
        BY DEF LoopInv
      <3>2. 0..(round + 1) - 1 = 0..round
        BY DEF LoopInv
      <3> QED
        BY <2>3, <3>1, <3>2 DEF Built
    <2>5. matchData' = (Built(round))'
      BY <1>1, <2>4 DEF Round, LoopInv, Built, FirstLeg, SecondLeg
    <2> QED
      BY <1>1, <2>1, <2>5, Half DEF Round, LoopInv
  <1>2. CASE Validate
    BY <1>2 DEF Validate, LoopInv, Built, FirstLeg, SecondLeg
  <1>3. CASE UNCHANGED loopVars
    BY <1>3 DEF loopVars, LoopInv, Built, FirstLeg, SecondLeg
  <1> QED
    BY <1>1, <1>2, <1>3 DEF LoopNext

\* After n rounds the loop of generate has built exactly the rows of the circle
\* method's first n rounds, and rotated its array n times.
THEOREM LoopCorrect == LoopSpec => []LoopInv
  BY LoopStarts, LoopStep, PTL DEF LoopSpec

(***************************************************************************)
(* What the rows are, and what follows from it.                            *)
(***************************************************************************)

LEMMA TeamNames ==
    ASSUME LoopInv
    PROVE  /\ \A i \in Places : teamList[i] \in Teams
           /\ \A i, j \in Places : teamList[i] = teamList[j] => i = j
           /\ \A team \in Teams : \E i \in Places : teamList[i] = team
  BY RoundRobinAssumption DEF LoopInv

LEMMA RowShape ==
    ASSUME LoopInv, NEW row \in matchData
    PROVE  \E m \in Tables, r \in Rounds :
             r < round /\ row \in {FirstLeg(m, r), SecondLeg(m, r)}
  <1>1. PICK m \in Tables, r \in 0..round - 1 : row \in {FirstLeg(m, r), SecondLeg(m, r)}
    BY DEF LoopInv, Built
  <1>2. r \in Rounds /\ r < round
    BY Half DEF LoopInv, Rounds
  <1> QED
    BY <1>1, <1>2

LEMMA RowBuilt ==
    ASSUME LoopInv, NEW m \in Tables, NEW r \in Rounds, r < round
    PROVE  FirstLeg(m, r) \in matchData /\ SecondLeg(m, r) \in matchData
  <1>1. r \in 0..round - 1
    BY Half DEF LoopInv, Rounds
  <1> QED
    BY <1>1 DEF LoopInv, Built

\* The two teams of match m of round r are different teams of the season.
LEMMA RowTeams ==
    ASSUME LoopInv, NEW m \in Tables, NEW r \in Rounds
    PROVE  /\ Place(m, r) \in Places /\ Place(TeamCount - 1 - m, r) \in Places
           /\ Place(m, r) # Place(TeamCount - 1 - m, r)
           /\ teamList[Place(m, r)] \in Teams
           /\ teamList[Place(TeamCount - 1 - m, r)] \in Teams
           /\ teamList[Place(m, r)] # teamList[Place(TeamCount - 1 - m, r)]
  BY Opponents, PlaceType, PlaceInjective, TeamNames

\* Two rows with the same two teams come from the same match of the same round.
LEMMA SamePair ==
    ASSUME LoopInv, NEW m \in Tables, NEW n \in Tables, NEW r \in Rounds, NEW s \in Rounds,
           \/ /\ teamList[Place(m, r)] = teamList[Place(n, s)]
              /\ teamList[Place(TeamCount - 1 - m, r)] = teamList[Place(TeamCount - 1 - n, s)]
           \/ /\ teamList[Place(m, r)] = teamList[Place(TeamCount - 1 - n, s)]
              /\ teamList[Place(TeamCount - 1 - m, r)] = teamList[Place(n, s)]
    PROVE  r = s /\ m = n
  <1>1. /\ Place(m, r) \in Places /\ Place(TeamCount - 1 - m, r) \in Places
        /\ Place(n, s) \in Places /\ Place(TeamCount - 1 - n, s) \in Places
    BY RowTeams
  <1>2. {Place(m, r), Place(TeamCount - 1 - m, r)} = {Place(n, s), Place(TeamCount - 1 - n, s)}
    BY <1>1, TeamNames
  <1> QED
    BY <1>2, MeetOnce

LEMMA RematchLemma == LoopInv => NoRematch
  <1> SUFFICES ASSUME LoopInv, NEW x \in matchData, NEW y \in matchData
               PROVE  /\ x.home # x.away
                      /\ x.leg = y.leg /\ {x.home, x.away} = {y.home, y.away} => x = y
                      /\ x.home = y.home /\ x.away = y.away => x = y
    BY DEF NoRematch
  <1>1. PICK m \in Tables, r \in Rounds : x \in {FirstLeg(m, r), SecondLeg(m, r)}
    BY RowShape
  <1>2. PICK n \in Tables, s \in Rounds : y \in {FirstLeg(n, s), SecondLeg(n, s)}
    BY RowShape
  <1>3. x.home # x.away
    BY <1>1, RowTeams DEF FirstLeg, SecondLeg
  <1>4. ASSUME {x.home, x.away} = {y.home, y.away} PROVE r = s /\ m = n
    <2>1. (x.home = y.home /\ x.away = y.away) \/ (x.home = y.away /\ x.away = y.home)
      BY <1>4
    <2>2. \/ /\ teamList[Place(m, r)] = teamList[Place(n, s)]
             /\ teamList[Place(TeamCount - 1 - m, r)] = teamList[Place(TeamCount - 1 - n, s)]
          \/ /\ teamList[Place(m, r)] = teamList[Place(TeamCount - 1 - n, s)]
             /\ teamList[Place(TeamCount - 1 - m, r)] = teamList[Place(n, s)]
      BY <1>1, <1>2, <2>1 DEF FirstLeg, SecondLeg
    <2> QED
      BY <2>2, SamePair
  <1>5. ASSUME x.leg = y.leg, {x.home, x.away} = {y.home, y.away} PROVE x = y
    BY <1>1, <1>2, <1>4, <1>5 DEF FirstLeg, SecondLeg
  <1>6. ASSUME x.home = y.home, x.away = y.away PROVE x = y
    <2>1. r = s /\ m = n
      BY <1>4, <1>6
    <2>2. x.leg = y.leg
      BY <1>1, <1>2, <1>6, <2>1, RowTeams DEF FirstLeg, SecondLeg
    <2> QED
      BY <1>5, <1>6, <2>2
  <1> QED
    BY <1>3, <1>5, <1>6

\* In the match row of a round, only the table where a team's position is.
LEMMA OneTable ==
    ASSUME LoopInv, NEW team \in Teams, NEW r \in Rounds
    PROVE  \E m \in Tables :
             /\ team \in {teamList[Place(m, r)], teamList[Place(TeamCount - 1 - m, r)]}
             /\ \A n \in Tables :
                  team \in {teamList[Place(n, r)], teamList[Place(TeamCount - 1 - n, r)]}
                      => n = m
  <1>1. PICK q \in Places : teamList[q] = team
    BY TeamNames
  <1>2. PICK i \in Places : Place(i, r) = q
    BY PlaceSurjective
  <1> DEFINE m == IF i < matchesPerRound THEN i ELSE TeamCount - 1 - i
  <1>3. m \in Tables /\ (i = m \/ i = TeamCount - 1 - m)
    BY Half DEF Tables, Places
  <1>4. ASSUME NEW n \in Tables,
               team \in {teamList[Place(n, r)], teamList[Place(TeamCount - 1 - n, r)]}
        PROVE  n = m
    <2>1. q \in {Place(n, r), Place(TeamCount - 1 - n, r)}
      BY <1>1, <1>4, RowTeams, TeamNames
    <2>2. i = n \/ i = TeamCount - 1 - n
      BY <1>2, <2>1, Opponents, PlaceInjective
    <2> QED
      BY <1>3, <2>2, Half DEF Tables
  <1> QED
    BY <1>1, <1>2, <1>3, <1>4

LEMMA OnceLemma == LoopInv => OncePerRound
  <1> SUFFICES ASSUME LoopInv, NEW team \in Teams,
                      NEW k \in (1..round) \cup (numRounds + 1 .. numRounds + round)
               PROVE  \E x \in matchData :
                        /\ x.roundNo = k /\ Plays(team, x)
                        /\ \A y \in matchData : y.roundNo = k /\ Plays(team, y) => y = x
    BY DEF OncePerRound
  <1> DEFINE r == IF k <= numRounds THEN k - 1 ELSE k - numRounds - 1
  <1>1. r \in Rounds /\ r < round
    BY Half DEF LoopInv, Rounds
  <1> HIDE DEF r
  <1>2. PICK m \in Tables :
            /\ team \in {teamList[Place(m, r)], teamList[Place(TeamCount - 1 - m, r)]}
            /\ \A n \in Tables :
                 team \in {teamList[Place(n, r)], teamList[Place(TeamCount - 1 - n, r)]}
                     => n = m
    BY <1>1, OneTable
  <1> DEFINE x == IF k <= numRounds THEN FirstLeg(m, r) ELSE SecondLeg(m, r)
  <1>3. x \in matchData
    BY <1>1, RowBuilt
  <1>4. x.roundNo = k /\ Plays(team, x)
    BY <1>2, Half DEF FirstLeg, SecondLeg, Plays, r, LoopInv
  <1>5. ASSUME NEW y \in matchData, y.roundNo = k, Plays(team, y) PROVE y = x
    <2>1. PICK n \in Tables, s \in Rounds : y \in {FirstLeg(n, s), SecondLeg(n, s)}
      BY RowShape
    <2>2. s = r /\ y = IF k <= numRounds THEN FirstLeg(n, s) ELSE SecondLeg(n, s)
      BY <1>5, <2>1, Half DEF FirstLeg, SecondLeg, r, Rounds, LoopInv
    <2>3. n = m
      BY <1>2, <1>5, <2>1, <2>2 DEF FirstLeg, SecondLeg, Plays
    <2> QED
      BY <2>2, <2>3
  <1> QED
    BY <1>3, <1>4, <1>5

LEMMA HostsLemma == LoopInv => EveryoneHostsEveryone
  <1> SUFFICES ASSUME LoopInv, round = numRounds, NEW a \in Teams, NEW b \in Teams, a # b
               PROVE  \E x \in matchData : x.home = a /\ x.away = b
    BY DEF EveryoneHostsEveryone
  <1>1. PICK i \in Places, j \in Places : teamList[i] = a /\ teamList[j] = b
    BY TeamNames
  <1>2. PICK t \in Places, r \in Rounds :
            Place(t, r) = i /\ Place(TeamCount - 1 - t, r) = j
    BY <1>1, MeetSome
  <1>3. r < round
    BY Half DEF Rounds
  <1>4. CASE t \in Tables
    BY <1>1, <1>2, <1>3, <1>4, RowBuilt DEF FirstLeg
  <1>5. CASE t \notin Tables
    <2>1. TeamCount - 1 - t \in Tables /\ TeamCount - 1 - (TeamCount - 1 - t) = t
      BY <1>5, Half DEF Tables, Places
    <2>2. SecondLeg(TeamCount - 1 - t, r) \in matchData
      BY <1>3, <2>1, RowBuilt
    <2>3. SecondLeg(TeamCount - 1 - t, r).home = a /\ SecondLeg(TeamCount - 1 - t, r).away = b
      BY <1>1, <1>2, <2>1 DEF SecondLeg
    <2> QED
      BY <2>2, <2>3
  <1> QED
    BY <1>4, <1>5

LEMMA ShapeLemma == LoopInv => LoopTypeOK
  <1> SUFFICES ASSUME LoopInv PROVE LoopTypeOK
    OBVIOUS
  <1>1. rotating \in [Seats -> Teams]
    <2>1. ASSUME NEW i \in Seats PROVE 1 + Origin(i, round) \in Places
      BY Half DEF Seats, Places, Origin, LoopInv
    <2> QED
      BY <2>1, TeamNames DEF LoopInv
  <1>2. ASSUME NEW row \in matchData PROVE row \in Matches
    <2>1. PICK m \in Tables, r \in Rounds : row \in {FirstLeg(m, r), SecondLeg(m, r)}
      BY RowShape
    <2>2. r + 1 \in 1..2 * numRounds /\ numRounds + r + 1 \in 1..2 * numRounds
      BY Half DEF Rounds
    <2> QED
      BY <2>1, <2>2, RowTeams DEF FirstLeg, SecondLeg, Matches, Tables
  <1> QED
    BY <1>1, <1>2 DEF LoopTypeOK, LoopInv

\* What the loop builds has the shape of match rows.
THEOREM LoopTypeCorrect == LoopSpec => []LoopTypeOK
  BY LoopCorrect, ShapeLemma, PTL

\* Every fixture is generated at most once, for any even number of teams
\* registered in any order.
THEOREM NoFixtureTwice == LoopSpec => []NoRematch
  BY LoopCorrect, RematchLemma, PTL

\* In every round every team plays exactly once.
THEOREM EveryTeamOncePerRound == LoopSpec => []OncePerRound
  BY LoopCorrect, OnceLemma, PTL

\* The finished schedule lacks no fixture.
THEOREM EveryFixtureIsThere == LoopSpec => []EveryoneHostsEveryone
  BY LoopCorrect, HostsLemma, PTL

(***************************************************************************)
(* Rest days.                                                              *)
(***************************************************************************)

\* Wherever in the week the season starts, week w kicks off on day 7 * w + 6.
LEMMA Saturday ==
    ASSUME NEW baseDay \in 0..6, NEW w \in Nat
    PROVE  getNextSaturday(baseDay + 7 * w) = 7 * w + 6
  <1>1. (baseDay + 7 * w) % 7 = baseDay
    OBVIOUS
  <1>2. (6 - baseDay + 7) % 7 = 6 - baseDay
    OBVIOUS
  <1> QED
    BY <1>1, <1>2 DEF getNextSaturday

\* Rows of different rounds are played in different weeks.
LEMMA WeekOfRow ==
    ASSUME LoopInv, NEW x \in matchData
    PROVE  /\ x.roundNo \in 1..2 * numRounds
           /\ x.leg = 1 <=> x.roundNo <= numRounds
           /\ Week(x) = IF x.leg = 1 THEN x.roundNo - 1 ELSE x.roundNo
           /\ Week(x) \in Nat
  <1>1. PICK m \in Tables, r \in Rounds : x \in {FirstLeg(m, r), SecondLeg(m, r)}
    BY RowShape
  <1>2. CASE x = FirstLeg(m, r)
    BY <1>2, Half DEF FirstLeg, Week, Rounds
  <1>3. CASE x = SecondLeg(m, r)
    BY <1>3, Half DEF SecondLeg, Week, Rounds
  <1> QED
    BY <1>1, <1>2, <1>3

LEMMA RestLemma == LoopInv => TeamsRest
  <1> SUFFICES ASSUME LoopInv, NEW x \in matchData, NEW y \in matchData,
                      NEW baseDay \in 0..6,
                      x # y, {x.home, x.away} \cap {y.home, y.away} # {}
               PROVE  \/ KickoffDay(x, baseDay) - KickoffDay(y, baseDay) >= 6
                      \/ KickoffDay(y, baseDay) - KickoffDay(x, baseDay) >= 6
    BY DEF TeamsRest
  <1>1. x.roundNo # y.roundNo
    <2>1. PICK team : team \in {x.home, x.away} /\ team \in {y.home, y.away}
      OBVIOUS
    <2>2. x \in Matches /\ y \in Matches
      BY ShapeLemma DEF LoopTypeOK
    <2>3. team \in Teams /\ Plays(team, x) /\ Plays(team, y)
      BY <2>1, <2>2 DEF Matches, Plays
    <2>4. x.roundNo \in (1..round) \cup (numRounds + 1 .. numRounds + round)
      <3>1. PICK m \in Tables, r \in Rounds :
                r < round /\ x \in {FirstLeg(m, r), SecondLeg(m, r)}
        BY RowShape
      <3> QED
        BY <3>1, Half DEF FirstLeg, SecondLeg, Rounds, LoopInv
    <2> QED
      BY <2>3, <2>4, OnceLemma DEF OncePerRound
  <1>2. Week(x) \in Nat /\ Week(y) \in Nat /\ Week(x) # Week(y)
    BY <1>1, WeekOfRow, Half
  <1>3. /\ KickoffDay(x, baseDay) \in {7 * Week(x) + 6, 7 * Week(x) + 7}
        /\ KickoffDay(y, baseDay) \in {7 * Week(y) + 6, 7 * Week(y) + 7}
    BY <1>2, Saturday DEF KickoffDay
  <1> QED
    BY <1>2, <1>3

\* Nobody plays twice within six days, for any even number of teams, in any
\* order, whatever weekday the season starts on.
THEOREM EveryTeamRests == LoopSpec => []TeamsRest
  BY LoopCorrect, RestLemma, PTL

(***************************************************************************)
(* Counting: validateGeneratedSchedule accepts what the loop has built.    *)
(***************************************************************************)

\* A finite set and its image under a one-to-one map have the same size.
LEMMA SameSize ==
    ASSUME NEW S, NEW T, IsFiniteSet(S), NEW f \in [S -> T],
           \A i, j \in S : f[i] = f[j] => i = j,
           \A j \in T : \E i \in S : f[i] = j
    PROVE  IsFiniteSet(T) /\ Cardinality(T) = Cardinality(S)
  <1>1. f \in Injection(S, T)
    BY DEF Injection, IsInjective
  <1>2. f \in Surjection(S, T)
    BY DEF Surjection
  <1> QED
    BY <1>1, <1>2, FS_Bijection DEF ExistsBijection, Bijection

\* The row at a table of a round of the season, both legs counted through.
RowAt(k, m) == IF k <= numRounds THEN FirstLeg(m, k - 1) ELSE SecondLeg(m, k - numRounds - 1)

LEMMA RowAtLemma ==
    ASSUME LoopInv, round = numRounds
    PROVE  /\ \A k \in 1..2 * numRounds, m \in Tables :
                RowAt(k, m) \in matchData /\ RowAt(k, m).roundNo = k /\ RowAt(k, m).match = m
           /\ \A x \in matchData : \E k \in 1..2 * numRounds, m \in Tables : x = RowAt(k, m)
  <1>1. ASSUME NEW k \in 1..2 * numRounds, NEW m \in Tables
        PROVE  RowAt(k, m) \in matchData /\ RowAt(k, m).roundNo = k /\ RowAt(k, m).match = m
    <2>1. CASE k <= numRounds
      <3>1. k - 1 \in Rounds /\ k - 1 < round /\ k - 1 + 1 = k
        BY <2>1, Half DEF Rounds
      <3> QED
        BY <2>1, <3>1, RowBuilt DEF RowAt, FirstLeg
    <2>2. CASE k > numRounds
      <3>1. /\ k - numRounds - 1 \in Rounds /\ k - numRounds - 1 < round
            /\ numRounds + (k - numRounds - 1) + 1 = k /\ ~(k <= numRounds)
        BY <2>2, Half DEF Rounds
      <3> QED
        BY <3>1, RowBuilt DEF RowAt, SecondLeg
    <2> QED
      BY <2>1, <2>2, Half
  <1>2. ASSUME NEW x \in matchData
        PROVE  \E k \in 1..2 * numRounds, m \in Tables : x = RowAt(k, m)
    <2>1. PICK m \in Tables, r \in Rounds : x \in {FirstLeg(m, r), SecondLeg(m, r)}
      BY RowShape
    <2>2. CASE x = FirstLeg(m, r)
      <3>1. PICK k \in 1..2 * numRounds : k <= numRounds /\ k - 1 = r
        BY Half DEF Rounds
      <3>2. x = RowAt(k, m)
        BY <2>2, <3>1 DEF RowAt, FirstLeg
      <3> QED
        BY <3>2
    <2>3. CASE x = SecondLeg(m, r)
      <3>1. PICK k \in 1..2 * numRounds : ~(k <= numRounds) /\ k - numRounds - 1 = r
        BY Half DEF Rounds
      <3>2. x = RowAt(k, m)
        BY <2>3, <3>1 DEF RowAt, SecondLeg
      <3> QED
        BY <3>2
    <2> QED
      BY <2>1, <2>2, <2>3
  <1> QED
    BY <1>1, <1>2

LEMMA TablesCount == IsFiniteSet(Tables) /\ Cardinality(Tables) = matchesPerRound
  <1>1. IsFiniteSet(0..matchesPerRound - 1)
        /\ Cardinality(0..matchesPerRound - 1) = matchesPerRound - 1 - 0 + 1
    BY Half, FS_Interval
  <1> QED
    BY <1>1, Half DEF Tables

LEMMA TeamsCount ==
    ASSUME LoopInv
    PROVE  IsFiniteSet(Teams) /\ Cardinality(Teams) = TeamCount
  <1>1. IsFiniteSet(Places) /\ Cardinality(Places) = TeamCount
    <2>1. IsFiniteSet(0..TeamCount - 1)
          /\ Cardinality(0..TeamCount - 1) = TeamCount - 1 - 0 + 1
      BY Half, FS_Interval
    <2> QED
      BY <2>1, Half DEF Places
  <1>2. teamList \in [Places -> Teams]
    BY RoundRobinAssumption DEF LoopInv
  <1> QED
    BY <1>1, <1>2, TeamNames, SameSize

LEMMA SwapFactors ==
    ASSUME NEW n \in Nat, NEW k \in Nat
    PROVE  (2 * n) * k = (2 * k) * n
  OBVIOUS

LEMMA AllRows ==
    ASSUME LoopInv, round = numRounds
    PROVE  /\ IsFiniteSet(matchData)
           /\ Cardinality(matchData) = TeamCount * (TeamCount - 1)
  <1> DEFINE S == (1..2 * numRounds) \X Tables
             f == [p \in S |-> RowAt(p[1], p[2])]
  <1>1. IsFiniteSet(1..2 * numRounds) /\ Cardinality(1..2 * numRounds) = 2 * numRounds
    <2>1. /\ IsFiniteSet(1..2 * numRounds)
          /\ Cardinality(1..2 * numRounds) = 2 * numRounds - 1 + 1
      BY Half, FS_Interval
    <2> QED
      BY <2>1, Half
  <1>2. IsFiniteSet(S) /\ Cardinality(S) = (2 * numRounds) * matchesPerRound
    BY <1>1, TablesCount, FS_Product
  <1>3. f \in [S -> matchData]
    BY RowAtLemma
  <1>4. ASSUME NEW p \in S, NEW q \in S, f[p] = f[q] PROVE p = q
    <2>1. PICK k \in 1..2 * numRounds, m \in Tables : p = <<k, m>>
      OBVIOUS
    <2>2. PICK l \in 1..2 * numRounds, n \in Tables : q = <<l, n>>
      OBVIOUS
    <2>3. RowAt(k, m) = RowAt(l, n)
      BY <1>4, <2>1, <2>2
    <2>4. RowAt(k, m).roundNo = k /\ RowAt(l, n).roundNo = l
      BY RowAtLemma
    <2>5. RowAt(k, m).match = m /\ RowAt(l, n).match = n
      BY RowAtLemma
    <2>6. k = l /\ m = n
      BY <2>3, <2>4, <2>5
    <2> QED
      BY <2>1, <2>2, <2>6
  <1>5. ASSUME NEW x \in matchData PROVE \E p \in S : f[p] = x
    <2>1. PICK k \in 1..2 * numRounds, m \in Tables : x = RowAt(k, m)
      BY RowAtLemma
    <2>2. <<k, m>> \in S /\ f[<<k, m>>] = x
      BY <2>1
    <2> QED
      BY <2>2
  <1> HIDE DEF S, f
  <1>6. IsFiniteSet(matchData) /\ Cardinality(matchData) = Cardinality(S)
    BY <1>2, <1>3, <1>4, <1>5, SameSize
  <1>7. numRounds \in Nat /\ matchesPerRound \in Nat
    BY Half
  <1>8. (2 * numRounds) * matchesPerRound = (2 * matchesPerRound) * numRounds
    <2> HIDE DEF numRounds, matchesPerRound
    <2> QED
      BY <1>7, SwapFactors, Zenon
  <1>9. 2 * matchesPerRound = TeamCount /\ numRounds = TeamCount - 1
    BY Half DEF numRounds
  <1> QED
    BY <1>2, <1>6, <1>8, <1>9, Zenon

LEMMA RowsOfRound ==
    ASSUME LoopInv, round = numRounds, NEW k \in 1..2 * numRounds
    PROVE  Cardinality({x \in matchData : x.roundNo = k}) = matchesPerRound
  <1> DEFINE T == {x \in matchData : x.roundNo = k}
             f == [m \in Tables |-> RowAt(k, m)]
  <1>1. f \in [Tables -> T]
    BY RowAtLemma
  <1>2. \A m, n \in Tables : f[m] = f[n] => m = n
    BY RowAtLemma
  <1>3. ASSUME NEW x \in T PROVE \E m \in Tables : f[m] = x
    BY RowAtLemma
  <1> HIDE DEF f
  <1>4. Cardinality(T) = Cardinality(Tables)
    BY <1>1, <1>2, <1>3, TablesCount, SameSize
  <1> QED
    BY <1>4, TablesCount

\* Every other team visits once, and is visited once.
LEMMA RowsOfTeam ==
    ASSUME LoopInv, round = numRounds, NEW team \in Teams
    PROVE  /\ Cardinality({x \in matchData : x.home = team}) = TeamCount - 1
           /\ Cardinality({x \in matchData : x.away = team}) = TeamCount - 1
  <1> DEFINE Others == Teams \ {team}
             H == {x \in matchData : x.home = team}
             A == {x \in matchData : x.away = team}
             h == [x \in H |-> x.away]
             a == [x \in A |-> x.home]
  <1>1. Cardinality(Others) = TeamCount - 1
    BY TeamsCount, FS_RemoveElement
  <1>2. IsFiniteSet(H) /\ IsFiniteSet(A)
    BY AllRows, FS_Subset
  <1>3. \A x \in matchData : x.home \in Teams /\ x.away \in Teams /\ x.home # x.away
    BY ShapeLemma, RematchLemma DEF LoopTypeOK, Matches, NoRematch
  <1>4. \A x, y \in matchData : x.home = y.home /\ x.away = y.away => x = y
    BY RematchLemma DEF NoRematch
  <1>5. Cardinality(Others) = Cardinality(H)
    <2>1. h \in [H -> Others]
      BY <1>3
    <2>2. \A x, y \in H : h[x] = h[y] => x = y
      BY <1>4
    <2>3. \A b \in Others : \E x \in H : h[x] = b
      BY HostsLemma DEF EveryoneHostsEveryone
    <2> HIDE DEF h, H, Others
    <2> QED
      BY <1>2, <2>1, <2>2, <2>3, SameSize
  <1>6. Cardinality(Others) = Cardinality(A)
    <2>1. a \in [A -> Others]
      BY <1>3
    <2>2. \A x, y \in A : a[x] = a[y] => x = y
      BY <1>4
    <2>3. \A b \in Others : \E x \in A : a[x] = b
      BY HostsLemma DEF EveryoneHostsEveryone
    <2> HIDE DEF a, A, Others
    <2> QED
      BY <1>2, <2>1, <2>2, <2>3, SameSize
  <1> QED
    BY <1>1, <1>5, <1>6

LEMMA ValidLemma ==
    ASSUME LoopInv, round = numRounds
    PROVE  validateGeneratedSchedule
  <1>1. 2 * (TeamCount - 1) = 2 * numRounds /\ TeamCount \div 2 = matchesPerRound
    BY DEF numRounds, matchesPerRound
  <1> QED
    BY <1>1, AllRows, RowsOfRound, RowsOfTeam DEF validateGeneratedSchedule

\* validateGeneratedSchedule accepts every schedule that the loop builds: the
\* matches deleted before it runs are never lost to a refusal.
THEOREM ScheduleNeverRejected == LoopSpec => []NeverRejected
  <1>1. LoopInit => NeverRejected
    BY DEF LoopInit, NeverRejected
  <1>2. LoopInv /\ NeverRejected /\ [LoopNext]_loopVars => NeverRejected'
    BY ValidLemma DEF LoopNext, Round, Validate, loopVars, NeverRejected
  <1> QED
    BY <1>1, <1>2, LoopCorrect, PTL DEF LoopSpec

(***************************************************************************)
(* The season's rows.                                                      *)
(*                                                                         *)
(* However many requests race, for any number of teams: the rows of a      *)
(* season are of the types of Schedule, and every call of generate leaves  *)
(* its whole schedule or nothing of it.  Until two of them overlap, what   *)
(* the one in flight has read stays true, and with it the promises of      *)
(* WatchedSchedule.                                                        *)
(***************************************************************************)

Generating(c) == call[c].at \in {"generate.delete", "generate"}

\* What a call of generate in flight relies on: its batch is its own and has
\* no row yet.
InFlight(c) ==
    /\ call[c].batch <= batches
    /\ Cardinality(call[c].group) = requiredTeamCount
    /\ BatchRows(call[c].batch) = {}

BatchInv ==
    /\ TypeOK
    /\ \A m \in matches : m.batch <= batches
    /\ \A c \in Clients : Generating(c) => InFlight(c)
    /\ \A c, d \in Clients :
        Generating(c) /\ Generating(d) /\ call[c].batch = call[d].batch => c = d
    /\ BatchesWhole

-----------------------------------------------------------------------------
(* Types.                                                                  *)

LEMMA ScheduleTypeInit == Init => TypeOK
  BY ScheduleAssumption
     DEF Init, TypeOK, Idle, Calls, SeasonStatuses, SEASON_STATUS_TRANSITIONS

LEMMA GotoType ==
    ASSUME call \in [Clients -> Calls], NEW c \in Clients, NEW next \in Calls,
           Goto(c, next)
    PROVE  call' \in [Clients -> Calls]
  BY DEF Goto

LEMMA ReplyType ==
    ASSUME call \in [Clients -> Calls], NEW c \in Clients, Reply(c)
    PROVE  call' \in [Clients -> Calls]
  BY GotoType DEF Reply, Calls

\* The local variables of a call by the await it is at.
LEMMA CallShape ==
    ASSUME TypeOK, NEW c \in Clients
    PROVE  /\ Generating(c) => call[c] \in [at : {"generate.delete", "generate"},
                                            group : SUBSET TeamIds, batch : 1..MaxBatches]
           /\ At(c, "updateStatus") => call[c].to \in SeasonStatuses
           /\ At(c, "updateTeamStatus") => call[c].team \in TeamIds /\ call[c].to \in validStatuses
           /\ At(c, "removeTeam") => call[c].team \in TeamIds
  BY DEF TypeOK, Calls, Idle, At, Generating

LEMMA RoundRobinType ==
    ASSUME NEW group \in SUBSET TeamIds, NEW batch \in 1..MaxBatches
    PROVE  DoubleRoundRobin(group, batch) \subseteq MatchRows
  BY DEF DoubleRoundRobin, MatchRows

LEMMA TypeStep == TypeOK /\ [Next]_vars => TypeOK'
  <1> SUFFICES ASSUME TypeOK, [Next]_vars PROVE TypeOK'
    OBVIOUS
  <1> USE ScheduleAssumption
  <1>1. ASSUME NEW c \in Clients, GenerateBegin(c) PROVE TypeOK'
    <2>1. [at |-> "generate.delete", group |-> Approved, batch |-> batches + 1] \in Calls
      BY <1>1 DEF GenerateBegin, TypeOK, Calls, Approved
    <2> QED
      BY <1>1, <2>1, GotoType DEF GenerateBegin, TypeOK
  <1>2. ASSUME NEW c \in Clients, GenerateDelete(c) PROVE TypeOK'
    <2>1. [call[c] EXCEPT !.at = "generate"] \in Calls
      BY <1>2, CallShape DEF GenerateDelete, At, Generating, Calls
    <2> QED
      BY <1>2, <2>1, GotoType DEF GenerateDelete, TypeOK
  <1>3. ASSUME NEW c \in Clients, GenerateCreate(c) PROVE TypeOK'
    BY <1>3, CallShape, RoundRobinType, ReplyType
       DEF GenerateCreate, At, Generating, TypeOK
  <1>4. ASSUME NEW c \in Clients, NEW to \in SeasonStatuses, UpdateStatusBegin(c, to)
        PROVE  TypeOK'
    <2>1. [at |-> "updateStatus", to |-> to] \in Calls
      BY DEF Calls
    <2> QED
      BY <1>4, <2>1, GotoType DEF UpdateStatusBegin, rows, TypeOK
  <1>5. ASSUME NEW c \in Clients, UpdateStatusWrite(c) PROVE TypeOK'
    BY <1>5, CallShape, ReplyType DEF UpdateStatusWrite, TypeOK
  <1>6. ASSUME NEW c \in Clients, NEW team \in TeamIds, NEW to \in validStatuses,
               UpdateTeamStatusBegin(c, team, to)
        PROVE  TypeOK'
    <2>1. [at |-> "updateTeamStatus", team |-> team, to |-> to] \in Calls
      BY DEF Calls
    <2> QED
      BY <1>6, <2>1, GotoType DEF UpdateTeamStatusBegin, rows, TypeOK
  <1>7. ASSUME NEW c \in Clients, UpdateTeamStatusWrite(c) PROVE TypeOK'
    BY <1>7, CallShape, ReplyType DEF UpdateTeamStatusWrite, TypeOK
  <1>8. ASSUME NEW c \in Clients, NEW team \in TeamIds, RemoveTeamBegin(c, team)
        PROVE  TypeOK'
    <2>1. [at |-> "removeTeam", team |-> team] \in Calls
      BY DEF Calls
    <2> QED
      BY <1>8, <2>1, GotoType DEF RemoveTeamBegin, rows, TypeOK
  <1>9. ASSUME NEW c \in Clients, RemoveTeamWrite(c) PROVE TypeOK'
    BY <1>9, CallShape, ReplyType DEF RemoveTeamWrite, TypeOK
  <1>10. ASSUME NEW c \in Clients, Fail(c) PROVE TypeOK'
    BY <1>10, ReplyType DEF Fail, rows, TypeOK
  <1>11. CASE Publish
    BY <1>11 DEF Publish, TypeOK, MatchRows
  <1>12. ASSUME NEW team \in TeamIds, RegisterTeam(team) PROVE TypeOK'
    BY <1>12 DEF RegisterTeam, TypeOK, validStatuses
  <1>13. CASE UNCHANGED vars
    BY <1>13 DEF vars, rows, TypeOK
  <1> QED
    BY <1>1, <1>2, <1>3, <1>4, <1>5, <1>6, <1>7, <1>8, <1>9, <1>10, <1>11, <1>12, <1>13
       DEF Next, Step

\* Every row and every request in flight has the type TypeOK gives it.
THEOREM ScheduleTypeCorrect == Spec => []TypeOK
  BY ScheduleTypeInit, TypeStep, PTL DEF Spec

-----------------------------------------------------------------------------
(* A call of generate is all or nothing.                                   *)

LEMMA BatchInit == Init => BatchInv
  BY ScheduleTypeInit DEF Init, BatchInv, BatchesWhole, BatchRows, Generating, Idle

\* A step that changes no match row keeps every batch whole.
LEMMA WholeUnchanged ==
    ASSUME BatchesWhole, matches' = matches
    PROVE  BatchesWhole'
  BY DEF BatchesWhole, Whole, BatchRows

\* A step that neither writes a match row nor starts a call of generate.
LEMMA BatchQuiet ==
    ASSUME BatchInv, TypeOK', matches' = matches, batches' = batches,
           \A c \in Clients : Generating(c)' => Generating(c) /\ call'[c] = call[c]
    PROVE  BatchInv'
  BY WholeUnchanged DEF BatchInv, InFlight, BatchRows

LEMMA ReplyQuiet ==
    ASSUME BatchInv, NEW c \in Clients, Reply(c)
    PROVE  \A d \in Clients : Generating(d)' => Generating(d) /\ call'[d] = call[d]
  BY DEF BatchInv, TypeOK, Reply, Goto, Idle, Generating

LEMMA GotoQuiet ==
    ASSUME BatchInv, NEW c \in Clients, NEW next, Goto(c, next),
           next.at \notin {"generate.delete", "generate"}
    PROVE  \A d \in Clients : Generating(d)' => Generating(d) /\ call'[d] = call[d]
  BY DEF BatchInv, TypeOK, Goto, Generating

LEMMA BeginStep ==
    ASSUME BatchInv, TypeOK', NEW c \in Clients, GenerateBegin(c)
    PROVE  BatchInv'
  <1> USE DEF GenerateBegin
  <1>1. /\ call' = [call EXCEPT ![c] = [at |-> "generate.delete", group |-> Approved,
                                        batch |-> batches + 1]]
        /\ batches' = batches + 1 /\ matches' = matches
        /\ Cardinality(Approved) = requiredTeamCount /\ batches \in Nat
    BY DEF Goto, BatchInv, TypeOK
  <1>2. call' [c] = [at |-> "generate.delete", group |-> Approved, batch |-> batches + 1]
        /\ \A d \in Clients \ {c} : call'[d] = call[d]
    BY <1>1 DEF BatchInv, TypeOK
  <1>3. BatchRows(batches + 1) = {}
    <2>1. \A m \in matches : m.batch \in Nat /\ m.batch <= batches
      BY DEF BatchInv, TypeOK, MatchRows
    <2> QED
      BY <1>1, <2>1 DEF BatchRows
  <1>4. \A m \in matches' : m.batch <= batches'
    <2>1. \A m \in matches : m.batch \in Nat /\ m.batch <= batches
      BY DEF BatchInv, TypeOK, MatchRows
    <2> QED
      BY <1>1, <2>1
  <1>5. ASSUME NEW d \in Clients, Generating(d)' PROVE InFlight(d)'
    <2>1. CASE d = c
      BY <1>1, <1>2, <1>3, <2>1 DEF InFlight, BatchRows
    <2>2. CASE d # c
      <3>1. Generating(d) /\ InFlight(d) /\ call'[d] = call[d]
        BY <1>2, <1>5, <2>2 DEF Generating, BatchInv
      <3>2. call[d].batch \in Nat
        BY <3>1, CallShape DEF BatchInv
      <3> QED
        BY <1>1, <3>1, <3>2 DEF InFlight, BatchRows
    <2> QED
      BY <2>1, <2>2
  <1>6. ASSUME NEW d \in Clients, NEW e \in Clients, Generating(d)', Generating(e)',
               call'[d].batch = call'[e].batch
        PROVE  d = e
    <2>1. ASSUME NEW f \in Clients \ {c}, Generating(f)'
          PROVE  Generating(f) /\ call'[f] = call[f] /\ call'[f].batch # batches + 1
      <3>1. Generating(f) /\ InFlight(f) /\ call'[f] = call[f]
        BY <1>2, <2>1 DEF Generating, BatchInv
      <3>2. call[f].batch \in Nat
        BY <3>1, CallShape DEF BatchInv
      <3> QED
        BY <1>1, <3>1, <3>2 DEF InFlight
    <2> QED
      BY <1>2, <1>6, <2>1 DEF BatchInv
  <1> QED
    BY <1>1, <1>4, <1>5, <1>6, WholeUnchanged DEF BatchInv

LEMMA DeleteStep ==
    ASSUME BatchInv, TypeOK', NEW c \in Clients, GenerateDelete(c)
    PROVE  BatchInv'
  <1>1. /\ call' = [call EXCEPT ![c] = [call[c] EXCEPT !.at = "generate"]]
        /\ batches' = batches /\ matches' = {} /\ Generating(c)
    BY DEF GenerateDelete, Goto, At, Generating
  <1>2. call[c] \in [at : {"generate.delete", "generate"}, group : SUBSET TeamIds,
                     batch : 1..MaxBatches]
    BY <1>1, CallShape DEF BatchInv
  <1>3. ASSUME NEW d \in Clients, Generating(d)'
        PROVE  /\ Generating(d)
               /\ call'[d].batch = call[d].batch /\ call'[d].group = call[d].group
    BY <1>1, <1>2, <1>3 DEF Generating, BatchInv, TypeOK
  <1>4. ASSUME NEW d \in Clients, Generating(d)' PROVE InFlight(d)'
    BY <1>1, <1>3, <1>4 DEF InFlight, BatchRows, BatchInv
  <1>5. ASSUME NEW d \in Clients, NEW e \in Clients, Generating(d)', Generating(e)',
               call'[d].batch = call'[e].batch
        PROVE  d = e
    BY <1>3, <1>5 DEF BatchInv
  <1> QED
    BY <1>1, <1>4, <1>5 DEF BatchInv, BatchesWhole, BatchRows

LEMMA CreateStep ==
    ASSUME BatchInv, TypeOK', NEW c \in Clients, GenerateCreate(c)
    PROVE  BatchInv'
  <1>0. PICK group \in SUBSET TeamIds, batch \in 1..MaxBatches :
            group = call[c].group /\ batch = call[c].batch
    BY CallShape DEF BatchInv, GenerateCreate, At, Generating
  <1>1. /\ matches' = matches \cup DoubleRoundRobin(group, batch)
        /\ batches' = batches /\ Reply(c) /\ Generating(c)
    BY <1>0 DEF GenerateCreate, At, Generating
  <1>2. /\ batch \in Nat /\ batch <= batches
        /\ Cardinality(group) = requiredTeamCount /\ BatchRows(batch) = {}
    BY <1>0, <1>1 DEF BatchInv, InFlight
  <1>3. call' = [call EXCEPT ![c] = Idle]
    BY <1>1 DEF Reply, Goto
  <1>4. \A m \in DoubleRoundRobin(group, batch) : m.batch = batch
    BY DEF DoubleRoundRobin
  <1>5. \A b : b # batch => BatchRows(b)' = BatchRows(b)
    BY <1>1, <1>4 DEF BatchRows
  <1>6. BatchRows(batch)' = DoubleRoundRobin(group, batch)
    <2>1. \A x : x \in matches' /\ x.batch = batch <=> x \in DoubleRoundRobin(group, batch)
      BY <1>1, <1>2, <1>4 DEF BatchRows
    <2> QED
      BY <2>1 DEF BatchRows
  <1>7. ASSUME NEW d \in Clients, Generating(d)'
        PROVE  Generating(d) /\ call'[d] = call[d] /\ d # c
    BY <1>3, <1>7 DEF Generating, Idle, BatchInv, TypeOK
  <1>8. ASSUME NEW d \in Clients, Generating(d)' PROVE InFlight(d)'
    <2>1. Generating(d) /\ InFlight(d) /\ call'[d] = call[d] /\ call[d].batch # batch
      BY <1>0, <1>1, <1>7, <1>8 DEF BatchInv
    <2> QED
      BY <1>1, <1>5, <2>1 DEF InFlight
  <1>9. ASSUME NEW b \in 1..MaxBatches, BatchRows(b)' # {} PROVE Whole(b)'
    <2>1. CASE b = batch
      <3>1. BatchRows(b)' = {[m EXCEPT !.status = "DRAFT"] : m \in DoubleRoundRobin(group, batch)}
        <4>1. \A m \in DoubleRoundRobin(group, batch) : [m EXCEPT !.status = "DRAFT"] = m
          BY DEF DoubleRoundRobin
        <4>2. \A x : x \in DoubleRoundRobin(group, batch)
                    <=> x \in {[m EXCEPT !.status = "DRAFT"] : m \in DoubleRoundRobin(group, batch)}
          BY <4>1
        <4> QED
          BY <1>6, <2>1, <4>2
      <3> QED
        BY <1>2, <2>1, <3>1 DEF Whole
    <2>2. CASE b # batch
      <3>1. Whole(b)
        BY <1>5, <1>9, <2>2 DEF BatchInv, BatchesWhole, Whole
      <3> QED
        BY <1>5, <2>2, <3>1 DEF Whole
    <2> QED
      BY <2>1, <2>2
  <1>10. \A m \in matches' : m.batch <= batches'
    BY <1>1, <1>2, <1>4 DEF BatchInv
  <1>11. BatchesWhole'
    BY <1>9 DEF BatchesWhole, Whole
  <1> QED
    BY <1>7, <1>8, <1>10, <1>11 DEF BatchInv

LEMMA PublishStep ==
    ASSUME BatchInv, TypeOK', Publish
    PROVE  BatchInv'
  <1> DEFINE P(m) == [m EXCEPT !.status = "PUBLISHED"]
  <1>1. matches' = {P(m) : m \in matches} /\ batches' = batches /\ call' = call
    BY DEF Publish
  <1>2. \A m \in matches : P(m).batch = m.batch
    BY DEF BatchInv, TypeOK, MatchRows
  <1>3. \A b : BatchRows(b)' = {P(m) : m \in BatchRows(b)}
    BY <1>1, <1>2 DEF BatchRows
  <1>4. ASSUME NEW b \in 1..MaxBatches, BatchRows(b)' # {} PROVE Whole(b)'
    <2>1. BatchRows(b) # {}
      BY <1>3, <1>4
    <2>2. PICK group \in SUBSET TeamIds, published \in {"DRAFT", "PUBLISHED"} :
            /\ Cardinality(group) = requiredTeamCount
            /\ BatchRows(b) = {[m EXCEPT !.status = published] :
                                  m \in DoubleRoundRobin(group, b)}
      BY <2>1 DEF BatchInv, BatchesWhole, Whole
    <2> DEFINE Q(m) == [m EXCEPT !.status = published]
               fixtures == DoubleRoundRobin(group, b)
    <2>3. \A m \in fixtures : P(Q(m)) = P(m)
      BY DEF DoubleRoundRobin
    <2>4. BatchRows(b)' = {P(m) : m \in fixtures}
      <3>1. BatchRows(b) = {Q(m) : m \in fixtures}
        BY <2>2
      <3> HIDE DEF P, Q, fixtures
      <3>2. {P(m) : m \in BatchRows(b)} = {P(Q(m)) : m \in fixtures}
        BY <3>1
      <3>3. {P(Q(m)) : m \in fixtures} = {P(m) : m \in fixtures}
        BY <2>3
      <3> QED
        BY <1>3, <3>2, <3>3
    <2> QED
      BY <2>2, <2>4 DEF Whole
  <1>5. ASSUME NEW c \in Clients, Generating(c)' PROVE InFlight(c)'
    BY <1>1, <1>3, <1>5 DEF BatchInv, Generating, InFlight
  <1>6. \A m \in matches' : m.batch <= batches'
    BY <1>1, <1>2 DEF BatchInv
  <1>7. BatchesWhole'
    BY <1>4 DEF BatchesWhole, Whole
  <1> QED
    BY <1>1, <1>5, <1>6, <1>7 DEF BatchInv, Generating

LEMMA BatchStep == BatchInv /\ [Next]_vars => BatchInv'
  <1> SUFFICES ASSUME BatchInv, [Next]_vars PROVE BatchInv'
    OBVIOUS
  <1>0. TypeOK'
    BY TypeStep DEF BatchInv
  <1>1. ASSUME NEW c \in Clients, Step(c) PROVE BatchInv'
    <2>1. CASE GenerateBegin(c)
      BY <1>0, <2>1, BeginStep
    <2>2. CASE GenerateDelete(c)
      BY <1>0, <2>2, DeleteStep
    <2>3. CASE GenerateCreate(c)
      BY <1>0, <2>3, CreateStep
    <2>4. ASSUME NEW to \in SeasonStatuses, UpdateStatusBegin(c, to) PROVE BatchInv'
      BY <1>0, <2>4, GotoQuiet, BatchQuiet DEF UpdateStatusBegin, rows
    <2>5. CASE UpdateStatusWrite(c)
      BY <1>0, <2>5, ReplyQuiet, BatchQuiet DEF UpdateStatusWrite
    <2>6. ASSUME NEW team \in TeamIds, NEW to \in validStatuses,
                 UpdateTeamStatusBegin(c, team, to)
          PROVE  BatchInv'
      BY <1>0, <2>6, GotoQuiet, BatchQuiet DEF UpdateTeamStatusBegin, rows
    <2>7. CASE UpdateTeamStatusWrite(c)
      BY <1>0, <2>7, ReplyQuiet, BatchQuiet DEF UpdateTeamStatusWrite
    <2>8. ASSUME NEW team \in TeamIds, RemoveTeamBegin(c, team) PROVE BatchInv'
      BY <1>0, <2>8, GotoQuiet, BatchQuiet DEF RemoveTeamBegin, rows
    <2>9. CASE RemoveTeamWrite(c)
      BY <1>0, <2>9, ReplyQuiet, BatchQuiet DEF RemoveTeamWrite
    <2>10. CASE Fail(c)
      BY <1>0, <2>10, ReplyQuiet, BatchQuiet DEF Fail, rows
    <2> QED
      BY <1>1, <2>1, <2>2, <2>3, <2>4, <2>5, <2>6, <2>7, <2>8, <2>9, <2>10 DEF Step
  <1>2. CASE Publish
    BY <1>0, <1>2, PublishStep
  <1>3. ASSUME NEW team \in TeamIds, RegisterTeam(team) PROVE BatchInv'
    BY <1>0, <1>3, BatchQuiet DEF RegisterTeam, Generating
  <1>4. CASE UNCHANGED vars
    BY <1>0, <1>4, BatchQuiet DEF vars, rows, Generating
  <1> QED
    BY <1>1, <1>2, <1>3, <1>4 DEF Next

\* Wherever requests interleave or die, a call of generate leaves its whole
\* schedule, published as one, or no row of it.
THEOREM BatchesAreWhole == Spec => []BatchesWhole
  <1>1. BatchInv => BatchesWhole
    BY DEF BatchInv
  <1> QED
    BY <1>1, BatchInit, BatchStep, PTL DEF Spec

-----------------------------------------------------------------------------
(* Until requests overlap.                                                 *)

\* What the one request in flight has read still holds: nobody else writes it.
ReadsHold(c) ==
    /\ Generating(c) => call[c].group = Approved
    /\ At(c, "generate") => matches = {}
    /\ At(c, "removeTeam") => seasonStatus = "UPCOMING"

Alone ==
    /\ ~Overlapping
    /\ \A c \in Clients : ReadsHold(c)
    /\ CleanSlate

WatchInv == BatchInv /\ (~overlapped => Alone)

LEMMA WatchInit == WatchedInit => WatchInv
  BY BatchInit
     DEF WatchedInit, WatchInv, Alone, Init, Overlapping, ReadsHold, Generating, At,
         Idle, CleanSlate

\* The calls after a step of c, when nobody else is in flight.
LEMMA OnlyCaller ==
    ASSUME BatchInv, ~Overlapping', NEW c \in Clients, NEW next, Goto(c, next), next # Idle
    PROVE  \A d \in Clients : call'[d] = IF d = c THEN next ELSE Idle
  BY DEF BatchInv, TypeOK, Overlapping, Goto

\* A request that ends leaves nobody in flight.
LEMMA NobodyLeft ==
    ASSUME BatchInv, ~Overlapping, NEW c \in Clients, call[c] # Idle, Reply(c)
    PROVE  \A d \in Clients : call'[d] = Idle
  BY DEF BatchInv, TypeOK, Overlapping, Goto, Reply

LEMMA NobodyReads ==
    ASSUME \A d \in Clients : call'[d] = Idle, CleanSlate'
    PROVE  Alone'
  BY DEF Alone, Overlapping, ReadsHold, Generating, At, Idle

LEMMA CallerReads ==
    ASSUME NEW c \in Clients, ~Overlapping', CleanSlate', ReadsHold(c)',
           \A d \in Clients \ {c} : call'[d] = Idle
    PROVE  Alone'
  BY DEF Alone, ReadsHold, Generating, At, Idle

\* A step of the bystanders: requests that are one statement.
LEMMA BystanderStep ==
    ASSUME BatchInv, Alone, call' = call, Approved' = Approved, seasonStatus' = seasonStatus,
           matches = {} => matches' = {}, CleanSlate'
    PROVE  Alone'
  BY DEF Alone, Overlapping, ReadsHold, Generating, At

LEMMA SameSlate ==
    ASSUME CleanSlate, matches' = matches
    PROVE  CleanSlate'
  BY DEF CleanSlate

LEMMA AloneStep ==
    ASSUME BatchInv, Alone, [Next]_vars, ~Overlapping'
    PROVE  Alone'
  <1> USE DEF Alone
  <1>1. ASSUME NEW c \in Clients, GenerateBegin(c) PROVE Alone'
    <2> DEFINE next == [at |-> "generate.delete", group |-> Approved, batch |-> batches + 1]
    <2>1. Goto(c, next) /\ next # Idle /\ matches' = matches /\ Approved' = Approved
      BY <1>1 DEF GenerateBegin, Idle, Approved
    <2>2. \A d \in Clients : call'[d] = IF d = c THEN next ELSE Idle
      BY <2>1, OnlyCaller
    <2>3. ReadsHold(c)'
      BY <2>1, <2>2 DEF ReadsHold, Generating, At
    <2> QED
      BY <2>1, <2>2, <2>3, SameSlate, CallerReads
  <1>2. ASSUME NEW c \in Clients, GenerateDelete(c) PROVE Alone'
    <2> DEFINE next == [call[c] EXCEPT !.at = "generate"]
    <2>1. /\ Goto(c, next) /\ matches' = {} /\ Approved' = Approved
          /\ call[c].group = Approved
      BY <1>2 DEF GenerateDelete, Approved, ReadsHold, Generating, At
    <2>2. next.at = "generate" /\ next.group = call[c].group
      BY <1>2, CallShape DEF BatchInv, Generating, GenerateDelete, At
    <2>3. \A d \in Clients : call'[d] = IF d = c THEN next ELSE Idle
      BY <2>1, <2>2, OnlyCaller DEF Idle
    <2>4. ReadsHold(c)'
      BY <2>1, <2>2, <2>3 DEF ReadsHold, Generating, At
    <2>5. CleanSlate'
      BY <2>1 DEF CleanSlate
    <2> QED
      BY <2>3, <2>4, <2>5, CallerReads
  <1>3. ASSUME NEW c \in Clients, GenerateCreate(c) PROVE Alone'
    <2>1. matches = {} /\ call[c] # Idle
      BY <1>3 DEF GenerateCreate, ReadsHold, At, Idle
    <2>2. matches' = DoubleRoundRobin(call[c].group, call[c].batch)
      BY <1>3, <2>1 DEF GenerateCreate
    <2>3. CleanSlate'
      BY <2>2 DEF CleanSlate, DoubleRoundRobin
    <2> QED
      BY <1>3, <2>1, <2>3, NobodyLeft, NobodyReads DEF GenerateCreate
  <1>4. ASSUME NEW c \in Clients, NEW to \in SeasonStatuses, UpdateStatusBegin(c, to)
        PROVE  Alone'
    <2> DEFINE next == [at |-> "updateStatus", to |-> to]
    <2>1. Goto(c, next) /\ next # Idle /\ matches' = matches
      BY <1>4 DEF UpdateStatusBegin, Idle, rows
    <2>2. \A d \in Clients : call'[d] = IF d = c THEN next ELSE Idle
      BY <2>1, OnlyCaller
    <2> QED
      BY <2>1, <2>2, SameSlate, CallerReads DEF ReadsHold, Generating, At
  <1>5. ASSUME NEW c \in Clients, UpdateStatusWrite(c) PROVE Alone'
    BY <1>5, NobodyLeft, NobodyReads, SameSlate DEF UpdateStatusWrite, At, Idle
  <1>6. ASSUME NEW c \in Clients, NEW team \in TeamIds, NEW to \in validStatuses,
               UpdateTeamStatusBegin(c, team, to)
        PROVE  Alone'
    <2> DEFINE next == [at |-> "updateTeamStatus", team |-> team, to |-> to]
    <2>1. Goto(c, next) /\ next # Idle /\ matches' = matches
      BY <1>6 DEF UpdateTeamStatusBegin, Idle, rows
    <2>2. \A d \in Clients : call'[d] = IF d = c THEN next ELSE Idle
      BY <2>1, OnlyCaller
    <2> QED
      BY <2>1, <2>2, SameSlate, CallerReads DEF ReadsHold, Generating, At
  <1>7. ASSUME NEW c \in Clients, UpdateTeamStatusWrite(c) PROVE Alone'
    BY <1>7, NobodyLeft, NobodyReads, SameSlate DEF UpdateTeamStatusWrite, At, Idle
  <1>8. ASSUME NEW c \in Clients, NEW team \in TeamIds, RemoveTeamBegin(c, team)
        PROVE  Alone'
    <2> DEFINE next == [at |-> "removeTeam", team |-> team]
    <2>1. /\ Goto(c, next) /\ next # Idle /\ matches' = matches
          /\ seasonStatus' = "UPCOMING"
      BY <1>8 DEF RemoveTeamBegin, Idle, rows
    <2>2. \A d \in Clients : call'[d] = IF d = c THEN next ELSE Idle
      BY <2>1, OnlyCaller
    <2> QED
      BY <2>1, <2>2, SameSlate, CallerReads DEF ReadsHold, Generating, At
  <1>9. ASSUME NEW c \in Clients, RemoveTeamWrite(c) PROVE Alone'
    BY <1>9, NobodyLeft, NobodyReads, SameSlate DEF RemoveTeamWrite, At, Idle
  <1>10. ASSUME NEW c \in Clients, Fail(c) PROVE Alone'
    BY <1>10, NobodyLeft, NobodyReads, SameSlate DEF Fail, rows
  <1>11. CASE Publish
    <2>1. /\ call' = call /\ Approved' = Approved /\ seasonStatus' = seasonStatus
          /\ matches = {} => matches' = {}
      BY <1>11 DEF Publish, Approved
    <2>2. \A m \in matches : [m EXCEPT !.status = "PUBLISHED"].batch = m.batch
      BY DEF BatchInv, TypeOK, MatchRows
    <2>3. CleanSlate'
      <3>1. \A m \in matches' : \E n \in matches : m.batch = n.batch
        BY <1>11, <2>2 DEF Publish
      <3> QED
        BY <3>1 DEF CleanSlate
    <2> QED
      BY <2>1, <2>3, BystanderStep
  <1>12. ASSUME NEW team \in TeamIds, RegisterTeam(team) PROVE Alone'
    <2>1. Approved' = Approved
      BY <1>12 DEF RegisterTeam, Approved, BatchInv, TypeOK
    <2> QED
      BY <1>12, <2>1, SameSlate, BystanderStep DEF RegisterTeam
  <1>13. CASE UNCHANGED vars
    BY <1>13, SameSlate, BystanderStep DEF vars, rows, Approved
  <1> QED
    BY <1>1, <1>2, <1>3, <1>4, <1>5, <1>6, <1>7, <1>8, <1>9, <1>10, <1>11, <1>12, <1>13
       DEF Next, Step

LEMMA WatchStep == WatchInv /\ [WatchedNext]_<<vars, overlapped>> => WatchInv'
  <1> SUFFICES ASSUME WatchInv, [WatchedNext]_<<vars, overlapped>> PROVE WatchInv'
    OBVIOUS
  <1>1. [Next]_vars
    BY DEF WatchedNext
  <1>2. BatchInv'
    BY <1>1, BatchStep DEF WatchInv
  <1>3. ASSUME ~overlapped' PROVE ~overlapped /\ Alone
    <2>1. CASE WatchedNext
      BY <1>3, <2>1, Zenon DEF WatchedNext, WatchInv
    <2>2. CASE UNCHANGED <<vars, overlapped>>
      BY <1>3, <2>2 DEF WatchInv
    <2> QED
      BY <2>1, <2>2
  <1>4. ASSUME ~overlapped' PROVE Alone'
    <2>1. CASE WatchedNext
      BY <1>1, <1>3, <1>4, <2>1, AloneStep DEF WatchedNext, WatchInv
    <2>2. CASE UNCHANGED <<vars, overlapped>>
      <3>1. ~Overlapping'
        BY <1>3, <1>4, <2>2 DEF Alone, Overlapping, vars
      <3> QED
        BY <1>1, <1>3, <1>4, <3>1, AloneStep DEF WatchInv
    <2> QED
      BY <2>1, <2>2
  <1> QED
    BY <1>2, <1>4 DEF WatchInv

THEOREM WatchedBatches == WatchedSpec => []WatchInv
  BY WatchInit, WatchStep, PTL DEF WatchedSpec

\* Until two requests overlap, and wherever one dies, a regenerated schedule
\* has replaced the one before it: no fixture is there twice.
THEOREM SlateIsClean == WatchedSpec => []CleanSlateUntilOverlap
  <1>1. WatchInv => CleanSlateUntilOverlap
    BY DEF WatchInv, Alone, CleanSlateUntilOverlap
  <1> QED
    BY <1>1, WatchedBatches, PTL

\* The rows after a step that is not GenerateCreate are of batches there were.
LEMMA OnlyCreateAddsBatches ==
    ASSUME TypeOK, [Next]_vars, NEW m \in matches', m.batch \notin {n.batch : n \in matches}
    PROVE  \E c \in Clients : GenerateCreate(c)
  <1>1. CASE Publish
    <2>1. \A n \in matches : [n EXCEPT !.status = "PUBLISHED"].batch = n.batch
      BY DEF TypeOK, MatchRows
    <2> QED
      BY <1>1, <2>1 DEF Publish
  <1>2. ASSUME NEW c \in Clients, Step(c), ~GenerateCreate(c) PROVE matches' \subseteq matches
    BY <1>2
       DEF Step, GenerateBegin, GenerateDelete, UpdateStatusBegin, UpdateStatusWrite,
           UpdateTeamStatusBegin, UpdateTeamStatusWrite, RemoveTeamBegin, RemoveTeamWrite,
           Fail, rows
  <1> QED
    BY <1>1, <1>2 DEF Next, RegisterTeam, vars, rows

\* Until two requests overlap, generate creates matches for teams that are
\* APPROVED at the moment it writes, not only when it read them.
THEOREM OnlyApprovedAreScheduled == WatchedSpec => ScheduledTeamsAreApproved
  <1>1. WatchInv /\ [WatchedNext]_<<vars, overlapped>>
        => [\A m \in matches' :
                ~overlapped' /\ m.batch \notin {n.batch : n \in matches}
                    => {m.home, m.away} \subseteq Approved]_vars
    <2> SUFFICES ASSUME WatchInv, [WatchedNext]_<<vars, overlapped>>, NEW m \in matches',
                        ~overlapped', m.batch \notin {n.batch : n \in matches}
                 PROVE  {m.home, m.away} \subseteq Approved
      OBVIOUS
    <2>1. [Next]_vars /\ TypeOK /\ Alone
      BY DEF WatchedNext, WatchInv, BatchInv
    <2>2. PICK c \in Clients : GenerateCreate(c)
      BY <2>1, OnlyCreateAddsBatches
    <2>3. call[c].group = Approved /\ matches = {}
      BY <2>1, <2>2 DEF Alone, ReadsHold, Generating, GenerateCreate, At
    <2>4. m \in DoubleRoundRobin(Approved, call[c].batch)
      BY <2>2, <2>3 DEF GenerateCreate
    <2> QED
      BY <2>4 DEF DoubleRoundRobin
  <1> QED
    BY <1>1, WatchedBatches, PTL DEF WatchedSpec, ScheduledTeamsAreApproved

\* Until two requests overlap, a team that has a row keeps one once the season
\* has started: removeTeam has checked a status that is still true.
THEOREM StartedSeasonKeepsTeams == WatchedSpec => NoTeamLeavesStartedSeason
  <1>1. WatchInv /\ [WatchedNext]_<<vars, overlapped>>
        => [~overlapped' /\ seasonStatus # "UPCOMING" =>
                \A team \in TeamIds : teams[team] # "NONE" => teams'[team] # "NONE"]_vars
    <2> SUFFICES ASSUME WatchInv, WatchedNext, ~overlapped', seasonStatus # "UPCOMING",
                        NEW team \in TeamIds, teams[team] # "NONE"
                 PROVE  teams'[team] # "NONE"
      BY DEF WatchedNext, vars, rows
    <2>1. Next /\ TypeOK /\ Alone
      BY DEF WatchedNext, WatchInv, BatchInv
    <2>2. ASSUME NEW c \in Clients, UpdateTeamStatusWrite(c) PROVE teams'[team] # "NONE"
      <3>1. call[c].team \in TeamIds /\ call[c].to \in validStatuses
        BY <2>1, <2>2, CallShape DEF UpdateTeamStatusWrite
      <3> QED
        BY <2>1, <2>2, <3>1 DEF UpdateTeamStatusWrite, TypeOK, validStatuses
    <2>3. ASSUME NEW c \in Clients, RemoveTeamWrite(c) PROVE FALSE
      BY <2>1, <2>3 DEF RemoveTeamWrite, Alone, ReadsHold
    <2>4. ASSUME NEW c \in Clients, Step(c) PROVE teams'[team] # "NONE"
      BY <2>2, <2>3, <2>4
         DEF Step, GenerateBegin, GenerateDelete, GenerateCreate, UpdateStatusBegin,
             UpdateStatusWrite, UpdateTeamStatusBegin, RemoveTeamBegin, Fail, rows
    <2>5. ASSUME NEW t \in TeamIds, RegisterTeam(t) PROVE teams'[team] # "NONE"
      BY <2>1, <2>5 DEF RegisterTeam, TypeOK
    <2> QED
      BY <2>1, <2>4, <2>5 DEF Next, Publish
  <1> QED
    BY <1>1, WatchedBatches, PTL DEF WatchedSpec, NoTeamLeavesStartedSeason
=============================================================================
