--------------------------- MODULE StandingsProofs ---------------------------
(***************************************************************************)
(* The promises of Standings, for any teams, fixtures, scores and numbers  *)
(* of requests that race over the table and its lots and may die.          *)
(***************************************************************************)
EXTENDS Standings, FiniteSetTheorems, WellFoundedInduction, NaturalsInduction, TLAPS

-----------------------------------------------------------------------------
(* Sums.                                                                   *)

Less == {pair \in Nat \X Nat : pair[1] < pair[2]}

LEMMA LeastOfNats ==
  ASSUME NEW S \in SUBSET Nat, S # {}
  PROVE  \E n \in S : \A m \in S : n <= m
  <1>1. IsWellFoundedOn(Less, Nat)
    <2>1. Less = OpToRel(<, Nat)
      BY DEF OpToRel, Less
    <2> QED
      BY <2>1, NatLessThanWellFounded
  <1>2. PICK n \in S : \A m \in S : <<m, n>> \notin Less
    BY <1>1, WFMin
  <1>3. ASSUME NEW m \in S PROVE n <= m
    <2>1. m \in Nat /\ n \in Nat /\ <<m, n>> \notin Less
      BY <1>2
    <2> QED
      BY <2>1 DEF Less
  <1> QED
    BY <1>3

\* One step of the recursion by which the library adds the values of f.
Picked(T) == CHOOSE x \in T : TRUE
Added(f, sum, T) == IF T = {} THEN 0 ELSE f[Picked(T)] + sum[T \ {Picked(T)}]

LEMMA OneLess ==
  ASSUME NEW S, IsFiniteSet(S), NEW T \in SUBSET S, T # {}
  PROVE  /\ Picked(T) \in T /\ T \ {Picked(T)} \in SUBSET S
         /\ IsFiniteSet(T) /\ Cardinality(T) \in Nat \ {0}
         /\ Cardinality(T \ {Picked(T)}) = Cardinality(T) - 1
  <1>1. Picked(T) \in T
    BY DEF Picked
  <1>2. IsFiniteSet(T)
    BY FS_Subset
  <1> QED
    BY <1>1, <1>2, FS_RemoveElement, FS_CardinalityType, FS_EmptySet

\* The recursion has a solution: it has one for the sets of up to n elements, for
\* every n.
LEMMA SumExists ==
  ASSUME NEW f, IsFiniteSet(DOMAIN f)
  PROVE  \E sum : sum = [T \in SUBSET DOMAIN f |-> Added(f, sum, T)]
  <1> DEFINE S == DOMAIN f
             Solves(sum, n) == \A T \in SUBSET S : Cardinality(T) <= n => sum[T] = Added(f, sum, T)
             Bad == {n \in Nat : ~\E sum : Solves(sum, n)}
  <1>1. \A T \in SUBSET S : Cardinality(T) \in Nat /\ (Cardinality(T) = 0 => T = {})
    BY FS_Subset, FS_CardinalityType, FS_EmptySet
  <1>2. Bad = {}
    <2> SUFFICES ASSUME Bad # {} PROVE FALSE
      OBVIOUS
    <2>1. PICK n \in Bad : \A m \in Bad : n <= m
      <3> Bad \in SUBSET Nat
        OBVIOUS
      <3> HIDE DEF Bad
      <3> QED
        BY LeastOfNats
    <2>2. CASE n = 0
      <3> DEFINE zero == [T \in SUBSET S |-> 0]
      <3>1. Solves(zero, 0)
        BY <1>1 DEF Added
      <3> QED
        BY <2>1, <2>2, <3>1
    <2>3. CASE n # 0
      <3>1. n \in Nat /\ n - 1 \in Nat /\ n - 1 \notin Bad
        BY <2>1, <2>3
      <3>2. PICK sum : Solves(sum, n - 1)
        BY <3>1
      <3> DEFINE next == [T \in SUBSET S |-> Added(f, sum, T)]
      <3>3. ASSUME NEW T \in SUBSET S, Cardinality(T) <= n, T # {}
            PROVE  next[T] = Added(f, next, T)
        <4>1. /\ T \ {Picked(T)} \in SUBSET S
              /\ Cardinality(T \ {Picked(T)}) <= n - 1
          BY <1>1, <3>1, <3>3, OneLess
        <4>2. next[T \ {Picked(T)}] = sum[T \ {Picked(T)}]
          BY <3>2, <4>1
        <4> QED
          BY <3>3, <4>2 DEF Added
      <3>4. Solves(next, n)
        BY <3>3 DEF Added
      <3> QED
        BY <2>1, <3>4
    <2> QED
      BY <2>2, <2>3
  <1>3. PICK sum : Solves(sum, Cardinality(S))
    BY <1>1, <1>2
  <1>4. \A T \in SUBSET S : sum[T] = Added(f, sum, T)
    BY <1>3, FS_Subset
  <1> DEFINE all == [T \in SUBSET S |-> sum[T]]
  <1>5. ASSUME NEW T \in SUBSET S PROVE all[T] = Added(f, all, T)
    BY <1>4 DEF Added
  <1>6. all = [T \in SUBSET S |-> Added(f, all, T)]
    BY <1>5
  <1> QED
    BY <1>6

LEMMA SumType ==
  ASSUME NEW f, IsFiniteSet(DOMAIN f), \A x \in DOMAIN f : f[x] \in Int
  PROVE  SumFunction(f) \in Int
  <1> DEFINE S == DOMAIN f
  <1>1. ASSUME NEW sum, sum = [T \in SUBSET S |-> Added(f, sum, T)]
        PROVE  sum[S] \in Int
    <2> DEFINE Bad == {n \in Nat : \E T \in SUBSET S : Cardinality(T) = n /\ sum[T] \notin Int}
    <2>1. Bad = {}
      <3> SUFFICES ASSUME Bad # {} PROVE FALSE
        OBVIOUS
      <3>1. PICK n \in Bad : \A m \in Bad : n <= m
        <4> Bad \in SUBSET Nat
          OBVIOUS
        <4> HIDE DEF Bad
        <4> QED
          BY LeastOfNats
      <3>2. PICK T \in SUBSET S : Cardinality(T) = n /\ sum[T] \notin Int
        BY <3>1
      <3>3. sum[T] = Added(f, sum, T)
        BY <1>1
      <3>4. T # {}
        BY <3>2, <3>3 DEF Added
      <3>5. /\ Picked(T) \in T /\ T \ {Picked(T)} \in SUBSET S
            /\ n \in Nat \ {0} /\ Cardinality(T \ {Picked(T)}) = n - 1
        BY <3>2, <3>4, OneLess
      <3>6. sum[T \ {Picked(T)}] \in Int
        <4>1. n - 1 \in Nat /\ n - 1 \notin Bad
          BY <3>1, <3>5
        <4> QED
          BY <3>5, <4>1
      <3> QED
        BY <3>2, <3>3, <3>4, <3>5, <3>6 DEF Added
    <2> QED
      BY <2>1, FS_CardinalityType
  <1>2. PICK sum : sum = [T \in SUBSET S |-> Added(f, sum, T)]
    BY SumExists
  <1> QED
    BY <1>1, <1>2 DEF SumFunction, SumFunctionOnSet, FoldFunctionOnSet, MapThenFoldSet, Added, Picked
-----------------------------------------------------------------------------
(* Places: the teams of a table, those before one, those that share its place. *)

Before(raw, t) == {u \in DOMAIN raw.position : raw.position[u] < raw.position[t]}
Sharing(raw, t) == {u \in DOMAIN raw.position : raw.position[u] = raw.position[t]}

\* Everyone has as many before him as his position says, and those who share one
\* are to be drawn for.
IsRanking(raw) ==
  /\ IsFiniteSet(DOMAIN raw.position) /\ raw.open \subseteq DOMAIN raw.position
  /\ \A t \in DOMAIN raw.position : raw.position[t] = PositionOf(Before(raw, t))
  /\ \A t \in DOMAIN raw.position : \A u \in Sharing(raw, t) \ {t} : u \in raw.open

LEMMA Counting ==
  ASSUME NEW D, IsFiniteSet(D), NEW B \in SUBSET D, NEW A \in SUBSET B
  PROVE  /\ IsFiniteSet(A) /\ IsFiniteSet(B)
         /\ Cardinality(A) \in Nat /\ Cardinality(B) \in Nat
         /\ PositionOf(A) \in Nat /\ PositionOf(A) = Cardinality(A) + 1
         /\ Cardinality(A) <= Cardinality(B)
         /\ A # B => Cardinality(A) < Cardinality(B)
  <1>1. IsFiniteSet(B)
    BY FS_Subset
  <1>2. IsFiniteSet(A)
    BY <1>1, FS_Subset
  <1> QED
    BY <1>1, <1>2, FS_Subset, FS_CardinalityType DEF PositionOf

LEMMA Joined ==
  ASSUME NEW D, IsFiniteSet(D), NEW A \in SUBSET D, NEW B \in SUBSET D, A \cap B = {}
  PROVE  /\ Cardinality(A \cup B) = Cardinality(A) + Cardinality(B)
         /\ Cardinality(A) \in Nat /\ Cardinality(B) \in Nat
  <1>1. IsFiniteSet(A) /\ IsFiniteSet(B) /\ Cardinality(A) \in Nat /\ Cardinality(B) \in Nat
    BY FS_Subset, FS_CardinalityType
  <1>2. Cardinality(A \cup B) = Cardinality(A) + Cardinality(B) - Cardinality({})
    BY <1>1, FS_Union
  <1> QED
    BY <1>1, <1>2, FS_EmptySet

LEMMA PlacesCount ==
  ASSUME NEW p \in Nat, NEW k \in Nat, k >= 1
  PROVE  Cardinality(p .. (p + k - 1)) = k
  <1>1. p + k - 1 \in Int /\ ~(p > p + k - 1)
    OBVIOUS
  <1> QED
    BY <1>1, FS_Interval

LEMMA RankingPlaces ==
  ASSUME NEW raw, IsRanking(raw), NEW t \in DOMAIN raw.position
  PROVE  /\ raw.position[t] \in Nat
         /\ IsFiniteSet(Sharing(raw, t)) /\ Cardinality(Sharing(raw, t)) \in Nat
         /\ Cardinality(Sharing(raw, t)) >= 1
         /\ \A u \in DOMAIN raw.position :
              raw.position[t] < raw.position[u] =>
                raw.position[t] + Cardinality(Sharing(raw, t)) <= raw.position[u]
  <1> DEFINE D == DOMAIN raw.position
  <1>1. IsFiniteSet(D)
    BY DEF IsRanking
  <1>2. \A u \in D : raw.position[u] \in Nat /\ raw.position[u] = Cardinality(Before(raw, u)) + 1
    BY <1>1, Counting DEF IsRanking, Before
  <1>3. IsFiniteSet(Sharing(raw, t)) /\ Cardinality(Sharing(raw, t)) \in Nat
    BY <1>1, FS_Subset, FS_CardinalityType DEF Sharing
  <1>4. Cardinality(Sharing(raw, t)) >= 1
    BY <1>3, FS_EmptySet DEF Sharing
  <1>5. ASSUME NEW u \in D, raw.position[t] < raw.position[u]
        PROVE  raw.position[t] + Cardinality(Sharing(raw, t)) <= raw.position[u]
    <2>1. /\ Before(raw, t) \in SUBSET D /\ Sharing(raw, t) \in SUBSET D
          /\ Before(raw, t) \cap Sharing(raw, t) = {}
          /\ Before(raw, t) \cup Sharing(raw, t) \in SUBSET Before(raw, u)
          /\ Before(raw, u) \in SUBSET D
      <3>1. Before(raw, t) \in SUBSET D /\ Sharing(raw, t) \in SUBSET D /\ Before(raw, u) \in SUBSET D
        BY DEF Before, Sharing
      <3>2. ASSUME NEW v \in Before(raw, t), v \in Sharing(raw, t) PROVE FALSE
        <4>1. v \in D /\ raw.position[v] < raw.position[t] /\ raw.position[v] = raw.position[t]
          BY <3>2 DEF Before, Sharing
        <4> QED
          BY <1>2, <4>1
      <3>3. ASSUME NEW v \in Before(raw, t) \cup Sharing(raw, t) PROVE v \in Before(raw, u)
        <4>1. v \in D /\ (raw.position[v] < raw.position[t] \/ raw.position[v] = raw.position[t])
          BY <3>3 DEF Before, Sharing
        <4>2. raw.position[v] < raw.position[u]
          BY <1>2, <1>5, <4>1
        <4> QED
          BY <4>1, <4>2 DEF Before
      <3> QED
        BY <3>1, <3>2, <3>3
    <2>2. Cardinality(Before(raw, t) \cup Sharing(raw, t))
            = Cardinality(Before(raw, t)) + Cardinality(Sharing(raw, t))
          /\ Cardinality(Before(raw, t)) \in Nat
      <3> HIDE DEF D
      <3> QED
        BY <1>1, <2>1, Joined
    <2>3. Cardinality(Before(raw, t) \cup Sharing(raw, t)) <= Cardinality(Before(raw, u))
          /\ Cardinality(Before(raw, u)) \in Nat
      BY <1>1, <2>1, Counting
    <2> QED
      BY <1>2, <1>3, <2>2, <2>3
  <1> QED
    BY <1>2, <1>3, <1>4, <1>5

\* A group to be drawn for is all who share a place, and its ranks are their places.
LEMMA GroupPlaces ==
  ASSUME NEW raw, IsRanking(raw), NEW t \in raw.open,
         NEW g, g = {u \in raw.open : raw.position[u] = raw.position[t]}
  PROVE  /\ t \in DOMAIN raw.position /\ g \in Groups(raw)
         /\ g = Sharing(raw, t)
         /\ ExpectedRanks(raw, g)
              = raw.position[t] .. (raw.position[t] + Cardinality(Sharing(raw, t)) - 1)
  <1>1. t \in DOMAIN raw.position /\ g \in Groups(raw)
    BY DEF IsRanking, Groups
  <1>2. g = Sharing(raw, t)
    BY <1>1 DEF IsRanking, Sharing
  <1>3. {raw.position[u] : u \in g} = {raw.position[t]}
    BY <1>1
  <1>4. raw.position[t] \in Nat
    BY <1>1, RankingPlaces
  <1>5. Min({raw.position[t]}) = raw.position[t]
    BY <1>4 DEF Min
  <1> QED
    BY <1>1, <1>2, <1>3, <1>5 DEF ExpectedRanks

\* What the teams of a group have drawn are their places, each one once.
LEMMA LotsInPlaces ==
  ASSUME NEW raw, IsRanking(raw), NEW ranks, Covers(raw, ranks), NEW t \in raw.open
  PROVE  /\ t \in DOMAIN ranks
         /\ ranks[t] \in raw.position[t] .. (raw.position[t] + Cardinality(Sharing(raw, t)) - 1)
         /\ \A u \in Sharing(raw, t) : u # t => ranks[u] # ranks[t]
  <1> DEFINE g == {u \in raw.open : raw.position[u] = raw.position[t]}
             places == raw.position[t] .. (raw.position[t] + Cardinality(Sharing(raw, t)) - 1)
             drawn == [u \in g |-> ranks[u]]
  <1>1. /\ t \in DOMAIN raw.position /\ g \in Groups(raw) /\ g = Sharing(raw, t)
        /\ ExpectedRanks(raw, g) = places
    BY GroupPlaces
  <1>2. g \subseteq DOMAIN ranks /\ {ranks[u] : u \in g} = places
    BY <1>1 DEF Covers
  <1>3. IsFiniteSet(g) /\ Cardinality(g) \in Nat /\ Cardinality(g) >= 1 /\ raw.position[t] \in Nat
    BY <1>1, RankingPlaces
  <1>4. Cardinality(places) = Cardinality(g)
    BY <1>1, <1>3, PlacesCount
  <1>5. drawn \in Surjection(g, places)
    <2> HIDE DEF places
    <2> QED
      BY <1>2 DEF Surjection
  <1>6. drawn \in Injection(g, places)
    <2> HIDE DEF places, drawn, g
    <2> QED
      BY <1>3, <1>4, <1>5, FS_SurjSameCardinalityImpliesInj
  <1>7. \A u \in g : u # t => ranks[u] # ranks[t]
    <2> HIDE DEF places
    <2> QED
      BY <1>6 DEF Injection, IsInjective
  <1> QED
    BY <1>1, <1>2, <1>7

\* Lots that cover the groups put everyone in a place of his own, among the places
\* of those he shared one with.
LEMMA RedrawnPlaces ==
  ASSUME NEW raw, IsRanking(raw), NEW ranks, DOMAIN ranks \subseteq raw.open,
         Covers(raw, ranks), NEW final, final = Redrawn(raw, ranks)
  PROVE  /\ final.open = {} /\ DOMAIN final.position = DOMAIN raw.position
         /\ \A a, b \in DOMAIN raw.position :
              /\ final.position[a] = final.position[b] => a = b
              /\ raw.position[a] < raw.position[b] => final.position[a] < final.position[b]
         /\ \A a \in DOMAIN raw.position :
              final.position[a] \in
                raw.position[a] .. (raw.position[a] + Cardinality(Sharing(raw, a)) - 1)
  <1> DEFINE D == DOMAIN raw.position
             rank == [t \in D |-> IF t \in DOMAIN ranks THEN ranks[t] ELSE raw.position[t]]
             Lower(t) == {u \in D : rank[u] < rank[t]}
  <1>1. final.open = {} /\ final.position = [t \in D |-> PositionOf(Lower(t))]
    BY DEF Redrawn
  <1>2. /\ IsFiniteSet(D)
        /\ \A t \in D : /\ raw.position[t] \in Nat
                        /\ raw.position[t] = Cardinality(Before(raw, t)) + 1
                        /\ Cardinality(Sharing(raw, t)) \in Nat /\ Cardinality(Sharing(raw, t)) >= 1
    <2>1. IsFiniteSet(D) /\ \A t \in D : raw.position[t] = PositionOf(Before(raw, t))
      BY DEF IsRanking
    <2> QED
      BY <2>1, RankingPlaces DEF PositionOf
  <1>3. \A t \in D : rank[t] \in raw.position[t] .. (raw.position[t] + Cardinality(Sharing(raw, t)) - 1)
    <2> SUFFICES ASSUME NEW t \in D
                 PROVE  rank[t] \in raw.position[t] .. (raw.position[t] + Cardinality(Sharing(raw, t)) - 1)
      OBVIOUS
    <2>1. CASE t \in raw.open
      BY <2>1, LotsInPlaces
    <2>2. CASE t \notin raw.open
      BY <1>2, <2>2
    <2> QED
      BY <2>1, <2>2
  <1>4. \A t \in D : rank[t] \in Int
    <2> HIDE DEF rank
    <2> QED
      BY <1>2, <1>3
  <1>5. \A a, b \in D : raw.position[a] < raw.position[b] => rank[a] < rank[b]
    <2> SUFFICES ASSUME NEW a \in D, NEW b \in D, raw.position[a] < raw.position[b]
                 PROVE  rank[a] < rank[b]
      OBVIOUS
    <2>1. raw.position[a] + Cardinality(Sharing(raw, a)) <= raw.position[b]
      BY RankingPlaces
    <2> HIDE DEF rank
    <2> QED
      BY <1>2, <1>3, <1>4, <2>1
  <1>6. \A a, b \in D : a # b => rank[a] # rank[b]
    <2> SUFFICES ASSUME NEW a \in D, NEW b \in D, a # b PROVE rank[a] # rank[b]
      OBVIOUS
    <2>1. CASE raw.position[a] = raw.position[b]
      <3>1. a \in raw.open /\ b \in raw.open /\ b \in Sharing(raw, a)
        BY <2>1 DEF IsRanking, Sharing
      <3>2. a \in DOMAIN ranks /\ b \in DOMAIN ranks /\ ranks[a] # ranks[b]
        BY <3>1, LotsInPlaces
      <3> QED
        BY <3>2
    <2>2. CASE raw.position[a] # raw.position[b]
      <3> HIDE DEF rank
      <3> QED
        BY <1>2, <1>4, <1>5, <2>2
    <2> QED
      BY <2>1, <2>2
  <1> HIDE DEF rank
  <1>7. ASSUME NEW a \in D, NEW b \in D, rank[a] < rank[b]
        PROVE  final.position[a] < final.position[b]
    <2>1. Lower(a) \in SUBSET Lower(b) /\ Lower(b) \in SUBSET D
      BY <1>4, <1>7
    <2>2. a \in Lower(b) /\ a \notin Lower(a)
      BY <1>4, <1>7
    <2>3. /\ Cardinality(Lower(a)) < Cardinality(Lower(b))
          /\ Cardinality(Lower(a)) \in Nat /\ Cardinality(Lower(b)) \in Nat
      <3> HIDE DEF Lower
      <3> QED
        BY <1>2, <2>1, <2>2, Counting
    <2> QED
      BY <1>1, <2>3 DEF PositionOf
  <1>8. ASSUME NEW a \in D
        PROVE  final.position[a] \in
                 raw.position[a] .. (raw.position[a] + Cardinality(Sharing(raw, a)) - 1)
    <2> DEFINE Others == Sharing(raw, a) \ {a}
    <2>1. Before(raw, a) \in SUBSET Lower(a) /\ Lower(a) \in SUBSET D
      BY <1>5, <1>8 DEF Before
    <2>2. Lower(a) \in SUBSET (Before(raw, a) \cup Others)
      <3> SUFFICES ASSUME NEW u \in D, rank[u] < rank[a], u \notin Before(raw, a)
                   PROVE  u \in Others
        OBVIOUS
      <3>1. u # a
        BY <1>4
      <3>2. ~(raw.position[a] < raw.position[u])
        BY <1>4, <1>5
      <3> QED
        <4>1. raw.position[u] \in Nat /\ raw.position[a] \in Nat
          BY <1>2, <1>8
        <4>2. ~(raw.position[u] < raw.position[a])
          BY DEF Before
        <4>3. raw.position[u] = raw.position[a]
          BY <3>2, <4>1, <4>2
        <4> QED
          BY <3>1, <4>3 DEF Sharing
    <2>3. /\ Before(raw, a) \in SUBSET D /\ Others \in SUBSET D
          /\ Before(raw, a) \cap Others = {}
      <3>1. \A u \in D : ~(raw.position[u] < raw.position[a] /\ raw.position[u] = raw.position[a])
        BY <1>2, <1>8
      <3> QED
        BY <3>1 DEF Before, Sharing
    <2>4. Cardinality(Others) = Cardinality(Sharing(raw, a)) - 1
      <3>1. a \in Sharing(raw, a) /\ IsFiniteSet(Sharing(raw, a))
        BY RankingPlaces DEF Sharing
      <3> QED
        BY <3>1, FS_RemoveElement
    <2>5. /\ Cardinality(Before(raw, a) \cup Others) = Cardinality(Before(raw, a)) + Cardinality(Others)
          /\ Cardinality(Before(raw, a)) \in Nat /\ Cardinality(Others) \in Nat
      <3> HIDE DEF Others
      <3> QED
        BY <1>2, <2>3, Joined
    <2>6. /\ Cardinality(Before(raw, a)) <= Cardinality(Lower(a))
          /\ Cardinality(Lower(a)) <= Cardinality(Before(raw, a) \cup Others)
          /\ Cardinality(Lower(a)) \in Nat
      <3> HIDE DEF Others, Lower
      <3>1. Before(raw, a) \cup Others \in SUBSET D
        BY <2>3
      <3> QED
        BY <1>2, <2>1, <2>2, <3>1, Counting
    <2>7. final.position[a] = Cardinality(Lower(a)) + 1
      BY <1>1 DEF PositionOf
    <2> HIDE DEF Others, Lower
    <2> QED
      BY <1>2, <2>4, <2>5, <2>6, <2>7
  <1>9. \A a \in D : final.position[a] \in Int
    BY <1>2, <1>8
  <1>10. ASSUME NEW a \in D, NEW b \in D
         PROVE  /\ final.position[a] = final.position[b] => a = b
                /\ raw.position[a] < raw.position[b] => final.position[a] < final.position[b]
    <2>1. a # b => rank[a] < rank[b] \/ rank[b] < rank[a]
      BY <1>4, <1>6, <1>10
    <2>2. /\ rank[a] < rank[b] => final.position[a] < final.position[b]
          /\ rank[b] < rank[a] => final.position[b] < final.position[a]
      BY <1>7, <1>10
    <2> QED
      BY <1>5, <1>9, <1>10, <2>1, <2>2
  <1> QED
    BY <1>1, <1>8, <1>10
-----------------------------------------------------------------------------
(* The table of a season.                                                  *)

SeasonTables == [approved : SUBSET Teams, result : [Fixtures -> Scores \cup {Nil}]]

LEMMA GoalsType ==
  ASSUME NEW s \in SeasonTables, NEW t, NEW f \in Counted(s)
  PROVE  GoalsFor(s, t, f) \in Nat /\ GoalsAgainst(s, t, f) \in Nat
  <1>1. s.result[f] \in Scores
    BY DEF SeasonTables, Counted
  <1>2. s.result[f][1] \in Nat /\ s.result[f][2] \in Nat
    BY <1>1, StandingsAssumption
  <1> QED
    BY <1>2 DEF GoalsFor, GoalsAgainst

LEMMA NumbersType ==
  ASSUME NEW s \in SeasonTables, NEW a, NEW b
  PROVE  Points(s, a) \in Int /\ Difference(s, a) \in Int /\ HeadToHead(s, a, b) \in Int
  <1>1. IsFiniteSet(Counted(s))
    <2>1. IsFiniteSet(Teams \X Teams)
      BY FS_Product, StandingsAssumption
    <2> QED
      BY <2>1, FS_Subset, StandingsAssumption DEF Counted
  <1>2. \A t : Of(s, t) \in SUBSET Counted(s) /\ IsFiniteSet(Of(s, t))
    BY <1>1, FS_Subset DEF Of
  <1>3. Points(s, a) \in Int
    <2> DEFINE f == [m \in Of(s, a) |-> PointsOf(s, a, m)]
    <2>1. ASSUME NEW m \in DOMAIN f PROVE f[m] \in Int
      <3>1. GoalsFor(s, a, m) \in Nat /\ GoalsAgainst(s, a, m) \in Nat
        BY <1>2, <2>1, GoalsType
      <3>2. WinPoints \in Int /\ DrawPoints \in Int /\ LossPoints \in Int
        BY StandingsAssumption
      <3> QED
        BY <2>1, <3>1, <3>2 DEF PointsOf
    <2>2. IsFiniteSet(DOMAIN f)
      BY <1>2
    <2> HIDE DEF f
    <2>3. SumFunction(f) \in Int
      BY <2>1, <2>2, SumType
    <2> QED
      BY <2>3 DEF f, Points
  <1>4. Difference(s, a) \in Int
    <2> DEFINE f == [m \in Of(s, a) |-> GoalsFor(s, a, m) - GoalsAgainst(s, a, m)]
    <2>1. ASSUME NEW m \in DOMAIN f PROVE f[m] \in Int
      <3>1. GoalsFor(s, a, m) \in Nat /\ GoalsAgainst(s, a, m) \in Nat
        BY <1>2, <2>1, GoalsType
      <3> QED
        BY <2>1, <3>1
    <2>2. IsFiniteSet(DOMAIN f)
      BY <1>2
    <2> HIDE DEF f
    <2>3. SumFunction(f) \in Int
      BY <2>1, <2>2, SumType
    <2> QED
      BY <2>3 DEF f, Difference
  <1>5. HeadToHead(s, a, b) \in Int
    <2> DEFINE f == [m \in Of(s, a) \cap Of(s, b) |-> GoalsFor(s, a, m)]
    <2>1. ASSUME NEW m \in DOMAIN f PROVE f[m] \in Int
      <3>1. GoalsFor(s, a, m) \in Nat
        BY <1>2, <2>1, GoalsType
      <3> QED
        BY <2>1, <3>1
    <2>2. IsFiniteSet(DOMAIN f)
      BY <1>2, FS_Subset
    <2> HIDE DEF f
    <2>3. SumFunction(f) \in Int
      BY <2>1, <2>2, SumType
    <2> QED
      BY <2>3 DEF f, HeadToHead
  <1> QED
    BY <1>3, <1>4, <1>5

\* Teams are in the order of points and difference, or level.
LEMMA OrderOfRows ==
  ASSUME NEW r, \A t \in DOMAIN r : r[t] \in Int \X Int,
         NEW a \in DOMAIN r, NEW b \in DOMAIN r
  PROVE  /\ Above(r, a, b) \/ Above(r, b, a) \/ r[a] = r[b]
         /\ ~(Above(r, a, b) /\ Above(r, b, a)) /\ ~(Above(r, a, b) /\ r[a] = r[b])
         /\ \A c \in DOMAIN r : Above(r, a, b) /\ Above(r, b, c) => Above(r, a, c)
         /\ \A c \in DOMAIN r : r[a] = r[b] => /\ Above(r, a, c) <=> Above(r, b, c)
                                              /\ Above(r, c, a) <=> Above(r, c, b)
  <1>1. \A t \in DOMAIN r : r[t][1] \in Int /\ r[t][2] \in Int /\ r[t] = <<r[t][1], r[t][2]>>
    OBVIOUS
  <1>2. r[a] = r[b] <=> r[a][1] = r[b][1] /\ r[a][2] = r[b][2]
    BY <1>1
  <1>3. ASSUME NEW c \in DOMAIN r, Above(r, a, b), Above(r, b, c) PROVE Above(r, a, c)
    BY <1>1, <1>3 DEF Above
  <1>4. Above(r, a, b) \/ Above(r, b, a) \/ r[a] = r[b]
    BY <1>1, <1>2 DEF Above
  <1>5. ~(Above(r, a, b) /\ Above(r, b, a)) /\ ~(Above(r, a, b) /\ r[a] = r[b])
    BY <1>1, <1>2 DEF Above
  <1> QED
    BY <1>3, <1>4, <1>5 DEF Above

LEMMA RowsType ==
  ASSUME NEW s \in SeasonTables
  PROVE  /\ DOMAIN Rows(s) = s.approved /\ s.approved \subseteq Teams /\ IsFiniteSet(s.approved)
         /\ \A t \in s.approved : Rows(s)[t] \in Int \X Int
  BY NumbersType, FS_Subset, StandingsAssumption DEF Rows, SeasonTables

\* Of two level teams one may beat the other.
LEMMA BeatsOne ==
  ASSUME NEW s \in SeasonTables, NEW r, NEW a \in DOMAIN r, NEW b \in DOMAIN r,
         Beats(s, r, a, b)
  PROVE  /\ a # b /\ r[a] = r[b] /\ ~Beats(s, r, b, a)
         /\ LevelWith(r, a) = {a, b} /\ LevelWith(r, b) = {a, b}
  <1>1. a # b /\ LevelWith(r, a) = {a, b} /\ HeadToHead(s, a, b) > HeadToHead(s, b, a)
    BY DEF Beats
  <1>2. r[a] = r[b]
    BY <1>1 DEF LevelWith
  <1>3. LevelWith(r, b) = {a, b}
    BY <1>1, <1>2 DEF LevelWith
  <1>4. ~(HeadToHead(s, b, a) > HeadToHead(s, a, b))
    BY <1>1, NumbersType
  <1> QED
    BY <1>1, <1>2, <1>3, <1>4 DEF Beats

\* The teams that the final table puts before one.
IsAhead(s, r, u, t) == Above(r, u, t) \/ Beats(s, r, u, t)
Ahead(s, r, t) == {u \in DOMAIN r : IsAhead(s, r, u, t)}

LEMMA AheadIsAnOrder ==
  ASSUME NEW s \in SeasonTables, NEW r, \A t \in DOMAIN r : r[t] \in Int \X Int,
         NEW a \in DOMAIN r, NEW b \in DOMAIN r
  PROVE  /\ IsAhead(s, r, a, b) => /\ Ahead(s, r, a) \subseteq Ahead(s, r, b)
                                  /\ a \in Ahead(s, r, b) /\ a \notin Ahead(s, r, a)
         /\ ~IsAhead(s, r, a, b) /\ ~IsAhead(s, r, b, a)
              => Ahead(s, r, a) = Ahead(s, r, b) /\ r[a] = r[b]
  <1>1. ~IsAhead(s, r, a, a)
    BY OrderOfRows DEF IsAhead, Beats
  <1>2. ASSUME IsAhead(s, r, a, b), NEW u \in DOMAIN r, IsAhead(s, r, u, a)
        PROVE  IsAhead(s, r, u, b)
    <2>1. CASE Above(r, u, a)
      <3>1. Above(r, a, b) \/ r[a] = r[b]
        BY <1>2, BeatsOne DEF IsAhead
      <3> QED
        BY <2>1, <3>1, OrderOfRows DEF IsAhead
    <2>2. CASE Beats(s, r, u, a)
      <3>1. r[u] = r[a] /\ LevelWith(r, a) = {u, a} /\ ~Beats(s, r, a, u)
        BY <2>2, BeatsOne
      <3>2. Above(r, a, b)
        <4>1. SUFFICES ASSUME Beats(s, r, a, b) PROVE FALSE
          BY <1>2 DEF IsAhead
        <4>2. a # b /\ LevelWith(r, a) = {a, b}
          BY <4>1, BeatsOne
        <4> QED
          BY <3>1, <4>1, <4>2
      <3> QED
        BY <3>1, <3>2, OrderOfRows DEF IsAhead
    <2> QED
      BY <1>2, <2>1, <2>2 DEF IsAhead
  <1>3. ASSUME ~IsAhead(s, r, a, b), ~IsAhead(s, r, b, a)
        PROVE  /\ r[a] = r[b]
               /\ \A u \in DOMAIN r : IsAhead(s, r, u, a) <=> IsAhead(s, r, u, b)
    <2>1. r[a] = r[b]
      BY <1>3, OrderOfRows DEF IsAhead
    <2>2. ASSUME NEW x \in DOMAIN r, NEW y \in DOMAIN r, r[x] = r[y], ~IsAhead(s, r, y, x),
                 ~IsAhead(s, r, x, y), NEW u \in DOMAIN r, IsAhead(s, r, u, x)
          PROVE  IsAhead(s, r, u, y)
      <3>1. CASE Above(r, u, x)
        BY <2>2, <3>1, OrderOfRows DEF IsAhead
      <3>2. CASE Beats(s, r, u, x)
        <4>1. y \in LevelWith(r, x) /\ LevelWith(r, x) = {u, x}
          BY <2>2, <3>2, BeatsOne DEF LevelWith
        <4> QED
          BY <2>2, <3>2, <4>1 DEF IsAhead
      <3> QED
        BY <2>2, <3>1, <3>2 DEF IsAhead
    <2> QED
      BY <1>3, <2>1, <2>2
  <1> QED
    BY <1>1, <1>2, <1>3 DEF Ahead

\* The final table before the lots: everyone has a place, those who share one are
\* level and to be drawn for, and a team is among those it is level with.
LEMMA RawTableRanks ==
  ASSUME NEW s \in SeasonTables, NEW raw, raw = RawTable(s)
  PROVE  /\ raw.rows = Rows(s) /\ DOMAIN raw.position = s.approved
         /\ IsRanking(raw)
         /\ \A a, b \in s.approved :
              /\ Beats(s, Rows(s), a, b) => raw.position[a] < raw.position[b]
              /\ raw.position[a] = raw.position[b] => Rows(s)[a] = Rows(s)[b]
         /\ \A a \in s.approved :
              /\ Running(Rows(s))[a] \in Nat /\ Cardinality(LevelWith(Rows(s), a)) \in Nat
              /\ Running(Rows(s))[a] <= raw.position[a]
              /\ raw.position[a] + Cardinality(Sharing(raw, a))
                   <= Running(Rows(s))[a] + Cardinality(LevelWith(Rows(s), a))
  <1> DEFINE D == s.approved
             r == Rows(s)
             pos == raw.position
  <1>1. /\ DOMAIN r = D /\ IsFiniteSet(D) /\ \A t \in DOMAIN r : r[t] \in Int \X Int
    BY RowsType
  <1>2. /\ raw.rows = r /\ pos = [t \in D |-> PositionOf(Ahead(s, r, t))]
        /\ raw.open = {t \in D : NeedsLot(s, r, t)}
    BY <1>1 DEF RawTable, RawFinal, Ahead, IsAhead
  <1> HIDE DEF r
  <1>3. \A t \in D : /\ pos[t] = Cardinality(Ahead(s, r, t)) + 1 /\ pos[t] \in Nat
                    /\ Ahead(s, r, t) \in SUBSET D
    <2>1. \A t \in D : Ahead(s, r, t) \in SUBSET D
      BY <1>1 DEF Ahead
    <2> QED
      BY <1>1, <1>2, <2>1, Counting
  <1>4. ASSUME NEW a \in D, NEW b \in D
        PROVE  pos[a] < pos[b] <=> IsAhead(s, r, a, b)
    <2>1. ASSUME NEW x \in D, NEW y \in D, IsAhead(s, r, x, y) PROVE pos[x] < pos[y]
      <3>1. /\ Ahead(s, r, x) \in SUBSET Ahead(s, r, y) /\ Ahead(s, r, x) # Ahead(s, r, y)
            /\ Ahead(s, r, y) \in SUBSET D
        BY <1>1, <1>3, <2>1, AheadIsAnOrder
      <3>2. /\ Cardinality(Ahead(s, r, x)) < Cardinality(Ahead(s, r, y))
            /\ Cardinality(Ahead(s, r, x)) \in Nat /\ Cardinality(Ahead(s, r, y)) \in Nat
        BY <1>1, <3>1, Counting
      <3> QED
        BY <1>3, <3>2
    <2>2. ~IsAhead(s, r, a, b) /\ ~IsAhead(s, r, b, a) => pos[a] = pos[b]
      BY <1>1, <1>3, AheadIsAnOrder
    <2>3. pos[a] \in Nat /\ pos[b] \in Nat
      BY <1>3
    <2> QED
      BY <2>1, <2>2, <2>3
  <1>5. ASSUME NEW a \in D, NEW b \in D, pos[a] = pos[b]
        PROVE  r[a] = r[b] /\ ~Beats(s, r, a, b) /\ ~Beats(s, r, b, a)
    <2>1. ~IsAhead(s, r, a, b) /\ ~IsAhead(s, r, b, a)
      BY <1>3, <1>4, <1>5
    <2> QED
      BY <1>1, <2>1, AheadIsAnOrder DEF IsAhead
  <1>6. IsRanking(raw)
    <2>1. \A t \in D : Before(raw, t) = Ahead(s, r, t)
      BY <1>1, <1>2, <1>4 DEF Before, Ahead
    <2>2. ASSUME NEW t \in D, NEW u \in Sharing(raw, t) \ {t} PROVE u \in raw.open
      <3>1. u \in D /\ pos[u] = pos[t]
        BY <1>2 DEF Sharing
      <3>2. t \in LevelWith(r, u) \ {u} /\ ~Beats(s, r, t, u) /\ ~Beats(s, r, u, t)
        BY <1>1, <1>5, <3>1 DEF LevelWith
      <3>3. NeedsLot(s, r, u)
        BY <3>2 DEF NeedsLot
      <3> QED
        BY <1>2, <3>1, <3>3
    <2> QED
      BY <1>1, <1>2, <2>1, <2>2 DEF IsRanking
  <1>7. ASSUME NEW a \in D
        PROVE  /\ Running(r)[a] \in Nat /\ Cardinality(LevelWith(r, a)) \in Nat
               /\ Running(r)[a] <= pos[a]
               /\ pos[a] + Cardinality(Sharing(raw, a))
                    <= Running(r)[a] + Cardinality(LevelWith(r, a))
    <2> DEFINE over == {u \in D : Above(r, u, a)}
               level == LevelWith(r, a)
               shared == Sharing(raw, a)
               ahead == Ahead(s, r, a)
    <2>1. Running(r)[a] = PositionOf(over)
      BY <1>1 DEF Running
    <2>2. over \in SUBSET ahead /\ ahead \in SUBSET D /\ level \in SUBSET D /\ shared \in SUBSET D
      BY <1>1, <1>2 DEF Ahead, IsAhead, LevelWith, Sharing
    <2>3. over \cap level = {}
      BY <1>1, OrderOfRows DEF LevelWith
    <2>4. ahead \cap shared = {}
      <3> SUFFICES ASSUME NEW u \in ahead, u \in shared PROVE FALSE
        OBVIOUS
      <3>1. u \in D /\ pos[u] < pos[a] /\ pos[u] = pos[a]
        BY <1>1, <1>2, <1>4 DEF Ahead, Sharing
      <3> QED
        BY <1>3, <3>1
    <2>5. ahead \cup shared \in SUBSET (over \cup level)
      <3>1. ASSUME NEW u \in ahead PROVE u \in over \cup level
        BY <1>1, BeatsOne DEF Ahead, IsAhead, LevelWith
      <3>2. ASSUME NEW u \in shared PROVE u \in level
        <4>1. u \in D /\ pos[u] = pos[a]
          BY <1>2 DEF Sharing
        <4> QED
          BY <1>1, <1>5, <4>1 DEF LevelWith
      <3> QED
        BY <3>1, <3>2
    <2>6. over \cup level \in SUBSET D /\ over \in SUBSET D
      BY <2>2
    <2> HIDE DEF over, level, shared, ahead
    <2>7. /\ Cardinality(ahead \cup shared) = Cardinality(ahead) + Cardinality(shared)
          /\ Cardinality(ahead) \in Nat /\ Cardinality(shared) \in Nat
      BY <1>1, <2>2, <2>4, Joined
    <2>8. /\ Cardinality(over \cup level) = Cardinality(over) + Cardinality(level)
          /\ Cardinality(over) \in Nat /\ Cardinality(level) \in Nat
      BY <1>1, <2>2, <2>3, <2>6, Joined
    <2>9. Cardinality(over) <= Cardinality(ahead)
      BY <1>1, <2>2, Counting
    <2>10. Cardinality(ahead \cup shared) <= Cardinality(over \cup level)
      BY <1>1, <2>5, <2>6, Counting
    <2>11. pos[a] = Cardinality(ahead) + 1 /\ Running(r)[a] = Cardinality(over) + 1
      BY <1>3, <2>1 DEF ahead, PositionOf
    <2>12. /\ Running(r)[a] \in Nat /\ Cardinality(level) \in Nat
           /\ Running(r)[a] <= pos[a]
           /\ pos[a] + Cardinality(shared) <= Running(r)[a] + Cardinality(level)
      BY <2>7, <2>8, <2>9, <2>10, <2>11
    <2> QED
      BY <2>12 DEF level, shared
  <1>8. \A a, b \in D : Beats(s, r, a, b) => pos[a] < pos[b]
    BY <1>4 DEF IsAhead
  <1>9. DOMAIN pos = D
    BY <1>2
  <1> HIDE DEF pos
  <1> QED
    BY <1>2, <1>5, <1>6, <1>7, <1>8, <1>9 DEF r, pos
-----------------------------------------------------------------------------
(* Types, and what a request knows that is served alone.                   *)

RawTables == {RawTable(s) : s \in SeasonTables}
LotsToStore == UNION {[S -> Nat] : S \in (SUBSET Teams) \ {{}}}

Locals ==
  [at : {"none", "table", "draw", "drawing", "confirm", "confirming", "override"},
   seen : SeasonTables \cup {Nil}, raw : RawTables \cup {Nil}, todo : LotsToStore \cup {Nil},
   alone : BOOLEAN]

\* What a request has in its local variables at one of its awaits.
LocalsFit(c) ==
  /\ At(c, "table") => call[c].seen \in SeasonTables /\ call[c].raw = RawTable(call[c].seen)
  /\ call[c].at \in {"draw", "confirm", "confirming"} =>
       call[c].raw \in RawTables /\ call[c].raw.open # {}
  /\ call[c].at \in {"drawing", "override"} => call[c].todo \in LotsToStore

StandingsType ==
  /\ Now \in SeasonTables /\ lots \in [Teams -> LotRows \cup {Nil}]
  /\ call \in [Clients -> Locals] /\ \A c \in Clients : LocalsFit(c)
  /\ calls \in Nat

\* An override is between its draw d and the lots: what is not left to store is stored.
Overriding(c, d) ==
  /\ DOMAIN call[c].todo \subseteq DOMAIN d /\ \A t \in DOMAIN call[c].todo : call[c].todo[t] = d[t]
  /\ \A t \in DOMAIN d \ DOMAIN call[c].todo : lots[t] = [rank |-> d[t], confirmed |-> TRUE]

\* Who is served alone has the table of the season as it is, and what a confirmation
\* has checked or stored is what is there.
Knows(c) ==
  /\ Busy(c)
  /\ call[c].at \in {"confirm", "confirming"} => call[c].raw = RawTable(Now)
  /\ At(c, "confirming") => Covers(call[c].raw, RanksOf(call[c].raw.open, FALSE))
  /\ At(c, "override") => \E d \in Draws(RawTable(Now)) : Overriding(c, d)

AloneKnows ==
  \A c \in Clients : call[c].alone => Knows(c) /\ \A d \in Clients \ {c} : ~Busy(d)

StandingsInv == StandingsType /\ AloneKnows

LEMMA RawTableType ==
  ASSUME NEW raw \in RawTables
  PROVE  IsRanking(raw) /\ raw.open \subseteq Teams /\ DOMAIN raw.position \subseteq Teams
  <1>1. PICK s \in SeasonTables : raw = RawTable(s)
    BY DEF RawTables
  <1>2. IsRanking(raw) /\ DOMAIN raw.position = s.approved
    BY <1>1, RawTableRanks
  <1> QED
    BY <1>2, RowsType DEF IsRanking

\* A draw is for the teams to be drawn for, and to be stored.
LEMMA DrawType ==
  ASSUME NEW raw \in RawTables, raw.open # {}, NEW d \in Draws(raw)
  PROVE  /\ DOMAIN d = raw.open /\ Covers(raw, d) /\ d \in LotsToStore
         /\ \A t \in DOMAIN d : t \in Teams /\ d[t] \in Nat
  <1>1. DOMAIN d = raw.open /\ Covers(raw, d) /\ d = [t \in raw.open |-> d[t]]
    BY DEF Draws
  <1>2. IsRanking(raw) /\ raw.open \subseteq Teams
    BY RawTableType
  <1>3. ASSUME NEW t \in raw.open PROVE d[t] \in Nat
    <2>1. t \in DOMAIN raw.position
      BY <1>2 DEF IsRanking
    <2>2. raw.position[t] \in Nat /\ Cardinality(Sharing(raw, t)) \in Nat
      BY <1>2, <2>1, RankingPlaces
    <2>3. d[t] \in raw.position[t] .. (raw.position[t] + Cardinality(Sharing(raw, t)) - 1)
      BY <1>1, <1>2, LotsInPlaces
    <2> QED
      BY <2>2, <2>3
  <1>4. d \in [raw.open -> Nat]
    BY <1>1, <1>3
  <1> QED
    BY <1>1, <1>2, <1>3, <1>4 DEF LotsToStore

\* The lot that is stored next is one of those to store.
Lowest(todo) == CHOOSE u \in DOMAIN todo : \A v \in DOMAIN todo : todo[u] =< todo[v]

LEMMA NextToStore ==
  ASSUME NEW todo \in LotsToStore
  PROVE  /\ Lowest(todo) \in DOMAIN todo /\ Lowest(todo) \in Teams /\ todo[Lowest(todo)] \in Nat
         /\ DOMAIN todo # {Lowest(todo)} => Without(todo, Lowest(todo)) \in LotsToStore
  <1>1. PICK S \in (SUBSET Teams) \ {{}} : todo \in [S -> Nat]
    BY DEF LotsToStore
  <1> DEFINE ranks == {todo[u] : u \in S}
  <1>2. ranks \in SUBSET Nat /\ ranks # {}
    BY <1>1
  <1>3. PICK n \in ranks : \A m \in ranks : n <= m
    <2> HIDE DEF ranks
    <2> QED
      BY <1>2, LeastOfNats
  <1>4. \E u \in S : \A v \in S : todo[u] <= todo[v]
    BY <1>3
  <1>5. Lowest(todo) \in S
    BY <1>1, <1>4 DEF Lowest
  <1>6. ASSUME S # {Lowest(todo)} PROVE Without(todo, Lowest(todo)) \in LotsToStore
    <2>1. PICK u : u = Lowest(todo)
      OBVIOUS
    <2>2. S \ {u} \in (SUBSET Teams) \ {{}}
      BY <1>5, <1>6, <2>1
    <2>3. Without(todo, u) \in [S \ {u} -> Nat]
      BY <1>1 DEF Without
    <2> QED
      BY <2>1, <2>2, <2>3 DEF LotsToStore
  <1> QED
    BY <1>1, <1>5, <1>6

-----------------------------------------------------------------------------
(* What a step does to the requests.                                       *)

LEMMA IdleLocals == NoCall \in Locals /\ NoCall.at = "none" /\ NoCall.alone = FALSE
  BY DEF NoCall, Locals

\* The requests that do not move fit, whatever becomes of the rows.
LEMMA OthersFit ==
  ASSUME StandingsType, NEW c \in Clients, LocalsFit(c)',
         \A d \in Clients \ {c} : /\ call'[d].at = call[d].at /\ call'[d].seen = call[d].seen
                                  /\ call'[d].raw = call[d].raw /\ call'[d].todo = call[d].todo
  PROVE  \A d \in Clients : LocalsFit(d)'
  BY DEF StandingsType, LocalsFit, At

\* A request that goes on by itself.
LEMMA MovesOn ==
  ASSUME StandingsType, AloneKnows, NEW c \in Clients, Busy(c), NEW next \in Locals,
         call' = [call EXCEPT ![c] = next], LocalsFit(c)',
         next.alone => call[c].alone /\ Knows(c)'
  PROVE  /\ call' \in [Clients -> Locals] /\ \A d \in Clients : LocalsFit(d)'
         /\ AloneKnows'
  <1>1. /\ call' \in [Clients -> Locals] /\ call'[c] = next
        /\ \A d \in Clients \ {c} : call'[d] = call[d]
    BY DEF StandingsType
  <1>2. \A d \in Clients : LocalsFit(d)'
    BY <1>1, OthersFit
  <1>3. ASSUME NEW d \in Clients, call'[d].alone
        PROVE  Knows(d)' /\ \A e \in Clients \ {d} : ~Busy(e)'
    <2>1. d = c
      BY <1>1, <1>3 DEF AloneKnows
    <2>2. call[c].alone /\ Knows(c)'
      BY <1>1, <1>3, <2>1
    <2>3. \A e \in Clients \ {c} : ~Busy(e)
      BY <2>2 DEF AloneKnows
    <2> QED
      BY <1>1, <2>1, <2>2, <2>3 DEF Busy
  <1> QED
    BY <1>1, <1>2, <1>3 DEF AloneKnows

LEMMA Replies ==
  ASSUME StandingsType, AloneKnows, NEW c \in Clients, Busy(c), Reply(c)
  PROVE  /\ call' \in [Clients -> Locals] /\ \A d \in Clients : LocalsFit(d)'
         /\ AloneKnows' /\ calls' = calls
  <1>1. call' = [call EXCEPT ![c] = NoCall] /\ calls' = calls
    BY DEF Reply
  <1>2. LocalsFit(c)'
    BY <1>1, IdleLocals DEF StandingsType, LocalsFit, At
  <1> QED
    BY <1>1, <1>2, IdleLocals, MovesOn

LEMMA MetLocals ==
  ASSUME StandingsType, AloneKnows
  PROVE  /\ Met \in [Clients -> Locals]
         /\ \A d \in Clients : /\ Met[d].alone = FALSE
                               /\ Met[d].at = call[d].at /\ Met[d].seen = call[d].seen
                               /\ Met[d].raw = call[d].raw /\ Met[d].todo = call[d].todo
  <1>1. ASSUME NEW d \in Clients
        PROVE  /\ Met[d] \in Locals /\ Met[d].alone = FALSE
               /\ Met[d].at = call[d].at /\ Met[d].seen = call[d].seen
               /\ Met[d].raw = call[d].raw /\ Met[d].todo = call[d].todo
    <2>1. call[d] \in Locals /\ call[d].alone \in BOOLEAN /\ (call[d].alone => Busy(d))
      BY DEF StandingsType, AloneKnows, Knows, Locals
    <2>2. CASE Busy(d)
      <3>1. Met[d] = [call[d] EXCEPT !.alone = FALSE]
        BY <2>2 DEF Met
      <3> QED
        BY <2>1, <3>1 DEF Locals
    <2>3. CASE ~Busy(d)
      <3>1. Met[d] = call[d]
        BY <2>3 DEF Met
      <3> QED
        BY <2>1, <2>3, <3>1
    <2> QED
      BY <2>2, <2>3
  <1> QED
    BY <1>1 DEF Met

LEMMA ServedAtOnce ==
  ASSUME StandingsType, AloneKnows, AtOnce
  PROVE  /\ call' \in [Clients -> Locals] /\ \A d \in Clients : LocalsFit(d)'
         /\ AloneKnows' /\ calls' \in Nat
  <1>1. call' = Met /\ calls' = calls + 1
    BY DEF AtOnce, Counts
  <1>2. \A d \in Clients : LocalsFit(d)'
    BY <1>1, MetLocals DEF StandingsType, LocalsFit, At
  <1>3. \A d \in Clients : ~call'[d].alone
    BY <1>1, MetLocals
  <1>4. AloneKnows'
    BY <1>3 DEF AloneKnows
  <1>5. calls' \in Nat
    BY <1>1 DEF StandingsType
  <1> QED
    BY <1>1, <1>2, <1>4, <1>5, MetLocals


\* A request that begins, with what it has read.
LEMMA Begins ==
  ASSUME StandingsType, AloneKnows, NEW c \in Clients, NEW local \in Locals, Begin(c, local),
         LocalsFit(c)', call'[c].alone => Knows(c)'
  PROVE  /\ call' \in [Clients -> Locals] /\ \A d \in Clients : LocalsFit(d)'
         /\ AloneKnows' /\ calls' \in Nat
  <1>1. PICK alone \in BOOLEAN : /\ alone => \A d \in Clients : ~Busy(d)
                                /\ call' = [Met EXCEPT ![c] = [local EXCEPT !.alone = alone]]
                                /\ calls' = calls + 1
    <2>1. PICK alone : alone = (\A d \in Clients : ~Busy(d))
      OBVIOUS
    <2>2. alone \in BOOLEAN /\ (alone => \A d \in Clients : ~Busy(d))
      BY <2>1
    <2> QED
      BY <2>1, <2>2, Zenon DEF Begin, Counts
  <1>2. PICK next : next = [local EXCEPT !.alone = alone]
    OBVIOUS
  <1>3. next \in Locals /\ next.alone = alone
    BY <1>2 DEF Locals
  <1>4. /\ call' \in [Clients -> Locals] /\ call'[c] = next
        /\ \A d \in Clients \ {c} : call'[d] = Met[d]
    BY <1>1, <1>2, <1>3, MetLocals
  <1>5. \A d \in Clients \ {c} : /\ call'[d].alone = FALSE
                                /\ call'[d].at = call[d].at /\ call'[d].seen = call[d].seen
                                /\ call'[d].raw = call[d].raw /\ call'[d].todo = call[d].todo
    BY <1>4, MetLocals
  <1>6. \A d \in Clients : LocalsFit(d)'
    BY <1>5, OthersFit
  <1>7. ASSUME NEW d \in Clients, call'[d].alone
        PROVE  Knows(d)' /\ \A e \in Clients \ {d} : ~Busy(e)'
    <2>1. d = c
      BY <1>5, <1>7
    <2>2. \A e \in Clients \ {c} : ~Busy(e)
      BY <1>1, <1>3, <1>4, <1>7, <2>1
    <2> QED
      BY <1>5, <1>7, <2>1, <2>2 DEF Busy
  <1>8. AloneKnows'
    BY <1>7 DEF AloneKnows
  <1>9. calls' \in Nat
    BY <1>1 DEF StandingsType
  <1> QED
    BY <1>4, <1>6, <1>8, <1>9

LEMMA BeginsWith ==
  ASSUME StandingsType, AloneKnows, NEW c \in Clients, NEW local \in Locals, Begin(c, local)
  PROVE  /\ call'[c].at = local.at /\ call'[c].seen = local.seen
         /\ call'[c].raw = local.raw /\ call'[c].todo = local.todo
         /\ approved' = approved /\ result' = result /\ lots' = lots
  <1>1. PICK next : next = [local EXCEPT !.alone = \A d \in Clients : ~Busy(d)]
    OBVIOUS
  <1>2. /\ next.at = local.at /\ next.seen = local.seen
        /\ next.raw = local.raw /\ next.todo = local.todo
    BY <1>1 DEF Locals
  <1>3. call' = [Met EXCEPT ![c] = next]
    BY <1>1 DEF Begin
  <1>4. call'[c] = next
    BY <1>3, MetLocals
  <1> QED
    BY <1>2, <1>4 DEF Begin, season

LEMMA GoesTo ==
  ASSUME StandingsType, NEW c \in Clients,
         NEW step \in {"table", "draw", "drawing", "confirm", "confirming", "override"}, Goto(c, step)
  PROVE  \E next \in Locals :
           /\ call' = [call EXCEPT ![c] = next] /\ calls' = calls
           /\ next.at = step /\ next.seen = call[c].seen /\ next.raw = call[c].raw
           /\ next.todo = call[c].todo /\ next.alone = call[c].alone
  <1>1. call[c] \in Locals
    BY DEF StandingsType
  <1>2. PICK next : next = [call[c] EXCEPT !.at = step]
    OBVIOUS
  <1>3. /\ next \in Locals
        /\ next.at = step /\ next.seen = call[c].seen /\ next.raw = call[c].raw
        /\ next.todo = call[c].todo /\ next.alone = call[c].alone
    BY <1>1, <1>2 DEF Locals
  <1>4. call' = [call EXCEPT ![c] = next] /\ calls' = calls
    BY <1>2 DEF Goto
  <1> QED
    BY <1>3, <1>4

LEMMA StoresMore ==
  ASSUME StandingsType, NEW c \in Clients, call[c].at \in {"draw", "drawing", "override"},
         NEW todo \in LotsToStore, StoresLater(c, todo)
  PROVE  \E next \in Locals :
           /\ call' = [call EXCEPT ![c] = next] /\ calls' = calls
           /\ next.at = IF call[c].at = "override" THEN "override" ELSE "drawing"
           /\ next.todo = todo /\ next.alone = call[c].alone
  <1>1. call[c] \in Locals
    BY DEF StandingsType
  <1>2. PICK next : next = [call[c] EXCEPT !.at = IF @ = "draw" THEN "drawing" ELSE @,
                                           !.raw = Nil, !.todo = todo]
    OBVIOUS
  <1>3. /\ next.at = IF call[c].at = "draw" THEN "drawing" ELSE call[c].at
        /\ next.todo = todo /\ next.alone = call[c].alone
        /\ next \in Locals
    BY <1>1, <1>2 DEF Locals
  <1>4. call' = [call EXCEPT ![c] = next] /\ calls' = calls
    BY <1>1, <1>2 DEF StoresLater, StandingsType
  <1> QED
    BY <1>3, <1>4

-----------------------------------------------------------------------------
(* The invariant.                                                          *)

LEMMA StandingsInit ==
  ASSUME Init
  PROVE  StandingsInv
  <1>1. Now \in SeasonTables
    BY DEF Init, Now, SeasonTables
  <1>2. \A c \in Clients : call[c] = NoCall
    BY DEF Init
  <1>3. call \in [Clients -> Locals] /\ \A c \in Clients : LocalsFit(c)
    BY <1>2, IdleLocals DEF Init, LocalsFit, At
  <1>4. AloneKnows
    BY <1>2, IdleLocals DEF AloneKnows
  <1> QED
    BY <1>1, <1>3, <1>4 DEF Init, StandingsInv, StandingsType

LEMMA ChangesInv ==
  ASSUME StandingsInv,
         \/ \E f \in Fixtures, score \in Scores \cup {Nil} : Score(f, score)
         \/ \E t \in Teams : TeamStatus(t)
         \/ ResetDrawLot
  PROVE  StandingsInv'
  <1>1. AtOnce /\ StandingsType /\ AloneKnows
    BY DEF StandingsInv, Score, TeamStatus, ResetDrawLot
  <1>2. /\ call' \in [Clients -> Locals] /\ \A d \in Clients : LocalsFit(d)'
        /\ AloneKnows' /\ calls' \in Nat
    BY <1>1, ServedAtOnce
  <1>3. /\ approved \in SUBSET Teams /\ result \in [Fixtures -> Scores \cup {Nil}]
        /\ lots \in [Teams -> LotRows \cup {Nil}]
    BY <1>1 DEF StandingsType, Now, SeasonTables
  <1>4. /\ approved' \in SUBSET Teams /\ result' \in [Fixtures -> Scores \cup {Nil}]
        /\ lots' \in [Teams -> LotRows \cup {Nil}]
    <2>1. CASE \E f \in Fixtures, score \in Scores \cup {Nil} : Score(f, score)
      BY <1>3, <2>1 DEF Score
    <2>2. CASE \E t \in Teams : TeamStatus(t)
      BY <1>3, <2>2 DEF TeamStatus
    <2>3. CASE ResetDrawLot
      BY <1>3, <2>3 DEF ResetDrawLot, season
    <2> QED
      BY <2>1, <2>2, <2>3
  <1>5. Now' \in SeasonTables
    BY <1>4 DEF Now, SeasonTables
  <1> QED
    BY <1>2, <1>4, <1>5 DEF StandingsInv, StandingsType

\* A request that reads the table.
LEMMA BeginInv ==
  ASSUME StandingsInv, NEW c \in Clients,
         TableBegin(c) \/ DrawBegin(c) \/ ConfirmBegin(c) \/ OverrideBegin(c)
  PROVE  StandingsInv'
  <1> DEFINE raw == RawTable(Now)
  <1>1. StandingsType /\ AloneKnows /\ Now \in SeasonTables /\ raw \in RawTables
    BY DEF StandingsInv, StandingsType, RawTables
  <1>2. PICK local \in Locals :
          /\ Begin(c, local)
          /\ \/ local.at = "table" /\ local.seen = Now /\ local.raw = raw
             \/ local.at \in {"draw", "confirm"} /\ local.raw = raw /\ raw.open # {}
             \/ /\ local.at = "override" /\ local.todo \in Draws(raw) /\ local.todo \in LotsToStore
    <2>1. CASE TableBegin(c)
      <3>1. PICK local : local = [NoCall EXCEPT !.at = "table", !.seen = Now, !.raw = raw]
        OBVIOUS
      <3>2. local \in Locals /\ local.at = "table" /\ local.seen = Now /\ local.raw = raw
        BY <1>1, <3>1 DEF NoCall, Locals
      <3>3. Begin(c, local)
        BY <2>1, <3>1 DEF TableBegin
      <3> QED
        BY <3>2, <3>3
    <2>2. CASE DrawBegin(c)
      <3>1. PICK local : local = [NoCall EXCEPT !.at = "draw", !.raw = raw]
        OBVIOUS
      <3>2. local \in Locals /\ local.at = "draw" /\ local.raw = raw
        BY <1>1, <3>1 DEF NoCall, Locals
      <3>3. Begin(c, local) /\ raw.open # {}
        BY <2>2, <3>1 DEF DrawBegin
      <3> QED
        BY <3>2, <3>3
    <2>3. CASE ConfirmBegin(c)
      <3>1. PICK local : local = [NoCall EXCEPT !.at = "confirm", !.raw = raw]
        OBVIOUS
      <3>2. local \in Locals /\ local.at = "confirm" /\ local.raw = raw
        BY <1>1, <3>1 DEF NoCall, Locals
      <3>3. Begin(c, local) /\ raw.open # {}
        BY <2>3, <3>1 DEF ConfirmBegin
      <3> QED
        BY <3>2, <3>3
    <2>4. CASE OverrideBegin(c)
      <3>1. PICK d \in Draws(raw) : Begin(c, [NoCall EXCEPT !.at = "override", !.todo = d])
        BY <2>4 DEF OverrideBegin
      <3>2. PICK local : local = [NoCall EXCEPT !.at = "override", !.todo = d]
        OBVIOUS
      <3>3. raw.open # {}
        BY <2>4 DEF OverrideBegin
      <3>4. d \in LotsToStore
        BY <1>1, <3>3, DrawType
      <3>5. local \in Locals /\ local.at = "override" /\ local.todo = d
        BY <3>2, <3>4 DEF NoCall, Locals
      <3> QED
        BY <3>1, <3>2, <3>4, <3>5
    <2> QED
      BY <2>1, <2>2, <2>3, <2>4
  <1>3. /\ call'[c].at = local.at /\ call'[c].seen = local.seen
        /\ call'[c].raw = local.raw /\ call'[c].todo = local.todo
        /\ approved' = approved /\ result' = result /\ lots' = lots
    BY <1>1, <1>2, BeginsWith
  <1>4. Now' = Now /\ RawTable(Now)' = raw
    BY <1>3 DEF Now
  <1>5. LocalsFit(c)'
    BY <1>1, <1>2, <1>3 DEF LocalsFit, At
  <1>6. Knows(c)'
    <2>1. At(c, "override")' => \E d \in Draws(RawTable(Now))' : Overriding(c, d)'
      <3> SUFFICES ASSUME At(c, "override")' PROVE \E d \in Draws(RawTable(Now))' : Overriding(c, d)'
        OBVIOUS
      <3>1. call'[c].todo \in Draws(raw)
        BY <1>2, <1>3 DEF At
      <3>2. PICK d : d = call'[c].todo
        OBVIOUS
      <3>3. Overriding(c, d)'
        BY <3>2 DEF Overriding
      <3> QED
        BY <1>4, <3>1, <3>2, <3>3
    <2> QED
      BY <1>2, <1>3, <1>4, <2>1 DEF Knows, Busy, At
  <1>7. /\ call' \in [Clients -> Locals] /\ \A d \in Clients : LocalsFit(d)'
        /\ AloneKnows' /\ calls' \in Nat
    BY <1>1, <1>2, <1>5, <1>6, Begins
  <1> QED
    BY <1>1, <1>3, <1>4, <1>7 DEF StandingsInv, StandingsType

\* A request that ends.
LEMMA ReplyInv ==
  ASSUME StandingsInv, NEW c \in Clients, Busy(c), Reply(c), season' = season,
         lots' \in [Teams -> LotRows \cup {Nil}]
  PROVE  StandingsInv'
  <1>1. /\ call' \in [Clients -> Locals] /\ \A d \in Clients : LocalsFit(d)'
        /\ AloneKnows' /\ calls' = calls
    BY Replies DEF StandingsInv
  <1>2. Now' = Now
    BY DEF Now, season
  <1> QED
    BY <1>1, <1>2 DEF StandingsInv, StandingsType

\* A request that goes on.
LEMMA MoveInv ==
  ASSUME StandingsInv, NEW c \in Clients, Busy(c), season' = season,
         lots' \in [Teams -> LotRows \cup {Nil}],
         NEW next \in Locals, call' = [call EXCEPT ![c] = next], calls' = calls,
         LocalsFit(c)', next.alone => call[c].alone /\ Knows(c)'
  PROVE  StandingsInv'
  <1>1. /\ call' \in [Clients -> Locals] /\ \A d \in Clients : LocalsFit(d)'
        /\ AloneKnows'
    BY MovesOn DEF StandingsInv
  <1>2. Now' = Now
    BY DEF Now, season
  <1> QED
    BY <1>1, <1>2 DEF StandingsInv, StandingsType

LEMMA EndInv ==
  ASSUME StandingsInv, NEW c \in Clients, TableEnd(c) \/ Die(c)
  PROVE  StandingsInv'
  <1>1. Busy(c) /\ Reply(c) /\ season' = season /\ lots' = lots
    BY DEF TableEnd, Die, At, Busy
  <1> QED
    BY <1>1, ReplyInv DEF StandingsInv, StandingsType

LEMMA DrawDeleteInv ==
  ASSUME StandingsInv, NEW c \in Clients, DrawDelete(c)
  PROVE  StandingsInv'
  <1>1. StandingsType /\ At(c, "draw") /\ Busy(c) /\ season' = season
    BY DEF StandingsInv, DrawDelete, At, Busy
  <1>2. call[c].raw \in RawTables /\ call[c].raw.open # {}
    BY <1>1 DEF StandingsType, LocalsFit, At
  <1>3. PICK d \in Draws(call[c].raw) : StoresLater(c, d)
    BY DEF DrawDelete
  <1>4. d \in LotsToStore
    BY <1>2, DrawType
  <1>5. PICK next \in Locals :
          /\ call' = [call EXCEPT ![c] = next] /\ calls' = calls
          /\ next.at = "drawing" /\ next.todo = d /\ next.alone = call[c].alone
    <2>1. call[c].at = "draw"
      BY <1>1 DEF At
    <2> QED
      BY <1>1, <1>3, <1>4, <2>1, StoresMore
  <1>6. call'[c] = next
    BY <1>1, <1>5 DEF StandingsType
  <1>7. LocalsFit(c)' /\ Knows(c)'
    BY <1>4, <1>5, <1>6 DEF LocalsFit, Knows, Busy, At
  <1>8. lots' \in [Teams -> LotRows \cup {Nil}]
    BY <1>1 DEF DrawDelete, StandingsType
  <1>9. next.alone => call[c].alone
    BY <1>5
  <1> QED
    BY <1>1, <1>5, <1>7, <1>8, <1>9, MoveInv

\* One lot is stored, and the request ends if it was the last.
LEMMA LotStored ==
  ASSUME StandingsType, NEW c \in Clients, NEW confirmed \in BOOLEAN,
         call[c].at \in {"drawing", "override"}, StoreNext(c, confirmed),
         NEW todo, todo = call[c].todo, NEW t, t = Lowest(todo)
  PROVE  /\ todo \in LotsToStore /\ t \in DOMAIN todo /\ t \in Teams
         /\ season' = season
         /\ lots' \in [Teams -> LotRows \cup {Nil}]
         /\ \/ DOMAIN todo = {t} /\ Reply(c)
            \/ /\ DOMAIN todo # {t} /\ Without(todo, t) \in LotsToStore
               /\ StoresLater(c, Without(todo, t))
  <1>1. todo \in LotsToStore
    BY DEF StandingsType, LocalsFit
  <1>2. /\ t \in DOMAIN todo /\ t \in Teams /\ todo[t] \in Nat
        /\ DOMAIN todo # {t} => Without(todo, t) \in LotsToStore
    BY <1>1, NextToStore
  <1>3. /\ Stored(t, todo[t], confirmed) /\ season' = season
        /\ IF DOMAIN todo = {t} THEN Reply(c) ELSE StoresLater(c, Without(todo, t))
    BY DEF StoreNext, Lowest
  <1>4. lots' \in [Teams -> LotRows \cup {Nil}]
    BY <1>2, <1>3 DEF Stored, StandingsType, LotRows
  <1> QED
    BY <1>1, <1>2, <1>3, <1>4

LEMMA DrawStoreInv ==
  ASSUME StandingsInv, NEW c \in Clients, DrawStore(c)
  PROVE  StandingsInv'
  <1>1. StandingsType /\ call[c].at = "drawing" /\ Busy(c) /\ StoreNext(c, FALSE)
    BY DEF StandingsInv, DrawStore, At, Busy
  <1>2. PICK todo, t : todo = call[c].todo /\ t = Lowest(todo)
    OBVIOUS
  <1>3. /\ season' = season /\ lots' \in [Teams -> LotRows \cup {Nil}]
        /\ \/ Reply(c)
           \/ Without(todo, t) \in LotsToStore /\ StoresLater(c, Without(todo, t))
    BY <1>1, <1>2, LotStored
  <1>4. CASE Reply(c)
    BY <1>1, <1>3, <1>4, ReplyInv
  <1>5. CASE Without(todo, t) \in LotsToStore /\ StoresLater(c, Without(todo, t))
    <2>1. PICK next \in Locals :
            /\ call' = [call EXCEPT ![c] = next] /\ calls' = calls
            /\ next.at = "drawing" /\ next.todo = Without(todo, t) /\ next.alone = call[c].alone
      BY <1>1, <1>5, StoresMore
    <2>2. call'[c] = next
      BY <1>1, <2>1 DEF StandingsType
    <2>3. LocalsFit(c)' /\ Knows(c)'
      BY <1>5, <2>1, <2>2 DEF LocalsFit, Knows, Busy, At
    <2>4. next.alone => call[c].alone
      BY <2>1
    <2> QED
      BY <1>1, <1>3, <2>1, <2>3, <2>4, MoveInv
  <1> QED
    BY <1>3, <1>4, <1>5

LEMMA ConfirmCheckInv ==
  ASSUME StandingsInv, NEW c \in Clients, ConfirmCheck(c)
  PROVE  StandingsInv'
  <1>1. /\ StandingsType /\ AloneKnows /\ call[c].at = "confirm" /\ Busy(c)
        /\ season' = season /\ lots' = lots /\ Goto(c, "confirming")
        /\ Covers(call[c].raw, RanksOf(call[c].raw.open, FALSE))
    BY DEF StandingsInv, ConfirmCheck, At, Busy
  <1>2. PICK next \in Locals :
          /\ call' = [call EXCEPT ![c] = next] /\ calls' = calls
          /\ next.at = "confirming" /\ next.raw = call[c].raw /\ next.alone = call[c].alone
    BY <1>1, GoesTo
  <1>3. call'[c] = next
    BY <1>1, <1>2 DEF StandingsType
  <1>4. LocalsFit(c)'
    BY <1>1, <1>2, <1>3 DEF StandingsType, LocalsFit, At
  <1>5. ASSUME call[c].alone PROVE Knows(c)'
    <2>1. call[c].raw = RawTable(Now)
      BY <1>1, <1>5 DEF AloneKnows, Knows
    <2>2. RawTable(Now)' = RawTable(Now)
      BY <1>1 DEF Now, season
    <2>3. Covers(call[c].raw, RanksOf(call[c].raw.open, FALSE))'
      <3>1. RanksOf(call[c].raw.open, FALSE)' = RanksOf(call[c].raw.open, FALSE)
        BY <1>1, <1>2, <1>3 DEF RanksOf
      <3> QED
        BY <1>1, <1>2, <1>3, <3>1
    <2> QED
      BY <1>2, <1>3, <2>1, <2>2, <2>3 DEF Knows, Busy, At
  <1>6. lots' \in [Teams -> LotRows \cup {Nil}]
    BY <1>1 DEF StandingsType
  <1> QED
    BY <1>1, <1>2, <1>4, <1>5, <1>6, MoveInv

LEMMA ConfirmWriteInv ==
  ASSUME StandingsInv, NEW c \in Clients, ConfirmWrite(c)
  PROVE  StandingsInv'
  <1>1. StandingsType /\ Busy(c) /\ Reply(c) /\ season' = season
    BY DEF StandingsInv, ConfirmWrite, At, Busy
  <1>2. \A t \in Teams : lots[t] # Nil => [lots[t] EXCEPT !.confirmed = TRUE] \in LotRows
    BY <1>1 DEF StandingsType, LotRows
  <1>3. lots' \in [Teams -> LotRows \cup {Nil}]
    BY <1>1, <1>2 DEF ConfirmWrite, StandingsType
  <1> QED
    BY <1>1, <1>3, ReplyInv

LEMMA OverrideStoreInv ==
  ASSUME StandingsInv, NEW c \in Clients, OverrideStore(c)
  PROVE  StandingsInv'
  <1>1. /\ StandingsType /\ AloneKnows /\ call[c].at = "override" /\ Busy(c)
        /\ StoreNext(c, TRUE)
    BY DEF StandingsInv, OverrideStore, At, Busy
  <1>2. PICK todo, t : todo = call[c].todo /\ t = Lowest(todo)
    OBVIOUS
  <1>3. /\ season' = season /\ lots' \in [Teams -> LotRows \cup {Nil}]
        /\ t \in DOMAIN todo
        /\ lots'[t] = [rank |-> todo[t], confirmed |-> TRUE]
        /\ \A u \in Teams \ {t} : lots'[u] = lots[u]
        /\ \/ Reply(c)
           \/ Without(todo, t) \in LotsToStore /\ StoresLater(c, Without(todo, t))
    <2>1. /\ season' = season /\ lots' \in [Teams -> LotRows \cup {Nil}]
          /\ t \in DOMAIN todo /\ t \in Teams
          /\ \/ Reply(c)
             \/ Without(todo, t) \in LotsToStore /\ StoresLater(c, Without(todo, t))
      BY <1>1, <1>2, LotStored
    <2>2. Stored(t, todo[t], TRUE)
      BY <1>1, <1>2 DEF StoreNext, Lowest
    <2>3. /\ lots'[t] = [rank |-> todo[t], confirmed |-> TRUE]
          /\ \A u \in Teams \ {t} : lots'[u] = lots[u]
      BY <1>1, <2>1, <2>2 DEF Stored, StandingsType
    <2> QED
      BY <2>1, <2>3
  <1>4. CASE Reply(c)
    BY <1>1, <1>3, <1>4, ReplyInv
  <1>5. CASE Without(todo, t) \in LotsToStore /\ StoresLater(c, Without(todo, t))
    <2>1. PICK next \in Locals :
            /\ call' = [call EXCEPT ![c] = next] /\ calls' = calls
            /\ next.at = "override" /\ next.todo = Without(todo, t) /\ next.alone = call[c].alone
      BY <1>1, <1>5, StoresMore
    <2>2. call'[c] = next
      BY <1>1, <2>1 DEF StandingsType
    <2>3. LocalsFit(c)'
      BY <1>5, <2>1, <2>2 DEF LocalsFit, At
    <2>4. ASSUME call[c].alone PROVE Knows(c)'
      <3>1. PICK d \in Draws(RawTable(Now)) : Overriding(c, d)
        BY <1>1, <2>4 DEF AloneKnows, Knows, At
      <3>2. RawTable(Now)' = RawTable(Now)
        BY <1>3 DEF Now, season
      <3>3. DOMAIN call'[c].todo = DOMAIN todo \ {t}
            /\ \A u \in DOMAIN todo \ {t} : call'[c].todo[u] = todo[u]
        BY <2>1, <2>2 DEF Without
      <3>4. DOMAIN d \subseteq Teams
        <4>1. DOMAIN d = RawTable(Now).open
          BY <3>1 DEF Draws
        <4>2. RawTable(Now) \in RawTables
          BY <1>1 DEF StandingsType, RawTables
        <4> QED
          BY <4>1, <4>2, RawTableType
      <3>5. Overriding(c, d)'
        <4>1. /\ DOMAIN todo \subseteq DOMAIN d /\ \A u \in DOMAIN todo : todo[u] = d[u]
              /\ \A u \in DOMAIN d \ DOMAIN todo : lots[u] = [rank |-> d[u], confirmed |-> TRUE]
          BY <1>2, <3>1 DEF Overriding
        <4>2. \A u \in DOMAIN d \ (DOMAIN todo \ {t}) :
                lots'[u] = [rank |-> d[u], confirmed |-> TRUE]
          BY <1>3, <3>4, <4>1
        <4> QED
          BY <3>3, <4>1, <4>2 DEF Overriding
      <3> QED
        BY <2>1, <2>2, <3>1, <3>2, <3>5 DEF Knows, Busy, At
    <2>5. next.alone => call[c].alone
      BY <2>1
    <2> QED
      BY <1>1, <1>3, <2>1, <2>3, <2>4, <2>5, MoveInv
  <1> QED
    BY <1>3, <1>4, <1>5

LEMMA StandingsInvStep == StandingsInv /\ [Next]_vars => StandingsInv'
  <1> SUFFICES ASSUME StandingsInv, [Next]_vars PROVE StandingsInv'
    OBVIOUS
  <1>1. CASE UNCHANGED vars
    BY <1>1 DEF vars, season, StandingsInv, StandingsType, Now, LocalsFit, AloneKnows, Knows,
                Busy, At, RanksOf, Overriding
  <1>2. CASE Next
    BY <1>2, ChangesInv, BeginInv, EndInv, DrawDeleteInv, DrawStoreInv, ConfirmCheckInv,
       ConfirmWriteInv, OverrideStoreInv DEF Next
  <1> QED
    BY <1>1, <1>2

LEMMA StandingsInvHolds == Spec => []StandingsInv
  <1>1. Init => StandingsInv
    BY StandingsInit
  <1> QED
    BY <1>1, StandingsInvStep, PTL DEF Spec

\* Every row and what every request has read or has yet to store is what the schema
\* says; a request that draws or confirms has a table in which somebody is to draw for.
THEOREM StandingsTypeCorrect == Spec => []StandingsType
  <1>1. StandingsInv => StandingsType
    BY DEF StandingsInv
  <1> QED
    BY <1>1, StandingsInvHolds, PTL

-----------------------------------------------------------------------------
(* The promises.                                                           *)

\* The table without its lots or with them refines the running one.
LEMMA FinalTable ==
  ASSUME NEW s \in SeasonTables, NEW raw, raw = RawTable(s),
         NEW ranks, DOMAIN ranks \subseteq raw.open,
         NEW final, final = WithLots(raw, ranks), NEW r, r = Rows(s), NEW a \in s.approved
  PROVE  /\ final.position[a] \in Running(r)[a] .. (Running(r)[a] + Cardinality(LevelWith(r, a)) - 1)
         /\ \A b \in LevelWith(r, a) \ {a} :
              /\ Beats(s, r, a, b) => final.position[a] < final.position[b]
              /\ final.position[a] = final.position[b] => final.open = raw.open
  <1>1. /\ DOMAIN raw.position = s.approved /\ IsRanking(raw)
        /\ \A b \in s.approved : Beats(s, r, a, b) => raw.position[a] < raw.position[b]
        /\ Running(r)[a] \in Nat /\ Cardinality(LevelWith(r, a)) \in Nat
        /\ Running(r)[a] <= raw.position[a]
        /\ raw.position[a] + Cardinality(Sharing(raw, a))
             <= Running(r)[a] + Cardinality(LevelWith(r, a))
    BY RawTableRanks
  <1>2. /\ raw.position[a] \in Nat /\ Cardinality(Sharing(raw, a)) \in Nat
        /\ Cardinality(Sharing(raw, a)) >= 1
    BY <1>1, RankingPlaces
  <1>3. LevelWith(r, a) \subseteq s.approved
    BY RowsType DEF LevelWith
  <1>4. CASE raw.open = {} \/ ~Covers(raw, ranks)
    <2>1. final = raw
      BY <1>4 DEF WithLots
    <2>2. raw.position[a] \in Running(r)[a] .. (Running(r)[a] + Cardinality(LevelWith(r, a)) - 1)
      BY <1>1, <1>2
    <2> QED
      BY <1>1, <1>3, <2>1, <2>2
  <1>5. CASE ~(raw.open = {} \/ ~Covers(raw, ranks))
    <2>1. final = Redrawn(raw, ranks) /\ Covers(raw, ranks)
      BY <1>5 DEF WithLots
    <2>2. /\ \A b \in s.approved :
              /\ final.position[a] = final.position[b] => a = b
              /\ raw.position[a] < raw.position[b] => final.position[a] < final.position[b]
          /\ final.position[a] \in
               raw.position[a] .. (raw.position[a] + Cardinality(Sharing(raw, a)) - 1)
      BY <1>1, <2>1, RedrawnPlaces
    <2>3. final.position[a] \in Running(r)[a] .. (Running(r)[a] + Cardinality(LevelWith(r, a)) - 1)
      BY <1>1, <1>2, <2>2
    <2> QED
      BY <1>1, <1>3, <2>2, <2>3
  <1> QED
    BY <1>4, <1>5

\* The final table that getStandings answers refines the running table of the results
\* it read, whatever lots it reads after them: half-written, stale or interleaved.
THEOREM LotsKeepTheTable == Spec => []LotsOnlyBreakTies
  <1>1. StandingsInv => LotsOnlyBreakTies
    <2> SUFFICES ASSUME StandingsInv, NEW c \in Clients, At(c, "table"),
                        NEW s, s = call[c].seen, NEW r, r = call[c].raw.rows,
                        NEW final, final = Final(call[c].raw),
                        NEW a \in s.approved
                 PROVE  /\ final.position[a] \in
                             Running(r)[a] .. (Running(r)[a] + Cardinality(LevelWith(r, a)) - 1)
                        /\ \A b \in LevelWith(r, a) \ {a} :
                             /\ Beats(s, r, a, b) => final.position[a] < final.position[b]
                             /\ final.position[a] = final.position[b] => final.open = call[c].raw.open
      BY DEF LotsOnlyBreakTies
    <2>1. s \in SeasonTables /\ call[c].raw = RawTable(s)
      BY DEF StandingsInv, StandingsType, LocalsFit
    <2>2. r = Rows(s)
      BY <2>1, RawTableRanks
    <2>3. PICK ranks : ranks = RanksOf(call[c].raw.open, TRUE)
      OBVIOUS
    <2>4. DOMAIN ranks \subseteq call[c].raw.open /\ final = WithLots(call[c].raw, ranks)
      BY <2>3 DEF RanksOf, Final
    <2> QED
      BY <2>1, <2>2, <2>4, FinalTable
  <1> QED
    BY <1>1, StandingsInvHolds, PTL

\* Lots that cover the groups leave nobody to draw for and nobody to share with.
LEMMA CoveredIsFinal ==
  ASSUME NEW s \in SeasonTables, NEW raw, raw = RawTable(s), raw.open # {},
         NEW ranks, DOMAIN ranks \subseteq raw.open, Covers(raw, ranks)
  PROVE  WithLots(raw, ranks).open = {} /\ IsInjective(WithLots(raw, ranks).position)
  <1>1. WithLots(raw, ranks) = Redrawn(raw, ranks)
    BY DEF WithLots
  <1>2. IsRanking(raw)
    BY RawTableRanks
  <1> QED
    BY <1>1, <1>2, RedrawnPlaces DEF IsInjective

LEMMA ConfirmResolves ==
  ASSUME StandingsInv, NEW c \in Clients, call[c].alone, ConfirmWrite(c)
  PROVE  Resolved(RawTable(Now))
  <1> DEFINE raw == RawTable(Now)
             stored == [t \in {u \in raw.open : lots'[u] # Nil /\ lots'[u].confirmed} |-> lots'[t].rank]
             checked == RanksOf(raw.open, FALSE)
  <1>1. /\ StandingsType /\ Now \in SeasonTables /\ raw \in RawTables
        /\ At(c, "confirming") /\ call[c].at = "confirming"
    BY DEF StandingsInv, StandingsType, RawTables, ConfirmWrite, At
  <1>2. call[c].raw = raw /\ Covers(raw, checked)
    BY <1>1 DEF StandingsInv, AloneKnows, Knows
  <1>3. raw.open # {} /\ raw.open \subseteq Teams /\ IsRanking(raw)
    <2>1. call[c].raw.open # {}
      BY <1>1 DEF StandingsType, LocalsFit
    <2> QED
      BY <1>1, <1>2, <2>1, RawTableType
  <1>4. ASSUME NEW t \in raw.open
        PROVE  lots[t] # Nil /\ lots[t] \in LotRows /\ checked[t] = lots[t].rank /\ t \in DOMAIN checked
    <2>1. t \in DOMAIN checked
      BY <1>2, <1>3, LotsInPlaces
    <2>2. lots[t] # Nil /\ checked[t] = lots[t].rank
      BY <2>1 DEF RanksOf
    <2> QED
      BY <1>1, <1>3, <2>1, <2>2 DEF StandingsType
  <1>5. ASSUME NEW t \in raw.open
        PROVE  lots'[t] # Nil /\ lots'[t].confirmed /\ lots'[t].rank = checked[t]
    <2>1. t \in Teams /\ lots[t] # Nil /\ lots[t] \in LotRows /\ checked[t] = lots[t].rank
      BY <1>3, <1>4
    <2>2. lots'[t] = [lots[t] EXCEPT !.confirmed = TRUE]
      BY <1>2, <2>1 DEF ConfirmWrite
    <2>3. [lots[t] EXCEPT !.confirmed = TRUE] \in LotRows
      BY <2>1 DEF LotRows
    <2>4. /\ [lots[t] EXCEPT !.confirmed = TRUE].rank = lots[t].rank
          /\ [lots[t] EXCEPT !.confirmed = TRUE].confirmed
      BY <2>1 DEF LotRows
    <2> QED
      BY <2>1, <2>2, <2>3, <2>4, StandingsAssumption
  <1>6. stored = checked
    <2>1. checked = [t \in raw.open |-> checked[t]]
      BY <1>4 DEF RanksOf
    <2> HIDE DEF checked
    <2>2. {u \in raw.open : lots'[u] # Nil /\ lots'[u].confirmed} = raw.open
      BY <1>5
    <2> QED
      BY <1>5, <2>1, <2>2
  <1>7. DOMAIN checked \subseteq raw.open
    BY DEF RanksOf
  <1>8. WithLots(raw, checked).open = {} /\ IsInjective(WithLots(raw, checked).position)
    <2> HIDE DEF checked
    <2> QED
      BY <1>1, <1>2, <1>3, <1>7, CoveredIsFinal
  <1>9. WithLots(raw, stored).open = {} /\ IsInjective(WithLots(raw, stored).position)
    <2> HIDE DEF checked, stored, raw
    <2> QED
      BY <1>6, <1>8
  <1> QED
    BY <1>9 DEF Resolved

LEMMA OverrideResolves ==
  ASSUME StandingsInv, NEW c \in Clients, call[c].alone, OverrideStore(c), ~Busy(c)'
  PROVE  Resolved(RawTable(Now))
  <1> DEFINE raw == RawTable(Now)
             stored == [t \in {u \in raw.open : lots'[u] # Nil /\ lots'[u].confirmed} |-> lots'[t].rank]
  <1>1. /\ StandingsType /\ Now \in SeasonTables /\ raw \in RawTables
        /\ At(c, "override") /\ call[c].at = "override" /\ StoreNext(c, TRUE)
    BY DEF StandingsInv, StandingsType, RawTables, OverrideStore, At
  <1>2. PICK d \in Draws(raw) : Overriding(c, d)
    BY <1>1 DEF StandingsInv, AloneKnows, Knows
  <1>3. DOMAIN d = raw.open /\ Covers(raw, d) /\ d = [t \in raw.open |-> d[t]]
    BY DEF Draws
  <1>4. PICK todo, t : todo = call[c].todo /\ t = Lowest(todo)
    OBVIOUS
  <1>5. DOMAIN todo = {t} /\ t \in Teams
    <2>1. /\ t \in Teams
          /\ DOMAIN todo = {t} \/ (/\ Without(todo, t) \in LotsToStore
                                  /\ StoresLater(c, Without(todo, t)))
      BY <1>1, <1>4, LotStored
    <2>2. ASSUME Without(todo, t) \in LotsToStore, StoresLater(c, Without(todo, t)) PROVE FALSE
      <3>1. PICK next \in Locals : call' = [call EXCEPT ![c] = next] /\ next.at = "override"
        BY <1>1, <2>2, StoresMore
      <3>2. call'[c] = next
        BY <1>1, <3>1 DEF StandingsType
      <3> QED
        BY <3>1, <3>2 DEF Busy
    <2> QED
      BY <2>1, <2>2
  <1>6. lots' = [lots EXCEPT ![t] = [rank |-> todo[t], confirmed |-> TRUE]]
    BY <1>1, <1>4 DEF StoreNext, Stored, Lowest
  <1>7. raw.open # {} /\ raw.open \subseteq Teams
    <2>1. t \in DOMAIN d
      BY <1>2, <1>4, <1>5 DEF Overriding
    <2> QED
      BY <1>1, <1>3, <2>1, RawTableType
  <1>8. ASSUME NEW u \in raw.open
        PROVE  lots'[u] # Nil /\ lots'[u].confirmed /\ lots'[u].rank = d[u]
    <2>1. /\ u \in Teams /\ d[u] \in Nat
      BY <1>1, <1>3, <1>7, DrawType
    <2>2. lots'[u] = [rank |-> d[u], confirmed |-> TRUE]
      <3>1. CASE u = t
        <4>1. todo[t] = d[t]
          BY <1>2, <1>4, <1>5 DEF Overriding
        <4> QED
          BY <1>1, <1>5, <1>6, <3>1, <4>1 DEF StandingsType
      <3>2. CASE u # t
        <4>1. lots[u] = [rank |-> d[u], confirmed |-> TRUE]
          BY <1>2, <1>3, <1>4, <1>5, <3>2 DEF Overriding
        <4> QED
          BY <1>1, <1>6, <2>1, <3>2, <4>1 DEF StandingsType
      <3> QED
        BY <3>1, <3>2
    <2>3. PICK row : row = [rank |-> d[u], confirmed |-> TRUE]
      OBVIOUS
    <2>4. row \in LotRows
      BY <2>1, <2>3 DEF LotRows
    <2>5. row # Nil
      BY <2>4, StandingsAssumption
    <2>6. row.confirmed /\ row.rank = d[u]
      BY <2>3
    <2>7. lots'[u] = row
      BY <2>2, <2>3
    <2> QED
      BY <2>5, <2>6, <2>7
  <1>9. stored = d
    <2>1. {u \in raw.open : lots'[u] # Nil /\ lots'[u].confirmed} = raw.open
      BY <1>8
    <2> QED
      BY <1>3, <1>8, <2>1
  <1>10. WithLots(raw, d).open = {} /\ IsInjective(WithLots(raw, d).position)
    BY <1>1, <1>3, <1>7, CoveredIsFinal
  <1>11. WithLots(raw, stored).open = {} /\ IsInjective(WithLots(raw, stored).position)
    <2> HIDE DEF stored, raw
    <2> QED
      BY <1>9, <1>10
  <1> QED
    BY <1>11 DEF Resolved

\* Of all steps only the last write of a confirmation can end it with other lots.
LEMMA LastWriteResolves ==
  ASSUME StandingsInv, Next, NEW c \in Clients,
         call[c].alone, LastWrite(c), ~Busy(c)', lots' # lots
  PROVE  Resolved(RawTable(Now))
  <1>1. /\ StandingsType /\ AloneKnows /\ Busy(c) /\ call[c].at \in {"confirming", "override"}
        /\ \A d \in Clients : Busy(d) => d = c
    BY DEF StandingsInv, AloneKnows, Knows, LastWrite, At, Busy
  <1>2. ~AtOnce
    <2> SUFFICES ASSUME AtOnce PROVE FALSE
      OBVIOUS
    <2>1. call' = Met
      BY DEF AtOnce
    <2>2. call'[c].at = call[c].at
      BY <1>1, <2>1, MetLocals
    <2> QED
      BY <1>1, <2>2 DEF Busy
  <1>3. PICK d \in Clients :
          \/ TableBegin(d) \/ TableEnd(d)
          \/ DrawBegin(d) \/ DrawDelete(d) \/ DrawStore(d)
          \/ ConfirmBegin(d) \/ ConfirmCheck(d) \/ ConfirmWrite(d)
          \/ OverrideBegin(d) \/ OverrideStore(d)
          \/ Die(d)
    BY <1>2 DEF Next, Score, TeamStatus, ResetDrawLot
  <1>4. DrawDelete(d) \/ DrawStore(d) \/ ConfirmWrite(d) \/ OverrideStore(d)
    BY <1>3 DEF TableBegin, TableEnd, DrawBegin, ConfirmBegin, OverrideBegin, ConfirmCheck, Die, Begin
  <1>5. d = c
    BY <1>1, <1>4 DEF DrawDelete, DrawStore, ConfirmWrite, OverrideStore, At, Busy
  <1>6. ConfirmWrite(c) \/ OverrideStore(c)
    BY <1>1, <1>4, <1>5 DEF DrawDelete, DrawStore, At
  <1> QED
    BY <1>6, ConfirmResolves, OverrideResolves

\* A confirmation that is served alone, as drawn or overridden, leaves nobody to draw
\* for and no two teams in one position, whatever was left in the table of lots.
THEOREM ConfirmedDrawsAreFinal == Spec => ConfirmedDrawIsFinal
  <1>1. StandingsInv /\ [Next]_vars =>
          [\A c \in Clients :
             call[c].alone /\ LastWrite(c) /\ ~Busy(c)' /\ lots' # lots
               => Resolved(RawTable(Now))]_vars
    BY LastWriteResolves
  <1> QED
    BY <1>1, StandingsInvHolds, PTL DEF Spec, ConfirmedDrawIsFinal
=============================================================================
