---------------------------- MODULE SeasonsProofs ----------------------------
(***************************************************************************)
(* The invariants and action properties of Seasons, for any numbers of     *)
(* seasons, years, dates and regulations.                                  *)
(*                                                                         *)
(* The types hold whatever the requests.  The properties are about         *)
(* requests that come one by one, as in the run: two that race can both    *)
(* pass a check before either writes.  A deletion may come at any moment,  *)
(* since it only takes a row away.                                         *)
(***************************************************************************)
EXTENDS Seasons, FiniteSetTheorems, WellFoundedInduction, TLAPS

-----------------------------------------------------------------------------
(* Types, whatever the requests.                                           *)

InConflict == {"conflict.year", "conflict.dates"}
InStatus == {"status.active", "status.previous", "status"}
InRules == {"upsert", "find", "write", "seed"}

CreateCalls == [at : InConflict \cup {"create"}, id : {Null}, dto : CreateBodies,
                start : Dates, end : Dates]
UpdateCalls == [at : InConflict \cup {"update"}, id : SeasonIds, dto : UpdateBodies,
                start : Dates, end : Dates]
StatusCalls == [at : InStatus, id : SeasonIds, to : Statuses, year : Years]
RuleCalls == [at : {"upsert", "find", "write"}, id : SeasonIds, key : Keys,
              value : Values \cup {Null}]
SeedCalls == [at : {"seed"}, id : SeasonIds, todo : SUBSET Keys]

\* A call of create has the dates of its body; the others are as their handlers
\* have left them at one of their awaits.
LocalOK(local) ==
    \/ local = Idle
    \/ local \in CreateCalls /\ local.start = local.dto.startDate
         /\ local.end = local.dto.endDate
    \/ local \in UpdateCalls
    \/ local \in StatusCalls
    \/ local \in RuleCalls
    \/ local \in SeedCalls

\* Besides TypeOK: no row is ahead of the ids given out.
TypeInv ==
    /\ TypeOK
    /\ \A id \in SeasonIds : id > created => seasons[id] = Null
    /\ DOMAIN call = Clients /\ \A c \in Clients : LocalOK(call[c])

-----------------------------------------------------------------------------
(* Requests one by one.                                                    *)

OneAtATime == \A c, d \in Clients : c = d

Others(c) == Stored \ {call[c].id}
HasId(c) == call[c].id \in Stored

\* What a handler has read that is still true when nobody else writes.
ReadsConflict(c) ==
    /\ call[c].at \in InConflict \cup {"create", "update"}
         => ValidDateRange(call[c].start, call[c].end)
    /\ call[c].at \in {"conflict.dates", "create", "update"}
         => \A other \in Others(c) : seasons[other].year # call[c].dto.year
    /\ call[c].at \in {"create", "update"}
         => \A other \in Others(c) : ~Overlaps(seasons[other], call[c].start, call[c].end)
    /\ call[c].at \in InConflict \cup {"update"} /\ HasId(c)
         => /\ call[c].start = OrExisting(call[c].dto.startDate, seasons[call[c].id].startDate)
            /\ call[c].end = OrExisting(call[c].dto.endDate, seasons[call[c].id].endDate)
ReadsStatus(c) ==
    /\ call[c].at \in InStatus /\ HasId(c)
         => /\ call[c].to \in SEASON_STATUS_TRANSITIONS[seasons[call[c].id].status]
            /\ call[c].year = seasons[call[c].id].year
    /\ call[c].at \in {"status.active", "status.previous"} => call[c].to = "IN_PROGRESS"
    /\ call[c].at \in {"status.previous", "status"} /\ call[c].to = "IN_PROGRESS"
         => \A other \in Others(c) : seasons[other].status # "IN_PROGRESS"
    /\ call[c].at = "status" /\ call[c].to = "IN_PROGRESS"
         => \A other \in Others(c) : seasons[other].year < call[c].year
                                       => seasons[other].status = "COMPLETED"
ReadsRules(c) ==
    call[c].at \in InRules /\ HasId(c) => seasons[call[c].id].status = "UPCOMING"

StillSo(c) == ReadsConflict(c) /\ ReadsStatus(c) /\ ReadsRules(c)

SoloInv ==
    /\ CalendarHolds /\ (~StatusInBody => OneInProgress)
    /\ \A c \in Clients : StillSo(c)

-----------------------------------------------------------------------------

LEMMA Constants ==
    /\ MaxSeasons \in Nat /\ SeasonIds = 1..MaxSeasons /\ SeasonIds \subseteq Nat
    /\ Null \notin SeasonIds /\ Null \notin Values /\ Null \notin Seasons
    /\ Null \notin Years /\ Undefined \notin Years /\ Undefined \notin Days /\ Null \notin Days
    /\ Null # Undefined /\ DefaultValue \in Values
    /\ Statuses = {"UPCOMING", "IN_PROGRESS", "COMPLETED"}
  <1>1. Statuses = {"UPCOMING", "IN_PROGRESS", "COMPLETED"}
    BY DEF Statuses, SEASON_STATUS_TRANSITIONS
  <1>2. /\ MaxSeasons \in Nat /\ SeasonIds = 1..MaxSeasons /\ SeasonIds \subseteq Nat
        /\ Null \notin SeasonIds
    BY SeasonsAssumption DEF SeasonIds
  <1> QED
    BY <1>1, <1>2, SeasonsAssumption

LEMMA Transitions ==
    /\ SEASON_STATUS_TRANSITIONS["UPCOMING"] = {"IN_PROGRESS"}
    /\ SEASON_STATUS_TRANSITIONS["IN_PROGRESS"] = {"COMPLETED"}
    /\ SEASON_STATUS_TRANSITIONS["COMPLETED"] = {}
  BY DEF SEASON_STATUS_TRANSITIONS

LEMMA StoredRow ==
    ASSUME TypeInv
    PROVE  /\ \A id \in Stored : id \in SeasonIds /\ seasons[id] \in Seasons /\ id <= created
           /\ Stored \subseteq SeasonIds
  BY Constants DEF TypeInv, TypeOK, Stored

\* The row that an update leaves.
LEMMA UpdatedRow ==
    ASSUME NEW dto \in UpdateBodies, NEW row \in Seasons,
           NEW new, new = [field \in DOMAIN dto |-> Given(dto[field], row[field])]
    PROVE  /\ new \in Seasons
           /\ new.year = Given(dto.year, row.year)
           /\ new.status = Given(dto.status, row.status)
           /\ new.startDate = Given(dto.startDate, row.startDate)
           /\ new.endDate = Given(dto.endDate, row.endDate)
  <1>1. DOMAIN dto = {"year", "status", "startDate", "endDate"}
    BY DEF UpdateBodies
  <1>2. new = [year |-> Given(dto.year, row.year), status |-> Given(dto.status, row.status),
               startDate |-> Given(dto.startDate, row.startDate),
               endDate |-> Given(dto.endDate, row.endDate)]
    BY <1>1
  <1>3. /\ Given(dto.year, row.year) \in Years
        /\ Given(dto.status, row.status) \in Statuses
        /\ Given(dto.startDate, row.startDate) \in Dates
        /\ Given(dto.endDate, row.endDate) \in Dates
    BY DEF UpdateBodies, Seasons, Given, Optional, BodyStatuses
  <1> QED
    BY <1>2, <1>3 DEF Seasons

LEMMA CreatedRow ==
    ASSUME NEW dto \in CreateBodies, NEW new,
           new = [dto EXCEPT !.status = Given(dto.status, "UPCOMING")]
    PROVE  /\ new \in Seasons
           /\ new.year = dto.year /\ new.startDate = dto.startDate /\ new.endDate = dto.endDate
           /\ new.status = Given(dto.status, "UPCOMING")
  <1>1. Given(dto.status, "UPCOMING") \in Statuses
    BY Constants DEF CreateBodies, BodyStatuses, Optional, Given
  <1> QED
    BY <1>1 DEF CreateBodies, Seasons

-----------------------------------------------------------------------------
(* The latest of some seasons is one of them.                              *)

Less == {pair \in Nat \X Nat : pair[1] < pair[2]}

LEMMA LeastOfNats ==
    ASSUME NEW S \in SUBSET Nat, S # {}
    PROVE  \E n \in S : \A m \in S : n <= m
  <1>1. IsWellFoundedOn(Less, Nat)
    <2>1. Less = OpToRel(<, Nat)
      BY DEF OpToRel, Less
    <2> QED
      BY <2>1, NatLessThanWellFounded
  <1>2. PICK n \in S : \A m \in S : <<m, n>> \notin Less
    BY <1>1, WFMin
  <1>3. ASSUME NEW m \in S PROVE n <= m
    <2>1. m \in Nat /\ n \in Nat /\ <<m, n>> \notin Less
      BY <1>2
    <2> QED
      BY <2>1 DEF Less
  <1> QED
    BY <1>3

Before(ids, id) == {other \in ids : \/ seasons[other].year < seasons[id].year
                                    \/ seasons[other].year = seasons[id].year /\ other < id}

LEMMA LatestType ==
    ASSUME TypeInv, NEW ids \in SUBSET Stored, ids # {}
    PROVE  Latest(ids) \in ids
  <1> USE Constants
  <1>1. \A id \in ids : id \in Nat /\ seasons[id].year \in Nat
    BY StoredRow, SeasonsAssumption DEF Seasons
  <1>2. IsFiniteSet(ids) /\ Cardinality(ids) \in Nat
    <2>1. IsFiniteSet(SeasonIds)
      BY FS_Interval
    <2> QED
      BY <2>1, StoredRow, FS_Subset, FS_CardinalityType
  <1>3. \A id \in ids : /\ IsFiniteSet(Before(ids, id)) /\ Cardinality(Before(ids, id)) \in Nat
                        /\ Cardinality(Before(ids, id)) <= Cardinality(ids)
    BY <1>2, FS_Subset, FS_CardinalityType DEF Before
  <1> DEFINE Behind == {Cardinality(ids) - Cardinality(Before(ids, id)) : id \in ids}
  <1>4. Behind \in SUBSET Nat /\ Behind # {}
    BY <1>2, <1>3
  <1>5. PICK least \in Behind : \A n \in Behind : least <= n
    <2> HIDE DEF Behind
    <2> QED
      BY <1>4, LeastOfNats
  <1>6. PICK id \in ids : least = Cardinality(ids) - Cardinality(Before(ids, id))
    BY <1>5
  <1>7. \A other \in ids : Cardinality(Before(ids, other)) <= Cardinality(Before(ids, id))
    <2>1. ASSUME NEW other \in ids
          PROVE  Cardinality(Before(ids, other)) <= Cardinality(Before(ids, id))
      <3>1. least <= Cardinality(ids) - Cardinality(Before(ids, other))
        BY <1>5
      <3> QED
        BY <1>2, <1>3, <1>6, <3>1
    <2> QED
      BY <2>1
  <1>8. ASSUME NEW other \in ids,
               \/ seasons[id].year < seasons[other].year
               \/ seasons[id].year = seasons[other].year /\ id < other
        PROVE  FALSE
    <2>1. Before(ids, id) \subseteq Before(ids, other)
      BY <1>1, <1>8 DEF Before
    <2>2. id \in Before(ids, other) /\ id \notin Before(ids, id)
      BY <1>1, <1>8 DEF Before
    <2>3. Cardinality(Before(ids, id)) = Cardinality(Before(ids, other))
      BY <1>3, <1>7, <2>1, FS_Subset
    <2> QED
      BY <1>3, <2>1, <2>2, <2>3, FS_Subset
  <1>9. \A other \in ids :
          \/ seasons[other].year < seasons[id].year
          \/ seasons[other].year = seasons[id].year /\ other <= id
    BY <1>1, <1>8
  <1> QED
    BY <1>9 DEF Latest

LEMMA CurrentRegulationsType ==
    ASSUME TypeInv
    PROVE  CurrentRegulations \in [Keys -> Values \cup {Null}]
  <1>1. \A ids \in SUBSET Stored :
          ids # {} => regulations[Latest(ids)] \in [Keys -> Values \cup {Null}]
    BY LatestType, StoredRow DEF TypeInv, TypeOK
  <1> QED
    BY <1>1, Constants DEF CurrentRegulations

-----------------------------------------------------------------------------
(* Types.                                                                  *)

LEMMA GotoCalls ==
    ASSUME TypeInv, NEW c \in Clients, NEW next, Goto(c, next)
    PROVE  /\ DOMAIN call' = Clients /\ call'[c] = next
           /\ \A d \in Clients : d # c => call'[d] = call[d]
  BY DEF TypeInv, Goto

LEMMA GotoType ==
    ASSUME TypeInv, NEW c \in Clients, NEW next, Goto(c, next), LocalOK(next)
    PROVE  DOMAIN call' = Clients /\ \A d \in Clients : LocalOK(call'[d])
  <1>1. \A d \in Clients : call'[d] = next \/ call'[d] = call[d]
    BY GotoCalls
  <1>2. ASSUME NEW d \in Clients PROVE LocalOK(call'[d])
    <2>1. LocalOK(call[d])
      BY DEF TypeInv
    <2> QED
      BY <1>1, <2>1
  <1> QED
    BY <1>2, GotoCalls

LEMMA ReplyType ==
    ASSUME TypeInv, NEW c \in Clients, Reply(c)
    PROVE  DOMAIN call' = Clients /\ \A d \in Clients : LocalOK(call'[d])
  BY GotoType DEF Reply, LocalOK

\* A step that reads.
LEMMA ReadType ==
    ASSUME TypeInv, NEW c \in Clients, NEW next, Goto(c, next), LocalOK(next), UNCHANGED rows
    PROVE  TypeInv'
  <1>1. DOMAIN call' = Clients /\ \A d \in Clients : LocalOK(call'[d])
    BY GotoType
  <1> QED
    BY <1>1 DEF TypeInv, TypeOK, rows, Empty

\* What is known of a call from where it is.
LEMMA CallKind ==
    ASSUME TypeInv, NEW c \in Clients
    PROVE  /\ call[c].at \in InConflict =>
                 \/ call[c] \in CreateCalls /\ call[c].start = call[c].dto.startDate
                      /\ call[c].end = call[c].dto.endDate
                 \/ call[c] \in UpdateCalls
           /\ call[c].at = "create" => /\ call[c] \in CreateCalls
                                       /\ call[c].start = call[c].dto.startDate
                                       /\ call[c].end = call[c].dto.endDate
           /\ call[c].at = "update" => call[c] \in UpdateCalls
           /\ call[c].at \in InStatus => call[c] \in StatusCalls
           /\ call[c].at \in {"upsert", "find", "write"} => call[c] \in RuleCalls
           /\ call[c].at = "seed" => call[c] \in SeedCalls
  <1>1. LocalOK(call[c])
    BY DEF TypeInv
  <1> USE DEF InConflict, InStatus
  <1>2. CASE call[c] = Idle
    BY <1>2 DEF Idle
  <1>3. CASE call[c] \in CreateCalls /\ call[c].start = call[c].dto.startDate
               /\ call[c].end = call[c].dto.endDate
    BY <1>3 DEF CreateCalls
  <1>4. CASE call[c] \in UpdateCalls
    BY <1>4 DEF UpdateCalls
  <1>5. CASE call[c] \in StatusCalls
    BY <1>5 DEF StatusCalls
  <1>6. CASE call[c] \in RuleCalls
    BY <1>6 DEF RuleCalls
  <1>7. CASE call[c] \in SeedCalls
    BY <1>7 DEF SeedCalls
  <1> QED
    BY <1>1, <1>2, <1>3, <1>4, <1>5, <1>6, <1>7 DEF LocalOK

LEMMA SeasonType ==
    ASSUME TypeInv, NEW c \in Clients, SeasonStep(c)
    PROVE  TypeInv'
  <1> USE Constants
  <1>1. ASSUME NEW dto \in CreateBodies, CreateBegin(c, dto) PROVE TypeInv'
    <2>1. LocalOK([at |-> "conflict.year", id |-> Null, dto |-> dto,
                   start |-> dto.startDate, end |-> dto.endDate])
      BY DEF LocalOK, CreateCalls, CreateBodies, InConflict
    <2> QED
      BY <1>1, <2>1, ReadType DEF CreateBegin
  <1>2. ASSUME NEW id \in SeasonIds, NEW dto \in UpdateBodies, UpdateBegin(c, id, dto)
        PROVE  TypeInv'
    <2>1. seasons[id] \in Seasons
      BY <1>2, StoredRow DEF UpdateBegin
    <2>2. /\ OrExisting(dto.startDate, seasons[id].startDate) \in Dates
          /\ OrExisting(dto.endDate, seasons[id].endDate) \in Dates
      BY <2>1 DEF OrExisting, UpdateBodies, Seasons, Optional
    <2>3. LocalOK([at |-> "conflict.year", id |-> id, dto |-> dto,
                   start |-> OrExisting(dto.startDate, seasons[id].startDate),
                   end |-> OrExisting(dto.endDate, seasons[id].endDate)])
      BY <2>2 DEF LocalOK, UpdateCalls, InConflict
    <2> QED
      BY <1>2, <2>3, ReadType DEF UpdateBegin
  <1>3. ASSUME NEW label, Continue(c, label), UNCHANGED rows,
               \/ call[c] \in CreateCalls /\ label \in InConflict \cup {"create"}
                    /\ call[c].start = call[c].dto.startDate
                    /\ call[c].end = call[c].dto.endDate
               \/ call[c] \in UpdateCalls /\ label \in InConflict \cup {"update"}
               \/ call[c] \in StatusCalls /\ label \in InStatus
        PROVE  TypeInv'
    <2>1. LocalOK([call[c] EXCEPT !.at = label])
      <3>1. CASE call[c] \in CreateCalls /\ label \in InConflict \cup {"create"}
                   /\ call[c].start = call[c].dto.startDate
                   /\ call[c].end = call[c].dto.endDate
        BY <3>1 DEF LocalOK, CreateCalls
      <3>2. CASE call[c] \in UpdateCalls /\ label \in InConflict \cup {"update"}
        BY <3>2 DEF LocalOK, UpdateCalls
      <3>3. CASE call[c] \in StatusCalls /\ label \in InStatus
        BY <3>3 DEF LocalOK, StatusCalls
      <3> QED
        BY <1>3, <3>1, <3>2, <3>3
    <2> QED
      BY <1>3, <2>1, ReadType DEF Continue
  <1>4. ASSUME Reply(c), UNCHANGED rows PROVE TypeInv'
    BY <1>4, ReadType DEF Reply, LocalOK
  <1>5. CASE ConflictYear(c)
    BY <1>3, <1>4, <1>5, CallKind DEF ConflictYear, At, InConflict
  <1>6. CASE ConflictDates(c)
    <2>1. /\ call[c] \in CreateCalls => call[c].id = Null
          /\ call[c] \in UpdateCalls => call[c].id # Null
      BY DEF CreateCalls, UpdateCalls
    <2> QED
      BY <1>3, <1>4, <1>6, <2>1, CallKind DEF ConflictDates, At, InConflict
  <1>7. CASE CreateCommit(c)
    <2>1. call[c].dto \in CreateBodies
      BY <1>7, CallKind DEF CreateCommit, At, CreateCalls
    <2>2. PICK new : new = [call[c].dto EXCEPT !.status = Given(call[c].dto.status, "UPCOMING")]
      OBVIOUS
    <2>3. new \in Seasons
      BY <2>1, <2>2, CreatedRow
    <2>4. /\ created' = created + 1 /\ created < MaxSeasons
          /\ seasons' = [seasons EXCEPT ![created + 1] = new]
          /\ regulations' = [regulations EXCEPT ![created + 1] = CurrentRegulations]
      BY <1>7, <2>2 DEF CreateCommit
    <2>5. created + 1 \in SeasonIds /\ created' \in 0..MaxSeasons
      BY <2>4 DEF TypeInv, TypeOK
    <2>6. TypeOK'
      BY <2>3, <2>4, <2>5, CurrentRegulationsType DEF TypeInv, TypeOK, Empty
    <2>7. \A id \in SeasonIds : id > created' => seasons'[id] = Null
      BY <2>4, <2>5 DEF TypeInv, TypeOK
    <2> QED
      BY <1>7, <2>6, <2>7, ReplyType DEF CreateCommit, TypeInv
  <1>8. CASE UpdateWrite(c)
    <2>1. call[c].dto \in UpdateBodies
      BY <1>8, CallKind DEF UpdateWrite, At, UpdateCalls
    <2>2. CASE call[c].id \notin Stored
      BY <1>8, <2>2, ReplyType DEF UpdateWrite, TypeInv, TypeOK, Empty
    <2>3. CASE call[c].id \in Stored
      <3>1. PICK new : new = [field \in DOMAIN call[c].dto |->
                                Given(call[c].dto[field], seasons[call[c].id][field])]
        OBVIOUS
      <3>2. new \in Seasons
        BY <2>1, <2>3, <3>1, StoredRow, UpdatedRow
      <3>3. seasons' = [seasons EXCEPT ![call[c].id] = new] /\ UNCHANGED <<created, regulations>>
        BY <1>8, <2>3, <3>1 DEF UpdateWrite
      <3>4. TypeOK' /\ \A id \in SeasonIds : id > created' => seasons'[id] = Null
        BY <2>3, <3>2, <3>3, StoredRow DEF TypeInv, TypeOK, Empty, Stored
      <3> QED
        BY <1>8, <3>4, ReplyType DEF UpdateWrite, TypeInv
    <2> QED
      BY <2>2, <2>3
  <1>9. ASSUME NEW id \in SeasonIds, NEW to \in Statuses, UpdateStatusBegin(c, id, to)
        PROVE  TypeInv'
    <2>1. seasons[id].year \in Years
      BY <1>9, StoredRow DEF UpdateStatusBegin, Seasons
    <2>2. LocalOK([at |-> IF to = "IN_PROGRESS" THEN "status.active" ELSE "status",
                   id |-> id, to |-> to, year |-> seasons[id].year])
      BY <2>1 DEF LocalOK, StatusCalls, InStatus
    <2> QED
      BY <1>9, <2>2, ReadType DEF UpdateStatusBegin
  <1>10. CASE StatusActive(c)
    BY <1>3, <1>4, <1>10, CallKind DEF StatusActive, At, InStatus
  <1>11. CASE StatusPrevious(c)
    BY <1>3, <1>4, <1>11, CallKind DEF StatusPrevious, At, InStatus
  <1>12. CASE StatusWrite(c)
    <2>1. call[c].id \in SeasonIds /\ call[c].to \in Statuses
      BY <1>12, CallKind DEF StatusWrite, At, InStatus, StatusCalls
    <2>2. \A row \in Seasons : [row EXCEPT !.status = call[c].to] \in Seasons
      BY <2>1 DEF Seasons
    <2>3. TypeOK' /\ \A id \in SeasonIds : id > created' => seasons'[id] = Null
      <3>1. CASE call[c].id \notin Stored
        BY <1>12, <3>1 DEF StatusWrite, TypeInv, TypeOK, Empty
      <3>2. CASE call[c].id \in Stored
        <4>1. /\ seasons' = [seasons EXCEPT ![call[c].id].status = call[c].to]
              /\ UNCHANGED <<created, regulations>>
          BY <1>12, <3>2 DEF StatusWrite
        <4>2. [seasons[call[c].id] EXCEPT !.status = call[c].to] \in Seasons
                /\ seasons[call[c].id] # Null
          BY <2>2, <3>2, StoredRow
        <4> QED
          BY <2>1, <4>1, <4>2 DEF TypeInv, TypeOK, Empty
      <3> QED
        BY <3>1, <3>2
    <2> QED
      BY <1>12, <2>3, ReplyType DEF StatusWrite, TypeInv
  <1> QED
    BY <1>1, <1>2, <1>5, <1>6, <1>7, <1>8, <1>9, <1>10, <1>11, <1>12 DEF SeasonStep

LEMMA RulesType ==
    ASSUME TypeInv, UNCHANGED <<seasons, created>>, DOMAIN call' = Clients,
           \A c \in Clients : LocalOK(call'[c]),
           NEW id \in SeasonIds, NEW key \in Keys, NEW value \in Values \cup {Null},
           id \notin Stored => value = Null,
           regulations' = [regulations EXCEPT ![id][key] = value]
    PROVE  TypeInv'
  <1> USE Constants
  <1>1. [regulations[id] EXCEPT ![key] = value] \in [Keys -> Values \cup {Null}]
    BY DEF TypeInv, TypeOK
  <1>2. id \notin Stored => [regulations[id] EXCEPT ![key] = value] = Empty
    BY DEF TypeInv, TypeOK, Empty, Stored
  <1> QED
    BY <1>1, <1>2 DEF TypeInv, TypeOK, Stored, Empty

LEMMA RegulationType ==
    ASSUME TypeInv, NEW c \in Clients, RegulationStep(c)
    PROVE  TypeInv'
  <1> USE Constants
  <1>1. ASSUME NEW id \in SeasonIds, NEW key \in Keys, NEW value \in Values \cup {Null},
               NEW label \in {"upsert", "find"}, RegulationBegin(c, id, label, key, value)
        PROVE  TypeInv'
    <2>1. LocalOK([at |-> label, id |-> id, key |-> key, value |-> value])
      BY DEF LocalOK, RuleCalls
    <2> QED
      BY <1>1, <2>1, ReadType DEF RegulationBegin
  <1>2. call[c] \in RuleCalls => call[c].id \in SeasonIds /\ call[c].key \in Keys
                                  /\ call[c].value \in Values \cup {Null}
    BY DEF RuleCalls
  <1>3. CASE RegulationUpsert(c)
    <2>1. call[c] \in RuleCalls
      BY <1>3, CallKind DEF RegulationUpsert, At
    <2>2. PICK value : value = IF call[c].id \in Stored THEN call[c].value ELSE Null
      OBVIOUS
    <2>3. /\ regulations' = [regulations EXCEPT ![call[c].id][call[c].key] = value]
          /\ UNCHANGED <<seasons, created>> /\ Reply(c)
      BY <1>3, <2>2 DEF RegulationUpsert, SetRegulation
    <2> QED
      BY <1>2, <2>1, <2>2, <2>3, RulesType, ReplyType
  <1>4. CASE RegulationFind(c)
    <2>1. call[c] \in RuleCalls
      BY <1>4, CallKind DEF RegulationFind, At
    <2>2. LocalOK([call[c] EXCEPT !.at = "write"]) /\ LocalOK(Idle)
      BY <2>1 DEF LocalOK, RuleCalls
    <2> QED
      BY <1>4, <2>2, ReadType DEF RegulationFind, Continue, Reply
  <1>5. CASE RegulationWrite(c)
    <2>1. call[c] \in RuleCalls
      BY <1>5, CallKind DEF RegulationWrite, At
    <2>2. PICK value :
            value = IF regulations[call[c].id][call[c].key] = Null THEN Null ELSE call[c].value
      OBVIOUS
    <2>3. /\ regulations' = [regulations EXCEPT ![call[c].id][call[c].key] = value]
          /\ UNCHANGED <<seasons, created>> /\ Reply(c)
      BY <1>5, <2>2 DEF RegulationWrite, SetRegulation
    <2>4. call[c].id \notin Stored => value = Null
      BY <1>2, <2>1, <2>2 DEF TypeInv, TypeOK, Stored, Empty
    <2> QED
      BY <1>2, <2>1, <2>2, <2>3, <2>4, RulesType, ReplyType
  <1>6. ASSUME NEW id \in SeasonIds, SeedBegin(c, id) PROVE TypeInv'
    <2>1. LocalOK([at |-> "seed", id |-> id, todo |-> Keys])
      BY DEF LocalOK, SeedCalls
    <2> QED
      BY <1>6, <2>1, ReadType DEF SeedBegin
  <1>7. ASSUME NEW key \in Keys, SeedKey(c, key) PROVE TypeInv'
    <2>1. call[c] \in SeedCalls /\ call[c].id \in SeasonIds
      BY <1>7, CallKind DEF SeedKey, At, SeedCalls
    <2>2. LocalOK([call[c] EXCEPT !.todo = @ \ {key}]) /\ LocalOK(Idle)
      BY <2>1 DEF LocalOK, SeedCalls
    <2>3. DOMAIN call' = Clients /\ \A d \in Clients : LocalOK(call'[d])
      BY <1>7, <2>2, GotoType DEF SeedKey, Reply
    <2>4. UNCHANGED <<seasons, created>>
      BY <1>7 DEF SeedKey
    <2>5. CASE regulations' = regulations
      BY <2>3, <2>4, <2>5 DEF TypeInv, TypeOK, Empty
    <2>6. CASE /\ call[c].id \in Stored
               /\ regulations' = [regulations EXCEPT ![call[c].id][key] = DefaultValue]
      BY <2>1, <2>3, <2>4, <2>6, RulesType
    <2> QED
      BY <1>7, <2>5, <2>6 DEF SeedKey
  <1> QED
    BY <1>1, <1>3, <1>4, <1>5, <1>6, <1>7 DEF RegulationStep

LEMMA DeleteType ==
    ASSUME TypeInv, NEW id \in SeasonIds, Delete(id)
    PROVE  TypeInv'
  BY Constants DEF Delete, TypeInv, TypeOK, Empty

LEMMA InitType == Init => TypeInv
  BY Constants DEF Init, TypeInv, TypeOK, Empty, LocalOK

LEMMA StepType == TypeInv /\ [Next]_vars => TypeInv'
  <1> SUFFICES ASSUME TypeInv, [Next]_vars PROVE TypeInv'
    OBVIOUS
  <1>1. CASE UNCHANGED vars
    BY <1>1 DEF vars, rows, TypeInv, TypeOK, Empty, LocalOK
  <1> QED
    BY <1>1, SeasonType, RegulationType, DeleteType DEF Next

LEMMA TypeInvHolds == Spec => []TypeInv
  BY InitType, StepType, PTL DEF Spec

\* Every row has a value the schema allows, only a season that exists has
\* regulations, and the season whose regulations a new one copies exists.
THEOREM TypeCorrect == Spec => []TypeOK
  <1>1. TypeInv => TypeOK
    BY DEF TypeInv
  <1> QED
    BY <1>1, TypeInvHolds, PTL

-----------------------------------------------------------------------------
(* The calendar.                                                           *)

LEMMA OverlapsBothWays ==
    ASSUME NEW s \in Seasons, NEW t \in Seasons
    PROVE  Overlaps(s, t.startDate, t.endDate) <=> Overlaps(t, s.startDate, s.endDate)
  BY SeasonsAssumption DEF Overlaps, Seasons, Dates

\* Writing a row that fits among the others.
LEMMA RowWritten ==
    ASSUME TypeInv, CalendarHolds, NEW id \in SeasonIds, NEW new \in Seasons,
           seasons' = [seasons EXCEPT ![id] = new],
           ValidDateRange(new.startDate, new.endDate),
           \A other \in Stored \ {id} :
             /\ seasons[other].year # new.year
             /\ ~Overlaps(seasons[other], new.startDate, new.endDate)
    PROVE  CalendarHolds'
  <1> USE Constants
  <1>1. seasons'[id] = new /\ \A other \in SeasonIds \ {id} : seasons'[other] = seasons[other]
    BY DEF TypeInv, TypeOK
  <1>2. Stored' = Stored \cup {id}
    BY <1>1 DEF Stored
  <1>3. \A other \in Stored \ {id} : /\ seasons'[other] = seasons[other]
                                     /\ seasons[other] \in Seasons
    BY <1>1, StoredRow
  <1>4. ASSUME NEW a \in Stored', NEW b \in Stored', a # b
        PROVE  /\ seasons'[a].year # seasons'[b].year
               /\ ~Overlaps(seasons'[a], seasons'[b].startDate, seasons'[b].endDate)
    <2>1. CASE a = id
      <3>1. b \in Stored \ {id}
        BY <1>2, <1>4, <2>1
      <3>2. ~Overlaps(new, seasons[b].startDate, seasons[b].endDate)
        BY <1>3, <3>1, OverlapsBothWays
      <3> QED
        BY <1>1, <1>3, <2>1, <3>1, <3>2
    <2>2. CASE b = id
      <3>1. a \in Stored \ {id}
        BY <1>2, <1>4, <2>2
      <3> QED
        BY <1>1, <1>3, <2>2, <3>1
    <2>3. CASE a # id /\ b # id
      <3>1. a \in Stored \ {id} /\ b \in Stored \ {id}
        BY <1>2, <2>3
      <3> QED
        BY <1>3, <1>4, <3>1 DEF CalendarHolds, SeasonsAreDisjoint
    <2> QED
      BY <2>1, <2>2, <2>3
  <1>5. SeasonsAreDisjoint'
    BY <1>4 DEF SeasonsAreDisjoint
  <1>6. DatesInOrder'
    BY <1>1, <1>2, <1>3 DEF CalendarHolds, DatesInOrder
  <1> QED
    BY <1>5, <1>6 DEF CalendarHolds

\* Rows that keep their years and dates, or go.
LEMMA RowsKept ==
    ASSUME CalendarHolds,
           \A id \in Stored' : /\ id \in Stored
                               /\ seasons'[id].year = seasons[id].year
                               /\ seasons'[id].startDate = seasons[id].startDate
                               /\ seasons'[id].endDate = seasons[id].endDate
    PROVE  CalendarHolds'
  <1>1. SeasonsAreDisjoint'
    BY DEF CalendarHolds, SeasonsAreDisjoint, Overlaps
  <1>2. DatesInOrder'
    BY DEF CalendarHolds, DatesInOrder
  <1> QED
    BY <1>1, <1>2 DEF CalendarHolds

-----------------------------------------------------------------------------
(* Requests one by one.                                                    *)

LEMMA SoloReply ==
    ASSUME OneAtATime, TypeInv, NEW c \in Clients, Reply(c),
           CalendarHolds', (~StatusInBody => OneInProgress)'
    PROVE  SoloInv'
  <1>1. \A d \in Clients : call'[d].at = "idle"
    BY GotoCalls DEF OneAtATime, Reply, Idle
  <1>2. ASSUME NEW d \in Clients PROVE StillSo(d)'
    BY <1>1 DEF StillSo, ReadsConflict, ReadsStatus, ReadsRules, InConflict, InStatus, InRules
  <1> QED
    BY <1>2 DEF SoloInv

LEMMA SoloRead ==
    ASSUME OneAtATime, SoloInv, NEW c \in Clients, UNCHANGED rows, StillSo(c)'
    PROVE  SoloInv'
  <1>1. \A d \in Clients : d = c
    BY DEF OneAtATime
  <1>2. CalendarHolds' /\ (~StatusInBody => OneInProgress)'
    BY DEF SoloInv, rows, CalendarHolds, SeasonsAreDisjoint, DatesInOrder, OneInProgress, Stored
  <1>3. ASSUME NEW d \in Clients PROVE StillSo(d)'
    BY <1>1
  <1> QED
    BY <1>2, <1>3 DEF SoloInv

LEMMA SoloReadReply ==
    ASSUME OneAtATime, TypeInv, SoloInv, NEW c \in Clients, UNCHANGED rows, Reply(c)
    PROVE  SoloInv'
  <1>1. CalendarHolds' /\ (~StatusInBody => OneInProgress)'
    BY DEF SoloInv, rows, CalendarHolds, SeasonsAreDisjoint, DatesInOrder, OneInProgress, Stored
  <1> QED
    BY <1>1, SoloReply

\* What continues keeps its local variables.
LEMMA Continued ==
    ASSUME TypeInv, NEW c \in Clients, NEW label, Continue(c, label)
    PROVE  /\ call[c].at \in InConflict =>
                /\ call'[c].at = label /\ call'[c].id = call[c].id
                /\ call'[c].dto = call[c].dto
                /\ call'[c].start = call[c].start /\ call'[c].end = call[c].end
           /\ call[c].at \in InStatus =>
                /\ call'[c].at = label /\ call'[c].id = call[c].id
                /\ call'[c].to = call[c].to /\ call'[c].year = call[c].year
           /\ call[c].at \in {"upsert", "find", "write"} =>
                call'[c].at = label /\ call'[c].id = call[c].id
  <1>1. call'[c] = [call[c] EXCEPT !.at = label]
    BY GotoCalls DEF Continue
  <1> QED
    BY <1>1, CallKind DEF CreateCalls, UpdateCalls, StatusCalls, RuleCalls, InConflict, InStatus

LEMMA ConflictSolo ==
    ASSUME OneAtATime, TypeInv, SoloInv, NEW c \in Clients,
           \/ \E dto \in CreateBodies : CreateBegin(c, dto)
           \/ \E id \in SeasonIds, dto \in UpdateBodies : UpdateBegin(c, id, dto)
           \/ ConflictYear(c) \/ ConflictDates(c) \/ CreateCommit(c) \/ UpdateWrite(c)
    PROVE  SoloInv'
  <1> USE Constants
  <1>1. CalendarHolds /\ (~StatusInBody => OneInProgress) /\ StillSo(c)
    BY DEF SoloInv
  <1>2. ASSUME NEW dto \in CreateBodies, CreateBegin(c, dto) PROVE SoloInv'
    <2>1. PICK next : next = [at |-> "conflict.year", id |-> Null, dto |-> dto,
                              start |-> dto.startDate, end |-> dto.endDate]
      OBVIOUS
    <2>2. call'[c] = next /\ UNCHANGED rows /\ ValidDateRange(next.start, next.end)
      BY <1>2, <2>1, GotoCalls DEF CreateBegin
    <2>3. next.at = "conflict.year" /\ next.id \notin Stored'
      BY <2>1, <2>2 DEF rows, Stored
    <2>4. StillSo(c)'
      BY <2>2, <2>3 DEF StillSo, ReadsConflict, ReadsStatus, ReadsRules, InConflict, InStatus,
                        InRules, HasId
    <2> QED
      BY <2>2, <2>4, SoloRead
  <1>3. ASSUME NEW id \in SeasonIds, NEW dto \in UpdateBodies, UpdateBegin(c, id, dto)
        PROVE  SoloInv'
    <2>1. PICK next : next = [at |-> "conflict.year", id |-> id, dto |-> dto,
                              start |-> OrExisting(dto.startDate, seasons[id].startDate),
                              end |-> OrExisting(dto.endDate, seasons[id].endDate)]
      OBVIOUS
    <2>2. call'[c] = next /\ UNCHANGED rows /\ ValidDateRange(next.start, next.end)
      BY <1>3, <2>1, GotoCalls DEF UpdateBegin
    <2>3. /\ next.at = "conflict.year" /\ next.id = id /\ next.dto = dto
          /\ next.start = OrExisting(dto.startDate, seasons[id].startDate)
          /\ next.end = OrExisting(dto.endDate, seasons[id].endDate)
      BY <2>1
    <2>4. StillSo(c)'
      BY <2>2, <2>3 DEF StillSo, ReadsConflict, ReadsStatus, ReadsRules, InConflict, InStatus,
                        InRules, HasId, rows
    <2> QED
      BY <2>2, <2>4, SoloRead
  <1>4. ASSUME ConflictYear(c) PROVE SoloInv'
    <2>1. CASE Reply(c)
      BY <1>4, <2>1, SoloReadReply DEF ConflictYear
    <2>2. CASE ~Reply(c)
      <3>1. /\ Continue(c, "conflict.dates") /\ UNCHANGED rows /\ call[c].at = "conflict.year"
            /\ \A other \in Others(c) : seasons[other].year # call[c].dto.year
        BY <1>4, <2>2 DEF ConflictYear, At, Others
      <3>2. /\ call'[c].at = "conflict.dates" /\ call'[c].id = call[c].id
            /\ call'[c].dto = call[c].dto
            /\ call'[c].start = call[c].start /\ call'[c].end = call[c].end
        BY <3>1, Continued DEF InConflict
      <3>3. StillSo(c)'
        BY <1>1, <3>1, <3>2 DEF StillSo, ReadsConflict, ReadsStatus, ReadsRules, InConflict,
                                InStatus, InRules, HasId, Others, Stored, rows
      <3> QED
        BY <3>1, <3>3, SoloRead
    <2> QED
      BY <2>1, <2>2
  <1>5. ASSUME ConflictDates(c) PROVE SoloInv'
    <2>1. CASE Reply(c)
      BY <1>5, <2>1, SoloReadReply DEF ConflictDates
    <2>2. CASE ~Reply(c)
      <3>1. PICK label : /\ label = IF call[c].id = Null THEN "create" ELSE "update"
                         /\ Continue(c, label)
        BY <1>5, <2>2 DEF ConflictDates
      <3>2. /\ UNCHANGED rows /\ call[c].at = "conflict.dates"
            /\ \A other \in Others(c) : ~Overlaps(seasons[other], call[c].start, call[c].end)
        BY <1>5, <2>2 DEF ConflictDates, At, Others
      <3>3. /\ call'[c].at = label /\ call'[c].id = call[c].id
            /\ call'[c].dto = call[c].dto
            /\ call'[c].start = call[c].start /\ call'[c].end = call[c].end
        BY <3>1, <3>2, Continued DEF InConflict
      <3>4. label \in {"create", "update"}
        BY <3>1
      <3>5. StillSo(c)'
        BY <1>1, <3>2, <3>3, <3>4
           DEF StillSo, ReadsConflict, ReadsStatus, ReadsRules, InConflict, InStatus, InRules,
               HasId, Others, Stored, rows
      <3> QED
        BY <3>2, <3>5, SoloRead
    <2> QED
      BY <2>1, <2>2
  <1>6. ASSUME CreateCommit(c) PROVE SoloInv'
    <2>1. PICK dto, new : /\ dto = call[c].dto
                          /\ new = [dto EXCEPT !.status = Given(dto.status, "UPCOMING")]
      OBVIOUS
    <2>2. /\ dto \in CreateBodies /\ call[c].at = "create" /\ call[c].id = Null
          /\ call[c].start = dto.startDate /\ call[c].end = dto.endDate
      BY <1>6, <2>1, CallKind DEF CreateCommit, At, CreateCalls
    <2>3. /\ seasons' = [seasons EXCEPT ![created + 1] = new] /\ created + 1 \in SeasonIds
          /\ Reply(c)
      BY <1>6, <2>1 DEF CreateCommit, TypeInv, TypeOK
    <2>4. /\ new \in Seasons /\ new.year = dto.year
          /\ new.startDate = dto.startDate /\ new.endDate = dto.endDate
          /\ new.status = Given(dto.status, "UPCOMING")
      BY <2>1, <2>2, CreatedRow
    <2>5. Others(c) = Stored
      BY <2>2, StoredRow DEF Others
    <2>6. CalendarHolds'
      <3>1. /\ ValidDateRange(new.startDate, new.endDate)
            /\ \A other \in Stored : /\ seasons[other].year # new.year
                                     /\ ~Overlaps(seasons[other], new.startDate, new.endDate)
        BY <1>1, <2>1, <2>2, <2>4, <2>5 DEF StillSo, ReadsConflict, InConflict
      <3> QED
        BY <1>1, <2>3, <2>4, <3>1, RowWritten
    <2>7. (~StatusInBody => OneInProgress)'
      <3>1. ~StatusInBody => new.status = "UPCOMING"
        BY <2>2, <2>4 DEF CreateBodies, BodyStatuses, Given
      <3>2. \A id \in SeasonIds :
              seasons'[id] = IF id = created + 1 THEN new ELSE seasons[id]
        BY <2>3 DEF TypeInv, TypeOK
      <3> QED
        BY <1>1, <3>1, <3>2 DEF OneInProgress, Stored
    <2> QED
      BY <2>3, <2>6, <2>7, SoloReply
  <1>7. ASSUME UpdateWrite(c) PROVE SoloInv'
    <2>1. Reply(c) /\ call[c].at = "update" /\ call[c] \in UpdateCalls
      BY <1>7, CallKind DEF UpdateWrite, At
    <2>2. CASE call[c].id \notin Stored
      BY <1>7, <2>1, <2>2, SoloReadReply DEF UpdateWrite, rows
    <2>3. CASE call[c].id \in Stored
      <3>1. PICK dto, id, old, new :
              /\ dto = call[c].dto /\ id = call[c].id /\ old = seasons[id]
              /\ new = [field \in DOMAIN dto |-> Given(dto[field], old[field])]
        OBVIOUS
      <3>2. dto \in UpdateBodies /\ id \in SeasonIds /\ old \in Seasons /\ id \in Stored
        BY <2>1, <2>3, <3>1, StoredRow DEF UpdateCalls
      <3>3. seasons' = [seasons EXCEPT ![id] = new]
        BY <1>7, <2>3, <3>1 DEF UpdateWrite
      <3>4. /\ new \in Seasons /\ new.year = Given(dto.year, old.year)
            /\ new.status = Given(dto.status, old.status)
            /\ new.startDate = Given(dto.startDate, old.startDate)
            /\ new.endDate = Given(dto.endDate, old.endDate)
        BY <3>1, <3>2, UpdatedRow
      <3>5. /\ call[c].start = OrExisting(dto.startDate, old.startDate)
            /\ call[c].end = OrExisting(dto.endDate, old.endDate)
            /\ ValidDateRange(call[c].start, call[c].end)
            /\ \A other \in Stored \ {id} :
                 /\ seasons[other].year # dto.year
                 /\ ~Overlaps(seasons[other], call[c].start, call[c].end)
        BY <1>1, <2>1, <2>3, <3>1 DEF StillSo, ReadsConflict, HasId, Others
      <3>6. /\ new.startDate \in {Null, call[c].start}
            /\ new.endDate \in {Null, call[c].end}
        BY <3>4, <3>5 DEF Given, OrExisting
      <3>7. /\ ValidDateRange(new.startDate, new.endDate)
            /\ \A other \in Stored \ {id} :
                 ~Overlaps(seasons[other], new.startDate, new.endDate)
        BY <3>5, <3>6 DEF ValidDateRange, Overlaps
      <3>8. \A other \in Stored \ {id} : seasons[other].year # new.year
        BY <1>1, <3>1, <3>2, <3>4, <3>5 DEF Given, CalendarHolds, SeasonsAreDisjoint
      <3>9. CalendarHolds'
        BY <1>1, <3>2, <3>3, <3>4, <3>7, <3>8, RowWritten
      <3>10. (~StatusInBody => OneInProgress)'
        <4>1. ~StatusInBody => new.status = old.status
          BY <3>2, <3>4 DEF UpdateBodies, BodyStatuses, Given
        <4>2. \A a \in SeasonIds : seasons'[a] = IF a = id THEN new ELSE seasons[a]
          BY <3>2, <3>3 DEF TypeInv, TypeOK
        <4>3. ~StatusInBody =>
                \A a \in Stored' : a \in Stored /\ seasons'[a].status = seasons[a].status
          BY <3>1, <3>2, <4>1, <4>2 DEF Stored
        <4> QED
          BY <1>1, <4>3 DEF OneInProgress
      <3> QED
        BY <2>1, <3>9, <3>10, SoloReply
    <2> QED
      BY <2>2, <2>3
  <1> QED
    BY <1>2, <1>3, <1>4, <1>5, <1>6, <1>7

LEMMA StatusSolo ==
    ASSUME OneAtATime, TypeInv, SoloInv, NEW c \in Clients,
           \/ \E id \in SeasonIds, to \in Statuses : UpdateStatusBegin(c, id, to)
           \/ StatusActive(c) \/ StatusPrevious(c) \/ StatusWrite(c)
    PROVE  SoloInv'
  <1> USE Constants
  <1>1. CalendarHolds /\ (~StatusInBody => OneInProgress) /\ StillSo(c)
    BY DEF SoloInv
  <1>2. ASSUME NEW id \in SeasonIds, NEW to \in Statuses, UpdateStatusBegin(c, id, to)
        PROVE  SoloInv'
    <2>1. PICK next : next = [at |-> IF to = "IN_PROGRESS" THEN "status.active" ELSE "status",
                              id |-> id, to |-> to, year |-> seasons[id].year]
      OBVIOUS
    <2>2. call'[c] = next /\ UNCHANGED rows
      BY <1>2, <2>1, GotoCalls DEF UpdateStatusBegin
    <2>3. /\ next.id = id /\ next.to = to /\ next.year = seasons[id].year
          /\ next.at = IF to = "IN_PROGRESS" THEN "status.active" ELSE "status"
      BY <2>1
    <2>4. to \in SEASON_STATUS_TRANSITIONS[seasons[id].status]
      BY <1>2 DEF UpdateStatusBegin
    <2>5. StillSo(c)'
      <3>1. ReadsStatus(c)'
        BY <2>2, <2>3, <2>4 DEF ReadsStatus, InStatus, HasId, rows
      <3>2. ReadsConflict(c)' /\ ReadsRules(c)'
        BY <2>2, <2>3 DEF ReadsConflict, ReadsRules, InConflict, InRules
      <3> QED
        BY <3>1, <3>2 DEF StillSo
    <2> QED
      BY <2>2, <2>5, SoloRead
  <1>3. ASSUME NEW label \in InStatus, Continue(c, label), UNCHANGED rows, call[c].at \in InStatus,
               ReadsStatus(c)'
        PROVE  SoloInv'
    <2>1. call'[c].at = label
      BY <1>3, Continued
    <2>2. ReadsConflict(c)' /\ ReadsRules(c)'
      BY <2>1 DEF ReadsConflict, ReadsRules, InConflict, InRules, InStatus
    <2> QED
      BY <1>3, <2>2, SoloRead DEF StillSo
  <1>4. ASSUME StatusActive(c) PROVE SoloInv'
    <2>1. CASE Reply(c)
      BY <1>4, <2>1, SoloReadReply DEF StatusActive
    <2>2. CASE ~Reply(c)
      <3>1. /\ Continue(c, "status.previous") /\ UNCHANGED rows /\ call[c].at = "status.active"
            /\ \A other \in Others(c) : seasons[other].status # "IN_PROGRESS"
        BY <1>4, <2>2 DEF StatusActive, At, Others
      <3>2. /\ call'[c].at = "status.previous" /\ call'[c].id = call[c].id
            /\ call'[c].to = call[c].to /\ call'[c].year = call[c].year
        BY <3>1, Continued DEF InStatus
      <3>3. ReadsStatus(c)'
        BY <1>1, <3>1, <3>2 DEF StillSo, ReadsStatus, InStatus, HasId, Others, Stored, rows
      <3> QED
        BY <1>3, <3>1, <3>3 DEF InStatus
    <2> QED
      BY <2>1, <2>2
  <1>5. ASSUME StatusPrevious(c) PROVE SoloInv'
    <2>1. CASE Reply(c)
      BY <1>5, <2>1, SoloReadReply DEF StatusPrevious
    <2>2. CASE ~Reply(c)
      <3>1. /\ Continue(c, "status") /\ UNCHANGED rows /\ call[c].at = "status.previous"
            /\ \A other \in Others(c) : seasons[other].year < call[c].year
                                          => seasons[other].status = "COMPLETED"
        BY <1>5, <2>2 DEF StatusPrevious, At, Others
      <3>2. /\ call'[c].at = "status" /\ call'[c].id = call[c].id
            /\ call'[c].to = call[c].to /\ call'[c].year = call[c].year
        BY <3>1, Continued DEF InStatus
      <3>3. ReadsStatus(c)'
        BY <1>1, <3>1, <3>2 DEF StillSo, ReadsStatus, InStatus, HasId, Others, Stored, rows
      <3> QED
        BY <1>3, <3>1, <3>3 DEF InStatus
    <2> QED
      BY <2>1, <2>2
  <1>6. ASSUME StatusWrite(c) PROVE SoloInv'
    <2>1. Reply(c) /\ call[c].at = "status"
      BY <1>6 DEF StatusWrite, At
    <2>2. CASE call[c].id \notin Stored
      BY <1>6, <2>1, <2>2, SoloReadReply DEF StatusWrite, rows
    <2>3. CASE call[c].id \in Stored
      <3>1. PICK id, to : id = call[c].id /\ to = call[c].to
        OBVIOUS
      <3>2. /\ id \in SeasonIds /\ seasons[id] \in Seasons
            /\ seasons' = [seasons EXCEPT ![id] = [seasons[id] EXCEPT !.status = to]]
        BY <1>6, <2>3, <3>1, StoredRow DEF StatusWrite
      <3>3. \A a \in SeasonIds : a # id => seasons'[a] = seasons[a]
        BY <3>2 DEF TypeInv, TypeOK
      <3>4. /\ seasons'[id].status = to /\ seasons'[id].year = seasons[id].year
            /\ seasons'[id].startDate = seasons[id].startDate
            /\ seasons'[id].endDate = seasons[id].endDate
        BY <3>2 DEF TypeInv, TypeOK, Seasons
      <3>5. \A a \in Stored' : a \in Stored
        BY <2>3, <3>1, <3>3 DEF Stored
      <3>6. CalendarHolds'
        BY <1>1, <3>3, <3>4, <3>5, RowsKept, StoredRow
      <3>7. ASSUME ~StatusInBody PROVE OneInProgress'
        <4>1. to = "IN_PROGRESS" =>
                \A other \in Stored \ {id} : seasons[other].status # "IN_PROGRESS"
          BY <1>1, <2>1, <3>1 DEF StillSo, ReadsStatus, Others
        <4>2. \A a \in Stored' : a # id => a \in Stored /\ seasons'[a].status = seasons[a].status
          BY <3>3, <3>5, StoredRow
        <4>3. OneInProgress
          BY <1>1, <3>7
        <4> QED
          BY <3>4, <4>1, <4>2, <4>3 DEF OneInProgress
      <3> QED
        BY <2>1, <3>6, <3>7, SoloReply
    <2> QED
      BY <2>2, <2>3
  <1> QED
    BY <1>2, <1>4, <1>5, <1>6

LEMMA RegulationSolo ==
    ASSUME OneAtATime, TypeInv, SoloInv, NEW c \in Clients, RegulationStep(c)
    PROVE  SoloInv'
  <1> USE Constants
  <1>1. seasons' = seasons
    BY DEF RegulationStep, RegulationBegin, RegulationUpsert, RegulationFind, RegulationWrite,
           SeedBegin, SeedKey, SetRegulation, rows
  <1>2. CalendarHolds' /\ (~StatusInBody => OneInProgress)'
    BY <1>1 DEF SoloInv, CalendarHolds, SeasonsAreDisjoint, DatesInOrder, OneInProgress, Stored
  <1>3. ASSUME call'[c].at \in InRules,
               call'[c].id \in Stored => seasons[call'[c].id].status = "UPCOMING"
        PROVE  SoloInv'
    <2>1. StillSo(c)'
      BY <1>1, <1>3 DEF StillSo, ReadsConflict, ReadsStatus, ReadsRules, InConflict, InStatus,
                        InRules, HasId, Stored
    <2>2. \A d \in Clients : d = c
      BY DEF OneAtATime
    <2>3. ASSUME NEW d \in Clients PROVE StillSo(d)'
      BY <2>1, <2>2
    <2> QED
      BY <1>2, <2>3 DEF SoloInv
  <1>4. ASSUME Reply(c) PROVE SoloInv'
    BY <1>2, <1>4, SoloReply
  <1>5. ASSUME call[c].at \in InRules
        PROVE  call[c].id \in Stored => seasons[call[c].id].status = "UPCOMING"
    BY <1>5 DEF SoloInv, StillSo, ReadsRules, HasId
  <1>6. ASSUME NEW id, NEW label \in {"upsert", "find"}, NEW key, NEW value,
               RegulationBegin(c, id, label, key, value)
        PROVE  SoloInv'
    <2>1. call'[c] = [at |-> label, id |-> id, key |-> key, value |-> value]
      BY <1>6, GotoCalls DEF RegulationBegin
    <2>2. seasons[id].status = "UPCOMING"
      BY <1>6 DEF RegulationBegin
    <2>3. call'[c].at = label /\ call'[c].id = id
      BY <2>1
    <2> QED
      BY <1>3, <2>2, <2>3 DEF InRules
  <1>7. ASSUME NEW id, SeedBegin(c, id) PROVE SoloInv'
    <2>1. call'[c] = [at |-> "seed", id |-> id, todo |-> Keys]
      BY <1>7, GotoCalls DEF SeedBegin
    <2>2. seasons[id].status = "UPCOMING"
      BY <1>7 DEF SeedBegin
    <2>3. call'[c].at = "seed" /\ call'[c].id = id
      BY <2>1
    <2> QED
      BY <1>3, <2>2, <2>3 DEF InRules
  <1>8. ASSUME RegulationUpsert(c) \/ RegulationWrite(c) PROVE SoloInv'
    BY <1>4, <1>8 DEF RegulationUpsert, RegulationWrite
  <1>9. ASSUME RegulationFind(c) PROVE SoloInv'
    <2>1. CASE Continue(c, "write")
      <3>1. call[c].at = "find"
        BY <1>9 DEF RegulationFind, At
      <3>2. call'[c].at = "write" /\ call'[c].id = call[c].id
        BY <2>1, <3>1, Continued
      <3> QED
        BY <1>3, <1>5, <3>1, <3>2 DEF InRules
    <2> QED
      BY <1>4, <1>9, <2>1 DEF RegulationFind
  <1>10. ASSUME NEW key \in Keys, SeedKey(c, key) PROVE SoloInv'
    <2>1. call[c].at = "seed" /\ call[c] \in SeedCalls
      BY <1>10, CallKind DEF SeedKey, At
    <2>2. CASE Goto(c, [call[c] EXCEPT !.todo = @ \ {key}])
      <3>1. call'[c] = [call[c] EXCEPT !.todo = @ \ {key}]
        BY <2>2, GotoCalls
      <3>2. call'[c].at = "seed" /\ call'[c].id = call[c].id
        BY <2>1, <3>1 DEF SeedCalls
      <3> QED
        BY <1>3, <1>5, <2>1, <3>2 DEF InRules
    <2> QED
      BY <1>4, <1>10, <2>2 DEF SeedKey
  <1> QED
    BY <1>6, <1>7, <1>8, <1>9, <1>10 DEF RegulationStep

LEMMA DeleteSolo ==
    ASSUME TypeInv, SoloInv, NEW id \in SeasonIds, Delete(id)
    PROVE  SoloInv'
  <1>1. \A other \in Stored' : other \in Stored /\ seasons'[other] = seasons[other]
    BY DEF Delete, Stored, TypeInv, TypeOK
  <1>2. CalendarHolds'
    BY <1>1, RowsKept DEF SoloInv
  <1>3. (~StatusInBody => OneInProgress)'
    BY <1>1 DEF SoloInv, OneInProgress
  <1>4. call' = call
    BY DEF Delete
  <1>5. ASSUME NEW c \in Clients PROVE StillSo(c)'
    <2>1. StillSo(c)
      BY DEF SoloInv
    <2>2. \A other \in Others(c)' : other \in Others(c) /\ seasons'[other] = seasons[other]
      BY <1>1, <1>4 DEF Others
    <2>3. HasId(c)' => HasId(c) /\ seasons'[call[c].id] = seasons[call[c].id]
      BY <1>1, <1>4 DEF HasId
    <2> QED
      BY <1>4, <2>1, <2>2, <2>3 DEF StillSo, ReadsConflict, ReadsStatus, ReadsRules
  <1> QED
    BY <1>2, <1>3, <1>5 DEF SoloInv

LEMMA InitSolo == Init => SoloInv
  <1> SUFFICES ASSUME Init PROVE SoloInv
    OBVIOUS
  <1>1. Stored = {}
    BY DEF Init, Stored
  <1>2. \A c \in Clients : call[c].at = "idle"
    BY DEF Init, Idle
  <1>3. CalendarHolds /\ OneInProgress
    BY <1>1 DEF CalendarHolds, SeasonsAreDisjoint, DatesInOrder, OneInProgress
  <1> QED
    BY <1>2, <1>3 DEF SoloInv, StillSo, ReadsConflict, ReadsStatus, ReadsRules, InConflict,
                      InStatus, InRules

LEMMA SoloStep == OneAtATime /\ TypeInv /\ SoloInv /\ [Next]_vars => SoloInv'
  <1> SUFFICES ASSUME OneAtATime, TypeInv, SoloInv, [Next]_vars PROVE SoloInv'
    OBVIOUS
  <1>1. ASSUME NEW c \in Clients, SeasonStep(c) PROVE SoloInv'
    BY <1>1, ConflictSolo, StatusSolo DEF SeasonStep
  <1>2. CASE UNCHANGED vars
    <2>1. CalendarHolds' /\ (~StatusInBody => OneInProgress)'
      BY <1>2 DEF SoloInv, vars, rows, CalendarHolds, SeasonsAreDisjoint, DatesInOrder,
                  OneInProgress, Stored
    <2>2. ASSUME NEW c \in Clients PROVE StillSo(c)'
      BY <1>2 DEF SoloInv, vars, rows, StillSo, ReadsConflict, ReadsStatus, ReadsRules, HasId,
                  Others, Stored
    <2> QED
      BY <2>1, <2>2 DEF SoloInv
  <1> QED
    BY <1>1, <1>2, RegulationSolo, DeleteSolo DEF Next

LEMMA SoloInvHolds == OneAtATime => (Spec => []SoloInv)
  <1> SUFFICES ASSUME OneAtATime PROVE Spec => []SoloInv
    OBVIOUS
  <1>1. TypeInv /\ SoloInv /\ [Next]_vars => SoloInv'
    BY SoloStep
  <1> QED
    BY <1>1, InitSolo, TypeInvHolds, PTL DEF Spec

\* One request at a time, bodies without a status: one season is in progress.
THEOREM OneIsInProgress == OneAtATime /\ ~StatusInBody => (Spec => []OneInProgress)
  <1> SUFFICES ASSUME OneAtATime, ~StatusInBody PROVE Spec => []OneInProgress
    OBVIOUS
  <1>1. SoloInv => OneInProgress
    BY DEF SoloInv
  <1> QED
    BY <1>1, SoloInvHolds, PTL

\* One request at a time: whatever was patched, cleared or deleted before, two
\* seasons differ in their year and their dates do not overlap, and no season
\* ends before it starts.
THEOREM SeasonsFormCalendar == OneAtATime => (Spec => []CalendarHolds)
  <1> SUFFICES ASSUME OneAtATime PROVE Spec => []CalendarHolds
    OBVIOUS
  <1>1. SoloInv => CalendarHolds
    BY DEF SoloInv
  <1> QED
    BY <1>1, SoloInvHolds, PTL

\* Who writes a season that is there, and its regulations.
LEMMA StoredWrites ==
    ASSUME TypeInv, SoloInv, OneAtATime, Next, NEW id \in Stored, seasons'[id] # Null
    PROVE  /\ seasons'[id].status # seasons[id].status /\ ~StatusInBody =>
                \E c \in Clients : /\ StatusWrite(c) /\ id = call[c].id
                                   /\ seasons'[id].status = call[c].to
           /\ regulations'[id] # regulations[id] => seasons[id].status = "UPCOMING"
  <1> USE Constants
  <1>0. id \in SeasonIds /\ seasons[id] \in Seasons /\ id # created + 1 /\ id <= created
    BY StoredRow DEF TypeInv, TypeOK
  <1> DEFINE Same == seasons'[id].status = seasons[id].status
             Kept == regulations'[id] = regulations[id]
  <1>1. ASSUME UNCHANGED rows PROVE Same /\ Kept
    BY <1>1 DEF rows
  <1>2. ASSUME NEW c \in Clients, SeasonStep(c), ~CreateCommit(c), ~UpdateWrite(c), ~StatusWrite(c)
        PROVE  Same /\ Kept
    BY <1>1, <1>2 DEF SeasonStep, CreateBegin, UpdateBegin, ConflictYear, ConflictDates,
                      UpdateStatusBegin, StatusActive, StatusPrevious
  <1>3. ASSUME NEW c \in Clients, CreateCommit(c) PROVE Same /\ Kept
    BY <1>0, <1>3 DEF CreateCommit, TypeInv, TypeOK
  <1>4. ASSUME NEW c \in Clients, UpdateWrite(c) PROVE Kept /\ (~StatusInBody => Same)
    <2>1. call[c].dto \in UpdateBodies
      BY <1>4, CallKind DEF UpdateWrite, At, UpdateCalls
    <2>2. CASE call[c].id = id
      <3>1. PICK new : new = [field \in DOMAIN call[c].dto |->
                                Given(call[c].dto[field], seasons[id][field])]
        OBVIOUS
      <3>2. new.status = Given(call[c].dto.status, seasons[id].status)
        BY <1>0, <2>1, <3>1, UpdatedRow
      <3>3. seasons'[id] = new
        BY <1>0, <1>4, <2>2, <3>1 DEF UpdateWrite, TypeInv, TypeOK
      <3>4. ~StatusInBody => call[c].dto.status = Undefined
        BY <2>1 DEF UpdateBodies, BodyStatuses
      <3> QED
        BY <1>4, <3>2, <3>3, <3>4 DEF UpdateWrite, Given
    <2>3. CASE call[c].id # id
      BY <1>0, <1>4, <2>3 DEF UpdateWrite, TypeInv, TypeOK
    <2> QED
      BY <2>2, <2>3
  <1>5. ASSUME NEW c \in Clients, StatusWrite(c)
        PROVE  Kept /\ (Same \/ (id = call[c].id /\ seasons'[id].status = call[c].to))
    BY <1>0, <1>5 DEF StatusWrite, TypeInv, TypeOK, Seasons
  <1>6. ASSUME NEW c \in Clients, RegulationStep(c)
        PROVE  Same /\ (~Kept => seasons[id].status = "UPCOMING")
    <2>1. seasons' = seasons
      BY <1>6 DEF RegulationStep, RegulationBegin, RegulationUpsert, RegulationFind,
                  RegulationWrite, SeedBegin, SeedKey, SetRegulation, rows
    <2>2. ASSUME ~Kept PROVE call[c].id = id /\ call[c].at \in InRules
      <3>1. \/ RegulationUpsert(c) \/ RegulationWrite(c) \/ \E key \in Keys : SeedKey(c, key)
        BY <1>1, <1>6, <2>2 DEF RegulationStep, RegulationBegin, RegulationFind, SeedBegin
      <3>2. call[c].at \in InRules
        BY <3>1 DEF RegulationUpsert, RegulationWrite, SeedKey, At, InRules
      <3>3. call[c].id # id => Kept
        BY <1>0, <3>1 DEF RegulationUpsert, RegulationWrite, SeedKey, SetRegulation, TypeInv, TypeOK
      <3> QED
        BY <2>2, <3>2, <3>3
    <2>3. call[c].id = id /\ call[c].at \in InRules => seasons[id].status = "UPCOMING"
      BY DEF SoloInv, StillSo, ReadsRules, HasId
    <2> QED
      BY <2>1, <2>2, <2>3
  <1>7. ASSUME NEW other \in SeasonIds, Delete(other) PROVE Same /\ Kept
    BY <1>0, <1>7 DEF Delete, TypeInv, TypeOK
  <1> QED
    BY <1>2, <1>3, <1>4, <1>5, <1>6, <1>7 DEF Next

\* One request at a time, bodies without a status: a season starts only when
\* every season of an earlier year is COMPLETED.
THEOREM PredecessorsAreCompleted ==
    OneAtATime /\ ~StatusInBody => (Spec => PredecessorsCompleted)
  <1> SUFFICES ASSUME OneAtATime, ~StatusInBody PROVE Spec => PredecessorsCompleted
    OBVIOUS
  <1> DEFINE Ordered == \A id \in Stored :
        /\ seasons'[id] # Null /\ seasons[id].status = "UPCOMING"
        /\ seasons'[id].status = "IN_PROGRESS"
        => \A other \in Stored :
            seasons[other].year < seasons[id].year => seasons[other].status = "COMPLETED"
  <1>1. TypeInv /\ SoloInv /\ [Next]_vars => [Ordered]_vars
    <2> SUFFICES ASSUME TypeInv, SoloInv, Next, NEW id \in Stored, NEW other \in Stored,
                        seasons'[id] # Null, seasons[id].status = "UPCOMING",
                        seasons'[id].status = "IN_PROGRESS",
                        seasons[other].year < seasons[id].year
                 PROVE  seasons[other].status = "COMPLETED"
      OBVIOUS
    <2>1. PICK c \in Clients : /\ StatusWrite(c) /\ id = call[c].id
                               /\ call[c].to = "IN_PROGRESS"
      BY StoredWrites
    <2>2. ReadsStatus(c) /\ call[c].at = "status" /\ HasId(c)
      BY <2>1 DEF SoloInv, StillSo, StatusWrite, At, HasId
    <2>3. other # id
      <3>1. seasons[id].year \in Nat
        BY StoredRow, SeasonsAssumption DEF Seasons
      <3> QED
        BY <3>1
    <2> QED
      BY <2>1, <2>2, <2>3 DEF ReadsStatus, Others, InStatus
  <1> QED
    BY <1>1, TypeInvHolds, SoloInvHolds, PTL DEF Spec, PredecessorsCompleted

\* One request at a time: the regulations of a season that has started do not
\* change.
THEOREM RulesStayFrozen == OneAtATime => (Spec => RulesFrozen)
  <1> SUFFICES ASSUME OneAtATime PROVE Spec => RulesFrozen
    OBVIOUS
  <1> DEFINE Frozen == \A id \in Stored :
        seasons[id].status # "UPCOMING" /\ seasons'[id] # Null
            => regulations'[id] = regulations[id]
  <1>1. TypeInv /\ SoloInv /\ [Next]_vars => [Frozen]_vars
    BY StoredWrites
  <1> QED
    BY <1>1, TypeInvHolds, SoloInvHolds, PTL DEF Spec, RulesFrozen
=============================================================================
