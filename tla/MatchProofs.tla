---------------------------- MODULE MatchProofs ----------------------------
(* Theorems about Match for any number of requests, officials and events.  *)
EXTENDS Match, FiniteSetTheorems, SequenceTheorems, TLAPS

(***************************************************************************)
(* Typing.                                                                 *)
(***************************************************************************)

\* A request goes from one await to the next.
LEMMA GotoType ==
    ASSUME call \in [Clients -> Calls], NEW c \in Clients, NEW next \in Calls,
           Goto(c, next)
    PROVE  call' \in [Clients -> Calls]
  BY DEF Goto

LEMMA ReplyType ==
    ASSUME call \in [Clients -> Calls], NEW c \in Clients, Reply(c)
    PROVE  call' \in [Clients -> Calls]
  BY GotoType DEF Reply, Calls

\* Counting events of a match gives a number: there are finitely many ids.
LEMMA CountIsNat ==
    ASSUME NEW S \in SUBSET EventIds
    PROVE  Cardinality(S) \in Nat
  <1>1. 1 \in Int /\ MaxEvents \in Int
    BY MatchAssumption
  <1>2. IsFiniteSet(1..MaxEvents)
    BY <1>1, FS_Interval
  <1>3. IsFiniteSet(S)
    BY <1>2, FS_Subset DEF EventIds
  <1> QED
    BY <1>3, FS_CardinalityType

LEMMA RecalculatedType == recalculateScore \in [Sides -> Nat]
  <1>1. ASSUME NEW side \in Sides
        PROVE  Cardinality({i \in Live : IsGoal(events[i].type)
                                /\ RecalculatedSide(events[i]) = side}) \in Nat
    BY CountIsNat DEF Live
  <1> QED
    BY <1>1 DEF recalculateScore

LEMMA TypeInit == Init => TypeOK
  <1> SUFFICES ASSUME Init PROVE TypeOK
    OBVIOUS
  <1>1. call \in [Clients -> Calls]
    BY DEF Init, Calls
  <1> QED
    BY <1>1, MatchAssumption DEF Init, TypeOK, Statuses, Scores, Sides

LEMMA StatusType ==
    ASSUME TypeOK, NEW c \in Clients, StatusStep(c)
    PROVE  TypeOK'
  <1>1. ASSUME NEW to \in Statuses, UpdateStatusBegin(c, to) PROVE TypeOK'
    <2>1. [at |-> "updateStatus", to |-> to, todo |-> Queries(to)] \in Calls
      BY DEF Calls, Queries
    <2> QED
      BY <1>1, <2>1, GotoType DEF UpdateStatusBegin, TypeOK, rows
  <1>2. ASSUME NEW query, UpdateStatusQuery(c, query) PROVE TypeOK'
    <2>1. call[c] \in [at : {"updateStatus"}, to : Statuses,
                       todo : SUBSET (Queries("LOCKED") \cup Queries("FINISHED"))]
      BY <1>2 DEF UpdateStatusQuery, At, TypeOK, Calls, Idle
    <2>2. [call[c] EXCEPT !.todo = @ \ {query}] \in Calls
      BY <2>1 DEF Calls
    <2> QED
      BY <1>2, <2>2, GotoType, ReplyType DEF UpdateStatusQuery, TypeOK, rows
  <1>3. CASE UpdateStatusWrite(c)
    <2>1. call[c].to \in Statuses
      BY <1>3 DEF UpdateStatusWrite, At, TypeOK, Calls, Idle
    <2> QED
      BY <1>3, <2>1, ReplyType DEF UpdateStatusWrite, TypeOK
  <1> QED
    BY <1>1, <1>2, <1>3 DEF StatusStep

LEMMA ScoreType ==
    ASSUME TypeOK, NEW c \in Clients, ScoreStep(c)
    PROVE  TypeOK'
  <1>1. ASSUME NEW patch \in ScorePatches, UpdateMatchBegin(c, patch) PROVE TypeOK'
    <2>1. [at |-> "updateMatch", patch |-> patch] \in Calls
      BY DEF Calls
    <2> QED
      BY <1>1, <2>1, GotoType DEF UpdateMatchBegin, TypeOK, rows
  <1>2. CASE UpdateMatchWrite(c)
    <2>1. call[c].patch \in ScorePatches
      BY <1>2 DEF UpdateMatchWrite, At, TypeOK, Calls, Idle
    <2>2. score' \in Scores
      BY <1>2, <2>1, MatchAssumption DEF UpdateMatchWrite, TypeOK, Scores, ScorePatches
    <2>3. scoreSource' \in {Admin, "REFEREE", Null}
      BY <1>2 DEF UpdateMatchWrite
    <2>4. call' \in [Clients -> Calls]
      <3>1. CASE Reply(c)
        BY <3>1, ReplyType DEF TypeOK
      <3>2. CASE /\ \A side \in Sides : score'[side] # Null
                 /\ Goto(c, [at |-> "updateMatch.report", score |-> score'])
        <4>1. score' \in [Sides -> Nat]
          BY <2>2, <3>2 DEF Scores
        <4>2. [at |-> "updateMatch.report", score |-> score'] \in Calls
          BY <4>1 DEF Calls
        <4> QED
          BY <3>2, <4>2, GotoType DEF TypeOK
      <3> QED
        BY <1>2, <3>1, <3>2 DEF UpdateMatchWrite
    <2> QED
      BY <1>2, <2>2, <2>3, <2>4 DEF UpdateMatchWrite, TypeOK
  <1>3. CASE UpdateMatchReport(c)
    <2>1. call[c].score \in [Sides -> Nat]
      BY <1>3 DEF UpdateMatchReport, At, TypeOK, Calls, Idle
    <2>2. report' \in Reports \cup {Null}
      BY <1>3, <2>1 DEF UpdateMatchReport, TypeOK, Reports
    <2> QED
      BY <1>3, <2>2, ReplyType DEF UpdateMatchReport, TypeOK
  <1> QED
    BY <1>1, <1>2, <1>3 DEF ScoreStep

LEMMA RowType ==
    ASSUME NEW body \in EventInputs, NEW source \in {"MANUAL", "MATCH_REPORT"}
    PROVE  Row(body, source) \in Rows
  BY MatchAssumption DEF Row, Rows

LEMMA AfterEventType ==
    ASSUME call \in [Clients -> Calls], NEW c \in Clients, NEW goal,
           AfterEvent(c, goal)
    PROVE  call' \in [Clients -> Calls]
  <1>1. [at |-> "recalculate"] \in Calls
    BY DEF Calls
  <1> QED
    BY <1>1, GotoType, ReplyType DEF AfterEvent

\* What a request holds at the awaits of the two handlers on an event row.
LEMMA EventCallType ==
    ASSUME TypeOK, NEW c \in Clients
    PROVE  /\ call[c].at \in {"updateEvent.status", "updateEvent"} =>
                call[c] \in [at : {"updateEvent.status", "updateEvent"},
                             id : EventIds, body : EventInputs, wasGoal : BOOLEAN]
           /\ call[c].at \in {"removeEvent.status", "removeEvent"} =>
                call[c] \in [at : {"removeEvent.status", "removeEvent"},
                             id : EventIds, wasGoal : BOOLEAN]
  BY DEF TypeOK, Calls, Idle

LEMMA EventType ==
    ASSUME TypeOK, NEW c \in Clients, EventStep(c)
    PROVE  TypeOK'
  <1>1. ASSUME NEW body \in EventInputs, AddEventBegin(c, body) PROVE TypeOK'
    <2>1. [at |-> "addEvent", body |-> body] \in Calls
      BY DEF Calls
    <2> QED
      BY <1>1, <2>1, GotoType DEF AddEventBegin, TypeOK, rows
  <1>2. CASE AddEventWrite(c)
    <2>1. call[c].body \in EventInputs
      BY <1>2 DEF AddEventWrite, At, TypeOK, Calls, Idle
    <2>2. Row(call[c].body, "MANUAL") \in Rows
      BY <2>1, RowType
    <2>3. events' \in [EventIds -> Rows \cup {Null}] /\ created' \in 0..MaxEvents
      BY <1>2, <2>2, MatchAssumption DEF AddEventWrite, TypeOK, EventIds
    <2> QED
      BY <1>2, <2>3, AfterEventType DEF AddEventWrite, TypeOK
  <1>3. ASSUME NEW id \in EventIds, NEW body \in EventInputs, UpdateEventBegin(c, id, body)
        PROVE  TypeOK'
    <2>1. [at |-> "updateEvent.status", id |-> id, body |-> body,
           wasGoal |-> IsGoal(events[id].type)] \in Calls
      BY DEF Calls, IsGoal
    <2> QED
      BY <1>3, <2>1, GotoType DEF UpdateEventBegin, TypeOK, rows
  <1>4. CASE UpdateEventStatus(c)
    <2>1. [call[c] EXCEPT !.at = "updateEvent"] \in Calls
      BY <1>4, EventCallType DEF UpdateEventStatus, At, Calls
    <2> QED
      BY <1>4, <2>1, GotoType, ReplyType DEF UpdateEventStatus, TypeOK, rows
  <1>5. CASE UpdateEventWrite(c)
    <2>1. call[c].body \in EventInputs
      BY <1>5, EventCallType DEF UpdateEventWrite, At
    <2>2. ASSUME call[c].id \in Live
          PROVE  Row(call[c].body, events[call[c].id].source) \in Rows
      <3>1. events[call[c].id] \in Rows
        BY <2>2 DEF Live, TypeOK
      <3> QED
        BY <2>1, <3>1, RowType DEF Rows
    <2>3. events' \in [EventIds -> Rows \cup {Null}]
      BY <1>5, <2>2 DEF UpdateEventWrite, TypeOK
    <2>4. call' \in [Clients -> Calls]
      BY <1>5, AfterEventType, ReplyType DEF UpdateEventWrite, TypeOK
    <2> QED
      BY <1>5, <2>3, <2>4 DEF UpdateEventWrite, TypeOK
  <1>6. ASSUME NEW id \in EventIds, RemoveEventBegin(c, id) PROVE TypeOK'
    <2>1. [at |-> "removeEvent.status", id |-> id,
           wasGoal |-> IsGoal(events[id].type)] \in Calls
      BY DEF Calls, IsGoal
    <2> QED
      BY <1>6, <2>1, GotoType DEF RemoveEventBegin, TypeOK, rows
  <1>7. CASE RemoveEventStatus(c)
    <2>1. [call[c] EXCEPT !.at = "removeEvent"] \in Calls
      BY <1>7, EventCallType DEF RemoveEventStatus, At, Calls
    <2> QED
      BY <1>7, <2>1, GotoType, ReplyType DEF RemoveEventStatus, TypeOK, rows
  <1>8. CASE RemoveEventWrite(c)
    <2>1. events' \in [EventIds -> Rows \cup {Null}]
      BY <1>8 DEF RemoveEventWrite, TypeOK
    <2>2. call' \in [Clients -> Calls]
      BY <1>8, AfterEventType, ReplyType DEF RemoveEventWrite, TypeOK
    <2> QED
      BY <1>8, <2>1, <2>2 DEF RemoveEventWrite, TypeOK
  <1>9. CASE RecalculateRead(c)
    <2>1. [at |-> "recalculate.write", score |-> recalculateScore] \in Calls
      BY RecalculatedType DEF Calls
    <2> QED
      BY <1>9, <2>1, GotoType DEF RecalculateRead, TypeOK, rows
  <1>10. CASE RecalculateWrite(c)
    <2>1. call[c].score \in [Sides -> Nat]
      BY <1>10 DEF RecalculateWrite, At, TypeOK, Calls, Idle
    <2>2. score' \in Scores
      BY <1>10, <2>1 DEF RecalculateWrite, Scores
    <2> QED
      BY <1>10, <2>2, ReplyType DEF RecalculateWrite, TypeOK
  <1> QED
    BY <1>1, <1>2, <1>3, <1>4, <1>5, <1>6, <1>7, <1>8, <1>9, <1>10 DEF EventStep

LEMMA LineupType ==
    ASSUME TypeOK, NEW c \in Clients, LineupStep(c)
    PROVE  TypeOK'
  <1> DEFINE Review == [at : {"reviewLineup.row", "reviewLineup"}, side : Sides,
                        verdict : Verdicts]
  <1>1. ASSUME NEW side \in Sides, SubmitLineupBegin(c, side) PROVE TypeOK'
    <2>1. [at |-> "submitLineup", side |-> side] \in Calls
      BY DEF Calls
    <2> QED
      BY <1>1, <2>1, GotoType DEF SubmitLineupBegin, TypeOK, rows
  <1>2. CASE SubmitLineupWrite(c)
    <2>1. lineups' \in [Sides -> {"NONE", "SUBMITTED", "APPROVED", "REJECTED"}]
      BY <1>2 DEF SubmitLineupWrite, TypeOK
    <2> QED
      BY <1>2, <2>1, ReplyType DEF SubmitLineupWrite, TypeOK
  <1>3. ASSUME NEW side \in Sides, NEW verdict \in Verdicts,
               ReviewLineupBegin(c, side, verdict)
        PROVE  TypeOK'
    <2>1. [at |-> "reviewLineup.row", side |-> side, verdict |-> verdict] \in Calls
      BY DEF Calls
    <2> QED
      BY <1>3, <2>1, GotoType DEF ReviewLineupBegin, TypeOK, rows
  <1>4. CASE ReviewLineupRow(c)
    <2>1. call[c] \in Review
      BY <1>4 DEF ReviewLineupRow, At, TypeOK, Calls, Idle
    <2>2. [call[c] EXCEPT !.at = "reviewLineup"] \in Calls
      BY <2>1 DEF Calls
    <2> QED
      BY <1>4, <2>2, GotoType, ReplyType DEF ReviewLineupRow, TypeOK, rows
  <1>5. CASE ReviewLineupWrite(c)
    <2>1. call[c] \in Review
      BY <1>5 DEF ReviewLineupWrite, At, TypeOK, Calls, Idle
    <2>2. lineups' \in [Sides -> {"NONE", "SUBMITTED", "APPROVED", "REJECTED"}]
      BY <1>5, <2>1 DEF ReviewLineupWrite, TypeOK, Verdicts
    <2>3. approvedEver' \subseteq Sides
      BY <1>5, <2>1 DEF ReviewLineupWrite, TypeOK
    <2> QED
      BY <1>5, <2>2, <2>3, ReplyType DEF ReviewLineupWrite, TypeOK
  <1> QED
    BY <1>1, <1>2, <1>3, <1>4, <1>5 DEF LineupStep

\* What a request holds at the awaits of submitMatchReport, and of the two
\* handlers on officials.
MatchReportCalls ==
    [at : {"submitMatchReport.assignment", "submitMatchReport.existing",
           "submitMatchReport.events", "submitMatchReport.delete",
           "submitMatchReport.create", "submitMatchReport.score",
           "submitMatchReport"},
     by : Reporters, body : ReportBodies,
     adminScoreLocked : BOOLEAN, final : [Sides -> Nat]]
WithEvents == {"submitMatchReport.delete", "submitMatchReport.create"}

LEMMA OfficialType ==
    ASSUME TypeOK, NEW c \in Clients, OfficialStep(c)
    PROVE  TypeOK'
  <1> DEFINE Assignment == [at : {"assignOfficial.count", "assignOfficial"},
                            official : Officials, role : Roles]
             Discipline == [at : {"submitDisciplineReport.assignment",
                                  "submitDisciplineReport"}, supervisor : Officials]
  <1>1. ASSUME NEW o \in Officials, NEW role \in AssignedRoles,
               AssignOfficialBegin(c, o, role)
        PROVE  TypeOK'
    <2>1. role \in Roles
      BY MatchAssumption
    <2>2. [at |-> IF role = "SUPERVISOR" THEN "assignOfficial.count" ELSE "assignOfficial",
           official |-> o, role |-> role] \in Calls
      BY <2>1 DEF Calls
    <2> QED
      BY <1>1, <2>2, GotoType DEF AssignOfficialBegin, TypeOK, rows
  <1>2. CASE AssignOfficialCount(c)
    <2>1. call[c] \in Assignment
      BY <1>2 DEF AssignOfficialCount, At, TypeOK, Calls, Idle
    <2>2. [call[c] EXCEPT !.at = "assignOfficial"] \in Calls
      BY <2>1 DEF Calls
    <2> QED
      BY <1>2, <2>2, GotoType, ReplyType DEF AssignOfficialCount, TypeOK, rows
  <1>3. CASE AssignOfficialWrite(c)
    <2>1. call[c] \in Assignment
      BY <1>3 DEF AssignOfficialWrite, At, TypeOK, Calls, Idle
    <2>2. /\ assigned' \subseteq [official : Officials, role : Roles]
          /\ rolesEver' \subseteq Roles
      BY <1>3, <2>1 DEF AssignOfficialWrite, TypeOK
    <2> QED
      BY <1>3, <2>2, ReplyType DEF AssignOfficialWrite, TypeOK
  <1>4. ASSUME NEW o \in Officials, NEW byAdmin \in BOOLEAN,
               DisciplineReportBegin(c, o, byAdmin)
        PROVE  TypeOK'
    <2>1. [at |-> "submitDisciplineReport.assignment", supervisor |-> o] \in Calls
      BY DEF Calls
    <2> QED
      BY <1>4, <2>1, GotoType DEF DisciplineReportBegin, TypeOK, rows
  <1>5. CASE DisciplineReportAssignment(c)
    <2>1. call[c] \in Discipline
      BY <1>5 DEF DisciplineReportAssignment, At, TypeOK, Calls, Idle
    <2>2. [call[c] EXCEPT !.at = "submitDisciplineReport"] \in Calls
      BY <2>1 DEF Calls
    <2> QED
      BY <1>5, <2>2, GotoType, ReplyType DEF DisciplineReportAssignment, TypeOK, rows
  <1>6. CASE DisciplineReportWrite(c)
    <2>1. call[c] \in Discipline
      BY <1>6 DEF DisciplineReportWrite, At, TypeOK, Calls, Idle
    <2> QED
      BY <1>6, <2>1, ReplyType DEF DisciplineReportWrite, TypeOK
  <1> QED
    BY <1>1, <1>2, <1>3, <1>4, <1>5, <1>6 DEF OfficialStep

LEMMA ReportCallType ==
    ASSUME TypeOK, NEW c \in Clients,
           call[c].at \in {"submitMatchReport.assignment", "submitMatchReport.existing",
                           "submitMatchReport.events", "submitMatchReport.delete",
                           "submitMatchReport.create", "submitMatchReport.score",
                           "submitMatchReport"}
    PROVE  /\ call[c] \in MatchReportCalls
           /\ call[c].at \in WithEvents => call[c].body.events \in EventLists
  BY DEF TypeOK, Calls, Idle, MatchReportCalls, WithEvents, ReportBodies

\* A report request moves to another of its awaits and keeps what it holds.
LEMMA ReportMoveType ==
    ASSUME TypeOK, NEW c \in Clients, call[c] \in MatchReportCalls,
           NEW label \in {"submitMatchReport.existing", "submitMatchReport.events",
                          "submitMatchReport.delete", "submitMatchReport.create",
                          "submitMatchReport.score", "submitMatchReport"},
           label \in WithEvents => call[c].body.events # Undefined,
           Goto(c, [call[c] EXCEPT !.at = label])
    PROVE  call' \in [Clients -> Calls]
  <1>1. [call[c] EXCEPT !.at = label] \in Calls
    BY DEF MatchReportCalls, Calls, WithEvents
  <1> QED
    BY <1>1, GotoType DEF TypeOK

\* A list in a request body is a sequence of bodies.
LEMMA EventListType ==
    ASSUME NEW list \in EventLists
    PROVE  /\ Len(list) \in Nat
           /\ \A i \in 1..Len(list) : list[i] \in EventInputs
  <1>1. list \in Seq(EventInputs)
    <2>1. PICK n \in 0..MaxReportEvents : list \in [1..n -> EventInputs]
      BY DEF EventLists
    <2>2. n \in Nat
      BY MatchAssumption
    <2> QED
      BY <2>1, <2>2, SeqDef
  <1> QED
    BY <1>1, LenProperties

LEMMA ReportType ==
    ASSUME TypeOK, NEW c \in Clients, ReportStep(c)
    PROVE  TypeOK'
  <1>1. ASSUME NEW by \in Reporters, NEW body \in ReportBodies,
               MatchReportBegin(c, by, body)
        PROVE  TypeOK'
    <2>1. FinalScore(body) \in [Sides -> Nat]
      BY MatchAssumption DEF FinalScore, ReportBodies, TypeOK, Scores
    <2>2. [at |-> IF by = Admin THEN "submitMatchReport.existing"
                                ELSE "submitMatchReport.assignment",
           by |-> by, body |-> body, adminScoreLocked |-> scoreSource = Admin,
           final |-> FinalScore(body)] \in Calls
      BY <2>1 DEF Calls
    <2> QED
      BY <1>1, <2>2, GotoType DEF MatchReportBegin, TypeOK, rows
  <1>2. CASE MatchReportAssignment(c)
    <2>1. call' \in [Clients -> Calls]
      BY <1>2, ReportCallType, ReportMoveType, ReplyType
      DEF MatchReportAssignment, At, TypeOK, WithEvents
    <2> QED
      BY <1>2, <2>1 DEF MatchReportAssignment, TypeOK, rows
  <1>3. CASE MatchReportExisting(c)
    <2>1. call' \in [Clients -> Calls]
      BY <1>3, ReportCallType, ReportMoveType, ReplyType
      DEF MatchReportExisting, At, TypeOK, WithEvents
    <2> QED
      BY <1>3, <2>1 DEF MatchReportExisting, TypeOK, rows
  <1>4. CASE MatchReportEvents(c)
    <2>1. call' \in [Clients -> Calls]
      BY <1>4, ReportCallType, ReportMoveType, ReplyType
      DEF MatchReportEvents, AfterEvents, At, TypeOK, WithEvents
    <2> QED
      BY <1>4, <2>1 DEF MatchReportEvents, TypeOK, rows
  <1>5. CASE MatchReportDelete(c)
    <2>1. call[c].body.events # Undefined
      <3>1. call[c] \in [at : WithEvents, by : Reporters,
                         body : {body \in ReportBodies : body.events # Undefined},
                         adminScoreLocked : BOOLEAN, final : [Sides -> Nat]]
        BY <1>5 DEF MatchReportDelete, At, TypeOK, Calls, Idle, WithEvents
      <3> QED
        BY <3>1
    <2>2. call' \in [Clients -> Calls]
      BY <1>5, <2>1, ReportCallType, ReportMoveType
      DEF MatchReportDelete, AfterEvents, At
    <2>3. events' \in [EventIds -> Rows \cup {Null}]
      BY <1>5 DEF MatchReportDelete, TypeOK
    <2> QED
      BY <1>5, <2>2, <2>3 DEF MatchReportDelete, TypeOK
  <1>6. CASE MatchReportCreate(c)
    <2> DEFINE list == call[c].body.events
    <2>1. call' \in [Clients -> Calls]
      BY <1>6, ReportCallType, ReportMoveType
      DEF MatchReportCreate, AfterEvents, At, WithEvents
    <2>2. list \in EventLists
      <3>1. call[c] \in [at : WithEvents, by : Reporters,
                         body : {body \in ReportBodies : body.events # Undefined},
                         adminScoreLocked : BOOLEAN, final : [Sides -> Nat]]
        BY <1>6 DEF MatchReportCreate, At, TypeOK, Calls, Idle, WithEvents
      <3> QED
        BY <3>1 DEF ReportBodies
    <2>3. Len(list) \in Nat /\ \A i \in 1..Len(list) : list[i] \in EventInputs
      BY <2>2, EventListType
    <2>4. created' \in 0..MaxEvents
      BY <1>6, <2>3, MatchAssumption DEF MatchReportCreate, TypeOK
    <2>5. ASSUME NEW i \in EventIds PROVE events'[i] \in Rows \cup {Null}
      <3>1. CASE i \in created + 1 .. created + Len(list)
        <4>1. i - created \in 1..Len(list)
          BY <3>1, <2>3 DEF TypeOK
        <4>2. Row(list[i - created], "MATCH_REPORT") \in Rows
          BY <4>1, <2>3, RowType
        <4> QED
          BY <1>6, <3>1, <4>2 DEF MatchReportCreate
      <3>2. CASE i \notin created + 1 .. created + Len(list)
        BY <1>6, <3>2 DEF MatchReportCreate, TypeOK
      <3> QED
        BY <3>1, <3>2
    <2>6. events' \in [EventIds -> Rows \cup {Null}]
      BY <1>6, <2>5 DEF MatchReportCreate
    <2> QED
      BY <1>6, <2>1, <2>4, <2>6 DEF MatchReportCreate, TypeOK
  <1>7. CASE MatchReportScore(c)
    <2>1. call' \in [Clients -> Calls]
      BY <1>7, ReportCallType, ReportMoveType DEF MatchReportScore, At, WithEvents
    <2>2. call[c].body.score \in Scores
      BY <1>7, ReportCallType, MatchAssumption
      DEF MatchReportScore, At, MatchReportCalls, ReportBodies, Scores
    <2> QED
      BY <1>7, <2>1, <2>2 DEF MatchReportScore, TypeOK
  <1>8. CASE MatchReportWrite(c)
    <2>1. report' \in Reports
      BY <1>8, ReportCallType DEF MatchReportWrite, At, MatchReportCalls, Reports
    <2> QED
      BY <1>8, <2>1, ReplyType DEF MatchReportWrite, TypeOK
  <1> QED
    BY <1>1, <1>2, <1>3, <1>4, <1>5, <1>6, <1>7, <1>8 DEF ReportStep

LEMMA TypeNext == TypeOK /\ [Next]_vars => TypeOK'
  <1> SUFFICES ASSUME TypeOK, [Next]_vars PROVE TypeOK'
    OBVIOUS
  <1>1. ASSUME NEW c \in Clients, Fail(c) PROVE TypeOK'
    BY <1>1, ReplyType DEF Fail, TypeOK, rows
  <1>2. ASSUME NEW a \in assigned, RemoveAssignment(a) PROVE TypeOK'
    BY <1>2 DEF RemoveAssignment, TypeOK
  <1>3. CASE UNCHANGED vars
    BY <1>3 DEF vars, rows, TypeOK
  <1>4. CASE PublishSchedule
    BY <1>4 DEF PublishSchedule, TypeOK, Statuses
  <1> QED
    BY <1>1, <1>2, <1>3, <1>4, StatusType, ScoreType, EventType, LineupType,
       OfficialType, ReportType DEF Next

\* The rows of a match and the local state of every request keep their types:
\* no handler reads a local variable it does not have or writes a value the
\* column cannot hold.
THEOREM TypeCorrect == Spec => []TypeOK
  BY TypeInit, TypeNext, PTL DEF Spec

(***************************************************************************)
(* The gates of the status.  GateInv is inductive: what a request has seen *)
(* is recorded in history, and history, like the two reports, only grows.  *)
(***************************************************************************)

LEMMA HistoryGrows ==
    ASSUME TypeOK, [Next]_vars
    PROVE  /\ approvedEver \subseteq approvedEver' /\ rolesEver \subseteq rolesEver'
           /\ report # Null => report' # Null
           /\ discipline # Null => discipline' # Null
  <1>1. CASE UNCHANGED vars
    BY <1>1 DEF vars, rows
  <1>2. ASSUME NEW c \in Clients, StatusStep(c) \/ EventStep(c) \/ Fail(c)
        PROVE  UNCHANGED <<approvedEver, rolesEver, report, discipline>>
    BY <1>2 DEF StatusStep, UpdateStatusBegin, UpdateStatusQuery, UpdateStatusWrite,
       EventStep, AddEventBegin, AddEventWrite, UpdateEventBegin, UpdateEventStatus,
       UpdateEventWrite, RemoveEventBegin, RemoveEventStatus, RemoveEventWrite,
       RecalculateRead, RecalculateWrite, Fail, rows
  <1>3. ASSUME NEW c \in Clients, ScoreStep(c)
        PROVE  /\ UNCHANGED <<approvedEver, rolesEver, discipline>>
               /\ report # Null => report' # Null
    <2>1. CASE UpdateMatchReport(c)
      <3>1. call[c].score \in [Sides -> Nat]
        BY <2>1 DEF UpdateMatchReport, At, TypeOK, Calls, Idle
      <3>2. report # Null => report' \in Reports
        BY <2>1, <3>1 DEF UpdateMatchReport, TypeOK, Reports
      <3> QED
        BY <2>1, <3>2, MatchAssumption DEF UpdateMatchReport
    <2> QED
      BY <1>3, <2>1 DEF ScoreStep, UpdateMatchBegin, UpdateMatchWrite, rows
  <1>4. ASSUME NEW c \in Clients, LineupStep(c)
        PROVE  /\ UNCHANGED <<rolesEver, report, discipline>>
               /\ approvedEver \subseteq approvedEver'
    BY <1>4 DEF LineupStep, SubmitLineupBegin, SubmitLineupWrite, ReviewLineupBegin,
       ReviewLineupRow, ReviewLineupWrite, rows
  <1>5. ASSUME NEW c \in Clients, OfficialStep(c)
        PROVE  /\ UNCHANGED <<approvedEver, report>>
               /\ rolesEver \subseteq rolesEver'
               /\ discipline # Null => discipline' # Null
    <2>1. CASE DisciplineReportWrite(c)
      <3>1. call[c].supervisor \in Officials
        BY <2>1 DEF DisciplineReportWrite, At, TypeOK, Calls, Idle
      <3> QED
        BY <2>1, <3>1, MatchAssumption DEF DisciplineReportWrite
    <2> QED
      BY <1>5, <2>1 DEF OfficialStep, AssignOfficialBegin, AssignOfficialCount,
         AssignOfficialWrite, DisciplineReportBegin, DisciplineReportAssignment, rows
  <1>6. ASSUME NEW c \in Clients, ReportStep(c)
        PROVE  /\ UNCHANGED <<approvedEver, rolesEver, discipline>>
               /\ report # Null => report' # Null
    <2>1. CASE MatchReportWrite(c)
      <3>1. report' \in Reports
        BY <2>1, ReportCallType DEF MatchReportWrite, At, MatchReportCalls, Reports
      <3> QED
        BY <2>1, <3>1, MatchAssumption DEF MatchReportWrite
    <2> QED
      BY <1>6, <2>1 DEF ReportStep, MatchReportBegin, MatchReportAssignment,
         MatchReportExisting, MatchReportEvents, MatchReportDelete,
         MatchReportCreate, MatchReportScore, rows
  <1>7. ASSUME NEW a \in assigned, RemoveAssignment(a)
        PROVE  UNCHANGED <<approvedEver, rolesEver, report, discipline>>
    BY <1>7 DEF RemoveAssignment
  <1>8. CASE PublishSchedule
    BY <1>8 DEF PublishSchedule
  <1> QED
    BY <1>1, <1>2, <1>3, <1>4, <1>5, <1>6, <1>7, <1>8 DEF Next

\* A step of a request that leaves the status alone and does not bring the
\* request to the await of updateStatus.
OffStatus(c) ==
    /\ status' = status
    /\ call'[c].at # "updateStatus"
    /\ \A d \in Clients \ {c} : call'[d] = call[d]

LEMMA GotoOff ==
    ASSUME TypeOK, NEW c \in Clients, NEW next, next.at # "updateStatus",
           Goto(c, next), status' = status
    PROVE  OffStatus(c)
  BY DEF Goto, OffStatus, TypeOK

LEMMA ReplyOff ==
    ASSUME TypeOK, NEW c \in Clients, Reply(c), status' = status
    PROVE  OffStatus(c)
  BY GotoOff DEF Reply, Idle

LEMMA ScoreOff ==
    ASSUME TypeOK, NEW c \in Clients, ScoreStep(c)
    PROVE  OffStatus(c)
  BY GotoOff, ReplyOff DEF ScoreStep, UpdateMatchBegin, UpdateMatchWrite,
     UpdateMatchReport, rows

LEMMA EventOff ==
    ASSUME TypeOK, NEW c \in Clients, EventStep(c)
    PROVE  OffStatus(c)
  <1>1. ASSUME NEW goal, AfterEvent(c, goal), status' = status PROVE OffStatus(c)
    BY <1>1, GotoOff, ReplyOff DEF AfterEvent
  <1>2. CASE UpdateEventStatus(c)
    BY <1>2, EventCallType, GotoOff, ReplyOff DEF UpdateEventStatus, At, rows
  <1>3. CASE RemoveEventStatus(c)
    BY <1>3, EventCallType, GotoOff, ReplyOff DEF RemoveEventStatus, At, rows
  <1>4. CASE AddEventWrite(c) \/ UpdateEventWrite(c) \/ RemoveEventWrite(c)
    BY <1>1, <1>4, ReplyOff DEF AddEventWrite, UpdateEventWrite, RemoveEventWrite
  <1> QED
    BY <1>2, <1>3, <1>4, GotoOff, ReplyOff DEF EventStep, AddEventBegin,
       UpdateEventBegin, RemoveEventBegin, RecalculateRead, RecalculateWrite, rows

LEMMA LineupOff ==
    ASSUME TypeOK, NEW c \in Clients, LineupStep(c)
    PROVE  OffStatus(c)
  <1>1. CASE ReviewLineupRow(c)
    <2>1. call[c] \in [at : {"reviewLineup.row", "reviewLineup"}, side : Sides,
                       verdict : Verdicts]
      BY <1>1 DEF ReviewLineupRow, At, TypeOK, Calls, Idle
    <2> QED
      BY <1>1, <2>1, GotoOff, ReplyOff DEF ReviewLineupRow, rows
  <1> QED
    BY <1>1, GotoOff, ReplyOff DEF LineupStep, SubmitLineupBegin, SubmitLineupWrite,
       ReviewLineupBegin, ReviewLineupWrite, rows

LEMMA OfficialOff ==
    ASSUME TypeOK, NEW c \in Clients, OfficialStep(c)
    PROVE  OffStatus(c)
  <1>1. CASE AssignOfficialCount(c)
    <2>1. call[c] \in [at : {"assignOfficial.count", "assignOfficial"},
                       official : Officials, role : Roles]
      BY <1>1 DEF AssignOfficialCount, At, TypeOK, Calls, Idle
    <2> QED
      BY <1>1, <2>1, GotoOff, ReplyOff DEF AssignOfficialCount, rows
  <1>2. CASE DisciplineReportAssignment(c)
    <2>1. call[c] \in [at : {"submitDisciplineReport.assignment",
                             "submitDisciplineReport"}, supervisor : Officials]
      BY <1>2 DEF DisciplineReportAssignment, At, TypeOK, Calls, Idle
    <2> QED
      BY <1>2, <2>1, GotoOff, ReplyOff DEF DisciplineReportAssignment, rows
  <1>3. ASSUME NEW o, NEW role, AssignOfficialBegin(c, o, role) PROVE OffStatus(c)
    BY <1>3, GotoOff DEF AssignOfficialBegin, rows
  <1> QED
    BY <1>1, <1>2, <1>3, GotoOff, ReplyOff DEF OfficialStep, AssignOfficialWrite,
       DisciplineReportBegin, DisciplineReportWrite, rows

LEMMA ReportOff ==
    ASSUME TypeOK, NEW c \in Clients, ReportStep(c)
    PROVE  OffStatus(c)
  <1>1. ASSUME NEW label, label # "updateStatus", call[c] \in MatchReportCalls,
               Goto(c, [call[c] EXCEPT !.at = label]), status' = status
        PROVE  OffStatus(c)
    <2>1. [call[c] EXCEPT !.at = label].at = label
      BY <1>1 DEF MatchReportCalls
    <2> QED
      BY <1>1, <2>1, GotoOff
  <1>2. ASSUME NEW by, NEW body, MatchReportBegin(c, by, body) PROVE OffStatus(c)
    BY <1>2, GotoOff DEF MatchReportBegin, rows
  <1>3. CASE MatchReportAssignment(c)
    BY <1>1, <1>3, ReportCallType, ReplyOff DEF MatchReportAssignment, At, rows
  <1>4. CASE MatchReportExisting(c)
    BY <1>1, <1>4, ReportCallType, ReplyOff DEF MatchReportExisting, At, rows
  <1>5. CASE MatchReportEvents(c)
    BY <1>1, <1>5, ReportCallType, ReplyOff DEF MatchReportEvents, AfterEvents, At, rows
  <1>6. CASE MatchReportDelete(c)
    BY <1>1, <1>6, ReportCallType DEF MatchReportDelete, AfterEvents, At
  <1>7. CASE MatchReportCreate(c)
    BY <1>1, <1>7, ReportCallType DEF MatchReportCreate, AfterEvents, At
  <1>8. CASE MatchReportScore(c)
    BY <1>1, <1>8, ReportCallType DEF MatchReportScore, At
  <1>9. CASE MatchReportWrite(c)
    BY <1>9, ReplyOff DEF MatchReportWrite
  <1> QED
    BY <1>2, <1>3, <1>4, <1>5, <1>6, <1>7, <1>8, <1>9 DEF ReportStep

\* An approval and an assignment are recorded by the statement that makes them.
LEMMA HistoryRecords ==
    ASSUME TypeOK, GateInv, [Next]_vars
    PROVE  /\ \A side \in Sides : lineups'[side] = "APPROVED" => side \in approvedEver'
           /\ \A a \in assigned' : a.role \in rolesEver'
  <1>1. CASE UNCHANGED vars
    BY <1>1 DEF vars, rows, GateInv
  <1>2. ASSUME NEW c \in Clients, StatusStep(c) \/ EventStep(c) \/ Fail(c)
        PROVE  UNCHANGED <<approvedEver, rolesEver, lineups, assigned>>
    BY <1>2 DEF StatusStep, UpdateStatusBegin, UpdateStatusQuery, UpdateStatusWrite,
       EventStep, AddEventBegin, AddEventWrite, UpdateEventBegin, UpdateEventStatus,
       UpdateEventWrite, RemoveEventBegin, RemoveEventStatus, RemoveEventWrite,
       RecalculateRead, RecalculateWrite, Fail, rows
  <1>3. ASSUME NEW c \in Clients, ScoreStep(c) \/ ReportStep(c)
        PROVE  UNCHANGED <<approvedEver, rolesEver, lineups, assigned>>
    BY <1>3 DEF ScoreStep, UpdateMatchBegin, UpdateMatchWrite, UpdateMatchReport,
       ReportStep, MatchReportBegin, MatchReportAssignment, MatchReportExisting,
       MatchReportEvents, MatchReportDelete, MatchReportCreate, MatchReportScore,
       MatchReportWrite, rows
  <1>4. ASSUME NEW c \in Clients, LineupStep(c)
        PROVE  /\ UNCHANGED <<rolesEver, assigned>>
               /\ \A side \in Sides :
                    lineups'[side] = "APPROVED" => side \in approvedEver'
    BY <1>4 DEF LineupStep, SubmitLineupBegin, SubmitLineupWrite, ReviewLineupBegin,
       ReviewLineupRow, ReviewLineupWrite, rows, GateInv, TypeOK
  <1>5. ASSUME NEW c \in Clients, OfficialStep(c)
        PROVE  /\ UNCHANGED <<approvedEver, lineups>>
               /\ \A a \in assigned' : a.role \in rolesEver'
    <2>1. CASE AssignOfficialWrite(c)
      BY <2>1 DEF AssignOfficialWrite, GateInv
    <2>2. ASSUME NEW o, NEW role, AssignOfficialBegin(c, o, role)
          PROVE  UNCHANGED <<approvedEver, rolesEver, lineups, assigned>>
      BY <2>2 DEF AssignOfficialBegin, rows
    <2>3. ASSUME NEW o, NEW byAdmin, DisciplineReportBegin(c, o, byAdmin)
          PROVE  UNCHANGED <<approvedEver, rolesEver, lineups, assigned>>
      BY <2>3 DEF DisciplineReportBegin, rows
    <2>4. ASSUME \/ AssignOfficialCount(c) \/ DisciplineReportAssignment(c)
                 \/ DisciplineReportWrite(c)
          PROVE  UNCHANGED <<approvedEver, rolesEver, lineups, assigned>>
      BY <2>4 DEF AssignOfficialCount, DisciplineReportAssignment,
         DisciplineReportWrite, rows
    <2> QED
      BY <1>5, <2>1, <2>2, <2>3, <2>4 DEF OfficialStep, GateInv
  <1>6. ASSUME NEW a \in assigned, RemoveAssignment(a)
        PROVE  UNCHANGED <<approvedEver, rolesEver, lineups>> /\ assigned' \subseteq assigned
    BY <1>6 DEF RemoveAssignment
  <1>7. CASE PublishSchedule
    BY <1>7 DEF PublishSchedule, GateInv
  <1> QED
    BY <1>1, <1>2, <1>3, <1>4, <1>5, <1>6, <1>7 DEF Next, GateInv

\* A request of another kind leaves the gates of this one as they are.
LEMMA GatesStay ==
    ASSUME TypeOK, GateInv, [Next]_vars, NEW c \in Clients, call'[c] = call[c],
           At(c, "updateStatus")
    PROVE  GatesPassed(c)'
  <1>1. approvedEver \subseteq Sides /\ approvedEver' \subseteq Sides
    BY TypeNext DEF TypeOK
  <1> QED
    BY <1>1, HistoryGrows DEF GateInv, GatesPassed, WasReady

LEMMA GateStep == TypeOK /\ GateInv /\ [Next]_vars => GateInv'
  <1> SUFFICES ASSUME TypeOK, GateInv, [Next]_vars PROVE GateInv'
    OBVIOUS
  <1>1. TypeOK'
    BY TypeNext
  <1>2. status' = status => LockedWasReady' /\ FinishedHasReports'
    BY <1>1, HistoryGrows DEF GateInv, LockedWasReady, FinishedHasReports, WasReady, TypeOK
  <1>3. ASSUME NEW c \in Clients, OffStatus(c) PROVE GateInv'
    <2>1. \A d \in Clients : At(d, "updateStatus")' => GatesPassed(d)'
      BY <1>3, GatesStay DEF OffStatus, At
    <2> QED
      BY <1>2, <1>3, <2>1, HistoryRecords DEF OffStatus, GateInv
  <1>4. ASSUME NEW c \in Clients, NEW to \in Statuses, UpdateStatusBegin(c, to)
        PROVE  GateInv'
    <2>1. to = "FINISHED" => status = "LOCKED"
      BY <1>4 DEF UpdateStatusBegin, MATCH_STATUS_TRANSITIONS, TypeOK, Statuses
    <2>2. call'[c] = [at |-> "updateStatus", to |-> to, todo |-> Queries(to)]
      BY <1>4 DEF UpdateStatusBegin, Goto, TypeOK
    <2>3. GatesPassed(c)'
      BY <1>4, <2>1, <2>2 DEF UpdateStatusBegin, rows, GatesPassed, Queries, GateInv,
         LockedWasReady, WasReady
    <2>4. \A d \in Clients \ {c} : At(d, "updateStatus")' => GatesPassed(d)'
      BY <1>4, GatesStay DEF UpdateStatusBegin, Goto, At, TypeOK
    <2> QED
      BY <1>2, <1>4, <2>3, <2>4, HistoryRecords DEF UpdateStatusBegin, rows, GateInv
  <1>5. ASSUME NEW c \in Clients, NEW query, UpdateStatusQuery(c, query) PROVE GateInv'
    <2>1. CASE Reply(c)
      BY <1>3, <1>5, <2>1, ReplyOff DEF UpdateStatusQuery, rows
    <2>2. CASE Answer(query) /\ Goto(c, [call[c] EXCEPT !.todo = @ \ {query}])
      <3>1. call[c] \in [at : {"updateStatus"}, to : Statuses,
                         todo : SUBSET (Queries("LOCKED") \cup Queries("FINISHED"))]
        BY <1>5 DEF UpdateStatusQuery, At, TypeOK, Calls, Idle
      <3>2. /\ call'[c].to = call[c].to
            /\ call'[c].todo = call[c].todo \ {query}
        BY <2>2, <3>1 DEF Goto, TypeOK
      <3>3. GatesPassed(c)
        BY <3>1 DEF GateInv, At
      <3>4. /\ query = "lineups" => approvedEver = Sides
            /\ query = "supervisors" => "SUPERVISOR" \in rolesEver
            /\ query = "referees" => rolesEver \cap RefereeRoles # {}
            /\ query = "matchReport" => report # Null
            /\ query = "disciplineReport" => discipline # Null
        <4>1. query = "lineups" => approvedEver = Sides
          BY <2>2 DEF Answer, GateInv, TypeOK
        <4>2. query \in {"supervisors", "referees"} =>
                /\ query = "supervisors" => "SUPERVISOR" \in rolesEver
                /\ query = "referees" => rolesEver \cap RefereeRoles # {}
          <5>1. ASSUME NEW role, HasRole(role) PROVE role \in rolesEver
            BY <5>1 DEF HasRole, GateInv
          <5> QED
            BY <2>2, <5>1 DEF Answer
        <4>3. /\ query = "matchReport" => report # Null
              /\ query = "disciplineReport" => discipline # Null
          BY <2>2 DEF Answer
        <4> QED
          BY <4>1, <4>2, <4>3
      <3>5. GatesPassed(c)'
        BY <1>5, <3>2, <3>3, <3>4 DEF UpdateStatusQuery, rows, GatesPassed, WasReady
      <3>6. \A d \in Clients \ {c} : At(d, "updateStatus")' => GatesPassed(d)'
        BY <2>2, GatesStay DEF Goto, At, TypeOK
      <3> QED
        BY <1>2, <1>5, <3>5, <3>6, HistoryRecords DEF UpdateStatusQuery, rows, GateInv
    <2> QED
      BY <1>5, <2>1, <2>2 DEF UpdateStatusQuery
  <1>6. ASSUME NEW c \in Clients, UpdateStatusWrite(c) PROVE GateInv'
    <2>1. GatesPassed(c) /\ call[c].todo = {} /\ status' = call[c].to
      BY <1>6 DEF UpdateStatusWrite, GateInv
    <2>2. LockedWasReady' /\ FinishedHasReports'
      BY <1>6, <2>1 DEF UpdateStatusWrite, GatesPassed, LockedWasReady,
         FinishedHasReports, WasReady
    <2>3. \A d \in Clients : At(d, "updateStatus")' => GatesPassed(d)'
      BY <1>6, GatesStay DEF UpdateStatusWrite, Reply, Goto, Idle, At, TypeOK
    <2> QED
      BY <2>2, <2>3, HistoryRecords DEF GateInv
  <1>7. ASSUME NEW c \in Clients, Fail(c) PROVE GateInv'
    BY <1>3, <1>7, ReplyOff DEF Fail, rows
  <1>8. CASE UNCHANGED vars \/ \E a \in assigned : RemoveAssignment(a)
    <2>1. call' = call /\ status' = status
      BY <1>8 DEF vars, rows, RemoveAssignment
    <2>2. \A d \in Clients : At(d, "updateStatus")' => GatesPassed(d)'
      BY <2>1, GatesStay DEF At
    <2> QED
      BY <1>2, <2>1, <2>2, HistoryRecords DEF GateInv
  <1>9. CASE PublishSchedule
    <2>1. call' = call /\ status' = "PUBLISHED"
      BY <1>9 DEF PublishSchedule
    <2>2. \A d \in Clients : At(d, "updateStatus")' => GatesPassed(d)'
      BY <2>1, GatesStay DEF At
    <2> QED
      BY <2>1, <2>2, HistoryRecords DEF GateInv, LockedWasReady, FinishedHasReports
  <1> QED
    BY <1>3, <1>4, <1>5, <1>6, <1>7, <1>8, <1>9, ScoreOff, EventOff, LineupOff,
       OfficialOff, ReportOff DEF Next, StatusStep

\* The gates of updateStatus: whatever requests race, wherever one dies and
\* however many there are, a LOCKED or FINISHED match has been ready and a
\* FINISHED match has both reports.
THEOREM GatesHold == Spec => []GateInv
  <1>1. Init => GateInv
    BY DEF Init, GateInv, LockedWasReady, FinishedHasReports, At, Idle, Sides
  <1> QED
    BY <1>1, GateStep, TypeCorrect, PTL DEF Spec

\* assertCanFinishMatch, checked long before the write, is enough.
THEOREM FinishedMatchHasReports == Spec => []FinishedHasReports
  BY GatesHold, PTL DEF GateInv

\* assertCanLockMatch, its four queries answered in any order, is enough for
\* a match to have been ready at one time or another.
THEOREM LockedMatchWasReady == Spec => []LockedWasReady
  BY GatesHold, PTL DEF GateInv

(***************************************************************************)
(* One request at a time.  What a request has checked before an await is   *)
(* then still true when it writes: only PublishSchedule and                *)
(* RemoveAssignment, single statements both, come between, and neither     *)
(* undoes a check.                                                         *)
(***************************************************************************)

OneAtATime == \A c, d \in Clients : c = d

Approved == \A side \in Sides : lineups[side] = "APPROVED"
Scored == \A side \in Sides : score[side] # Null
AfterExisting == {"submitMatchReport.events", "submitMatchReport.delete",
                  "submitMatchReport.create", "submitMatchReport.score",
                  "submitMatchReport"}

\* A schedule published in between only anticipates an update to PUBLISHED.
StatusChecked(c) ==
    /\ \/ call[c].to \in MATCH_STATUS_TRANSITIONS[status]
       \/ call[c].to = "PUBLISHED" /\ status = "PUBLISHED"
    /\ call[c].to = "LOCKED" /\ "lineups" \notin call[c].todo => Approved
    /\ call[c].to = "FINISHED" => Scored

StillChecked(c) ==
    /\ At(c, "updateStatus") => StatusChecked(c)
    /\ At(c, "updateMatch") => status \notin {"LOCKED", "FINISHED"}
    /\ At(c, "submitLineup") => status = "PUBLISHED"
    /\ At(c, "reviewLineup") => lineups[call[c].side] = "SUBMITTED"
    /\ call[c].at \in {"assignOfficial.count", "assignOfficial"} =>
        \A a \in assigned : a.official = call[c].official => a.role = call[c].role
    /\ At(c, "assignOfficial") /\ call[c].role = "SUPERVISOR" => ~HasRole("SUPERVISOR")
    /\ call[c].at \in AfterExisting => call[c].by = Admin \/ report = Null

SerialInv ==
    LockedLineupsApproved /\ OfficialsHaveOneRole /\ \A c \in Clients : StillChecked(c)

\* Awaits about which SerialInv claims nothing.
Unclaimed == {"idle", "updateMatch.report", "addEvent", "updateEvent.status",
              "updateEvent", "removeEvent.status", "removeEvent", "recalculate",
              "recalculate.write", "reviewLineup.row",
              "submitDisciplineReport.assignment", "submitDisciplineReport",
              "submitMatchReport.assignment", "submitMatchReport.existing"}

\* The step of the only request sets the local state of them all.
LEMMA OnlyCall ==
    ASSUME OneAtATime, TypeOK, NEW c \in Clients, NEW next, Goto(c, next)
    PROVE  \A d \in Clients : d = c /\ call'[d] = next
  BY DEF OneAtATime, Goto, TypeOK

LEMMA SerialGoto ==
    ASSUME OneAtATime, TypeOK, NEW c \in Clients, NEW next, Goto(c, next),
           next.at \in Unclaimed, LockedLineupsApproved', OfficialsHaveOneRole'
    PROVE  SerialInv'
  <1>1. \A d \in Clients : call'[d].at \in Unclaimed
    BY OnlyCall
  <1>2. ASSUME NEW d \in Clients PROVE StillChecked(d)'
    BY <1>1 DEF StillChecked, At, Unclaimed, AfterExisting
  <1> QED
    BY <1>2 DEF SerialInv

LEMMA SerialReply ==
    ASSUME OneAtATime, TypeOK, NEW c \in Clients, Reply(c),
           LockedLineupsApproved', OfficialsHaveOneRole'
    PROVE  SerialInv'
  BY SerialGoto DEF Reply, Idle, Unclaimed

\* A row that neither property looks at does not disturb them.
LEMMA SerialFrame ==
    ASSUME SerialInv, UNCHANGED <<status, lineups, assigned>>
    PROVE  LockedLineupsApproved' /\ OfficialsHaveOneRole'
  BY DEF SerialInv, LockedLineupsApproved, OfficialsHaveOneRole

LEMMA SerialStatus ==
    ASSUME OneAtATime, TypeOK, SerialInv, NEW c \in Clients, StatusStep(c)
    PROVE  SerialInv'
  <1>1. ASSUME NEW to \in Statuses, UpdateStatusBegin(c, to) PROVE SerialInv'
    <2>1. \A d \in Clients :
            call'[d] = [at |-> "updateStatus", to |-> to, todo |-> Queries(to)]
      BY <1>1, OnlyCall DEF UpdateStatusBegin
    <2>2. UNCHANGED <<status, lineups, assigned, score>>
      BY <1>1 DEF UpdateStatusBegin, rows
    <2>3. ASSUME NEW d \in Clients PROVE StillChecked(d)'
      <3>1. StatusChecked(d)'
        BY <1>1, <2>1, <2>2 DEF UpdateStatusBegin, StatusChecked, Queries, Scored
      <3> QED
        BY <2>1, <3>1 DEF StillChecked, At, AfterExisting
    <2> QED
      BY <2>2, <2>3, SerialFrame DEF SerialInv
  <1>2. ASSUME NEW query, UpdateStatusQuery(c, query) PROVE SerialInv'
    <2>1. UNCHANGED <<status, lineups, assigned, score>>
      BY <1>2 DEF UpdateStatusQuery, rows
    <2>2. CASE Reply(c)
      BY <2>1, <2>2, SerialFrame, SerialReply
    <2>3. CASE Answer(query) /\ Goto(c, [call[c] EXCEPT !.todo = @ \ {query}])
      <3>1. call[c] \in [at : {"updateStatus"}, to : Statuses,
                         todo : SUBSET (Queries("LOCKED") \cup Queries("FINISHED"))]
        BY <1>2 DEF UpdateStatusQuery, At, TypeOK, Calls, Idle
      <3>2. \A d \in Clients : d = c /\ call'[d] = [call[c] EXCEPT !.todo = @ \ {query}]
        BY <2>3, OnlyCall
      <3>3. \A d \in Clients : /\ call'[d].at = "updateStatus"
                               /\ call'[d].to = call[c].to
                               /\ call'[d].todo = call[c].todo \ {query}
        BY <3>1, <3>2
      <3>4. StatusChecked(c)
        BY <3>1 DEF SerialInv, StillChecked, At
      <3>5. query = "lineups" => Approved
        BY <2>3 DEF Answer, Approved
      <3>6. ASSUME NEW d \in Clients PROVE StillChecked(d)'
        <4>1. StatusChecked(d)'
          BY <2>1, <3>3, <3>4, <3>5 DEF StatusChecked, Approved, Scored
        <4> QED
          BY <3>3, <4>1 DEF StillChecked, At, AfterExisting
      <3> QED
        BY <2>1, <3>6, SerialFrame DEF SerialInv
    <2> QED
      BY <1>2, <2>2, <2>3 DEF UpdateStatusQuery
  <1>3. CASE UpdateStatusWrite(c)
    <2>1. call[c].todo = {} /\ status' = call[c].to /\ StatusChecked(c)
      BY <1>3 DEF UpdateStatusWrite, SerialInv, StillChecked
    <2>2. LockedLineupsApproved'
      BY <1>3, <2>1 DEF UpdateStatusWrite, StatusChecked, LockedLineupsApproved,
         Approved, SerialInv, MATCH_STATUS_TRANSITIONS, TypeOK, Statuses
    <2>3. OfficialsHaveOneRole'
      BY <1>3 DEF UpdateStatusWrite, SerialInv, OfficialsHaveOneRole
    <2> QED
      BY <1>3, <2>2, <2>3, SerialReply DEF UpdateStatusWrite
  <1> QED
    BY <1>1, <1>2, <1>3 DEF StatusStep

LEMMA SerialScore ==
    ASSUME OneAtATime, TypeOK, SerialInv, NEW c \in Clients, ScoreStep(c)
    PROVE  SerialInv'
  <1>1. UNCHANGED <<status, lineups, assigned>>
    BY DEF ScoreStep, UpdateMatchBegin, UpdateMatchWrite, UpdateMatchReport, rows
  <1>2. LockedLineupsApproved' /\ OfficialsHaveOneRole'
    BY <1>1, SerialFrame
  <1>3. ASSUME NEW patch, UpdateMatchBegin(c, patch) PROVE SerialInv'
    <2>1. \A d \in Clients : call'[d] = [at |-> "updateMatch", patch |-> patch]
      BY <1>3, OnlyCall DEF UpdateMatchBegin
    <2>2. ASSUME NEW d \in Clients PROVE StillChecked(d)'
      BY <1>1, <1>3, <2>1 DEF UpdateMatchBegin, StillChecked, At, AfterExisting
    <2> QED
      BY <1>2, <2>2 DEF SerialInv
  <1>4. CASE UpdateMatchWrite(c)
    <2>1. CASE Reply(c)
      BY <1>2, <2>1, SerialReply
    <2>2. CASE Goto(c, [at |-> "updateMatch.report", score |-> score'])
      BY <1>2, <2>2, SerialGoto DEF Unclaimed
    <2> QED
      BY <1>4, <2>1, <2>2 DEF UpdateMatchWrite
  <1>5. CASE UpdateMatchReport(c)
    BY <1>2, <1>5, SerialReply DEF UpdateMatchReport
  <1> QED
    BY <1>3, <1>4, <1>5 DEF ScoreStep

LEMMA SerialEvent ==
    ASSUME OneAtATime, TypeOK, SerialInv, NEW c \in Clients, EventStep(c)
    PROVE  SerialInv'
  <1>1. UNCHANGED <<status, lineups, assigned>>
    BY DEF EventStep, AddEventBegin, AddEventWrite, UpdateEventBegin, UpdateEventStatus,
       UpdateEventWrite, RemoveEventBegin, RemoveEventStatus, RemoveEventWrite,
       RecalculateRead, RecalculateWrite, rows
  <1>2. LockedLineupsApproved' /\ OfficialsHaveOneRole'
    BY <1>1, SerialFrame
  <1>3. ASSUME NEW next, Goto(c, next), next.at \in Unclaimed PROVE SerialInv'
    BY <1>2, <1>3, SerialGoto
  <1>4. Reply(c) => SerialInv'
    BY <1>2, SerialReply
  <1>5. ASSUME NEW goal, AfterEvent(c, goal) PROVE SerialInv'
    BY <1>3, <1>4, <1>5 DEF AfterEvent, Unclaimed
  <1>6. CASE UpdateEventStatus(c)
    BY <1>3, <1>4, <1>6, EventCallType DEF UpdateEventStatus, At, Unclaimed
  <1>7. CASE RemoveEventStatus(c)
    BY <1>3, <1>4, <1>7, EventCallType DEF RemoveEventStatus, At, Unclaimed
  <1>8. CASE AddEventWrite(c) \/ UpdateEventWrite(c) \/ RemoveEventWrite(c)
    BY <1>4, <1>5, <1>8 DEF AddEventWrite, UpdateEventWrite, RemoveEventWrite
  <1>9. ASSUME NEW body, AddEventBegin(c, body) PROVE SerialInv'
    BY <1>3, <1>9 DEF AddEventBegin, Unclaimed
  <1>10. ASSUME NEW id, NEW body, UpdateEventBegin(c, id, body) PROVE SerialInv'
    BY <1>3, <1>10 DEF UpdateEventBegin, Unclaimed
  <1>11. ASSUME NEW id, RemoveEventBegin(c, id) PROVE SerialInv'
    BY <1>3, <1>11 DEF RemoveEventBegin, Unclaimed
  <1>12. CASE RecalculateRead(c) \/ RecalculateWrite(c)
    BY <1>3, <1>4, <1>12 DEF RecalculateRead, RecalculateWrite, Unclaimed
  <1> QED
    BY <1>6, <1>7, <1>8, <1>9, <1>10, <1>11, <1>12 DEF EventStep

LEMMA SerialLineup ==
    ASSUME OneAtATime, TypeOK, SerialInv, NEW c \in Clients, LineupStep(c)
    PROVE  SerialInv'
  <1>1. UNCHANGED <<status, assigned>> /\ OfficialsHaveOneRole'
    BY DEF LineupStep, SubmitLineupBegin, SubmitLineupWrite, ReviewLineupBegin,
       ReviewLineupRow, ReviewLineupWrite, rows, SerialInv, OfficialsHaveOneRole
  <1>2. UNCHANGED lineups => LockedLineupsApproved' /\ OfficialsHaveOneRole'
    BY <1>1, SerialFrame
  <1>3. ASSUME NEW side, SubmitLineupBegin(c, side) PROVE SerialInv'
    <2>1. \A d \in Clients : call'[d] = [at |-> "submitLineup", side |-> side]
      BY <1>3, OnlyCall DEF SubmitLineupBegin
    <2>2. ASSUME NEW d \in Clients PROVE StillChecked(d)'
      BY <1>1, <1>3, <2>1 DEF SubmitLineupBegin, StillChecked, At, AfterExisting
    <2> QED
      BY <1>2, <1>3, <2>2 DEF SerialInv, SubmitLineupBegin, rows
  <1>4. CASE SubmitLineupWrite(c)
    <2>1. status = "PUBLISHED"
      BY <1>4 DEF SubmitLineupWrite, SerialInv, StillChecked
    <2>2. LockedLineupsApproved'
      BY <1>1, <2>1 DEF LockedLineupsApproved
    <2> QED
      BY <1>1, <1>4, <2>2, SerialReply DEF SubmitLineupWrite
  <1>5. ASSUME NEW side, NEW verdict, ReviewLineupBegin(c, side, verdict) PROVE SerialInv'
    BY <1>2, <1>5, SerialGoto DEF ReviewLineupBegin, rows, Unclaimed
  <1>6. CASE ReviewLineupRow(c)
    <2>1. UNCHANGED lineups
      BY <1>6 DEF ReviewLineupRow, rows
    <2>2. CASE Reply(c)
      BY <1>2, <2>1, <2>2, SerialReply
    <2>3. CASE /\ lineups[call[c].side] = "SUBMITTED"
               /\ Goto(c, [call[c] EXCEPT !.at = "reviewLineup"])
      <3>1. call[c] \in [at : {"reviewLineup.row", "reviewLineup"}, side : Sides,
                         verdict : Verdicts]
        BY <1>6 DEF ReviewLineupRow, At, TypeOK, Calls, Idle
      <3>2. \A d \in Clients : call'[d] = [call[c] EXCEPT !.at = "reviewLineup"]
        BY <2>3, OnlyCall
      <3>3. \A d \in Clients : /\ call'[d].at = "reviewLineup"
                               /\ call'[d].side = call[c].side
        BY <3>1, <3>2
      <3>4. ASSUME NEW d \in Clients PROVE StillChecked(d)'
        BY <2>1, <2>3, <3>3 DEF StillChecked, At, AfterExisting
      <3> QED
        BY <1>2, <2>1, <3>4 DEF SerialInv
    <2> QED
      BY <1>6, <2>2, <2>3 DEF ReviewLineupRow
  <1>7. CASE ReviewLineupWrite(c)
    <2>1. call[c].side \in Sides
      BY <1>7 DEF ReviewLineupWrite, At, TypeOK, Calls, Idle
    <2>2. lineups[call[c].side] = "SUBMITTED"
      BY <1>7 DEF ReviewLineupWrite, SerialInv, StillChecked
    <2>3. LockedLineupsApproved'
      BY <1>1, <2>1, <2>2 DEF LockedLineupsApproved, SerialInv
    <2> QED
      BY <1>1, <1>7, <2>3, SerialReply DEF ReviewLineupWrite
  <1> QED
    BY <1>3, <1>4, <1>5, <1>6, <1>7 DEF LineupStep

LEMMA SerialOfficial ==
    ASSUME OneAtATime, TypeOK, SerialInv, NEW c \in Clients, OfficialStep(c)
    PROVE  SerialInv'
  <1> DEFINE Assignment == [at : {"assignOfficial.count", "assignOfficial"},
                            official : Officials, role : Roles]
  <1>1. UNCHANGED <<status, lineups>> /\ LockedLineupsApproved'
    BY DEF OfficialStep, AssignOfficialBegin, AssignOfficialCount, AssignOfficialWrite,
       DisciplineReportBegin, DisciplineReportAssignment, DisciplineReportWrite, rows,
       SerialInv, LockedLineupsApproved
  <1>2. UNCHANGED assigned => OfficialsHaveOneRole'
    BY DEF SerialInv, OfficialsHaveOneRole
  <1>3. ASSUME NEW o, NEW role, AssignOfficialBegin(c, o, role) PROVE SerialInv'
    <2> DEFINE next == [at |-> IF role = "SUPERVISOR" THEN "assignOfficial.count"
                                                      ELSE "assignOfficial",
                        official |-> o, role |-> role]
    <2>1. \A d \in Clients : call'[d] = next
      BY <1>3, OnlyCall DEF AssignOfficialBegin
    <2>2. next.at # "assignOfficial" <=> role = "SUPERVISOR"
      OBVIOUS
    <2>3. ASSUME NEW d \in Clients PROVE StillChecked(d)'
      BY <1>3, <2>1, <2>2 DEF AssignOfficialBegin, rows, StillChecked, At, AfterExisting
    <2> QED
      BY <1>1, <1>2, <1>3, <2>3 DEF SerialInv, AssignOfficialBegin, rows
  <1>4. CASE AssignOfficialCount(c)
    <2>1. UNCHANGED assigned
      BY <1>4 DEF AssignOfficialCount, rows
    <2>2. CASE Reply(c)
      BY <1>1, <1>2, <2>1, <2>2, SerialReply
    <2>3. CASE ~HasRole("SUPERVISOR") /\ Goto(c, [call[c] EXCEPT !.at = "assignOfficial"])
      <3>1. call[c] \in Assignment
        BY <1>4 DEF AssignOfficialCount, At, TypeOK, Calls, Idle
      <3>2. \A d \in Clients : call'[d] = [call[c] EXCEPT !.at = "assignOfficial"]
        BY <2>3, OnlyCall
      <3>3. \A d \in Clients : /\ call'[d].at = "assignOfficial"
                               /\ call'[d].official = call[c].official
                               /\ call'[d].role = call[c].role
        BY <3>1, <3>2
      <3>4. StillChecked(c) /\ call[c].at = "assignOfficial.count"
        BY <1>4 DEF SerialInv, AssignOfficialCount, At
      <3>5. ASSUME NEW d \in Clients PROVE StillChecked(d)'
        BY <2>1, <2>3, <3>3, <3>4 DEF StillChecked, At, AfterExisting, HasRole
      <3> QED
        BY <1>1, <1>2, <2>1, <3>5 DEF SerialInv
    <2> QED
      BY <1>4, <2>2, <2>3 DEF AssignOfficialCount
  <1>5. CASE AssignOfficialWrite(c)
    <2> DEFINE new == [official |-> call[c].official, role |-> call[c].role]
    <2>1. call[c] \in Assignment
      BY <1>5 DEF AssignOfficialWrite, At, TypeOK, Calls, Idle
    <2>2. /\ \A a \in assigned : a.official = call[c].official => a.role = call[c].role
          /\ call[c].role = "SUPERVISOR" => ~HasRole("SUPERVISOR")
      BY <1>5 DEF AssignOfficialWrite, SerialInv, StillChecked, At
    <2>3. assigned' = assigned \cup {new}
      BY <1>5 DEF AssignOfficialWrite
    <2>4. ASSUME NEW a \in assigned
          PROVE  /\ a.official = new.official => a = new
                 /\ ~(a.role = "SUPERVISOR" /\ new.role = "SUPERVISOR")
      <3>1. a = [official |-> a.official, role |-> a.role] /\ a.official \in Officials
        BY <2>4 DEF TypeOK
      <3> QED
        BY <2>2, <3>1 DEF HasRole
    <2>5. OfficialsHaveOneRole'
      BY <2>3, <2>4 DEF SerialInv, OfficialsHaveOneRole
    <2> QED
      BY <1>1, <1>5, <2>5, SerialReply DEF AssignOfficialWrite
  <1>6. ASSUME NEW o, NEW byAdmin, DisciplineReportBegin(c, o, byAdmin) PROVE SerialInv'
    BY <1>1, <1>2, <1>6, SerialGoto DEF DisciplineReportBegin, rows, Unclaimed
  <1>7. CASE DisciplineReportAssignment(c)
    <2>1. call[c] \in [at : {"submitDisciplineReport.assignment",
                             "submitDisciplineReport"}, supervisor : Officials]
      BY <1>7 DEF DisciplineReportAssignment, At, TypeOK, Calls, Idle
    <2>2. [call[c] EXCEPT !.at = "submitDisciplineReport"].at \in Unclaimed
      BY <2>1 DEF Unclaimed
    <2> QED
      BY <1>1, <1>2, <1>7, <2>2, SerialGoto, SerialReply DEF DisciplineReportAssignment, rows
  <1>8. CASE DisciplineReportWrite(c)
    BY <1>1, <1>2, <1>8, SerialReply DEF DisciplineReportWrite
  <1> QED
    BY <1>3, <1>4, <1>5, <1>6, <1>7, <1>8 DEF OfficialStep

\* A report request that goes past the check of the existing report has passed it.
LEMMA SerialReportGoto ==
    ASSUME OneAtATime, TypeOK, SerialInv, NEW c \in Clients, call[c] \in MatchReportCalls,
           NEW label \in AfterExisting, Goto(c, [call[c] EXCEPT !.at = label]),
           call[c].by = Admin \/ report = Null,
           UNCHANGED <<status, lineups, assigned, report>>
    PROVE  SerialInv'
  <1>1. \A d \in Clients : call'[d] = [call[c] EXCEPT !.at = label]
    BY OnlyCall
  <1>2. \A d \in Clients : call'[d].at = label /\ call'[d].by = call[c].by
    BY <1>1 DEF MatchReportCalls
  <1>3. ASSUME NEW d \in Clients PROVE StillChecked(d)'
    BY <1>2 DEF StillChecked, At, AfterExisting
  <1> QED
    BY <1>3, SerialFrame DEF SerialInv

LEMMA SerialReport ==
    ASSUME OneAtATime, TypeOK, SerialInv, NEW c \in Clients, ReportStep(c)
    PROVE  SerialInv'
  <1>1. UNCHANGED <<status, lineups, assigned>>
    BY DEF ReportStep, MatchReportBegin, MatchReportAssignment, MatchReportExisting,
       MatchReportEvents, MatchReportDelete, MatchReportCreate, MatchReportScore,
       MatchReportWrite, rows
  <1>2. LockedLineupsApproved' /\ OfficialsHaveOneRole'
    BY <1>1, SerialFrame
  <1>3. Reply(c) => SerialInv'
    BY <1>2, SerialReply
  <1>4. call[c].at \in AfterExisting => call[c].by = Admin \/ report = Null
    BY DEF SerialInv, StillChecked
  <1>5. ASSUME NEW by, NEW body, MatchReportBegin(c, by, body) PROVE SerialInv'
    BY <1>2, <1>5, SerialGoto DEF MatchReportBegin, Unclaimed
  <1>6. CASE MatchReportAssignment(c)
    <2>1. [call[c] EXCEPT !.at = "submitMatchReport.existing"].at \in Unclaimed
      BY <1>6, ReportCallType DEF MatchReportAssignment, At, MatchReportCalls, Unclaimed
    <2> QED
      BY <1>2, <1>3, <1>6, <2>1, SerialGoto DEF MatchReportAssignment
  <1>7. CASE MatchReportExisting(c)
    BY <1>1, <1>3, <1>7, ReportCallType, SerialReportGoto
    DEF MatchReportExisting, At, AfterExisting, rows
  <1>8. CASE MatchReportEvents(c)
    BY <1>1, <1>3, <1>4, <1>8, ReportCallType, SerialReportGoto
    DEF MatchReportEvents, AfterEvents, At, AfterExisting, rows
  <1>9. CASE MatchReportDelete(c)
    BY <1>1, <1>4, <1>9, ReportCallType, SerialReportGoto
    DEF MatchReportDelete, AfterEvents, At, AfterExisting
  <1>10. CASE MatchReportCreate(c)
    BY <1>1, <1>4, <1>10, ReportCallType, SerialReportGoto
    DEF MatchReportCreate, AfterEvents, At, AfterExisting
  <1>11. CASE MatchReportScore(c)
    BY <1>1, <1>4, <1>11, ReportCallType, SerialReportGoto
    DEF MatchReportScore, At, AfterExisting
  <1>12. CASE MatchReportWrite(c)
    BY <1>3, <1>12 DEF MatchReportWrite
  <1> QED
    BY <1>5, <1>6, <1>7, <1>8, <1>9, <1>10, <1>11, <1>12 DEF ReportStep

LEMMA SerialStep ==
    ASSUME OneAtATime, TypeOK, SerialInv, [Next]_vars
    PROVE  SerialInv'
  <1>1. ASSUME NEW c \in Clients, Fail(c) PROVE SerialInv'
    BY <1>1, SerialFrame, SerialReply DEF Fail, rows
  <1>2. CASE UNCHANGED vars
    BY <1>2 DEF vars, rows, SerialInv, LockedLineupsApproved, OfficialsHaveOneRole,
       StillChecked, StatusChecked, Approved, Scored, At, HasRole
  <1>3. ASSUME NEW a \in assigned, RemoveAssignment(a) PROVE SerialInv'
    <2>1. /\ UNCHANGED <<status, score, lineups, report, call>>
          /\ assigned' \subseteq assigned
      BY <1>3 DEF RemoveAssignment
    <2>2. ASSUME NEW c \in Clients PROVE StillChecked(c)'
      BY <2>1 DEF SerialInv, StillChecked, StatusChecked, Approved, Scored, At, HasRole
    <2>3. LockedLineupsApproved' /\ OfficialsHaveOneRole'
      BY <2>1 DEF SerialInv, LockedLineupsApproved, OfficialsHaveOneRole
    <2> QED
      BY <2>2, <2>3 DEF SerialInv
  <1>4. CASE PublishSchedule
    <2>1. /\ UNCHANGED <<score, lineups, assigned, report, call>>
          /\ status = "DRAFT" /\ status' = "PUBLISHED"
      BY <1>4 DEF PublishSchedule
    <2>2. ASSUME NEW c \in Clients PROVE StillChecked(c)'
      <3>1. At(c, "updateStatus") => StatusChecked(c)'
        BY <2>1 DEF SerialInv, StillChecked, StatusChecked, Approved, Scored,
           MATCH_STATUS_TRANSITIONS
      <3> QED
        BY <2>1, <3>1 DEF SerialInv, StillChecked, At, HasRole
    <2>3. LockedLineupsApproved' /\ OfficialsHaveOneRole'
      BY <2>1 DEF SerialInv, LockedLineupsApproved, OfficialsHaveOneRole
    <2> QED
      BY <2>2, <2>3 DEF SerialInv
  <1> QED
    BY <1>1, <1>2, <1>3, <1>4, SerialStatus, SerialScore, SerialEvent, SerialLineup,
       SerialOfficial, SerialReport DEF Next

\* Requests that come one at a time write what they have checked, wherever one
\* of them dies.
THEOREM SerialInvHolds == OneAtATime => (Spec => []SerialInv)
  <1> SUFFICES ASSUME OneAtATime PROVE Spec => []SerialInv
    OBVIOUS
  <1>1. Init => SerialInv
    BY DEF Init, SerialInv, LockedLineupsApproved, OfficialsHaveOneRole, StillChecked,
       At, Idle, AfterExisting
  <1>2. TypeOK /\ SerialInv /\ [Next]_vars => SerialInv'
    BY SerialStep
  <1> QED
    BY <1>1, <1>2, TypeCorrect, PTL DEF Spec

\* submitLineup needs PUBLISHED and reviewLineup a SUBMITTED row: one request at
\* a time, that is enough to keep both lineups APPROVED behind a lock.
THEOREM LineupsStayApproved == OneAtATime => (Spec => []LockedLineupsApproved)
  <1> SUFFICES ASSUME OneAtATime PROVE Spec => []LockedLineupsApproved
    OBVIOUS
  <1> QED
    BY SerialInvHolds, PTL DEF SerialInv

\* The two checks of assignOfficial stand in for the unique indexes that the
\* table does not have, as long as requests come one at a time.
THEOREM OfficialsKeepOneRole == OneAtATime => (Spec => []OfficialsHaveOneRole)
  <1> SUFFICES ASSUME OneAtATime PROVE Spec => []OfficialsHaveOneRole
    OBVIOUS
  <1> QED
    BY SerialInvHolds, PTL DEF SerialInv

(***************************************************************************)
(* The refinement of MatchLifecycle and the author of the report.          *)
(***************************************************************************)

\* A step that does not touch these rows is a stutter of the lifecycle.
LEMMA LifecycleStutter ==
    ASSUME UNCHANGED <<status, lineups, score, report, discipline>>
    PROVE  UNCHANGED Lifecycle!lifecycleVars
  BY DEF Lifecycle!lifecycleVars

LEMMA LifecycleStatus ==
    ASSUME TypeOK, SerialInv, GateInv, NEW c \in Clients, StatusStep(c)
    PROVE  [Lifecycle!Next]_(Lifecycle!lifecycleVars)
  <1>1. ASSUME NEW to, UpdateStatusBegin(c, to)
        PROVE  UNCHANGED Lifecycle!lifecycleVars
    BY <1>1, LifecycleStutter DEF UpdateStatusBegin, rows
  <1>2. ASSUME NEW query, UpdateStatusQuery(c, query)
        PROVE  UNCHANGED Lifecycle!lifecycleVars
    BY <1>2, LifecycleStutter DEF UpdateStatusQuery, rows
  <1>3. CASE UpdateStatusWrite(c)
    <2>1. /\ call[c].todo = {} /\ status' = call[c].to
          /\ UNCHANGED <<lineups, score, report, discipline>>
      BY <1>3 DEF UpdateStatusWrite
    <2>2. StatusChecked(c) /\ GatesPassed(c)
      BY <1>3 DEF UpdateStatusWrite, SerialInv, StillChecked, GateInv
    <2>3. \/ status' = "PUBLISHED" /\ status \in {"DRAFT", "PUBLISHED"}
          \/ status' = "POSTPONED" /\ status \in {"DRAFT", "PUBLISHED"}
          \/ status' = "DRAFT" /\ status = "POSTPONED"
          \/ status' = "LOCKED" /\ status = "PUBLISHED" /\ Approved
          \/ /\ status' = "FINISHED" /\ status = "LOCKED"
             /\ Scored /\ report # Null /\ discipline # Null
      BY <2>1, <2>2 DEF StatusChecked, GatesPassed, MATCH_STATUS_TRANSITIONS, TypeOK, Statuses
    <2> QED
      BY <2>1, <2>3 DEF Lifecycle!Next, Lifecycle!Publish, Lifecycle!Postpone,
         Lifecycle!Reopen, Lifecycle!Lock, Lifecycle!Finish, Lifecycle!Move,
         Lifecycle!lifecycleVars, Approved, Scored
  <1> QED
    BY <1>1, <1>2, <1>3 DEF StatusStep

\* A write of the score is a Score of the lifecycle, or a stutter.
LEMMA LifecycleScores ==
    ASSUME UNCHANGED <<status, lineups, report, discipline>>,
           Scored' \/ status \notin {"LOCKED", "FINISHED"}
    PROVE  [Lifecycle!Next]_(Lifecycle!lifecycleVars)
  BY DEF Lifecycle!Next, Lifecycle!Score, Lifecycle!Closed, Scored

LEMMA LifecycleScore ==
    ASSUME TypeOK, SerialInv, NEW c \in Clients, ScoreStep(c)
    PROVE  [Lifecycle!Next]_(Lifecycle!lifecycleVars)
  <1>1. ASSUME NEW patch, UpdateMatchBegin(c, patch)
        PROVE  UNCHANGED Lifecycle!lifecycleVars
    BY <1>1, LifecycleStutter DEF UpdateMatchBegin, rows
  <1>2. CASE UpdateMatchWrite(c)
    BY <1>2, LifecycleScores DEF UpdateMatchWrite, SerialInv, StillChecked
  <1>3. CASE UpdateMatchReport(c)
    <2>1. call[c].score \in [Sides -> Nat]
      BY <1>3 DEF UpdateMatchReport, At, TypeOK, Calls, Idle
    <2>2. report # Null => report' \in Reports
      BY <1>3, <2>1 DEF UpdateMatchReport, TypeOK, Reports
    <2>3. report # Null <=> report' # Null
      BY <1>3, <2>2, MatchAssumption DEF UpdateMatchReport
    <2>4. UNCHANGED <<status, lineups, score, discipline>>
      BY <1>3 DEF UpdateMatchReport
    <2> QED
      BY <2>3, <2>4 DEF Lifecycle!lifecycleVars
  <1> QED
    BY <1>1, <1>2, <1>3 DEF ScoreStep

LEMMA LifecycleEvent ==
    ASSUME TypeOK, NEW c \in Clients, EventStep(c)
    PROVE  [Lifecycle!Next]_(Lifecycle!lifecycleVars)
  <1>1. CASE RecalculateWrite(c)
    <2>1. call[c].score \in [Sides -> Nat]
      BY <1>1 DEF RecalculateWrite, At, TypeOK, Calls, Idle
    <2>2. Scored'
      BY <1>1, <2>1, MatchAssumption DEF RecalculateWrite, Scored
    <2> QED
      BY <1>1, <2>2, LifecycleScores DEF RecalculateWrite
  <1>2. CASE ~RecalculateWrite(c)
    BY <1>2, LifecycleStutter
    DEF EventStep, AddEventBegin, AddEventWrite, UpdateEventBegin, UpdateEventStatus,
        UpdateEventWrite, RemoveEventBegin, RemoveEventStatus, RemoveEventWrite,
        RecalculateRead, rows
  <1> QED
    BY <1>1, <1>2

LEMMA LifecycleLineup ==
    ASSUME TypeOK, SerialInv, NEW c \in Clients, LineupStep(c)
    PROVE  [Lifecycle!Next]_(Lifecycle!lifecycleVars)
  <1>1. CASE SubmitLineupWrite(c) \/ ReviewLineupWrite(c)
    <2>1. UNCHANGED <<status, score, report, discipline>>
      BY <1>1 DEF SubmitLineupWrite, ReviewLineupWrite
    <2>2. status \notin {"LOCKED", "FINISHED"}
      <3>1. CASE SubmitLineupWrite(c)
        BY <3>1 DEF SubmitLineupWrite, SerialInv, StillChecked
      <3>2. CASE ReviewLineupWrite(c)
        <4>1. call[c].side \in Sides
          BY <3>2 DEF ReviewLineupWrite, At, TypeOK, Calls, Idle
        <4>2. lineups[call[c].side] = "SUBMITTED"
          BY <3>2 DEF ReviewLineupWrite, SerialInv, StillChecked
        <4> QED
          BY <4>1, <4>2 DEF SerialInv, LockedLineupsApproved
      <3> QED
        BY <1>1, <3>1, <3>2
    <2>3. CASE Approved' <=> Approved
      BY <2>1, <2>3 DEF Approved, Lifecycle!lifecycleVars
    <2>4. CASE Approved' <=> ~Approved
      BY <2>1, <2>2, <2>4 DEF Approved, Lifecycle!Next, Lifecycle!Approve, Lifecycle!Closed
    <2> QED
      BY <2>3, <2>4
  <1>2. CASE ~(SubmitLineupWrite(c) \/ ReviewLineupWrite(c))
    BY <1>2, LifecycleStutter DEF LineupStep, SubmitLineupBegin, ReviewLineupBegin,
       ReviewLineupRow, rows
  <1> QED
    BY <1>1, <1>2

\* A write of one of the two reports, the other row as it was.
LEMMA LifecycleReports ==
    ASSUME UNCHANGED <<status, lineups, score>>,
           report' # Null \/ report' = report,
           discipline' # Null \/ discipline' = discipline
    PROVE  [Lifecycle!Next]_(Lifecycle!lifecycleVars)
  <1>1. CASE report' # Null /\ discipline' # Null
    BY <1>1 DEF Lifecycle!Next, Lifecycle!Report
  <1>2. CASE ~(report' # Null /\ discipline' # Null)
    BY <1>2 DEF Lifecycle!lifecycleVars
  <1> QED
    BY <1>1, <1>2

LEMMA LifecycleOfficial ==
    ASSUME TypeOK, NEW c \in Clients, OfficialStep(c)
    PROVE  [Lifecycle!Next]_(Lifecycle!lifecycleVars)
  <1>1. CASE DisciplineReportWrite(c)
    <2>1. call[c].supervisor \in Officials
      BY <1>1 DEF DisciplineReportWrite, At, TypeOK, Calls, Idle
    <2> QED
      BY <1>1, <2>1, MatchAssumption, LifecycleReports DEF DisciplineReportWrite
  <1>2. CASE ~DisciplineReportWrite(c)
    BY <1>2, LifecycleStutter DEF OfficialStep, AssignOfficialBegin, AssignOfficialCount,
       AssignOfficialWrite, DisciplineReportBegin, DisciplineReportAssignment, rows
  <1> QED
    BY <1>1, <1>2

LEMMA LifecycleReport ==
    ASSUME TypeOK, NEW c \in Clients, ReportStep(c)
    PROVE  [Lifecycle!Next]_(Lifecycle!lifecycleVars)
  <1>1. CASE MatchReportWrite(c)
    <2>1. report' \in Reports
      BY <1>1, ReportCallType DEF MatchReportWrite, At, MatchReportCalls, Reports
    <2> QED
      BY <1>1, <2>1, MatchAssumption, LifecycleReports DEF MatchReportWrite
  <1>2. CASE MatchReportScore(c)
    <2>1. call[c].body.score \in [Sides -> 0..MaxScore]
      BY <1>2, ReportCallType DEF MatchReportScore, At, MatchReportCalls, ReportBodies
    <2>2. Scored'
      BY <1>2, <2>1, MatchAssumption DEF MatchReportScore, Scored
    <2> QED
      BY <1>2, <2>2, LifecycleScores DEF MatchReportScore
  <1>3. CASE ~(MatchReportWrite(c) \/ MatchReportScore(c))
    BY <1>3, LifecycleStutter DEF ReportStep, MatchReportBegin, MatchReportAssignment,
       MatchReportExisting, MatchReportEvents, MatchReportDelete, MatchReportCreate, rows
  <1> QED
    BY <1>1, <1>2, <1>3

LEMMA LifecycleStep ==
    ASSUME TypeOK, SerialInv, GateInv, [Next]_vars
    PROVE  [Lifecycle!Next]_(Lifecycle!lifecycleVars)
  <1>1. CASE UNCHANGED vars \/ \E c \in Clients : Fail(c)
    BY <1>1, LifecycleStutter DEF vars, rows, Fail
  <1>2. CASE \E a \in assigned : RemoveAssignment(a)
    BY <1>2, LifecycleStutter DEF RemoveAssignment
  <1>3. CASE PublishSchedule
    BY <1>3 DEF PublishSchedule, Lifecycle!Next, Lifecycle!Publish, Lifecycle!Move
  <1> QED
    BY <1>1, <1>2, <1>3, LifecycleStatus, LifecycleScore, LifecycleEvent, LifecycleLineup,
       LifecycleOfficial, LifecycleReport DEF Next

\* Requests that come one at a time implement the lifecycle: every statement of
\* every handler, and every death between two statements, is one step of
\* MatchLifecycle or none.
THEOREM MatchImplementsLifecycle == OneAtATime => (Spec => ImplementsLifecycle)
  <1> SUFFICES ASSUME OneAtATime PROVE Spec => ImplementsLifecycle
    OBVIOUS
  <1>1. Init => Lifecycle!Init
    BY DEF Init, Lifecycle!Init, Sides
  <1>2. TypeOK /\ SerialInv /\ GateInv /\ [Next]_vars =>
            [Lifecycle!Next]_(Lifecycle!lifecycleVars)
    BY LifecycleStep
  <1> QED
    BY <1>1, <1>2, TypeCorrect, SerialInvHolds, GatesHold, PTL
    DEF Spec, ImplementsLifecycle, Lifecycle!Spec

\* Of the handlers only submitMatchReport writes the author of the report.
LEMMA AuthorStep ==
    ASSUME TypeOK, SerialInv, [Next]_vars
    PROVE  report # Null /\ report'.by # report.by => report'.by = Admin
  <1> SUFFICES ASSUME report # Null, report'.by # report.by PROVE report'.by = Admin
    OBVIOUS
  <1>1. UNCHANGED report => FALSE
    OBVIOUS
  <1>2. ASSUME NEW c \in Clients, UpdateMatchReport(c) PROVE FALSE
    <2>1. report \in Reports
      BY DEF TypeOK
    <2>2. report'.by = report.by
      BY <1>2, <2>1 DEF UpdateMatchReport, Reports
    <2> QED
      BY <2>2
  <1>3. ASSUME NEW c \in Clients, MatchReportWrite(c) PROVE report'.by = Admin
    <2>1. call[c].by = Admin
      BY <1>3 DEF MatchReportWrite, At, SerialInv, StillChecked, AfterExisting
    <2> QED
      BY <1>3, <2>1 DEF MatchReportWrite
  <1>4. ASSUME NEW c \in Clients, StatusStep(c) PROVE FALSE
    BY <1>1, <1>4 DEF StatusStep, UpdateStatusBegin, UpdateStatusQuery, UpdateStatusWrite, rows
  <1>5. ASSUME NEW c \in Clients, ScoreStep(c) PROVE FALSE
    BY <1>1, <1>2, <1>5 DEF ScoreStep, UpdateMatchBegin, UpdateMatchWrite, rows
  <1>6. ASSUME NEW c \in Clients, EventStep(c) PROVE FALSE
    BY <1>1, <1>6 DEF EventStep, AddEventBegin, AddEventWrite, UpdateEventBegin,
       UpdateEventStatus, UpdateEventWrite, RemoveEventBegin, RemoveEventStatus,
       RemoveEventWrite, RecalculateRead, RecalculateWrite, rows
  <1>7. ASSUME NEW c \in Clients, LineupStep(c) PROVE FALSE
    BY <1>1, <1>7 DEF LineupStep, SubmitLineupBegin, SubmitLineupWrite, ReviewLineupBegin,
       ReviewLineupRow, ReviewLineupWrite, rows
  <1>8. ASSUME NEW c \in Clients, OfficialStep(c) PROVE FALSE
    BY <1>1, <1>8 DEF OfficialStep, AssignOfficialBegin, AssignOfficialCount,
       AssignOfficialWrite, DisciplineReportBegin, DisciplineReportAssignment,
       DisciplineReportWrite, rows
  <1>9. ASSUME NEW c \in Clients, ReportStep(c) PROVE report'.by = Admin
    BY <1>1, <1>3, <1>9 DEF ReportStep, MatchReportBegin, MatchReportAssignment,
       MatchReportExisting, MatchReportEvents, MatchReportDelete, MatchReportCreate,
       MatchReportScore, rows
  <1>10. CASE \/ UNCHANGED vars \/ PublishSchedule
              \/ \E c \in Clients : Fail(c)
              \/ \E a \in assigned : RemoveAssignment(a)
    BY <1>1, <1>10 DEF vars, rows, PublishSchedule, Fail, RemoveAssignment
  <1> QED
    BY <1>4, <1>5, <1>6, <1>7, <1>8, <1>9, <1>10 DEF Next

\* One request at a time, a referee never takes over a report that is on file.
THEOREM RefereeNeverReplacesReport == OneAtATime => (Spec => RefereeReportsOnce)
  <1> SUFFICES ASSUME OneAtATime PROVE Spec => RefereeReportsOnce
    OBVIOUS
  <1>1. TypeOK /\ SerialInv /\ [Next]_vars =>
            [report # Null /\ report'.by # report.by => report'.by = Admin]_vars
    BY AuthorStep
  <1> QED
    BY <1>1, TypeCorrect, SerialInvHolds, PTL DEF Spec, RefereeReportsOnce

(***************************************************************************)
(* The score.  With one request at a time and none that dies, the score is *)
(* settled whenever no request is between a write of the events and the    *)
(* write of the score that answers it.                                     *)
(***************************************************************************)

ReportScore == calculateEventScore(events, ReportRows)

Settled ==
    \/ scoreSource = Admin
    \/ scoreSource = Null /\ \A side \in Sides : score[side] = Null
    \/ score = recalculateScore
    \/ scoreSource = "REFEREE" /\ score = ReportScore

NewIdsFree == \A i \in EventIds : i > created => events[i] = Null

EventLabels == {"updateEvent.status", "updateEvent", "removeEvent.status", "removeEvent"}
BeforeScore == {"submitMatchReport.assignment", "submitMatchReport.existing",
                "submitMatchReport.events", "submitMatchReport.delete",
                "submitMatchReport.create", "submitMatchReport.score"}
Pending == {"recalculate", "recalculate.write", "submitMatchReport.create",
            "submitMatchReport.score"}

\* What a request on its way to the score holds, and what is true meanwhile.
ScoreChecked(c) ==
    /\ call[c].at \in EventLabels /\ call[c].id \in Live =>
        call[c].wasGoal = IsGoal(events[call[c].id].type)
    /\ At(c, "recalculate.write") => call[c].score = recalculateScore
    /\ call[c].at \in BeforeScore =>
        /\ call[c].adminScoreLocked <=> scoreSource = Admin
        /\ ~call[c].adminScoreLocked => call[c].final = call[c].body.score
    /\ call[c].at \in WithEvents =>
        calculateEventScore(call[c].body.events, DOMAIN call[c].body.events) = call[c].final
    /\ At(c, "submitMatchReport.create") => ReportRows = {}
    /\ At(c, "submitMatchReport.score") =>
        ~call[c].adminScoreLocked /\ ReportScore = call[c].final

ScoreInv ==
    /\ NewIdsFree
    /\ \A c \in Clients : ScoreChecked(c)
    /\ (\A c \in Clients : call[c].at \notin Pending) => Settled

LEMMA SettledAt ==
    ASSUME OneAtATime, ScoreInv, NEW c \in Clients, call[c].at \notin Pending
    PROVE  Settled
  BY DEF OneAtATime, ScoreInv

\* A request goes on to an await about which nothing more is claimed.
LEMMA ScoreGoto ==
    ASSUME OneAtATime, TypeOK, NEW c \in Clients, NEW next, Goto(c, next),
           next.at \notin EventLabels \cup BeforeScore \cup (Pending \ {"recalculate"}),
           NewIdsFree', Settled' \/ next.at = "recalculate"
    PROVE  ScoreInv'
  <1>1. \A d \in Clients : call'[d] = next
    BY OnlyCall
  <1>2. ASSUME NEW d \in Clients PROVE ScoreChecked(d)'
    BY <1>1 DEF ScoreChecked, At, EventLabels, BeforeScore, Pending, WithEvents
  <1>3. (\A d \in Clients : call'[d].at \notin Pending) => Settled'
    BY <1>1 DEF Pending
  <1> QED
    BY <1>2, <1>3 DEF ScoreInv

LEMMA ScoreReply ==
    ASSUME OneAtATime, TypeOK, NEW c \in Clients, Reply(c), NewIdsFree', Settled'
    PROVE  ScoreInv'
  BY ScoreGoto DEF Reply, Idle, EventLabels, BeforeScore, Pending

LEMMA SettledFrame ==
    ASSUME UNCHANGED <<events, created, score, scoreSource>>
    PROVE  /\ ReportRows' = ReportRows /\ Live' = Live
           /\ recalculateScore' = recalculateScore
           /\ ReportScore' = ReportScore
           /\ Settled' <=> Settled
           /\ NewIdsFree' <=> NewIdsFree
  BY DEF Live, ReportRows, recalculateScore, ReportScore, calculateEventScore, Settled,
     NewIdsFree

\* An event that is no goal before and no goal after does not count.
GoalRow(i) == i \in Live /\ IsGoal(events[i].type)

LEMMA CountsStay ==
    ASSUME \A i \in EventIds : events'[i] = events[i] \/ (~GoalRow(i) /\ ~GoalRow(i)')
    PROVE  recalculateScore' = recalculateScore /\ ReportScore' = ReportScore
  <1>1. ASSUME NEW side \in Sides
        PROVE  {i \in Live : IsGoal(events[i].type) /\ RecalculatedSide(events[i]) = side}'
             = {i \in Live : IsGoal(events[i].type) /\ RecalculatedSide(events[i]) = side}
    BY DEF GoalRow, Live
  <1>2. ASSUME NEW side \in Sides
        PROVE  {i \in ReportRows : IsGoal(events[i].type) /\ ReportedSide(events[i]) = side}'
             = {i \in ReportRows : IsGoal(events[i].type) /\ ReportedSide(events[i]) = side}
    BY DEF GoalRow, Live, ReportRows
  <1>3. recalculateScore' = recalculateScore
    BY <1>1, Zenon DEF recalculateScore
  <1>4. ReportScore' = ReportScore
    BY <1>2, Zenon DEF ReportScore, calculateEventScore
  <1> QED
    BY <1>3, <1>4

LEMMA StartsIdle ==
    ASSUME NEW c, NEW endpoint, Starts(c, endpoint)
    PROVE  call[c].at = "idle"
  BY DEF Starts, Idle

LEMMA ScoreOfStatus ==
    ASSUME OneAtATime, TypeOK, ScoreInv, NEW c \in Clients, StatusStep(c)
    PROVE  ScoreInv'
  <1>1. UNCHANGED <<events, created, score, scoreSource>> /\ NewIdsFree'
    BY SettledFrame DEF StatusStep, UpdateStatusBegin, UpdateStatusQuery,
       UpdateStatusWrite, rows, ScoreInv
  <1>2. call[c].at \in {"idle", "updateStatus"}
    BY StartsIdle DEF StatusStep, UpdateStatusBegin, UpdateStatusQuery,
       UpdateStatusWrite, At
  <1>3. Settled'
    BY <1>1, <1>2, SettledAt, SettledFrame DEF Pending
  <1>4. ASSUME NEW to, UpdateStatusBegin(c, to) PROVE ScoreInv'
    BY <1>1, <1>3, <1>4, ScoreGoto
    DEF UpdateStatusBegin, EventLabels, BeforeScore, Pending
  <1>5. ASSUME NEW query, UpdateStatusQuery(c, query) PROVE ScoreInv'
    <2>1. call[c] \in [at : {"updateStatus"}, to : Statuses,
                       todo : SUBSET (Queries("LOCKED") \cup Queries("FINISHED"))]
      BY <1>5 DEF UpdateStatusQuery, At, TypeOK, Calls, Idle
    <2>2. [call[c] EXCEPT !.todo = @ \ {query}].at = "updateStatus"
      BY <2>1
    <2> QED
      BY <1>1, <1>3, <1>5, <2>2, ScoreGoto, ScoreReply
      DEF UpdateStatusQuery, EventLabels, BeforeScore, Pending
  <1>6. CASE UpdateStatusWrite(c)
    BY <1>1, <1>3, <1>6, ScoreReply DEF UpdateStatusWrite
  <1> QED
    BY <1>4, <1>5, <1>6 DEF StatusStep

LEMMA ScoreOfUpdate ==
    ASSUME OneAtATime, TypeOK, ScoreInv, NEW c \in Clients, ScoreStep(c)
    PROVE  ScoreInv'
  <1>1. UNCHANGED <<events, created>> /\ NewIdsFree'
    BY DEF ScoreStep, UpdateMatchBegin, UpdateMatchWrite, UpdateMatchReport, rows,
       ScoreInv, NewIdsFree
  <1>2. Settled
    <2>1. call[c].at \in {"idle", "updateMatch", "updateMatch.report"}
      BY StartsIdle DEF ScoreStep, UpdateMatchBegin, UpdateMatchWrite,
         UpdateMatchReport, At
    <2> QED
      BY <2>1, SettledAt DEF Pending
  <1>3. UNCHANGED <<score, scoreSource>> => Settled'
    BY <1>1, <1>2, SettledFrame
  <1>4. ASSUME NEW patch, UpdateMatchBegin(c, patch) PROVE ScoreInv'
    BY <1>1, <1>3, <1>4, ScoreGoto
    DEF UpdateMatchBegin, rows, EventLabels, BeforeScore, Pending
  <1>5. CASE UpdateMatchWrite(c)
    <2>1. call[c].patch \in ScorePatches
      BY <1>5 DEF UpdateMatchWrite, At, TypeOK, Calls, Idle
    <2>2. Settled'
      <3>1. CASE scoreSource' = Admin
        BY <3>1 DEF Settled
      <3>2. CASE scoreSource' = Null /\ \A side \in Sides : call[c].patch[side] = Null
        <4>1. \A side \in Sides : score'[side] = Null
          BY <1>5, <3>2, MatchAssumption DEF UpdateMatchWrite
        <4> QED
          BY <3>2, <4>1 DEF Settled
      <3> QED
        BY <1>5, <3>1, <3>2 DEF UpdateMatchWrite
    <2>3. CASE Reply(c)
      BY <1>1, <2>2, <2>3, ScoreReply
    <2>4. CASE Goto(c, [at |-> "updateMatch.report", score |-> score'])
      BY <1>1, <2>2, <2>4, ScoreGoto DEF EventLabels, BeforeScore, Pending
    <2> QED
      BY <1>5, <2>3, <2>4 DEF UpdateMatchWrite
  <1>6. CASE UpdateMatchReport(c)
    BY <1>1, <1>3, <1>6, ScoreReply DEF UpdateMatchReport
  <1> QED
    BY <1>4, <1>5, <1>6 DEF ScoreStep

LEMMA ScoreOfLineup ==
    ASSUME OneAtATime, TypeOK, ScoreInv, NEW c \in Clients, LineupStep(c)
    PROVE  ScoreInv'
  <1>1. UNCHANGED <<events, created, score, scoreSource>> /\ NewIdsFree'
    BY SettledFrame DEF LineupStep, SubmitLineupBegin, SubmitLineupWrite,
       ReviewLineupBegin, ReviewLineupRow, ReviewLineupWrite, rows, ScoreInv
  <1>2. Settled'
    <2>1. call[c].at \in {"idle", "submitLineup", "reviewLineup.row", "reviewLineup"}
      BY StartsIdle DEF LineupStep, SubmitLineupBegin, SubmitLineupWrite,
         ReviewLineupBegin, ReviewLineupRow, ReviewLineupWrite, At
    <2> QED
      BY <1>1, <2>1, SettledAt, SettledFrame DEF Pending
  <1>3. ASSUME NEW next, Goto(c, next),
               next.at \in {"submitLineup", "reviewLineup.row", "reviewLineup", "idle"}
        PROVE  ScoreInv'
    BY <1>1, <1>2, <1>3, ScoreGoto DEF EventLabels, BeforeScore, Pending
  <1>4. CASE ReviewLineupRow(c)
    <2>1. call[c] \in [at : {"reviewLineup.row", "reviewLineup"}, side : Sides,
                       verdict : Verdicts]
      BY <1>4 DEF ReviewLineupRow, At, TypeOK, Calls, Idle
    <2>2. [call[c] EXCEPT !.at = "reviewLineup"].at = "reviewLineup"
      BY <2>1
    <2> QED
      BY <1>3, <1>4, <2>2 DEF ReviewLineupRow, Reply, Idle
  <1> QED
    BY <1>3, <1>4 DEF LineupStep, SubmitLineupBegin, SubmitLineupWrite,
       ReviewLineupBegin, ReviewLineupWrite, Reply, Idle

LEMMA ScoreOfOfficial ==
    ASSUME OneAtATime, TypeOK, ScoreInv, NEW c \in Clients, OfficialStep(c)
    PROVE  ScoreInv'
  <1>1. UNCHANGED <<events, created, score, scoreSource>> /\ NewIdsFree'
    BY SettledFrame DEF OfficialStep, AssignOfficialBegin, AssignOfficialCount,
       AssignOfficialWrite, DisciplineReportBegin, DisciplineReportAssignment,
       DisciplineReportWrite, rows, ScoreInv
  <1>2. Settled'
    <2>1. call[c].at \in {"idle", "assignOfficial.count", "assignOfficial",
                          "submitDisciplineReport.assignment", "submitDisciplineReport"}
      BY StartsIdle DEF OfficialStep, AssignOfficialBegin, AssignOfficialCount,
         AssignOfficialWrite, DisciplineReportBegin, DisciplineReportAssignment,
         DisciplineReportWrite, At
    <2> QED
      BY <1>1, <2>1, SettledAt, SettledFrame DEF Pending
  <1>3. ASSUME NEW next, Goto(c, next),
               next.at \in {"assignOfficial.count", "assignOfficial", "idle",
                            "submitDisciplineReport.assignment", "submitDisciplineReport"}
        PROVE  ScoreInv'
    BY <1>1, <1>2, <1>3, ScoreGoto DEF EventLabels, BeforeScore, Pending
  <1>4. ASSUME NEW o, NEW role, AssignOfficialBegin(c, o, role) PROVE ScoreInv'
    BY <1>3, <1>4 DEF AssignOfficialBegin
  <1>5. CASE AssignOfficialCount(c)
    <2>1. call[c] \in [at : {"assignOfficial.count", "assignOfficial"},
                       official : Officials, role : Roles]
      BY <1>5 DEF AssignOfficialCount, At, TypeOK, Calls, Idle
    <2>2. [call[c] EXCEPT !.at = "assignOfficial"].at = "assignOfficial"
      BY <2>1
    <2> QED
      BY <1>3, <1>5, <2>2 DEF AssignOfficialCount, Reply, Idle
  <1>6. CASE DisciplineReportAssignment(c)
    <2>1. call[c] \in [at : {"submitDisciplineReport.assignment",
                             "submitDisciplineReport"}, supervisor : Officials]
      BY <1>6 DEF DisciplineReportAssignment, At, TypeOK, Calls, Idle
    <2>2. [call[c] EXCEPT !.at = "submitDisciplineReport"].at = "submitDisciplineReport"
      BY <2>1
    <2> QED
      BY <1>3, <1>6, <2>2 DEF DisciplineReportAssignment, Reply, Idle
  <1> QED
    BY <1>3, <1>4, <1>5, <1>6 DEF OfficialStep, AssignOfficialWrite,
       DisciplineReportBegin, DisciplineReportWrite, Reply, Idle

\* An event handler goes on to its write and keeps what it knows of the row.
LEMMA ScoreEventGoto ==
    ASSUME OneAtATime, TypeOK, ScoreInv, NEW c \in Clients, NEW next, Goto(c, next),
           next.at \in EventLabels, Settled,
           next.id \in Live => next.wasGoal = IsGoal(events[next.id].type),
           UNCHANGED <<events, created, score, scoreSource>>
    PROVE  ScoreInv'
  <1>1. \A d \in Clients : call'[d] = next
    BY OnlyCall
  <1>2. ASSUME NEW d \in Clients PROVE ScoreChecked(d)'
    BY <1>1, SettledFrame
    DEF ScoreChecked, At, EventLabels, BeforeScore, WithEvents
  <1> QED
    BY <1>2, SettledFrame DEF ScoreInv

\* A write of an event: recalculated when a goal is concerned, otherwise
\* without effect on the counts.
LEMMA ScoreEventWrite ==
    ASSUME OneAtATime, TypeOK, ScoreInv, NEW c \in Clients, NEW goal \in BOOLEAN,
           AfterEvent(c, goal), Settled, UNCHANGED <<score, scoreSource>>, NewIdsFree',
           ~goal => \A i \in EventIds :
                        events'[i] = events[i] \/ (~GoalRow(i) /\ ~GoalRow(i)')
    PROVE  ScoreInv'
  <1>1. CASE goal
    BY <1>1, ScoreGoto DEF AfterEvent, EventLabels, BeforeScore, Pending
  <1>2. CASE ~goal
    <2>1. Settled'
      BY <1>2, CountsStay DEF Settled
    <2> QED
      BY <1>2, <2>1, ScoreReply DEF AfterEvent
  <1> QED
    BY <1>1, <1>2

LEMMA ScoreOfEvent ==
    ASSUME OneAtATime, TypeOK, ScoreInv, NEW c \in Clients, EventStep(c)
    PROVE  ScoreInv'
  <1>1. call[c].at \notin {"recalculate", "recalculate.write"} => Settled
    <2>1. call[c].at \in EventLabels \cup {"idle", "addEvent", "recalculate",
                                           "recalculate.write"}
      BY StartsIdle DEF EventStep, AddEventBegin, AddEventWrite, UpdateEventBegin,
         UpdateEventStatus, UpdateEventWrite, RemoveEventBegin, RemoveEventStatus,
         RemoveEventWrite, RecalculateRead, RecalculateWrite, At, EventLabels
    <2> QED
      BY <2>1, SettledAt DEF EventLabels, Pending
  <1>2. ASSUME UNCHANGED <<events, created, score, scoreSource>>, Reply(c), Settled
        PROVE  ScoreInv'
    BY <1>2, ScoreReply, SettledFrame DEF ScoreInv
  <1>3. ASSUME NEW body, AddEventBegin(c, body) PROVE ScoreInv'
    BY <1>1, <1>3, ScoreGoto, SettledFrame
    DEF AddEventBegin, rows, ScoreInv, Starts, Idle, EventLabels, BeforeScore, Pending
  <1>4. CASE AddEventWrite(c)
    <2>1. call[c].body \in EventInputs
      BY <1>4 DEF AddEventWrite, At, TypeOK, Calls, Idle
    <2>2. created \in Nat /\ created' = created + 1 /\ created' \in EventIds
      BY <1>4, MatchAssumption DEF AddEventWrite, TypeOK, EventIds
    <2>3. events[created'] = Null
      BY <2>2 DEF ScoreInv, NewIdsFree
    <2>4. NewIdsFree'
      BY <1>4, <2>2 DEF AddEventWrite, ScoreInv, NewIdsFree, TypeOK, EventIds
    <2>5. ASSUME ~IsGoal(call[c].body.type), NEW i \in EventIds
          PROVE  events'[i] = events[i] \/ (~GoalRow(i) /\ ~GoalRow(i)')
      <3>1. CASE i = created'
        <4>1. events'[i] = Row(call[c].body, "MANUAL")
          BY <1>4, <2>2, <3>1 DEF AddEventWrite, TypeOK
        <4>2. ~IsGoal(events'[i].type)
          BY <2>5, <4>1 DEF Row
        <4> QED
          BY <2>3, <3>1, <4>2 DEF GoalRow, Live
      <3>2. CASE i # created'
        <4>1. events'[i] = events[i]
          BY <1>4, <2>2, <3>2 DEF AddEventWrite, TypeOK
        <4> QED
          BY <4>1
      <3> QED
        BY <3>1, <3>2
    <2>6. IsGoal(call[c].body.type) \in BOOLEAN
      BY DEF IsGoal
    <2> QED
      BY <1>1, <1>4, <2>4, <2>5, <2>6, ScoreEventWrite DEF AddEventWrite, At
  <1>5. ASSUME NEW id \in EventIds, NEW body, UpdateEventBegin(c, id, body) PROVE ScoreInv'
    BY <1>1, <1>5, ScoreEventGoto
    DEF UpdateEventBegin, rows, Starts, Idle, EventLabels
  <1>6. CASE UpdateEventStatus(c)
    <2>1. call[c] \in [at : {"updateEvent.status", "updateEvent"}, id : EventIds,
                       body : EventInputs, wasGoal : BOOLEAN]
      BY <1>6, EventCallType DEF UpdateEventStatus, At
    <2> DEFINE next == [call[c] EXCEPT !.at = "updateEvent"]
    <2>2. next.at = "updateEvent" /\ next.id = call[c].id /\ next.wasGoal = call[c].wasGoal
      BY <2>1
    <2>3. next.id \in Live => next.wasGoal = IsGoal(events[next.id].type)
      BY <1>6, <2>2 DEF UpdateEventStatus, At, ScoreInv, ScoreChecked, EventLabels
    <2> HIDE DEF next
    <2>4. CASE Goto(c, next)
      BY <1>1, <1>6, <2>2, <2>3, <2>4, ScoreEventGoto
      DEF UpdateEventStatus, At, rows, EventLabels
    <2>5. CASE Reply(c)
      BY <1>1, <1>2, <1>6, <2>5 DEF UpdateEventStatus, At, rows
    <2> QED
      BY <1>6, <2>4, <2>5 DEF UpdateEventStatus, next
  <1>7. CASE UpdateEventWrite(c)
    <2> DEFINE id == call[c].id
               body == call[c].body
    <2>1. /\ id \in EventIds /\ body \in EventInputs /\ call[c].wasGoal \in BOOLEAN
          /\ call[c].at = "updateEvent"
      BY <1>7, EventCallType DEF UpdateEventWrite, At
    <2>2. CASE id \in Live
      <3>1. call[c].wasGoal = IsGoal(events[id].type)
        BY <2>1, <2>2 DEF ScoreInv, ScoreChecked, EventLabels
      <3>2. /\ events' = [events EXCEPT ![id] = Row(body, events[id].source)]
            /\ AfterEvent(c, call[c].wasGoal \/ IsGoal(body.type))
            /\ UNCHANGED <<created, score, scoreSource>>
        BY <1>7, <2>2 DEF UpdateEventWrite
      <3>3. NewIdsFree'
        BY <2>1, <2>2, <3>2 DEF ScoreInv, NewIdsFree, Live, TypeOK
      <3>4. ASSUME ~(call[c].wasGoal \/ IsGoal(body.type)), NEW i \in EventIds
            PROVE  events'[i] = events[i] \/ (~GoalRow(i) /\ ~GoalRow(i)')
        <4>1. CASE i = id
          <5>1. events'[i].type = body.type
            BY <2>1, <3>2, <4>1 DEF TypeOK, Row
          <5> QED
            BY <3>1, <3>4, <4>1, <5>1 DEF GoalRow
        <4>2. CASE i # id
          <5>1. events'[i] = events[i]
            BY <3>2, <4>2 DEF TypeOK
          <5> QED
            BY <5>1
        <4> QED
          BY <4>1, <4>2
      <3>5. (call[c].wasGoal \/ IsGoal(body.type)) \in BOOLEAN
        BY <2>1 DEF IsGoal
      <3> QED
        BY <1>1, <2>1, <3>2, <3>3, <3>4, <3>5, ScoreEventWrite
    <2>3. CASE id \notin Live
      BY <1>1, <1>2, <1>7, <2>1, <2>3 DEF UpdateEventWrite
    <2> QED
      BY <2>2, <2>3
  <1>8. ASSUME NEW id \in EventIds, RemoveEventBegin(c, id) PROVE ScoreInv'
    BY <1>1, <1>8, ScoreEventGoto
    DEF RemoveEventBegin, rows, Starts, Idle, EventLabels
  <1>9. CASE RemoveEventStatus(c)
    <2>1. call[c] \in [at : {"removeEvent.status", "removeEvent"}, id : EventIds,
                       wasGoal : BOOLEAN]
      BY <1>9, EventCallType DEF RemoveEventStatus, At
    <2> DEFINE next == [call[c] EXCEPT !.at = "removeEvent"]
    <2>2. next.at = "removeEvent" /\ next.id = call[c].id /\ next.wasGoal = call[c].wasGoal
      BY <2>1
    <2>3. next.id \in Live => next.wasGoal = IsGoal(events[next.id].type)
      BY <1>9, <2>2 DEF RemoveEventStatus, At, ScoreInv, ScoreChecked, EventLabels
    <2> HIDE DEF next
    <2>4. CASE Goto(c, next)
      BY <1>1, <1>9, <2>2, <2>3, <2>4, ScoreEventGoto
      DEF RemoveEventStatus, At, rows, EventLabels
    <2>5. CASE Reply(c)
      BY <1>1, <1>2, <1>9, <2>5 DEF RemoveEventStatus, At, rows
    <2> QED
      BY <1>9, <2>4, <2>5 DEF RemoveEventStatus, next
  <1>10. CASE RemoveEventWrite(c)
    <2> DEFINE id == call[c].id
    <2>1. id \in EventIds /\ call[c].wasGoal \in BOOLEAN /\ call[c].at = "removeEvent"
      BY <1>10, EventCallType DEF RemoveEventWrite, At
    <2>2. CASE id \in Live
      <3>1. call[c].wasGoal = IsGoal(events[id].type)
        BY <2>1, <2>2 DEF ScoreInv, ScoreChecked, EventLabels
      <3>2. /\ events' = [events EXCEPT ![id] = Null]
            /\ AfterEvent(c, call[c].wasGoal)
            /\ UNCHANGED <<created, score, scoreSource>>
        BY <1>10, <2>2 DEF RemoveEventWrite
      <3>3. NewIdsFree'
        BY <2>1, <3>2 DEF ScoreInv, NewIdsFree, TypeOK
      <3>4. ASSUME ~call[c].wasGoal, NEW i \in EventIds
            PROVE  events'[i] = events[i] \/ (~GoalRow(i) /\ ~GoalRow(i)')
        <4>1. CASE i = id
          <5>1. events'[i] = Null
            BY <3>2, <4>1 DEF TypeOK
          <5> QED
            BY <3>1, <3>4, <4>1, <5>1 DEF GoalRow, Live
        <4>2. CASE i # id
          <5>1. events'[i] = events[i]
            BY <3>2, <4>2 DEF TypeOK
          <5> QED
            BY <5>1
        <4> QED
          BY <4>1, <4>2
      <3> QED
        BY <1>1, <2>1, <3>2, <3>3, <3>4, ScoreEventWrite
    <2>3. CASE id \notin Live
      BY <1>1, <1>2, <1>10, <2>1, <2>3 DEF RemoveEventWrite
    <2> QED
      BY <2>2, <2>3
  <1>11. CASE RecalculateRead(c)
    <2>1. UNCHANGED <<events, created, score, scoreSource>>
      BY <1>11 DEF RecalculateRead, rows
    <2>2. \A d \in Clients :
            call'[d] = [at |-> "recalculate.write", score |-> recalculateScore]
      BY <1>11, OnlyCall DEF RecalculateRead
    <2>3. ASSUME NEW d \in Clients PROVE ScoreChecked(d)'
      BY <2>1, <2>2, SettledFrame
      DEF ScoreChecked, At, EventLabels, BeforeScore, WithEvents
    <2> QED
      BY <2>1, <2>2, <2>3, SettledFrame DEF ScoreInv, Pending
  <1>12. CASE RecalculateWrite(c)
    <2>1. score' = recalculateScore /\ UNCHANGED <<events, created>>
      BY <1>12 DEF RecalculateWrite, ScoreInv, ScoreChecked
    <2>2. recalculateScore' = recalculateScore /\ NewIdsFree'
      BY <2>1 DEF recalculateScore, Live, ScoreInv, NewIdsFree
    <2>3. Settled'
      BY <2>1, <2>2 DEF Settled
    <2> QED
      BY <1>12, <2>2, <2>3, ScoreReply DEF RecalculateWrite
  <1> QED
    BY <1>3, <1>4, <1>5, <1>6, <1>7, <1>8, <1>9, <1>10, <1>11, <1>12 DEF EventStep

\* A finite set and its image under a one-to-one map have the same size.
LEMMA SameSize ==
    ASSUME NEW S, NEW T, IsFiniteSet(S), NEW f \in [S -> T],
           \A i, j \in S : f[i] = f[j] => i = j,
           \A j \in T : \E i \in S : f[i] = j
    PROVE  Cardinality(T) = Cardinality(S)
  <1>1. f \in Injection(S, T)
    BY DEF Injection, IsInjective
  <1>2. f \in Surjection(S, T)
    BY DEF Surjection
  <1> QED
    BY <1>1, <1>2, FS_Bijection DEF ExistsBijection, Bijection

\* A goal counts the same in the body of a report and in the rows written from
\* it: the ids are shifted by what was created before.
LEMMA CreatedScore ==
    ASSUME TypeOK, NEW list \in EventLists, created + Len(list) <= MaxEvents,
           ReportRows = {},
           events' = [i \in EventIds |->
                        IF i \in created + 1 .. created + Len(list)
                        THEN Row(list[i - created], "MATCH_REPORT") ELSE events[i]]
    PROVE  ReportScore' = calculateEventScore(list, DOMAIN list)
  <1>1. /\ Len(list) \in Nat /\ DOMAIN list = 1..Len(list) /\ created \in Nat
        /\ MaxEvents \in Nat /\ \A i \in 1..Len(list) : list[i] \in EventInputs
    <2>1. PICK n \in 0..MaxReportEvents : list \in [1..n -> EventInputs]
      BY DEF EventLists
    <2>2. n \in Nat
      BY MatchAssumption
    <2>3. list \in Seq(EventInputs)
      BY <2>1, <2>2, SeqDef
    <2> QED
      BY <2>3, LenProperties, EventListType, MatchAssumption DEF TypeOK
  <1>2. \A i \in EventIds : i \in ReportRows' <=> i \in created + 1 .. created + Len(list)
    <2>1. ASSUME NEW i \in EventIds, i \in created + 1 .. created + Len(list)
          PROVE  i \in ReportRows'
      <3>1. i - created \in 1..Len(list)
        BY <1>1, <2>1
      <3>2. events'[i] \in Rows /\ events'[i].source = "MATCH_REPORT"
        BY <1>1, <2>1, <3>1, RowType DEF Row
      <3> QED
        BY <3>2, MatchAssumption DEF ReportRows, Live
    <2>2. ASSUME NEW i \in EventIds, i \notin created + 1 .. created + Len(list)
          PROVE  i \notin ReportRows'
      <3>1. events'[i] = events[i]
        BY <2>2
      <3> QED
        BY <3>1 DEF ReportRows, Live
    <2> QED
      BY <2>1, <2>2
  <1>3. ASSUME NEW side \in Sides
        PROVE  Cardinality({i \in ReportRows' :
                    IsGoal(events'[i].type) /\ ReportedSide(events'[i]) = side})
             = Cardinality({i \in DOMAIN list :
                    IsGoal(list[i].type) /\ ReportedSide(list[i]) = side})
    <2> DEFINE S == {i \in DOMAIN list :
                        IsGoal(list[i].type) /\ ReportedSide(list[i]) = side}
               T == {i \in ReportRows' :
                        IsGoal(events'[i].type) /\ ReportedSide(events'[i]) = side}
               f == [i \in S |-> i + created]
    <2>1. IsFiniteSet(S)
      <3>1. IsFiniteSet(1..Len(list))
        BY <1>1, FS_Interval
      <3> QED
        BY <1>1, <3>1, FS_Subset
    <2>2. ASSUME NEW i \in DOMAIN list
          PROVE  /\ i + created \in ReportRows'
                 /\ (i \in S <=> i + created \in T)
      <3> DEFINE j == i + created
      <3>1. j \in EventIds /\ j \in created + 1 .. created + Len(list) /\ j - created = i
        BY <1>1 DEF EventIds
      <3> HIDE DEF j
      <3>2. events'[j] = Row(list[i], "MATCH_REPORT")
        BY <3>1
      <3>3. events'[j].type = list[i].type /\ ReportedSide(events'[j]) = ReportedSide(list[i])
        BY <3>2 DEF Row, ReportedSide
      <3>4. j \in ReportRows' /\ (i \in S <=> j \in T)
        BY <1>2, <3>1, <3>3
      <3> QED
        BY <3>4 DEF j
    <2>3. ASSUME NEW j \in T PROVE \E i \in S : f[i] = j
      <3>1. j \in EventIds /\ j \in created + 1 .. created + Len(list)
        BY <1>2 DEF ReportRows, Live
      <3>2. j - created \in DOMAIN list /\ j - created + created = j
        BY <1>1, <3>1
      <3>3. j - created \in S
        BY <2>2, <3>2
      <3> QED
        BY <3>2, <3>3
    <2>4. f \in [S -> T]
      BY <2>2
    <2>5. \A i, j \in S : f[i] = f[j] => i = j
      BY <1>1
    <2> HIDE DEF f
    <2> QED
      BY <2>1, <2>3, <2>4, <2>5, SameSize
  <1> QED
    BY <1>3 DEF ReportScore, calculateEventScore

\* A report request goes on and keeps what it holds.
LEMMA ReportGoto ==
    ASSUME OneAtATime, TypeOK, NEW c \in Clients, call[c] \in MatchReportCalls,
           NEW label, Goto(c, [call[c] EXCEPT !.at = label])
    PROVE  \A d \in Clients :
            /\ call'[d].at = label /\ call'[d].body = call[c].body
            /\ call'[d].final = call[c].final
            /\ call'[d].adminScoreLocked = call[c].adminScoreLocked
  <1>1. \A d \in Clients : call'[d] = [call[c] EXCEPT !.at = label]
    BY OnlyCall
  <1> QED
    BY <1>1 DEF MatchReportCalls

Held(c) ==
    /\ call[c].adminScoreLocked <=> scoreSource = Admin
    /\ ~call[c].adminScoreLocked => call[c].final = call[c].body.score

\* On the way to the score, with what each await claims.
LEMMA ScoreReportGoto ==
    ASSUME OneAtATime, TypeOK, NEW c \in Clients, call[c] \in MatchReportCalls,
           NEW label \in BeforeScore, Goto(c, [call[c] EXCEPT !.at = label]),
           Held(c), scoreSource' = scoreSource, NewIdsFree',
           label \notin {"submitMatchReport.create", "submitMatchReport.score"} => Settled',
           label \in WithEvents =>
             calculateEventScore(call[c].body.events, DOMAIN call[c].body.events)
                = call[c].final,
           label = "submitMatchReport.create" => ReportRows' = {},
           label = "submitMatchReport.score" =>
             /\ ~call[c].adminScoreLocked /\ ReportScore' = call[c].final
    PROVE  ScoreInv'
  <1>1. \A d \in Clients :
            /\ call'[d].at = label /\ call'[d].body = call[c].body
            /\ call'[d].final = call[c].final
            /\ call'[d].adminScoreLocked = call[c].adminScoreLocked
    BY ReportGoto
  <1>2. ASSUME NEW d \in Clients PROVE ScoreChecked(d)'
    <2>1. At(d, "recalculate.write")' => FALSE
      BY <1>1 DEF At, BeforeScore
    <2>2. call'[d].at \notin EventLabels
      BY <1>1 DEF EventLabels, BeforeScore
    <2>3. /\ call'[d].adminScoreLocked <=> scoreSource' = Admin
          /\ ~call'[d].adminScoreLocked => call'[d].final = call'[d].body.score
      BY <1>1 DEF Held
    <2>4. call'[d].at \in WithEvents =>
            calculateEventScore(call'[d].body.events, DOMAIN call'[d].body.events)
                = call'[d].final
      <3>1. /\ call'[d].at = label /\ call'[d].body = call[c].body
            /\ call'[d].final = call[c].final
        BY <1>1
      <3> QED
        BY <3>1, Zenon
    <2>5. At(d, "submitMatchReport.create")' => ReportRows' = {}
      BY <1>1 DEF At
    <2>6. At(d, "submitMatchReport.score")' =>
            ~call'[d].adminScoreLocked /\ ReportScore' = call'[d].final
      BY <1>1 DEF At
    <2>7. calculateEventScore(call[d].body.events, DOMAIN call[d].body.events)'
            = calculateEventScore(call'[d].body.events, DOMAIN call'[d].body.events)
      BY DEF calculateEventScore, ReportedSide, IsGoal
    <2> QED
      BY <2>1, <2>2, <2>3, <2>4, <2>5, <2>6, <2>7 DEF ScoreChecked
  <1>3. (\A d \in Clients : call'[d].at \notin Pending) => Settled'
    BY <1>1 DEF Pending
  <1> QED
    BY <1>2, <1>3 DEF ScoreInv

\* The events of a report add up to its score: it goes on to write the score,
\* or the report itself when an admin holds the score.
LEMMA ScoreAfterEvents ==
    ASSUME OneAtATime, TypeOK, NEW c \in Clients, call[c] \in MatchReportCalls,
           Goto(c, [call[c] EXCEPT !.at = AfterEvents(call[c].adminScoreLocked)]),
           Held(c), UNCHANGED <<score, scoreSource>>, NewIdsFree',
           ReportScore' = call[c].final
    PROVE  ScoreInv'
  <1>1. CASE call[c].adminScoreLocked
    <2>1. AfterEvents(call[c].adminScoreLocked) = "submitMatchReport"
      BY <1>1 DEF AfterEvents
    <2>2. Settled'
      BY <1>1 DEF Held, Settled
    <2>3. [call[c] EXCEPT !.at = "submitMatchReport"].at = "submitMatchReport"
      BY DEF MatchReportCalls
    <2> QED
      BY <2>1, <2>2, <2>3, ScoreGoto DEF EventLabels, BeforeScore, Pending
  <1>2. CASE ~call[c].adminScoreLocked
    <2>1. AfterEvents(call[c].adminScoreLocked) = "submitMatchReport.score"
      BY <1>2 DEF AfterEvents
    <2> QED
      BY <1>2, <2>1, ScoreReportGoto DEF BeforeScore, WithEvents
  <1> QED
    BY <1>1, <1>2

LEMMA ScoreOfReport ==
    ASSUME OneAtATime, TypeOK, ScoreInv, NEW c \in Clients, ReportStep(c)
    PROVE  ScoreInv'
  <1>1. NewIdsFree /\ ScoreChecked(c)
    BY DEF ScoreInv
  <1>2. call[c].at \in BeforeScore => Held(c)
    BY <1>1 DEF ScoreChecked, Held
  <1>3. call[c].at \in {"idle", "submitMatchReport.assignment",
            "submitMatchReport.existing", "submitMatchReport.events",
            "submitMatchReport.delete", "submitMatchReport"} => Settled
    BY SettledAt DEF Pending
  <1>4. ASSUME UNCHANGED rows, Reply(c), Settled PROVE ScoreInv'
    BY <1>1, <1>4, ScoreReply, SettledFrame DEF rows
  <1>5. ASSUME NEW by \in Reporters, NEW body \in ReportBodies,
               MatchReportBegin(c, by, body)
        PROVE  ScoreInv'
    <2> DEFINE next == [at |-> IF by = Admin THEN "submitMatchReport.existing"
                                             ELSE "submitMatchReport.assignment",
                        by |-> by, body |-> body,
                        adminScoreLocked |-> scoreSource = Admin,
                        final |-> FinalScore(body)]
    <2>1. \A d \in Clients : call'[d] = next
      BY <1>5, OnlyCall DEF MatchReportBegin
    <2>2. next.at \in {"submitMatchReport.existing", "submitMatchReport.assignment"}
      OBVIOUS
    <2>3. /\ next.adminScoreLocked <=> scoreSource = Admin
          /\ next.body = body /\ next.final = FinalScore(body)
      OBVIOUS
    <2>4. scoreSource # Admin => FinalScore(body) = body.score
      BY DEF FinalScore, ReportBodies
    <2> HIDE DEF next
    <2>5. UNCHANGED <<events, created, score, scoreSource>> /\ Settled
      BY <1>3, <1>5, StartsIdle DEF MatchReportBegin, rows
    <2>6. ASSUME NEW d \in Clients PROVE ScoreChecked(d)'
      BY <2>1, <2>2, <2>3, <2>4, <2>5
      DEF ScoreChecked, At, EventLabels, BeforeScore, WithEvents
    <2>7. NewIdsFree' /\ Settled'
      BY <1>1, <2>5, SettledFrame
    <2> QED
      BY <2>6, <2>7 DEF ScoreInv
  <1>6. ASSUME call[c].at = "submitMatchReport.assignment", MatchReportAssignment(c)
        PROVE  ScoreInv'
    <2>1. UNCHANGED <<events, created, score, scoreSource>> /\ UNCHANGED rows
      BY <1>6 DEF MatchReportAssignment, rows
    <2>2. Settled /\ Held(c) /\ call[c] \in MatchReportCalls
      BY <1>2, <1>3, <1>6, ReportCallType DEF BeforeScore
    <2>3. NewIdsFree' /\ Settled'
      BY <1>1, <2>1, <2>2, SettledFrame
    <2>4. CASE Goto(c, [call[c] EXCEPT !.at = "submitMatchReport.existing"])
      BY <2>1, <2>2, <2>3, <2>4, ScoreReportGoto DEF BeforeScore, WithEvents
    <2>5. CASE Reply(c)
      BY <1>4, <2>1, <2>2, <2>5
    <2> QED
      BY <1>6, <2>4, <2>5 DEF MatchReportAssignment
  <1>7. ASSUME call[c].at = "submitMatchReport.existing", MatchReportExisting(c)
        PROVE  ScoreInv'
    <2>1. UNCHANGED <<events, created, score, scoreSource>> /\ UNCHANGED rows
      BY <1>7 DEF MatchReportExisting, rows
    <2>2. Settled /\ Held(c) /\ call[c] \in MatchReportCalls
      BY <1>2, <1>3, <1>7, ReportCallType DEF BeforeScore
    <2>3. NewIdsFree' /\ Settled'
      BY <1>1, <2>1, <2>2, SettledFrame
    <2>4. CASE Goto(c, [call[c] EXCEPT !.at = "submitMatchReport.events"])
      BY <2>1, <2>2, <2>3, <2>4, ScoreReportGoto DEF BeforeScore, WithEvents
    <2>5. CASE /\ calculateEventScore(call[c].body.events, DOMAIN call[c].body.events)
                    = call[c].final
               /\ Goto(c, [call[c] EXCEPT !.at = "submitMatchReport.delete"])
      BY <2>1, <2>2, <2>3, <2>5, ScoreReportGoto DEF BeforeScore, WithEvents
    <2>6. CASE Reply(c)
      BY <1>4, <2>1, <2>2, <2>6
    <2> QED
      BY <1>7, <2>4, <2>5, <2>6 DEF MatchReportExisting
  <1>8. ASSUME call[c].at = "submitMatchReport.events", MatchReportEvents(c)
        PROVE  ScoreInv'
    <2>1. UNCHANGED <<events, created, score, scoreSource>> /\ UNCHANGED rows
      BY <1>8 DEF MatchReportEvents, rows
    <2>2. Settled /\ Held(c) /\ call[c] \in MatchReportCalls
      BY <1>2, <1>3, <1>8, ReportCallType DEF BeforeScore
    <2>3. NewIdsFree' /\ ReportScore' = ReportScore
      BY <1>1, <2>1, SettledFrame
    <2>4. CASE /\ ReportScore = call[c].final
               /\ Goto(c, [call[c] EXCEPT !.at = AfterEvents(call[c].adminScoreLocked)])
      BY <2>1, <2>2, <2>3, <2>4, ScoreAfterEvents
    <2>5. CASE Reply(c)
      BY <1>4, <2>1, <2>2, <2>5
    <2> QED
      BY <1>8, <2>4, <2>5 DEF MatchReportEvents, ReportScore
  <1>9. ASSUME call[c].at = "submitMatchReport.delete", MatchReportDelete(c)
        PROVE  ScoreInv'
    <2>1. /\ UNCHANGED <<created, score, scoreSource>>
          /\ events' = [i \in EventIds |-> IF i \in ReportRows THEN Null ELSE events[i]]
      BY <1>9 DEF MatchReportDelete
    <2>2. Held(c) /\ call[c] \in MatchReportCalls
      BY <1>2, <1>9, ReportCallType DEF BeforeScore
    <2>3. calculateEventScore(call[c].body.events, DOMAIN call[c].body.events)
            = call[c].final
      BY <1>1, <1>9 DEF ScoreChecked, WithEvents
    <2>4. NewIdsFree'
      BY <1>1, <2>1 DEF NewIdsFree
    <2>5. ReportRows' = {}
      BY <2>1 DEF ReportRows, Live
    <2>6. CASE /\ call[c].body.events = <<>>
               /\ Goto(c, [call[c] EXCEPT !.at = AfterEvents(call[c].adminScoreLocked)])
      <3>1. DOMAIN call[c].body.events = {}
        BY <2>6
      <3>2. calculateEventScore(call[c].body.events, {}) = [side \in Sides |-> Cardinality({})]
        <4>1. \A side \in Sides : {i \in {} : /\ IsGoal(call[c].body.events[i].type)
                                              /\ ReportedSide(call[c].body.events[i]) = side} = {}
          OBVIOUS
        <4> QED
          BY <4>1, Zenon DEF calculateEventScore
      <3>3. ReportScore' = [side \in Sides |-> Cardinality({})]
        <4>1. \A side \in Sides : {i \in {} : /\ IsGoal(events'[i].type)
                                              /\ ReportedSide(events'[i]) = side} = {}
          OBVIOUS
        <4> QED
          BY <2>5, <4>1, Zenon DEF ReportScore, calculateEventScore
      <3>4. ReportScore' = call[c].final
        BY <2>3, <3>1, <3>2, <3>3, Zenon
      <3> QED
        BY <2>1, <2>2, <2>4, <2>6, <3>4, ScoreAfterEvents
    <2>7. CASE Goto(c, [call[c] EXCEPT !.at = "submitMatchReport.create"])
      BY <2>1, <2>2, <2>3, <2>4, <2>5, <2>7, ScoreReportGoto DEF BeforeScore
    <2> QED
      BY <1>9, <2>6, <2>7 DEF MatchReportDelete
  <1>10. ASSUME call[c].at = "submitMatchReport.create", MatchReportCreate(c)
         PROVE  ScoreInv'
    <2> DEFINE list == call[c].body.events
    <2>1. /\ created + Len(list) <= MaxEvents /\ created' = created + Len(list)
          /\ events' = [i \in EventIds |->
                            IF i \in created + 1 .. created + Len(list)
                            THEN Row(list[i - created], "MATCH_REPORT") ELSE events[i]]
          /\ Goto(c, [call[c] EXCEPT !.at = AfterEvents(call[c].adminScoreLocked)])
          /\ UNCHANGED <<score, scoreSource>>
      BY <1>10 DEF MatchReportCreate
    <2>2. Held(c) /\ call[c] \in MatchReportCalls /\ list \in EventLists
      BY <1>2, <1>10, ReportCallType DEF BeforeScore, WithEvents
    <2>3. calculateEventScore(list, DOMAIN list) = call[c].final /\ ReportRows = {}
      BY <1>1, <1>10 DEF ScoreChecked, WithEvents, At
    <2>4. ReportScore' = call[c].final
      BY <2>1, <2>2, <2>3, CreatedScore
    <2>5. NewIdsFree'
      BY <1>1, <2>1, <2>2, EventListType DEF NewIdsFree, TypeOK, EventIds
    <2> QED
      BY <2>1, <2>2, <2>4, <2>5, ScoreAfterEvents
  <1>11. ASSUME call[c].at = "submitMatchReport.score", MatchReportScore(c)
         PROVE  ScoreInv'
    <2>1. /\ score' = call[c].body.score /\ scoreSource' = "REFEREE"
          /\ Goto(c, [call[c] EXCEPT !.at = "submitMatchReport"])
          /\ UNCHANGED <<events, created>>
      BY <1>11 DEF MatchReportScore
    <2>2. Held(c) /\ call[c] \in MatchReportCalls
      BY <1>2, <1>11, ReportCallType DEF BeforeScore
    <2>3. ~call[c].adminScoreLocked /\ ReportScore = call[c].final
      BY <1>1, <1>11 DEF ScoreChecked, At
    <2>4. ReportScore' = ReportScore
      BY <2>1 DEF ReportScore, calculateEventScore, ReportRows, Live
    <2>5. Settled'
      BY <2>1, <2>2, <2>3, <2>4 DEF Held, Settled
    <2>6. NewIdsFree'
      BY <1>1, <2>1 DEF NewIdsFree
    <2>7. [call[c] EXCEPT !.at = "submitMatchReport"].at = "submitMatchReport"
      BY <2>2 DEF MatchReportCalls
    <2> QED
      BY <2>1, <2>5, <2>6, <2>7, ScoreGoto DEF EventLabels, BeforeScore, Pending
  <1>12. ASSUME call[c].at = "submitMatchReport", MatchReportWrite(c) PROVE ScoreInv'
    BY <1>1, <1>3, <1>12, ScoreReply, SettledFrame DEF MatchReportWrite
  <1> QED
    BY <1>5, <1>6, <1>7, <1>8, <1>9, <1>10, <1>11, <1>12 DEF ReportStep,
       MatchReportAssignment, MatchReportExisting, MatchReportEvents, MatchReportDelete,
       MatchReportCreate, MatchReportScore, MatchReportWrite, At

LEMMA ScoreInvStep ==
    ASSUME OneAtATime, ~MayFail, TypeOK, ScoreInv, [Next]_vars
    PROVE  ScoreInv'
  <1>1. ASSUME UNCHANGED <<events, created, score, scoreSource, call>> PROVE ScoreInv'
    <2>1. ASSUME NEW c \in Clients PROVE ScoreChecked(c)'
      BY <1>1, SettledFrame DEF ScoreInv, ScoreChecked, At, calculateEventScore
    <2> QED
      BY <1>1, <2>1, SettledFrame DEF ScoreInv
  <1>2. CASE UNCHANGED vars \/ PublishSchedule \/ \E a \in assigned : RemoveAssignment(a)
    BY <1>1, <1>2 DEF vars, rows, PublishSchedule, RemoveAssignment
  <1> QED
    BY <1>2, ScoreOfStatus, ScoreOfUpdate, ScoreOfEvent, ScoreOfLineup, ScoreOfOfficial,
       ScoreOfReport DEF Next, Fail

\* Between requests that come one at a time and run to their end, the score is
\* an admin's, or unset, or what the events add up to.
THEOREM ScoreIsSettled == OneAtATime /\ ~MayFail => (Spec => []ScoreFollowsEvents)
  <1> SUFFICES ASSUME OneAtATime, ~MayFail PROVE Spec => []ScoreFollowsEvents
    OBVIOUS
  <1>1. Init => ScoreInv
    BY DEF Init, ScoreInv, ScoreChecked, NewIdsFree, Settled, At, Idle, EventLabels,
       BeforeScore, WithEvents
  <1>2. TypeOK /\ ScoreInv /\ [Next]_vars => ScoreInv'
    BY ScoreInvStep
  <1>3. ScoreInv => ScoreFollowsEvents
    BY DEF ScoreInv, ScoreFollowsEvents, Quiet, Settled, Idle, Pending, ReportScore
  <1> QED
    BY <1>1, <1>2, <1>3, TypeCorrect, PTL DEF Spec
=============================================================================
