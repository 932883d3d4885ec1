------------------------- MODULE SuspensionsProofs -------------------------
(***************************************************************************)
(* For any season, with requests that may die between two statements.      *)
(*                                                                         *)
(* However many of them race: the rows of Suspensions are of the types of  *)
(* the schema, and a suspension is SERVED only once the match it is for    *)
(* has been FINISHED.                                                      *)
(*                                                                         *)
(* One request at a time: a player has at most one red card in a match,    *)
(* the red cards of a match and the suspensions for them are the same once *)
(* a sync has seen them, and an even number of yellow cards suspends.  The *)
(* invariant SoloInv says what a request has read that is still true at    *)
(* its next statement: the loop of a sync has the cards there are.         *)
(***************************************************************************)
EXTENDS Suspensions, SequenceTheorems, FiniteSetTheorems, WellFoundedInduction, TLAPS

\* The rows a sync has found and is about to change are still there: nothing
\* deletes a suspension.
RowsFound(c) ==
    /\ At(c, "sync.update") => suspensions[UpsertKey(c)] # Null
    /\ At(c, "sync.cancel") => \A key \in call[c].stale : suspensions[key] # Null

\* What a request relies on between two statements besides: it comes to
\* markServedSuspensionsForMatch after its write of FINISHED.
Relies(c) == RowsFound(c) /\ (At(c, "served") => call[c].match \in played)

\* ServedWhenPlayed with what makes it inductive.  The types need RowsFound.
ServedInv == TypeOK /\ ServedWhenPlayed /\ \A c \in Clients : Relies(c)

-----------------------------------------------------------------------------
(* Operators.                                                              *)

Less == {pair \in Nat \X Nat : pair[1] < pair[2]}

LEMMA LeastOfNats ==
    ASSUME NEW S \in SUBSET Nat, S # {}
    PROVE  \E n \in S : \A m \in S : n <= m
  <1>1. IsWellFoundedOn(Less, Nat)
    <2>1. Less = OpToRel(<, Nat)
      BY DEF OpToRel, Less
    <2> QED
      BY <2>1, NatLessThanWellFounded
  <1>2. PICK n \in S : \A m \in S : <<m, n>> \notin Less
    BY <1>1, WFMin
  <1>3. ASSUME NEW m \in S PROVE n <= m
    <2>1. m \in Nat /\ n \in Nat /\ <<m, n>> \notin Less
      BY <1>2
    <2> QED
      BY <2>1 DEF Less
  <1> QED
    BY <1>3

\* The next match of a team is a match: among the later rounds one is first.
LEMMA NextTeamMatchType ==
    ASSUME NEW match \in Matches, NEW team \in Teams
    PROVE  findNextTeamMatch(match, team) \in Matches \cup {Null}
  <1> DEFINE later == {m \in Matches : /\ Fixtures[m].round > Fixtures[match].round
                                       /\ team \in Fixtures[m].teams}
             First(m) == \A n \in later : Fixtures[m].round <= Fixtures[n].round
  <1>1. CASE later = {}
    BY <1>1 DEF findNextTeamMatch
  <1>2. CASE later # {}
    <2> DEFINE rounds == {Fixtures[m].round : m \in later}
    <2>1. rounds \in SUBSET Nat
      BY SuspensionsAssumption
    <2>2. rounds # {}
      BY <1>2
    <2> HIDE DEF rounds
    <2>3. PICK r \in rounds : \A s \in rounds : r <= s
      BY <2>1, <2>2, LeastOfNats
    <2>4. \E m \in later : First(m)
      BY <2>3 DEF rounds
    <2>5. (CHOOSE m \in later : First(m)) \in later
      BY <2>4
    <2> QED
      BY <1>2, <2>5 DEF findNextTeamMatch
  <1> QED
    BY <1>1, <1>2

\* A list in a report body is a sequence of bodies.
LEMMA EventListType ==
    ASSUME NEW list \in EventLists
    PROVE  /\ Len(list) \in Nat
           /\ \A i \in 1..Len(list) : list[i] \in Bodies
  <1>1. list \in Seq(EventInputs)
    <2>1. PICK n \in 0..MaxReportEvents : list \in [1..n -> EventInputs]
      BY DEF EventLists
    <2>2. n \in Nat
      BY SuspensionsAssumption
    <2> QED
      BY <2>1, <2>2, SeqDef
  <1> QED
    BY <1>1, LenProperties, SuspensionsAssumption

LEMMA RowType ==
    ASSUME NEW match \in Matches, NEW body \in Bodies, NEW source \in Sources
    PROVE  Row(match, body, source) \in Rows
  BY DEF Row, Rows, Bodies

LEMMA NullIsNoId == Null \notin EventIds
  BY SuspensionsAssumption DEF EventIds

LEMMA NullIsNoRow ==
    Null \notin Bodies /\ Null \notin Suspended /\ Null \notin Matches /\ Null # "SERVED"
  BY SuspensionsAssumption DEF SuspensionStatuses

-----------------------------------------------------------------------------
(* Types.                                                                  *)

\* What a request holds at each group of awaits.
EventCalls ==
    [at : {"event.status", "event"}, match : Matches, id : EventIds,
     body : Bodies \cup {Null}, wasCard : BOOLEAN]
    \cup [at : {"event"}, match : Matches, id : EventIds \cup {Null},
          body : Bodies, wasCard : BOOLEAN]
ReportCalls == [at : {"report.red", "report.delete", "report.create"}, match : Matches,
                list : EventLists]
UpsertCalls == [at : {"sync.find", "sync.update", "sync.create"}, loop : Loops,
                player : Players, team : Teams, reason : Reasons,
                effective : {<<m>> : m \in Matches} \cup Matches \X Matches]

LEMMA CallShape ==
    ASSUME TypeOK, NEW c \in Clients
    PROVE  /\ call[c].at \in {"event.status", "event"} => call[c] \in EventCalls
           /\ At(c, "event.red") =>
                call[c] \in [at : {"event.red"}, match : Matches,
                             id : EventIds \cup {Null}, body : Bodies, wasCard : BOOLEAN]
           /\ call[c].at \in {"report.red", "report.delete", "report.create"} =>
                call[c] \in ReportCalls
           /\ At(c, "status") =>
                call[c] \in [at : {"status"}, match : Matches, finish : BOOLEAN]
           /\ call[c].at \in {"served", "sync"} =>
                call[c] \in [at : {"served", "sync"}, match : Matches]
           /\ At(c, "sync.events") =>
                call[c] \in [at : {"sync.events"}, match : Matches, open : BOOLEAN]
           /\ At(c, "sync.card") => call[c] \in Loops
           /\ call[c].at \in {"sync.find", "sync.update", "sync.create"} =>
                call[c] \in UpsertCalls
           /\ At(c, "sync.cancel") =>
                call[c] \in [at : {"sync.cancel"}, match : Matches, stale : SUBSET Keys]
  BY DEF TypeOK, Calls, Idle, At, EventCalls, ReportCalls, Loops, UpsertCalls

LEMMA GotoType ==
    ASSUME call \in [Clients -> Calls], NEW c \in Clients, NEW next \in Calls,
           Goto(c, next)
    PROVE  call' \in [Clients -> Calls]
  BY DEF Goto

LEMMA ReplyType ==
    ASSUME call \in [Clients -> Calls], NEW c \in Clients, Reply(c)
    PROVE  call' \in [Clients -> Calls]
  BY GotoType DEF Reply, Calls

LEMMA TypeInit == Init => TypeOK
  <1> SUFFICES ASSUME Init PROVE TypeOK
    OBVIOUS
  <1>1. call \in [Clients -> Calls]
    BY DEF Init, Calls
  <1> QED
    BY <1>1, SuspensionsAssumption DEF Init, TypeOK

LEMMA AfterEventType ==
    ASSUME TypeOK, NEW c \in Clients, NEW match \in Matches, NEW card,
           AfterEvent(c, match, card)
    PROVE  call' \in [Clients -> Calls] /\ unsynced' \subseteq Matches
  <1>1. [at |-> "sync", match |-> match] \in Calls
    BY DEF Calls
  <1> QED
    BY <1>1, GotoType, ReplyType DEF AfterEvent, TypeOK

LEMMA EventType ==
    ASSUME TypeOK, NEW c \in Clients, EventStep(c)
    PROVE  TypeOK'
  <1>1. ASSUME NEW match \in Matches, NEW body \in EventInputs, AddEventBegin(c, match, body)
        PROVE  TypeOK'
    <2>1. body \in Bodies
      BY SuspensionsAssumption
    <2>2. [at |-> Checked(body), match |-> match, id |-> Null, body |-> body,
           wasCard |-> FALSE] \in Calls
      BY <2>1 DEF Calls, Checked
    <2> QED
      BY <1>1, <2>2, GotoType DEF AddEventBegin, TypeOK, rows
  <1>2. ASSUME NEW id \in EventIds, NEW body \in EventInputs \cup {Null},
               ChangeEventBegin(c, id, body)
        PROVE  TypeOK'
    <2>1. body \in Bodies \cup {Null}
      BY SuspensionsAssumption
    <2>2. events[id].match \in Matches
      BY <1>2 DEF ChangeEventBegin, Live, TypeOK, Rows
    <2>3. [at |-> "event.status", match |-> events[id].match, id |-> id,
           body |-> body, wasCard |-> IsCard(events[id].type)] \in Calls
      BY <2>1, <2>2 DEF Calls, IsCard
    <2> QED
      BY <1>2, <2>3, GotoType DEF ChangeEventBegin, TypeOK, rows
  <1>3. CASE ChangeEventStatus(c)
    <2>1. call[c] \in [at : {"event.status"}, match : Matches, id : EventIds,
                       body : Bodies \cup {Null}, wasCard : BOOLEAN]
      BY <1>3, CallShape DEF ChangeEventStatus, At, EventCalls
    <2>2. [call[c] EXCEPT !.at = Checked(call[c].body)] \in Calls
      BY <2>1, NullIsNoRow DEF Calls, Checked
    <2> QED
      BY <1>3, <2>2, GotoType, ReplyType DEF ChangeEventStatus, Continue, TypeOK, rows
  <1>4. CASE assertSingleRedCardPerPlayer(c)
    <2>1. [call[c] EXCEPT !.at = "event"] \in Calls
      BY <1>4, CallShape DEF assertSingleRedCardPerPlayer, Calls
    <2> QED
      BY <1>4, <2>1, GotoType, ReplyType
      DEF assertSingleRedCardPerPlayer, Continue, TypeOK, rows
  <1>5. CASE AddEventWrite(c)
    <2>1. call[c] \in EventCalls
      BY <1>5, CallShape DEF AddEventWrite, At
    <2>2. Row(call[c].match, call[c].body, "MANUAL") \in Rows
      <3>1. call[c].match \in Matches /\ call[c].body \in Bodies
        BY <1>5, <2>1, NullIsNoId DEF AddEventWrite, EventCalls
      <3> QED
        BY <3>1, RowType DEF Sources
    <2>3. events' \in [EventIds -> Rows \cup {Null}] /\ created' \in 0..MaxEvents
      BY <1>5, <2>2, SuspensionsAssumption DEF AddEventWrite, TypeOK, EventIds
    <2> QED
      BY <1>5, <2>1, <2>3, AfterEventType DEF AddEventWrite, TypeOK, EventCalls
  <1>6. CASE UpdateEventWrite(c)
    <2>1. call[c] \in EventCalls
      BY <1>6, CallShape DEF UpdateEventWrite, At
    <2>2. ASSUME call[c].id \in Live
          PROVE  Row(call[c].match, call[c].body, events[call[c].id].source) \in Rows
      <3>1. call[c].match \in Matches /\ call[c].body \in Bodies
        BY <1>6, <2>1 DEF UpdateEventWrite, EventCalls
      <3>2. events[call[c].id].source \in Sources
        BY <2>2 DEF Live, TypeOK, Rows
      <3> QED
        BY <3>1, <3>2, RowType
    <2>3. events' \in [EventIds -> Rows \cup {Null}]
      BY <1>6, <2>2 DEF UpdateEventWrite, TypeOK
    <2> QED
      BY <1>6, <2>1, <2>3, AfterEventType, ReplyType DEF UpdateEventWrite, TypeOK, EventCalls
  <1>7. CASE RemoveEventWrite(c)
    <2>1. call[c] \in EventCalls
      BY <1>7, CallShape DEF RemoveEventWrite, At
    <2>2. events' \in [EventIds -> Rows \cup {Null}]
      BY <1>7 DEF RemoveEventWrite, TypeOK
    <2> QED
      BY <1>7, <2>1, <2>2, AfterEventType, ReplyType DEF RemoveEventWrite, TypeOK, EventCalls
  <1> QED
    BY <1>1, <1>2, <1>3, <1>4, <1>5, <1>6, <1>7 DEF EventStep

LEMMA MatchType ==
    ASSUME TypeOK, NEW c \in Clients, MatchStep(c)
    PROVE  TypeOK'
  <1>1. ASSUME NEW match \in Matches, NEW list \in EventLists, MatchReportBegin(c, match, list)
        PROVE  TypeOK'
    <2>1. [at |-> "report.red", match |-> match, list |-> list] \in Calls
      BY DEF Calls
    <2> QED
      BY <1>1, <2>1, GotoType DEF MatchReportBegin, TypeOK, rows
  <1>2. CASE MatchReportRed(c)
    <2>1. [call[c] EXCEPT !.at = "report.delete"] \in Calls
      BY <1>2, CallShape DEF MatchReportRed, At, Calls, ReportCalls
    <2> QED
      BY <1>2, <2>1, GotoType, ReplyType DEF MatchReportRed, Continue, TypeOK, rows
  <1>3. CASE MatchReportDelete(c)
    <2>1. call[c] \in ReportCalls
      BY <1>3, CallShape DEF MatchReportDelete, At
    <2>2. /\ [at |-> "sync", match |-> call[c].match] \in Calls
          /\ [call[c] EXCEPT !.at = "report.create"] \in Calls
      BY <2>1 DEF Calls, ReportCalls
    <2>3. call' \in [Clients -> Calls]
      BY <1>3, <2>2, GotoType DEF MatchReportDelete, Continue, TypeOK
    <2>4. events' \in [EventIds -> Rows \cup {Null}]
      BY <1>3 DEF MatchReportDelete, TypeOK
    <2> QED
      BY <1>3, <2>1, <2>3, <2>4 DEF MatchReportDelete, TypeOK, ReportCalls
  <1>4. CASE MatchReportCreate(c)
    <2> DEFINE match == call[c].match
               list == call[c].list
    <2>1. match \in Matches /\ list \in EventLists
      BY <1>4, CallShape DEF MatchReportCreate, At, ReportCalls
    <2>2. created \in Nat /\ Len(list) \in Nat
      BY <2>1, EventListType, SuspensionsAssumption DEF TypeOK
    <2>3. ASSUME NEW id \in created + 1 .. created + Len(list)
          PROVE  Row(match, list[id - created], "MATCH_REPORT") \in Rows
      <3>1. id - created \in 1..Len(list)
        BY <2>2
      <3>2. list[id - created] \in Bodies
        BY <2>1, <3>1, EventListType
      <3> QED
        BY <2>1, <3>2, RowType DEF Sources
    <2>4. events' \in [EventIds -> Rows \cup {Null}]
      BY <1>4, <2>3 DEF MatchReportCreate, TypeOK
    <2>5. created' \in 0..MaxEvents
      BY <1>4, <2>2, SuspensionsAssumption DEF MatchReportCreate
    <2>6. [at |-> "sync", match |-> match] \in Calls
      BY <2>1 DEF Calls
    <2>7. call' \in [Clients -> Calls]
      BY <1>4, <2>6, GotoType DEF MatchReportCreate, TypeOK
    <2> QED
      BY <1>4, <2>1, <2>4, <2>5, <2>7 DEF MatchReportCreate, TypeOK
  <1>5. ASSUME NEW match \in Matches, NEW finish \in BOOLEAN,
               UpdateStatusBegin(c, match, finish)
        PROVE  TypeOK'
    <2>1. [at |-> "status", match |-> match, finish |-> finish] \in Calls
      BY DEF Calls
    <2> QED
      BY <1>5, <2>1, GotoType DEF UpdateStatusBegin, TypeOK, rows
  <1>6. CASE UpdateStatusWrite(c)
    <2>1. call[c].match \in Matches /\ call[c].finish \in BOOLEAN
      BY <1>6, CallShape DEF UpdateStatusWrite
    <2>2. [at |-> "served", match |-> call[c].match] \in Calls
      BY <2>1 DEF Calls
    <2>3. call' \in [Clients -> Calls]
      BY <1>6, <2>2, GotoType, ReplyType DEF UpdateStatusWrite, TypeOK
    <2> QED
      BY <1>6, <2>1, <2>3 DEF UpdateStatusWrite, TypeOK
  <1>7. CASE markServedSuspensionsForMatch(c)
    <2>1. [call[c] EXCEPT !.at = "sync"] \in Calls
      BY <1>7, CallShape DEF markServedSuspensionsForMatch, At, Calls
    <2>2. suspensions' \in [Keys -> Suspended \cup {Null}]
      BY <1>7 DEF markServedSuspensionsForMatch, TypeOK, Suspended, SuspensionStatuses
    <2> QED
      BY <1>7, <2>1, <2>2, GotoType DEF markServedSuspensionsForMatch, Continue, TypeOK
  <1> QED
    BY <1>1, <1>2, <1>3, <1>4, <1>5, <1>6, <1>7 DEF MatchStep

\* The state of the loop of a sync without the cards it has dealt with.
LEMMA UpsertsType ==
    ASSUME TypeOK, NEW c \in Clients, At(c, "sync.card"), NEW card \in call[c].todo,
           NEW reason \in Reasons,
           NEW effective \in {<<>>} \cup {<<m>> : m \in Matches} \cup Matches \X Matches,
           Upserts(c, card, reason, effective)
    PROVE  call' \in [Clients -> Calls]
  <1> DEFINE rest == [call[c] EXCEPT !.todo = @ \ {card}]
  <1>1. call[c] \in Loops
    BY CallShape
  <1>2. rest \in Loops
    BY <1>1 DEF Loops
  <1>3. card.row.player \in Players /\ card.row.team \in Teams
    BY <1>1 DEF Loops, Cards, Rows
  <1>4. CASE effective = <<>>
    <2>1. rest \in Calls
      BY <1>2 DEF Calls
    <2> QED
      BY <1>4, <2>1, GotoType DEF Upserts, TypeOK
  <1>5. CASE effective # <<>>
    <2>1. effective \in {<<m>> : m \in Matches} \cup Matches \X Matches
      BY <1>5
    <2> HIDE DEF rest
    <2>2. [at |-> "sync.find", loop |-> rest, player |-> card.row.player,
           team |-> card.row.team, reason |-> reason, effective |-> effective] \in Calls
      BY <1>2, <1>3, <2>1 DEF Calls
    <2>3. Goto(c, [at |-> "sync.find", loop |-> rest, player |-> card.row.player,
                   team |-> card.row.team, reason |-> reason, effective |-> effective])
      BY <1>5 DEF Upserts, rest
    <2> QED
      BY <2>2, <2>3, GotoType DEF TypeOK
  <1> QED
    BY <1>4, <1>5

LEMMA NextMatchType ==
    ASSUME TypeOK, NEW c \in Clients, At(c, "sync.card"), NEW card \in call[c].todo
    PROVE  NextMatch(c, card) = <<>> \/ \E m \in Matches : NextMatch(c, card) = <<m>>
  <1>1. call[c].match \in Matches /\ card.row.team \in Teams
    BY CallShape DEF Loops, Cards, Rows
  <1> QED
    BY <1>1, NextTeamMatchType DEF NextMatch

\* The key of an upsert is of the sync's own match, and so is the rest of it.
LEMMA UpsertType ==
    ASSUME TypeOK, NEW c \in Clients,
           call[c].at \in {"sync.find", "sync.update", "sync.create"}
    PROVE  /\ UpsertKey(c) \in Keys /\ call[c].team \in Teams
           /\ AfterUpsert(c) => call' \in [Clients -> Calls]
  <1>1. call[c] \in UpsertCalls
    BY CallShape
  <1>2. call[c].loop \in Loops
    BY <1>1 DEF UpsertCalls
  <1>3. CASE call[c].effective \in {<<m>> : m \in Matches}
    <2>1. PICK m \in Matches : call[c].effective = <<m>>
      BY <1>3
    <2>2. Head(call[c].effective) = m /\ Tail(call[c].effective) = <<>>
      BY <2>1
    <2>3. UpsertKey(c) \in Keys
      BY <1>1, <1>2, <2>2 DEF UpsertKey, UpsertCalls, Loops, Keys
    <2>4. call[c].loop \in Calls
      BY <1>2 DEF Calls
    <2> QED
      BY <1>1, <2>2, <2>3, <2>4, GotoType DEF AfterUpsert, TypeOK, UpsertCalls
  <1>4. CASE call[c].effective \in Matches \X Matches
    <2>1. PICK m \in Matches, n \in Matches : call[c].effective = <<m, n>>
      BY <1>4
    <2>2. Head(call[c].effective) = m /\ Tail(call[c].effective) = <<n>>
      BY <2>1
    <2>3. UpsertKey(c) \in Keys
      BY <1>1, <1>2, <2>2 DEF UpsertKey, UpsertCalls, Loops, Keys
    <2>4. [call[c] EXCEPT !.at = "sync.find", !.effective = <<n>>] \in UpsertCalls
      BY <1>1 DEF UpsertCalls
    <2>5. [call[c] EXCEPT !.at = "sync.find", !.effective = <<n>>] \in Calls
      BY <2>4 DEF Calls, UpsertCalls
    <2>6. Tail(call[c].effective) # <<>>
      BY <2>2
    <2> QED
      BY <1>1, <2>2, <2>3, <2>5, <2>6, GotoType DEF AfterUpsert, TypeOK, UpsertCalls
  <1> QED
    BY <1>1, <1>3, <1>4 DEF UpsertCalls

LEMMA TwoMatches ==
    ASSUME NEW m \in Matches, NEW n \in Matches
    PROVE  <<m>> \o <<n>> = <<m, n>>
  <1> DEFINE s == <<m>> \o <<n>>
             t == <<m, n>>
  <1>1. <<m>> \in Seq(Matches) /\ <<n>> \in Seq(Matches)
    OBVIOUS
  <1>2. s \in Seq(Matches) /\ Len(s) = 2 /\ s[1] = m /\ s[2] = n
    BY <1>1, ConcatProperties
  <1>3. t \in Seq(Matches) /\ Len(t) = 2 /\ t[1] = m /\ t[2] = n
    OBVIOUS
  <1> HIDE DEF s, t
  <1>4. \A i \in 1..Len(s) : s[i] = t[i]
    BY <1>2, <1>3
  <1>5. s = t
    BY <1>2, <1>3, <1>4, SeqEqual
  <1> QED
    BY <1>5 DEF s, t

LEMMA SyncType ==
    ASSUME TypeOK, NEW c \in Clients, RowsFound(c), SyncStep(c)
    PROVE  TypeOK'
  <1>1. CASE SyncMatch(c)
    <2>1. call[c].match \in Matches
      BY <1>1, CallShape DEF SyncMatch, At
    <2>2. [at |-> "sync.events", match |-> call[c].match,
           open |-> ~finished[call[c].match]] \in Calls
      BY <2>1 DEF Calls
    <2> QED
      BY <1>1, <2>2, GotoType DEF SyncMatch, TypeOK, rows
  <1>2. CASE SyncEvents(c)
    <2> DEFINE cards == CardsOf(call[c].match)
               reds == {<<events[id].player, events[id].team>> :
                            id \in {i \in cards : events[i].type = "RED_CARD"}}
               todo == {[id |-> id, row |-> events[id]] : id \in cards}
    <2>1. call[c].match \in Matches /\ call[c].open \in BOOLEAN
      BY <1>2, CallShape DEF SyncEvents
    <2>2. ASSUME NEW id \in cards
          PROVE  id \in EventIds /\ events[id] \in Rows /\ IsCard(events[id].type)
      BY DEF CardsOf, Live, TypeOK
    <2>3. reds \subseteq Players \X Teams
      BY <2>2 DEF Rows
    <2>4. todo \subseteq Cards
      BY <2>2 DEF Cards
    <2> HIDE DEF reds, todo
    <2>5. [at |-> "sync.card", match |-> call[c].match, open |-> call[c].open,
           reds |-> reds, todo |-> todo] \in Calls
      BY <2>1, <2>3, <2>4 DEF Calls, Loops
    <2>6. Goto(c, [at |-> "sync.card", match |-> call[c].match, open |-> call[c].open,
                   reds |-> reds, todo |-> todo])
      BY <1>2 DEF SyncEvents, reds, todo
    <2> QED
      BY <1>2, <2>5, <2>6, GotoType DEF SyncEvents, TypeOK, rows
  <1>3. ASSUME NEW card \in call[c].todo, createSuspensionsForRedCard(c, card)
        PROVE  TypeOK'
    <2> DEFINE here == IF call[c].open THEN <<call[c].match>> ELSE <<>>
    <2>1. At(c, "sync.card") /\ Upserts(c, card, "RED_CARD", here \o NextMatch(c, card))
      BY <1>3 DEF createSuspensionsForRedCard
    <2>2. call[c].match \in Matches
      BY <2>1, CallShape DEF Loops
    <2>3. here = <<>> \/ here = <<call[c].match>>
      OBVIOUS
    <2> HIDE DEF here
    <2>4. here \o NextMatch(c, card)
            \in {<<>>} \cup {<<m>> : m \in Matches} \cup Matches \X Matches
      <3>1. CASE NextMatch(c, card) = <<>>
        BY <2>2, <2>3, <3>1
      <3>2. CASE \E m \in Matches : NextMatch(c, card) = <<m>>
        <4>1. PICK m \in Matches : NextMatch(c, card) = <<m>>
          BY <3>2
        <4>2. CASE here = <<>>
          <5>1. here \o <<m>> = <<m>>
            BY <4>2
          <5> QED
            BY <4>1, <5>1
        <4>3. CASE here = <<call[c].match>>
          <5>1. here \o <<m>> = <<call[c].match, m>>
            BY <2>2, <4>3, TwoMatches
          <5> QED
            BY <2>2, <4>1, <5>1
        <4> QED
          BY <2>3, <4>2, <4>3
      <3> QED
        BY <2>1, <3>1, <3>2, NextMatchType
    <2>5. call' \in [Clients -> Calls]
      BY <2>1, <2>4, UpsertsType DEF Reasons
    <2> QED
      BY <1>3, <2>5 DEF createSuspensionsForRedCard, TypeOK, rows
  <1>4. ASSUME NEW card \in call[c].todo, SyncYellowCard(c, card)
        PROVE  TypeOK'
    <2>1. At(c, "sync.card")
      BY <1>4 DEF SyncYellowCard
    <2>2. PICK effective \in {<<>>, NextMatch(c, card)} :
            Upserts(c, card, "ACCUMULATED_YELLOW_CARDS", effective)
      BY <1>4 DEF SyncYellowCard
    <2>3. effective \in {<<>>} \cup {<<m>> : m \in Matches} \cup Matches \X Matches
      BY <2>1, <2>2, NextMatchType
    <2>4. call' \in [Clients -> Calls]
      BY <2>1, <2>2, <2>3, UpsertsType DEF Reasons
    <2> QED
      BY <1>4, <2>4 DEF SyncYellowCard, TypeOK, rows
  <1>5. CASE UpsertFind(c)
    <2>1. call[c] \in UpsertCalls
      BY <1>5, CallShape DEF UpsertFind, At
    <2>2. PICK label \in {"sync.update", "sync.create"} : Continue(c, label)
      BY <1>5 DEF UpsertFind
    <2>3. [call[c] EXCEPT !.at = label] \in Calls
      BY <2>1 DEF Calls, UpsertCalls
    <2> QED
      BY <1>5, <2>2, <2>3, GotoType DEF UpsertFind, Continue, TypeOK, rows
  <1>6. CASE UpsertUpdate(c)
    <2>1. UpsertKey(c) \in Keys /\ call' \in [Clients -> Calls]
      BY <1>6, UpsertType DEF UpsertUpdate, At
    <2>2. suspensions' \in [Keys -> Suspended \cup {Null}]
      <3>1. suspensions[UpsertKey(c)] \in Suspended
        BY <1>6, <2>1 DEF UpsertUpdate, RowsFound, TypeOK
      <3> QED
        BY <1>6, <2>1, <3>1 DEF UpsertUpdate, TypeOK, Suspended, SuspensionStatuses
    <2> QED
      BY <1>6, <2>1, <2>2 DEF UpsertUpdate, TypeOK
  <1>7. CASE UpsertCreate(c)
    <2>1. /\ UpsertKey(c) \in Keys /\ call[c].team \in Teams
          /\ AfterUpsert(c) => call' \in [Clients -> Calls]
      BY <1>7, UpsertType DEF UpsertCreate, At
    <2>2. call' \in [Clients -> Calls]
      BY <1>7, <2>1, ReplyType DEF UpsertCreate, TypeOK
    <2>3. suspensions' \in [Keys -> Suspended \cup {Null}]
      BY <1>7, <2>1 DEF UpsertCreate, TypeOK, Suspended, SuspensionStatuses
    <2> QED
      BY <1>7, <2>2, <2>3 DEF UpsertCreate, TypeOK
  <1>8. CASE SyncActive(c)
    <2>1. PICK stale \in SUBSET Keys :
            Goto(c, [at |-> "sync.cancel", match |-> call[c].match, stale |-> stale])
      BY <1>8 DEF SyncActive
    <2>2. call[c].match \in Matches
      BY <1>8, CallShape DEF SyncActive, Loops
    <2>3. [at |-> "sync.cancel", match |-> call[c].match, stale |-> stale] \in Calls
      BY <2>2 DEF Calls
    <2> QED
      BY <1>8, <2>1, <2>3, GotoType DEF SyncActive, TypeOK, rows
  <1>9. ASSUME NEW key \in call[c].stale, CancelSuspension(c, key)
        PROVE  TypeOK'
    <2>1. call[c] \in [at : {"sync.cancel"}, match : Matches, stale : SUBSET Keys]
      BY <1>9, CallShape DEF CancelSuspension
    <2>2. [call[c] EXCEPT !.stale = @ \ {key}] \in Calls
      BY <2>1 DEF Calls
    <2>3. suspensions' \in [Keys -> Suspended \cup {Null}]
      <3>1. key \in Keys /\ suspensions[key] \in Suspended
        BY <1>9, <2>1 DEF CancelSuspension, RowsFound, TypeOK
      <3> QED
        BY <1>9, <3>1 DEF CancelSuspension, TypeOK, Suspended, SuspensionStatuses
    <2> QED
      BY <1>9, <2>2, <2>3, GotoType DEF CancelSuspension, TypeOK
  <1>10. CASE SyncEnd(c)
    BY <1>10, ReplyType DEF SyncEnd, TypeOK
  <1> QED
    BY <1>1, <1>2, <1>3, <1>4, <1>5, <1>6, <1>7, <1>8, <1>9, <1>10 DEF SyncStep

LEMMA TypeStep ==
    ASSUME TypeOK, \A c \in Clients : RowsFound(c), [Next]_vars
    PROVE  TypeOK'
  <1>1. ASSUME NEW c \in Clients, Fail(c) PROVE TypeOK'
    BY <1>1, ReplyType DEF Fail, TypeOK, rows
  <1>2. CASE UNCHANGED vars
    BY <1>2 DEF vars, rows, TypeOK
  <1> QED
    BY <1>1, <1>2, EventType, MatchType, SyncType DEF Next

-----------------------------------------------------------------------------
(* What a step does to the requests and rows of ServedInv.                 *)

\* A request changes its own local state only.
OwnCall(c) == \E next : Goto(c, next)

\* No statement deletes a suspension, a match that has been FINISHED has been so
\* forever, and whatever becomes SERVED is for such a match.
Kept ==
    /\ \A key \in Keys : suspensions[key] # Null => suspensions'[key] # Null
    /\ played \subseteq played'
    /\ \A key \in Keys : Status(key)' = "SERVED" =>
            Status(key) = "SERVED" \/ key.effective \in played

StepKeeps(c) == OwnCall(c) /\ Kept /\ Relies(c)'

\* A step that changes neither suspensions nor history, to an await where
\* nothing is relied on.
Quiet(c) ==
    /\ OwnCall(c)
    /\ UNCHANGED <<suspensions, played>>
    /\ call'[c].at \notin {"served", "sync.update", "sync.cancel"}

LEMMA GotoAt ==
    ASSUME TypeOK, NEW c \in Clients, NEW next, Goto(c, next)
    PROVE  OwnCall(c) /\ call'[c] = next
  BY DEF TypeOK, OwnCall, Goto

LEMMA ReplyAt ==
    ASSUME TypeOK, NEW c \in Clients, Reply(c)
    PROVE  OwnCall(c) /\ call'[c].at = "idle"
  BY GotoAt DEF Reply, Idle

LEMMA QuietKeeps ==
    ASSUME TypeOK, NEW c \in Clients, Quiet(c)
    PROVE  StepKeeps(c)
  BY DEF Quiet, StepKeeps, Kept, Relies, RowsFound, At, Status

LEMMA ContinueAt ==
    ASSUME TypeOK, NEW c \in Clients, NEW label, Continue(c, label)
    PROVE  OwnCall(c) /\ call'[c].at = label
  <1>1. OwnCall(c) /\ call'[c] = [call[c] EXCEPT !.at = label]
    BY GotoAt DEF Continue
  <1>2. call[c] \in Calls
    BY DEF TypeOK
  <1>3. ASSUME NEW r \in Calls PROVE [r EXCEPT !.at = label].at = label
    BY DEF Calls, Idle, Loops
  <1> QED
    BY <1>1, <1>2, <1>3

LEMMA EventQuiet ==
    ASSUME TypeOK, NEW c \in Clients, EventStep(c)
    PROVE  Quiet(c)
  <1>1. ASSUME NEW match, NEW body, AddEventBegin(c, match, body) PROVE Quiet(c)
    BY <1>1, GotoAt DEF AddEventBegin, Checked, Quiet, rows
  <1>2. ASSUME NEW id, NEW body, ChangeEventBegin(c, id, body) PROVE Quiet(c)
    BY <1>2, GotoAt DEF ChangeEventBegin, Quiet, rows
  <1>3. CASE ChangeEventStatus(c)
    BY <1>3, ContinueAt, ReplyAt DEF ChangeEventStatus, Checked, Quiet, rows
  <1>4. CASE assertSingleRedCardPerPlayer(c)
    BY <1>4, ContinueAt, ReplyAt DEF assertSingleRedCardPerPlayer, Quiet, rows
  <1>5. CASE AddEventWrite(c)
    BY <1>5, GotoAt, ReplyAt DEF AddEventWrite, AfterEvent, Quiet
  <1>6. CASE UpdateEventWrite(c)
    BY <1>6, GotoAt, ReplyAt DEF UpdateEventWrite, AfterEvent, Quiet
  <1>7. CASE RemoveEventWrite(c)
    BY <1>7, GotoAt, ReplyAt DEF RemoveEventWrite, AfterEvent, Quiet
  <1> QED
    BY <1>1, <1>2, <1>3, <1>4, <1>5, <1>6, <1>7 DEF EventStep

LEMMA MatchKeeps ==
    ASSUME TypeOK, NEW c \in Clients, Relies(c), MatchStep(c)
    PROVE  StepKeeps(c)
  <1>1. ASSUME NEW match, NEW list, MatchReportBegin(c, match, list) PROVE Quiet(c)
    BY <1>1, GotoAt DEF MatchReportBegin, Quiet, rows
  <1>2. CASE MatchReportRed(c)
    BY <1>2, ContinueAt, ReplyAt, QuietKeeps DEF MatchReportRed, Quiet, rows
  <1>3. CASE MatchReportDelete(c)
    BY <1>3, ContinueAt, GotoAt, QuietKeeps DEF MatchReportDelete, Quiet
  <1>4. CASE MatchReportCreate(c)
    BY <1>4, GotoAt, QuietKeeps DEF MatchReportCreate, Quiet
  <1>5. ASSUME NEW match, NEW finish, UpdateStatusBegin(c, match, finish) PROVE Quiet(c)
    BY <1>5, GotoAt DEF UpdateStatusBegin, Quiet, rows
  <1>6. CASE UpdateStatusWrite(c)
    <2>1. Kept
      BY <1>6 DEF UpdateStatusWrite, Kept, Status
    <2>2. CASE call[c].finish
      <3>1. OwnCall(c) /\ call'[c] = [at |-> "served", match |-> call[c].match]
        BY <1>6, <2>2, GotoAt DEF UpdateStatusWrite
      <3>2. call[c].match \in played'
        BY <1>6, <2>2 DEF UpdateStatusWrite
      <3> QED
        BY <2>1, <3>1, <3>2 DEF StepKeeps, Relies, RowsFound, At
    <2>3. CASE ~call[c].finish
      BY <1>6, <2>1, <2>3, ReplyAt
      DEF UpdateStatusWrite, StepKeeps, Relies, RowsFound, At
    <2> QED
      BY <2>2, <2>3
  <1>7. CASE markServedSuspensionsForMatch(c)
    <2>1. OwnCall(c) /\ call'[c].at = "sync"
      BY <1>7, ContinueAt DEF markServedSuspensionsForMatch
    <2>2. call[c].match \in played
      BY <1>7 DEF markServedSuspensionsForMatch, Relies
    <2>3. ASSUME NEW key \in Keys
          PROVE  /\ suspensions[key] # Null => suspensions'[key] # Null
                 /\ Status(key)' = "SERVED" =>
                        Status(key) = "SERVED" \/ key.effective \in played
      <3>1. CASE /\ key.effective = call[c].match /\ suspensions[key] # Null
                 /\ suspensions[key].status = "ACTIVE"
        <4>1. suspensions[key] \in Suspended
          BY <3>1 DEF TypeOK
        <4>2. [suspensions[key] EXCEPT !.status = "SERVED"] \in Suspended
          BY <4>1 DEF Suspended, SuspensionStatuses
        <4>3. suspensions'[key] \in Suspended
          BY <1>7, <3>1, <4>2 DEF markServedSuspensionsForMatch
        <4> QED
          BY <2>2, <3>1, <4>3, NullIsNoRow
      <3>2. CASE ~(/\ key.effective = call[c].match /\ suspensions[key] # Null
                   /\ suspensions[key].status = "ACTIVE")
        <4>1. suspensions'[key] = suspensions[key]
          BY <1>7, <3>2 DEF markServedSuspensionsForMatch
        <4> QED
          BY <4>1 DEF Status
      <3> QED
        BY <3>1, <3>2
    <2>4. Kept
      BY <1>7, <2>3 DEF markServedSuspensionsForMatch, Kept
    <2> QED
      BY <2>1, <2>4 DEF StepKeeps, Relies, RowsFound, At
  <1> QED
    BY <1>1, <1>2, <1>3, <1>4, <1>5, <1>6, <1>7, QuietKeeps DEF MatchStep

LEMMA SyncKeeps ==
    ASSUME TypeOK, NEW c \in Clients, Relies(c), SyncStep(c)
    PROVE  StepKeeps(c)
  <1>1. CASE SyncMatch(c)
    BY <1>1, GotoAt, QuietKeeps DEF SyncMatch, Quiet, rows
  <1>2. CASE SyncEvents(c)
    BY <1>2, GotoAt, QuietKeeps DEF SyncEvents, Quiet, rows
  <1>3. ASSUME NEW card \in call[c].todo,
               createSuspensionsForRedCard(c, card) \/ SyncYellowCard(c, card)
        PROVE  StepKeeps(c)
    <2>1. call[c] \in Loops
      BY <1>3, CallShape DEF createSuspensionsForRedCard, SyncYellowCard
    <2> DEFINE rest == [call[c] EXCEPT !.todo = @ \ {card}]
    <2>2. PICK reason, effective : Upserts(c, card, reason, effective)
      BY <1>3 DEF createSuspensionsForRedCard, SyncYellowCard
    <2>3. rest.at = "sync.card"
      BY <2>1 DEF Loops
    <2> DEFINE upsert == [at |-> "sync.find", loop |-> rest, player |-> card.row.player,
                          team |-> card.row.team, reason |-> reason, effective |-> effective]
               next == IF effective = <<>> THEN rest ELSE upsert
    <2>4. upsert.at = "sync.find"
      OBVIOUS
    <2>5. Goto(c, next)
      BY <2>2 DEF Upserts
    <2> HIDE DEF rest, upsert
    <2>6. next.at \in {"sync.card", "sync.find"}
      BY <2>3, <2>4
    <2> HIDE DEF next
    <2>7. OwnCall(c) /\ call'[c].at \in {"sync.card", "sync.find"}
      BY <2>5, <2>6, GotoAt
    <2> QED
      BY <1>3, <2>7, QuietKeeps DEF createSuspensionsForRedCard, SyncYellowCard, Quiet, rows
  <1>4. CASE UpsertFind(c)
    <2>1. OwnCall(c) /\ call'[c].at = IF suspensions[UpsertKey(c)] # Null
                                      THEN "sync.update" ELSE "sync.create"
      BY <1>4, ContinueAt DEF UpsertFind
    <2>2. UpsertKey(c)' = UpsertKey(c)
      <3>1. call[c] \in UpsertCalls
        BY <1>4, CallShape DEF UpsertFind, At
      <3>2. \E label : call'[c] = [call[c] EXCEPT !.at = label]
        BY <1>4, GotoAt DEF UpsertFind, Continue
      <3> QED
        BY <3>1, <3>2 DEF UpsertKey, UpsertCalls
    <2> QED
      BY <1>4, <2>1, <2>2 DEF UpsertFind, rows, StepKeeps, Kept, Relies, RowsFound, At, Status
  <1>5. CASE UpsertUpdate(c) \/ UpsertCreate(c)
    <2>1. UpsertKey(c) \in Keys /\ call[c].team \in Teams
      BY <1>5, UpsertType DEF UpsertUpdate, UpsertCreate, At
    <2>2. ASSUME AfterUpsert(c) PROVE OwnCall(c) /\ call'[c].at \in {"sync.card", "sync.find"}
      <3>1. call[c] \in UpsertCalls
        BY <1>5, CallShape DEF UpsertUpdate, UpsertCreate, At
      <3>2. call[c].loop.at = "sync.card"
        BY <3>1 DEF UpsertCalls, Loops
      <3>3. ASSUME NEW rest
            PROVE  [call[c] EXCEPT !.at = "sync.find", !.effective = rest].at = "sync.find"
        BY <3>1 DEF UpsertCalls
      <3> QED
        BY <2>2, <3>2, <3>3, GotoAt DEF AfterUpsert
    <2>3. OwnCall(c) /\ call'[c].at \in {"idle", "sync.card", "sync.find"}
      BY <1>5, <2>2, ReplyAt DEF UpsertUpdate, UpsertCreate
    <2>4. ASSUME NEW key \in Keys
          PROVE  \/ suspensions'[key] = suspensions[key]
                 \/ suspensions'[key] \in Suspended /\ suspensions'[key].status = "ACTIVE"
      <3>1. CASE UpsertUpdate(c)
        <4>1. suspensions[UpsertKey(c)] \in Suspended
          BY <2>1, <3>1 DEF UpsertUpdate, Relies, RowsFound, TypeOK
        <4> QED
          BY <2>1, <3>1, <4>1 DEF UpsertUpdate, TypeOK, Suspended, SuspensionStatuses
      <3>2. CASE UpsertCreate(c)
        BY <2>1, <3>2 DEF UpsertCreate, TypeOK, Suspended, SuspensionStatuses
      <3> QED
        BY <1>5, <3>1, <3>2
    <2>5. Kept
      BY <1>5, <2>4, NullIsNoRow DEF UpsertUpdate, UpsertCreate, Kept, Status
    <2> QED
      BY <2>3, <2>5 DEF StepKeeps, Relies, RowsFound, At
  <1>6. CASE SyncActive(c)
    <2> DEFINE stale == {key \in Keys :
            /\ key.source = call[c].match /\ key.reason = "RED_CARD"
            /\ suspensions[key] # Null /\ suspensions[key].status = "ACTIVE"
            /\ <<key.player, suspensions[key].team>> \notin call[c].reds}
    <2>1. OwnCall(c) /\ call'[c] = [at |-> "sync.cancel", match |-> call[c].match,
                                   stale |-> stale]
      BY <1>6, GotoAt DEF SyncActive
    <2>2. \A key \in stale : suspensions[key] # Null
      OBVIOUS
    <2> HIDE DEF stale
    <2> QED
      BY <1>6, <2>1, <2>2 DEF SyncActive, rows, StepKeeps, Kept, Relies, RowsFound, At, Status
  <1>7. ASSUME NEW key \in call[c].stale, CancelSuspension(c, key)
        PROVE  StepKeeps(c)
    <2>1. call[c] \in [at : {"sync.cancel"}, match : Matches, stale : SUBSET Keys]
      BY <1>7, CallShape DEF CancelSuspension
    <2>2. key \in Keys /\ suspensions[key] \in Suspended
      BY <1>7, <2>1 DEF CancelSuspension, Relies, RowsFound, TypeOK
    <2>3. /\ OwnCall(c) /\ call'[c].at = "sync.cancel"
          /\ call'[c].stale \subseteq call[c].stale
      BY <1>7, <2>1, GotoAt DEF CancelSuspension
    <2>4. ASSUME NEW k \in Keys
          PROVE  \/ suspensions'[k] = suspensions[k]
                 \/ suspensions'[k] \in Suspended /\ suspensions'[k].status = "CANCELLED"
      BY <1>7, <2>2 DEF CancelSuspension, TypeOK, Suspended, SuspensionStatuses
    <2>5. Kept
      BY <1>7, <2>4, NullIsNoRow DEF CancelSuspension, Kept, Status
    <2>6. RowsFound(c)'
      BY <1>7, <2>1, <2>3, <2>5 DEF CancelSuspension, Relies, RowsFound, At, Kept
    <2> QED
      BY <2>3, <2>5, <2>6 DEF StepKeeps, Relies, At
  <1>8. CASE SyncEnd(c)
    BY <1>8, ReplyAt, QuietKeeps DEF SyncEnd, Quiet
  <1> QED
    BY <1>1, <1>2, <1>3, <1>4, <1>5, <1>6, <1>7, <1>8 DEF SyncStep

LEMMA ClientKeeps ==
    ASSUME TypeOK, NEW c \in Clients, Relies(c),
           EventStep(c) \/ MatchStep(c) \/ SyncStep(c) \/ Fail(c)
    PROVE  StepKeeps(c)
  <1>1. CASE Fail(c)
    BY <1>1, ReplyAt, QuietKeeps DEF Fail, Quiet, rows
  <1> QED
    BY <1>1, EventQuiet, QuietKeeps, MatchKeeps, SyncKeeps

\* What the other requests rely on is Kept.
LEMMA OthersRely ==
    ASSUME TypeOK, NEW c \in Clients, StepKeeps(c), NEW d \in Clients \ {c}, Relies(d)
    PROVE  Relies(d)'
  <1>1. call'[d] = call[d]
    BY DEF StepKeeps, OwnCall, Goto, TypeOK
  <1>2. At(d, "served")' => call'[d].match \in played'
    BY <1>1 DEF StepKeeps, Kept, Relies, At
  <1>3. At(d, "sync.update")' => suspensions'[UpsertKey(d)'] # Null
    <2>1. At(d, "sync.update") => UpsertKey(d) \in Keys
      BY UpsertType DEF At
    <2>2. UpsertKey(d)' = UpsertKey(d)
      BY <1>1 DEF UpsertKey
    <2> QED
      BY <1>1, <2>1, <2>2 DEF StepKeeps, Kept, Relies, RowsFound, At
  <1>4. At(d, "sync.cancel")' => \A key \in call'[d].stale : suspensions'[key] # Null
    <2>1. At(d, "sync.cancel") => call[d].stale \subseteq Keys
      BY CallShape DEF At
    <2> QED
      BY <1>1, <2>1 DEF StepKeeps, Kept, Relies, RowsFound, At
  <1> QED
    BY <1>2, <1>3, <1>4 DEF Relies, RowsFound

LEMMA ServedInvInit == Init => ServedInv
  <1> SUFFICES ASSUME Init PROVE ServedInv
    OBVIOUS
  <1>1. ServedWhenPlayed
    BY NullIsNoRow DEF Init, ServedWhenPlayed, Status
  <1>2. \A c \in Clients : call[c].at = "idle"
    BY DEF Init, Idle
  <1> QED
    BY <1>1, <1>2, TypeInit DEF ServedInv, Relies, RowsFound, At

LEMMA ServedInvStep == ServedInv /\ [Next]_vars => ServedInv'
  <1> SUFFICES ASSUME ServedInv, [Next]_vars PROVE ServedInv'
    OBVIOUS
  <1>1. TypeOK /\ \A c \in Clients : Relies(c)
    BY DEF ServedInv
  <1>2. TypeOK'
    BY <1>1, TypeStep DEF Relies
  <1>3. ASSUME NEW c \in Clients, EventStep(c) \/ MatchStep(c) \/ SyncStep(c) \/ Fail(c)
        PROVE  ServedInv'
    <2>1. StepKeeps(c)
      BY <1>1, <1>3, ClientKeeps
    <2>2. \A d \in Clients : Relies(d)'
      BY <1>1, <2>1, OthersRely DEF StepKeeps
    <2>3. ServedWhenPlayed'
      BY <2>1 DEF StepKeeps, Kept, ServedInv, ServedWhenPlayed
    <2> QED
      BY <1>2, <2>2, <2>3 DEF ServedInv
  <1>4. CASE UNCHANGED vars
    BY <1>2, <1>4 DEF vars, rows, ServedInv, Relies, ServedWhenPlayed, Status, RowsFound, At, UpsertKey
  <1> QED
    BY <1>3, <1>4 DEF Next

-----------------------------------------------------------------------------
(* Results.                                                                *)

\* Every reachable state has rows of the types of the schema and requests with
\* the local variables of their await, whatever races and dies.
THEOREM TypeCorrect == Spec => []TypeOK
  <1>1. ServedInv => TypeOK
    BY DEF ServedInv
  <1> QED
    BY <1>1, ServedInvInit, ServedInvStep, PTL DEF Spec

\* A suspension is never SERVED before its match has been FINISHED, whatever
\* races and dies: markServedSuspensionsForMatch and the upserts of
\* match-lineup.service.ts.
THEOREM ServedOnlyWhenPlayed == Spec => []ServedWhenPlayed
  <1>1. ServedInv => ServedWhenPlayed
    BY DEF ServedInv
  <1> QED
    BY <1>1, ServedInvInit, ServedInvStep, PTL DEF Spec

-----------------------------------------------------------------------------
(* One request at a time.                                                  *)

\* The hypothesis of the properties that need it.
OneAtATime == \A c, d \in Clients : c = d

\* A player's cards name one team: the upsert of a suspension keeps the team
\* of the row it finds.
OneTeamPerPlayer ==
    \A a, b \in EventInputs : a.player = b.player => a.team = b.team

IsInput(player, team) == \E body \in EventInputs : body.player = player /\ body.team = team

\* Whoever has a card or a suspension has got it from an event of some body.
Traced ==
    /\ \A id \in Live : IsInput(events[id].player, events[id].team)
    /\ \A key \in Keys : suspensions[key] # Null => IsInput(key.player, suspensions[key].team)

Reds(match) == {id \in CardsOf(match) : events[id].type = "RED_CARD"}

\* What a request on an event has read about it and about red cards.
EventReads(c) ==
    /\ call[c].at \in {"event.status", "event.red", "event"} =>
        /\ call[c].body \in EventInputs \cup {Null}
        /\ call[c].id \in Live => /\ events[call[c].id].match = call[c].match
                                  /\ IsCard(events[call[c].id].type) = call[c].wasCard
    /\ At(c, "event") /\ call[c].body # Null /\ call[c].body.type = "RED_CARD" =>
        \A id \in Reds(call[c].match) :
            events[id].player = call[c].body.player => id = call[c].id

\* What a report has read: no red card of its list is there already, other than
\* those it is about to replace.
ReportReads(c) ==
    /\ call[c].at \in {"report.red", "report.delete", "report.create"} =>
        \A i, j \in DOMAIN call[c].list :
            /\ call[c].list[i].type = "RED_CARD" /\ call[c].list[j].type = "RED_CARD"
            /\ call[c].list[i].player = call[c].list[j].player
            => i = j
    /\ At(c, "report.delete") =>
        \A id \in Reds(call[c].match) : events[id].player \in RedPlayers(call[c].list)
            => events[id].source = "MATCH_REPORT"
    /\ At(c, "report.create") =>
        \A id \in Reds(call[c].match) : events[id].player \notin RedPlayers(call[c].list)

\* The status a request has read or written, and its match is one to sync.
StatusReads(c) ==
    /\ At(c, "status") => ~finished[call[c].match]
    /\ At(c, "served") => finished[call[c].match]
    /\ call[c].at \in {"served", "sync", "sync.events", "sync.card", "sync.cancel"} =>
        call[c].match \in unsynced
    /\ At(c, "sync.events") => call[c].open = ~finished[call[c].match]

\* The suspensions that a card is worth while its match is open, and later.
NextMatches(row) == {next \in Matches : next = findNextTeamMatch(row.match, row.team)}
Owed(row, open) ==
    IF row.type = "RED_CARD"
    THEN {Key(row.player, row.match, m, "RED_CARD") :
            m \in NextMatches(row) \cup (IF open THEN {row.match} ELSE {})}
    ELSE IF countSeasonYellowCards(row.player, row.team) % 2 = 0
    THEN {Key(row.player, row.match, m, "ACCUMULATED_YELLOW_CARDS") : m \in NextMatches(row)}
    ELSE {}

\* A loop of a sync is about the cards there are, and every card it has dealt
\* with has its suspensions, but for those pending.
LoopHolds(loop, pending) ==
    /\ loop.match \in unsynced
    /\ loop.open = ~finished[loop.match]
    /\ loop.reds = {<<events[id].player, events[id].team>> : id \in Reds(loop.match)}
    /\ \A card \in loop.todo : card.id \in CardsOf(loop.match) /\ card.row = events[card.id]
    /\ \A id \in CardsOf(loop.match) :
        \/ [id |-> id, row |-> events[id]] \in loop.todo
        \/ \A key \in Owed(events[id], loop.open) : Status(key) = "ACTIVE" \/ key \in pending

Pending(c) ==
    {Key(call[c].player, call[c].loop.match, call[c].effective[i], call[c].reason) :
        i \in DOMAIN call[c].effective}

\* What remains to be cancelled at the end of a sync is for no red card, and
\* nothing else is amiss.
CancelHolds(match, stale) ==
    /\ \A key \in stale : key.source = match /\ key.reason = "RED_CARD"
    /\ \A id \in CardsOf(match) : \A key \in Owed(events[id], ~finished[match]) :
        (key.reason = "RED_CARD" => OneTeamPerPlayer) =>
            Status(key) = "ACTIVE" /\ key \notin stale
    /\ \A key \in Keys \ stale :
        key.source = match /\ key.reason = "RED_CARD" /\ Status(key) = "ACTIVE" =>
            \E id \in Reds(match) : /\ events[id].player = key.player
                                    /\ events[id].team = suspensions[key].team

SyncReads(c) ==
    /\ At(c, "sync.card") => LoopHolds(call[c], {})
    /\ call[c].at \in {"sync.find", "sync.update", "sync.create"} =>
        LoopHolds(call[c].loop, Pending(c)) /\ IsInput(call[c].player, call[c].team)
    /\ At(c, "sync.cancel") => CancelHolds(call[c].match, call[c].stale)

Reads(c) == EventReads(c) /\ ReportReads(c) /\ StatusReads(c) /\ SyncReads(c)

\* Ids are handed out once.
NewIdsFree == \A id \in EventIds : id > created => events[id] = Null

\* RedCardSuspends and NoRedCardNoSuspension, of one match.
RedsSuspended(match) ==
    \A id \in Reds(match) : \A player \in Players, next \in Matches \cup {Null} :
        player = events[id].player /\ next = findNextTeamMatch(match, events[id].team) =>
            /\ ~finished[match] => Status(Key(player, match, match, "RED_CARD")) = "ACTIVE"
            /\ next # Null =>
                 Status(Key(player, match, next, "RED_CARD")) \in {"ACTIVE", "SERVED"}
OnlyReds(match) ==
    \A key \in Keys :
        key.source = match /\ key.reason = "RED_CARD" /\ Status(key) = "ACTIVE" =>
            \E id \in Reds(match) : /\ events[id].player = key.player
                                    /\ events[id].team = suspensions[key].team
Agrees(match) == (OneTeamPerPlayer => RedsSuspended(match)) /\ OnlyReds(match)

RowsInv ==
    /\ Traced /\ NewIdsFree
    /\ OneRedCardPerMatch
    /\ \A match \in Matches \ unsynced : Agrees(match)

\* OneRedCardPerMatch and CardsAndSuspensionsAgree with what makes them
\* inductive when nobody else writes between two statements of a request.
SoloInv == ServedInv /\ RowsInv /\ \A c \in Clients : Reads(c)

-----------------------------------------------------------------------------
(* Steps that only read.                                                   *)

LEMMA EventFacts ==
    ASSUME events' = events
    PROVE  /\ Live' = Live
           /\ \A match : CardsOf(match)' = CardsOf(match) /\ Reds(match)' = Reds(match)
           /\ \A row, open : Owed(row, open)' = Owed(row, open)
  BY DEF Live, CardsOf, Reds, Owed, countSeasonYellowCards, NextMatches, findNextTeamMatch, Key

LEMMA RowsQuiet ==
    ASSUME RowsInv, UNCHANGED rows
    PROVE  RowsInv'
  <1>1. /\ finished' = finished /\ events' = events /\ suspensions' = suspensions
        /\ created' = created /\ unsynced' = unsynced
    BY DEF rows
  <1>2. Live' = Live /\ \A match : CardsOf(match)' = CardsOf(match)
    BY <1>1, EventFacts
  <1>3. \A key : Status(key)' = Status(key)
    BY <1>1 DEF Status
  <1>4. Traced' /\ NewIdsFree' /\ OneRedCardPerMatch'
    BY <1>1, <1>2 DEF RowsInv, Traced, NewIdsFree, OneRedCardPerMatch
  <1>5. \A match : Agrees(match) => Agrees(match)'
    BY <1>1, <1>2, <1>3, EventFacts
       DEF Agrees, RedsSuspended, OnlyReds, findNextTeamMatch, Key
  <1> QED
    BY <1>1, <1>4, <1>5 DEF RowsInv

\* A request that ends relies on nothing.
LEMMA ReadsNothing ==
    ASSUME TypeOK, NEW c \in Clients, Reply(c)
    PROVE  Reads(c)'
  <1>1. call'[c].at = "idle"
    BY ReplyAt
  <1> QED
    BY <1>1 DEF Reads, EventReads, ReportReads, StatusReads, SyncReads, At

LEMMA ReadsSync ==
    ASSUME TypeOK, NEW c \in Clients, NEW match, match \in unsynced',
           Goto(c, [at |-> "sync", match |-> match])
    PROVE  Reads(c)'
  <1>1. call'[c].at = "sync" /\ call'[c].match = match
    BY GotoAt
  <1> QED
    BY <1>1 DEF Reads, EventReads, ReportReads, StatusReads, SyncReads, At

LEMMA NullIsNotLive == Null \notin Live
  BY NullIsNoId DEF Live

LEMMA EventSteps ==
    ASSUME TypeOK, NEW c \in Clients, Reads(c), UNCHANGED rows,
           \/ \E match \in Matches, body \in EventInputs : AddEventBegin(c, match, body)
           \/ \E id \in EventIds, body \in EventInputs \cup {Null} :
                ChangeEventBegin(c, id, body)
           \/ ChangeEventStatus(c) \/ assertSingleRedCardPerPlayer(c)
    PROVE  Reads(c)'
  <1>0. events' = events /\ Live' = Live /\ \A m : Reds(m)' = Reds(m)
    BY EventFacts DEF rows
  <1>1. ASSUME NEW match \in Matches, NEW body \in EventInputs, AddEventBegin(c, match, body)
        PROVE  Reads(c)'
    <2>1. call'[c] = [at |-> Checked(body), match |-> match, id |-> Null, body |-> body,
                      wasCard |-> FALSE]
      BY <1>1, GotoAt DEF AddEventBegin
    <2>2. body # Null
      BY SuspensionsAssumption, NullIsNoRow
    <2>3. /\ call'[c].at = Checked(body) /\ call'[c].body = body /\ call'[c].id = Null
          /\ Checked(body) = IF body.type = "RED_CARD" THEN "event.red" ELSE "event"
      BY <2>1, <2>2 DEF Checked
    <2>4. call'[c].id \notin Live'
      BY <1>0, <2>3, NullIsNotLive
    <2> QED
      BY <2>3, <2>4 DEF Reads, EventReads, ReportReads, StatusReads, SyncReads, At
  <1>2. ASSUME NEW id \in EventIds, NEW body \in EventInputs \cup {Null},
               ChangeEventBegin(c, id, body)
        PROVE  Reads(c)'
    <2>1. call'[c] = [at |-> "event.status", match |-> events[id].match, id |-> id,
                      body |-> body, wasCard |-> IsCard(events[id].type)]
      BY <1>2, GotoAt DEF ChangeEventBegin
    <2> QED
      BY <1>0, <2>1 DEF Reads, EventReads, ReportReads, StatusReads, SyncReads, At, IsCard
  <1>3. CASE ChangeEventStatus(c)
    <2>1. CASE finished[call[c].match]
      BY <1>3, <2>1, ReadsNothing DEF ChangeEventStatus
    <2>2. CASE ~finished[call[c].match]
      <3>1. call[c] \in EventCalls /\ At(c, "event.status")
        BY <1>3, CallShape DEF ChangeEventStatus, At
      <3>2. call'[c] = [call[c] EXCEPT !.at = Checked(call[c].body)]
        BY <1>3, <2>2, GotoAt DEF ChangeEventStatus, Continue
      <3>3. /\ call'[c].at = Checked(call[c].body) /\ call'[c].match = call[c].match
            /\ call'[c].body = call[c].body /\ call'[c].id = call[c].id
            /\ call'[c].wasCard = call[c].wasCard
        BY <3>1, <3>2 DEF EventCalls
      <3>4. CASE Checked(call[c].body) = "event.red"
        BY <1>0, <3>1, <3>3, <3>4
           DEF Reads, EventReads, ReportReads, StatusReads, SyncReads, At, IsCard
      <3>5. CASE Checked(call[c].body) # "event.red"
        <4>1. /\ Checked(call[c].body) = "event"
              /\ ~(call[c].body # Null /\ call[c].body.type = "RED_CARD")
          BY <3>5 DEF Checked
        <4> QED
          BY <1>0, <3>1, <3>3, <4>1
             DEF Reads, EventReads, ReportReads, StatusReads, SyncReads, At, IsCard
      <3> QED
        BY <3>4, <3>5
    <2> QED
      BY <2>1, <2>2
  <1>4. CASE assertSingleRedCardPerPlayer(c)
    <2> DEFINE other == \E id \in CardsOf(call[c].match) \ {call[c].id} :
                events[id].type = "RED_CARD" /\ events[id].player = call[c].body.player
    <2>1. CASE other
      BY <1>4, <2>1, ReadsNothing DEF assertSingleRedCardPerPlayer
    <2>2. CASE ~other
      <3>1. /\ call[c] \in [at : {"event.red"}, match : Matches,
                            id : EventIds \cup {Null}, body : Bodies, wasCard : BOOLEAN]
            /\ At(c, "event.red")
        BY <1>4, CallShape DEF assertSingleRedCardPerPlayer
      <3>2. call'[c] = [call[c] EXCEPT !.at = "event"]
        BY <1>4, <2>2, GotoAt DEF assertSingleRedCardPerPlayer, Continue
      <3>3. /\ call'[c].at = "event" /\ call'[c].match = call[c].match
            /\ call'[c].body = call[c].body /\ call'[c].id = call[c].id
            /\ call'[c].wasCard = call[c].wasCard
        BY <3>1, <3>2
      <3>4. \A id \in Reds(call[c].match) :
                events[id].player = call[c].body.player => id = call[c].id
        BY <2>2 DEF Reds
      <3> QED
        BY <1>0, <3>1, <3>3, <3>4
           DEF Reads, EventReads, ReportReads, StatusReads, SyncReads, At, IsCard
    <2> QED
      BY <2>1, <2>2
  <1> QED
    BY <1>1, <1>2, <1>3, <1>4

LEMMA MatchSteps ==
    ASSUME TypeOK, NEW c \in Clients, Reads(c), UNCHANGED rows,
           \/ \E match \in Matches, list \in EventLists : MatchReportBegin(c, match, list)
           \/ MatchReportRed(c)
           \/ \E match \in Matches, finish \in BOOLEAN : UpdateStatusBegin(c, match, finish)
    PROVE  Reads(c)'
  <1>0. /\ events' = events /\ finished' = finished /\ Live' = Live
        /\ \A m : Reds(m)' = Reds(m)
    BY EventFacts DEF rows
  <1>1. ASSUME NEW match \in Matches, NEW list \in EventLists, MatchReportBegin(c, match, list)
        PROVE  Reads(c)'
    <2>1. call'[c] = [at |-> "report.red", match |-> match, list |-> list]
      BY <1>1, GotoAt DEF MatchReportBegin
    <2> QED
      BY <1>1, <2>1
         DEF MatchReportBegin, Reads, EventReads, ReportReads, StatusReads, SyncReads, At
  <1>2. CASE MatchReportRed(c)
    <2> DEFINE other == \E id \in CardsOf(call[c].match) :
            /\ events[id].type = "RED_CARD" /\ events[id].source # "MATCH_REPORT"
            /\ events[id].player \in RedPlayers(call[c].list)
    <2>1. CASE other
      BY <1>2, <2>1, ReadsNothing DEF MatchReportRed
    <2>2. CASE ~other
      <3>1. call[c] \in ReportCalls /\ At(c, "report.red")
        BY <1>2, CallShape DEF MatchReportRed, At
      <3>2. call'[c] = [call[c] EXCEPT !.at = "report.delete"]
        BY <1>2, <2>2, GotoAt DEF MatchReportRed, Continue
      <3>3. /\ call'[c].at = "report.delete" /\ call'[c].match = call[c].match
            /\ call'[c].list = call[c].list
        BY <3>1, <3>2 DEF ReportCalls
      <3>4. \A id \in Reds(call[c].match) : events[id].player \in RedPlayers(call[c].list)
                => events[id].source = "MATCH_REPORT"
        BY <2>2 DEF Reds
      <3> QED
        BY <1>0, <3>1, <3>3, <3>4
           DEF Reads, EventReads, ReportReads, StatusReads, SyncReads, At, RedPlayers
    <2> QED
      BY <2>1, <2>2
  <1>3. ASSUME NEW match \in Matches, NEW finish \in BOOLEAN,
               UpdateStatusBegin(c, match, finish)
        PROVE  Reads(c)'
    <2>1. call'[c] = [at |-> "status", match |-> match, finish |-> finish]
      BY <1>3, GotoAt DEF UpdateStatusBegin
    <2> QED
      BY <1>0, <1>3, <2>1
         DEF UpdateStatusBegin, Reads, EventReads, ReportReads, StatusReads, SyncReads, At
  <1> QED
    BY <1>1, <1>2, <1>3

-----------------------------------------------------------------------------
(* The loop of a sync.                                                     *)

LEMMA OwedType ==
    ASSUME TypeOK, NEW id \in Live, NEW open
    PROVE  Owed(events[id], open) \subseteq Keys
  <1>1. /\ events[id].player \in Players /\ events[id].match \in Matches
        /\ NextMatches(events[id]) \subseteq Matches
    BY DEF Live, TypeOK, Rows, NextMatches
  <1>2. \A m \in Matches, reason \in Reasons :
            Key(events[id].player, events[id].match, m, reason) \in Keys
    BY <1>1 DEF Key, Keys
  <1> QED
    BY <1>1, <1>2 DEF Owed, Reasons

\* The loop goes on: what was ACTIVE is, and so is what is no longer pending.
LEMMA LoopKept ==
    ASSUME TypeOK, NEW loop, NEW before, NEW after, LoopHolds(loop, before),
           UNCHANGED <<events, finished, unsynced>>,
           \A key \in Keys : Status(key) = "ACTIVE" => Status(key)' = "ACTIVE",
           \A key \in before : key \in after \/ Status(key)' = "ACTIVE"
    PROVE  LoopHolds(loop, after)'
  <1>1. /\ \A m : CardsOf(m)' = CardsOf(m) /\ Reds(m)' = Reds(m)
        /\ \A row, open : Owed(row, open)' = Owed(row, open)
    BY EventFacts
  <1>2. ASSUME NEW id \in CardsOf(loop.match),
               [id |-> id, row |-> events[id]] \notin loop.todo,
               NEW key \in Owed(events[id], loop.open)
        PROVE  Status(key)' = "ACTIVE" \/ key \in after
    BY <1>2, OwedType DEF LoopHolds, CardsOf
  <1>3. \A id \in CardsOf(loop.match)' :
            \/ [id |-> id, row |-> events'[id]] \in loop.todo
            \/ \A key \in Owed(events[id], loop.open)' : Status(key)' = "ACTIVE" \/ key \in after
    <2>1. \A id : Owed(events[id], loop.open)' = Owed(events[id], loop.open)
      <3>1. events' = events
        OBVIOUS
      <3> QED
        BY <3>1 DEF Owed, countSeasonYellowCards, NextMatches, findNextTeamMatch, Key, Live
    <2> QED
      BY <1>1, <1>2, <2>1
  <1>4. /\ loop.match \in unsynced' /\ loop.open = ~finished'[loop.match]
        /\ loop.reds = {<<events'[id].player, events'[id].team>> : id \in Reds(loop.match)'}
        /\ \A card \in loop.todo : card.id \in CardsOf(loop.match)' /\ card.row = events'[card.id]
    BY <1>1 DEF LoopHolds
  <1> QED
    BY <1>3, <1>4 DEF LoopHolds

LEMMA ReadsLoop ==
    ASSUME TypeOK, NEW c \in Clients, NEW loop \in Loops, Goto(c, loop),
           LoopHolds(loop, {})'
    PROVE  Reads(c)'
  <1>1. call'[c] = loop /\ loop.at = "sync.card"
    BY GotoAt DEF Loops
  <1>2. loop.match \in unsynced'
    BY DEF LoopHolds
  <1>3. LoopHolds(call[c], {})'
    BY <1>1 DEF LoopHolds
  <1> QED
    BY <1>1, <1>2, <1>3 DEF Reads, EventReads, ReportReads, StatusReads, SyncReads, At

KeysFor(player, source, effective, reason) ==
    {Key(player, source, effective[i], reason) : i \in DOMAIN effective}

LEMMA ReadsUpsert ==
    ASSUME TypeOK, NEW c \in Clients, NEW next, Goto(c, next),
           next.at \in {"sync.find", "sync.update", "sync.create"},
           NEW pending,
           pending = KeysFor(next.player, next.loop.match, next.effective, next.reason),
           LoopHolds(next.loop, pending)', IsInput(next.player, next.team)
    PROVE  Reads(c)'
  <1>1. call'[c] = next
    BY GotoAt
  <1>2. Pending(c)' = pending
    BY <1>1 DEF Pending, KeysFor
  <1>3. LoopHolds(call[c].loop, Pending(c))'
    BY <1>1, <1>2 DEF LoopHolds
  <1> QED
    BY <1>1, <1>3 DEF Reads, EventReads, ReportReads, StatusReads, SyncReads, At, IsInput

LEMMA SyncBegins ==
    ASSUME TypeOK, NEW c \in Clients, Reads(c), UNCHANGED rows,
           SyncMatch(c) \/ SyncEvents(c)
    PROVE  Reads(c)'
  <1>0. events' = events /\ finished' = finished /\ unsynced' = unsynced
    BY DEF rows
  <1>1. CASE SyncMatch(c)
    <2>1. call'[c] = [at |-> "sync.events", match |-> call[c].match,
                      open |-> ~finished[call[c].match]]
      BY <1>1, GotoAt DEF SyncMatch
    <2>2. call[c].match \in unsynced
      BY <1>1 DEF SyncMatch, At, Reads, StatusReads
    <2> QED
      BY <1>0, <2>1, <2>2 DEF Reads, EventReads, ReportReads, StatusReads, SyncReads, At
  <1>2. CASE SyncEvents(c)
    <2> DEFINE match == call[c].match
               cards == CardsOf(match)
    <2>1. PICK loop :
            loop = [at |-> "sync.card", match |-> match, open |-> call[c].open,
                    reds |-> {<<events[id].player, events[id].team>> :
                                id \in {i \in cards : events[i].type = "RED_CARD"}},
                    todo |-> {[id |-> id, row |-> events[id]] : id \in cards}]
      OBVIOUS
    <2>2. Goto(c, loop) /\ At(c, "sync.events")
      BY <1>2, <2>1 DEF SyncEvents
    <2>3. match \in Matches /\ call[c].open \in BOOLEAN
      BY <2>2, CallShape
    <2>4. /\ loop.at = "sync.card" /\ loop.match = match /\ loop.open = call[c].open
          /\ loop.reds = {<<events[id].player, events[id].team>> : id \in Reds(match)}
          /\ loop.todo = {[id |-> id, row |-> events[id]] : id \in cards}
      BY <2>1 DEF Reds
    <2>5. loop \in Loops
      <3>1. \A id \in cards : events[id] \in Rows /\ IsCard(events[id].type) /\ id \in EventIds
        BY DEF CardsOf, Live, TypeOK
      <3>2. {[id |-> id, row |-> events[id]] : id \in cards} \subseteq Cards
        BY <3>1 DEF Cards
      <3>3. {<<events[id].player, events[id].team>> :
                id \in {i \in cards : events[i].type = "RED_CARD"}} \subseteq Players \X Teams
        BY <3>1 DEF Rows
      <3> QED
        BY <2>1, <2>3, <3>2, <3>3 DEF Loops
    <2>6. match \in unsynced /\ call[c].open = ~finished[match]
      BY <2>2 DEF At, Reads, StatusReads
    <2>7. LoopHolds(loop, {})
      BY <2>4, <2>6 DEF LoopHolds
    <2>8. \A key : Status(key)' = Status(key)
      BY <1>2 DEF SyncEvents, rows, Status
    <2>9. LoopHolds(loop, {})'
      BY <1>0, <2>7, <2>8, LoopKept
    <2> QED
      BY <2>2, <2>5, <2>9, ReadsLoop
  <1> QED
    BY <1>1, <1>2

\* The matches of NextMatch are those that Owed names.
LEMMA NextMatchFacts ==
    ASSUME NEW c \in Clients, NEW card, card.row.match = call[c].match,
           card.row.match \in Matches, card.row.team \in Teams
    PROVE  \/ NextMatch(c, card) = <<>> /\ NextMatches(card.row) = {}
           \/ \E m \in Matches : NextMatch(c, card) = <<m>> /\ NextMatches(card.row) = {m}
  <1> DEFINE next == findNextTeamMatch(call[c].match, card.row.team)
  <1>1. next \in Matches \cup {Null} /\ Null \notin Matches
    BY NextTeamMatchType, NullIsNoRow
  <1>2. NextMatches(card.row) = {m \in Matches : m = next}
    BY DEF NextMatches
  <1>3. NextMatch(c, card) = IF next = Null THEN <<>> ELSE <<next>>
    BY DEF NextMatch
  <1> HIDE DEF next
  <1> QED
    BY <1>1, <1>2, <1>3

\* Short sequences.
LEMMA KeysOfNone ==
    ASSUME NEW player, NEW source, NEW reason
    PROVE  KeysFor(player, source, <<>>, reason) = {}
  BY DEF KeysFor

LEMMA KeysOfOne ==
    ASSUME NEW player, NEW source, NEW reason, NEW m
    PROVE  KeysFor(player, source, <<m>>, reason) = {Key(player, source, m, reason)}
  BY DEF KeysFor

\* A card that the loop takes up leaves what it is owed pending.
LEMMA TakesUp ==
    ASSUME TypeOK, NEW c \in Clients, Reads(c), Traced, UNCHANGED rows,
           At(c, "sync.card"), NEW card \in call[c].todo,
           NEW reason \in Reasons, NEW effective, Upserts(c, card, reason, effective),
           Owed(card.row, call[c].open)
             = KeysFor(card.row.player, call[c].match, effective, reason)
    PROVE  Reads(c)'
  <1>0. events' = events /\ finished' = finished /\ unsynced' = unsynced
    BY DEF rows
  <1>1. call[c] \in Loops /\ LoopHolds(call[c], {})
    BY CallShape DEF Reads, SyncReads
  <1>2. PICK rest : rest = [call[c] EXCEPT !.todo = @ \ {card}]
    OBVIOUS
  <1>3. /\ rest \in Loops /\ rest.match = call[c].match /\ rest.open = call[c].open
        /\ rest.reds = call[c].reds /\ rest.todo = call[c].todo \ {card}
    BY <1>1, <1>2 DEF Loops
  <1>4. PICK pending : pending = KeysFor(card.row.player, call[c].match, effective, reason)
    OBVIOUS
  <1>5. /\ card.id \in CardsOf(call[c].match) /\ card.row = events[card.id]
        /\ card = [id |-> card.id, row |-> card.row]
    BY <1>1 DEF LoopHolds, Loops, Cards
  <1>6. LoopHolds(rest, pending)
    <2>1. ASSUME NEW id \in CardsOf(rest.match)
          PROVE  \/ [id |-> id, row |-> events[id]] \in rest.todo
                 \/ \A key \in Owed(events[id], rest.open) : Status(key) = "ACTIVE" \/ key \in pending
      <3>1. CASE [id |-> id, row |-> events[id]] = card
        BY <1>3, <1>4, <1>5, <3>1
      <3>2. CASE [id |-> id, row |-> events[id]] # card
        BY <1>1, <1>3, <3>2 DEF LoopHolds
      <3> QED
        BY <3>1, <3>2
    <2> QED
      BY <1>1, <1>3, <2>1 DEF LoopHolds
  <1>7. \A key : Status(key)' = Status(key)
    BY DEF rows, Status
  <1>8. LoopHolds(rest, pending)'
    BY <1>0, <1>6, <1>7, LoopKept
  <1>9. CASE effective = <<>>
    <2>1. pending = {} /\ Goto(c, rest)
      BY <1>2, <1>4, <1>9, KeysOfNone DEF Upserts
    <2> QED
      BY <1>3, <1>8, <2>1, ReadsLoop
  <1>10. CASE effective # <<>>
    <2>1. PICK next : next = [at |-> "sync.find", loop |-> rest, player |-> card.row.player,
                              team |-> card.row.team, reason |-> reason,
                              effective |-> effective]
      OBVIOUS
    <2>2. Goto(c, next)
      BY <1>2, <1>10, <2>1 DEF Upserts
    <2>3. /\ next.at = "sync.find" /\ next.loop = rest /\ next.player = card.row.player
          /\ next.team = card.row.team /\ next.reason = reason /\ next.effective = effective
      BY <2>1
    <2>4. IsInput(next.player, next.team)
      BY <1>5, <2>3 DEF Traced, CardsOf
    <2>5. pending = KeysFor(next.player, next.loop.match, next.effective, next.reason)
      BY <1>3, <1>4, <2>3
    <2>6. LoopHolds(next.loop, pending)'
      BY <1>8, <2>3 DEF LoopHolds
    <2> QED
      BY <2>2, <2>3, <2>4, <2>5, <2>6, ReadsUpsert
  <1> QED
    BY <1>9, <1>10

\* A player with a yellow card has some in the season.
LEMMA SomeYellow ==
    ASSUME TypeOK, NEW id \in Live, events[id].type = "YELLOW_CARD"
    PROVE  /\ countSeasonYellowCards(events[id].player, events[id].team) \in Nat
           /\ countSeasonYellowCards(events[id].player, events[id].team) > 0
  <1> DEFINE S == {i \in Live : /\ events[i].type = "YELLOW_CARD"
                                /\ events[i].player = events[id].player
                                /\ events[i].team = events[id].team}
  <1>1. IsFiniteSet(EventIds)
    BY FS_Interval, SuspensionsAssumption DEF EventIds
  <1>2. IsFiniteSet(S) /\ id \in S
    BY <1>1, FS_Subset DEF Live
  <1>3. Cardinality(S) \in Nat /\ Cardinality(S) # 0
    BY <1>2, FS_CardinalityType, FS_EmptySet
  <1> QED
    BY <1>3 DEF countSeasonYellowCards

LEMMA LoopTakesUp ==
    ASSUME TypeOK, NEW c \in Clients, Reads(c), Traced, UNCHANGED rows,
           At(c, "sync.card"), NEW card \in call[c].todo,
           createSuspensionsForRedCard(c, card) \/ SyncYellowCard(c, card)
    PROVE  Reads(c)'
  <1>1. call[c] \in Loops /\ LoopHolds(call[c], {})
    BY CallShape DEF Reads, SyncReads
  <1>2. /\ card.id \in CardsOf(call[c].match) /\ card.row = events[card.id]
        /\ card.row.match = call[c].match /\ card.row \in Rows
        /\ card.row.match \in Matches /\ card.row.team \in Teams
    BY <1>1 DEF LoopHolds, CardsOf, Live, TypeOK, Rows
  <1> DEFINE later == NextMatch(c, card)
  <1>3. \/ later = <<>> /\ NextMatches(card.row) = {}
        \/ \E m \in Matches : later = <<m>> /\ NextMatches(card.row) = {m}
    BY <1>2, NextMatchFacts
  <1>4. CASE createSuspensionsForRedCard(c, card)
    <2> DEFINE now == IF call[c].open THEN <<call[c].match>> ELSE <<>>
    <2>1. card.row.type = "RED_CARD" /\ Upserts(c, card, "RED_CARD", now \o later)
      BY <1>4 DEF createSuspensionsForRedCard
    <2>2. Owed(card.row, call[c].open)
            = {Key(card.row.player, call[c].match, m, "RED_CARD") :
                m \in NextMatches(card.row) \cup (IF call[c].open THEN {call[c].match} ELSE {})}
      BY <1>2, <2>1 DEF Owed
    <2> HIDE DEF later
    <2>3. Owed(card.row, call[c].open)
            = KeysFor(card.row.player, call[c].match, now \o later, "RED_CARD")
      <3>1. CASE later = <<>> /\ NextMatches(card.row) = {}
        <4>1. CASE call[c].open
          <5>1. now \o later = <<call[c].match>>
            BY <3>1, <4>1
          <5> QED
            BY <2>2, <3>1, <4>1, <5>1, KeysOfOne
        <4>2. CASE ~call[c].open
          <5>1. now \o later = <<>>
            BY <3>1, <4>2
          <5> QED
            BY <2>2, <3>1, <4>2, <5>1, KeysOfNone
        <4> QED
          BY <4>1, <4>2
      <3>2. ASSUME NEW m \in Matches, later = <<m>>, NextMatches(card.row) = {m}
            PROVE  Owed(card.row, call[c].open)
                     = KeysFor(card.row.player, call[c].match, now \o later, "RED_CARD")
        <4>1. CASE call[c].open
          <5>1. now \o later = <<call[c].match, m>>
            BY <1>2, <3>2, <4>1, TwoMatches
          <5>2. KeysFor(card.row.player, call[c].match, now \o later, "RED_CARD")
                  = {Key(card.row.player, call[c].match, call[c].match, "RED_CARD"),
                     Key(card.row.player, call[c].match, m, "RED_CARD")}
            <6>1. KeysFor(card.row.player, call[c].match, <<call[c].match, m>>, "RED_CARD")
                    = {Key(card.row.player, call[c].match, call[c].match, "RED_CARD"),
                       Key(card.row.player, call[c].match, m, "RED_CARD")}
              BY DEF KeysFor
            <6> QED
              BY <5>1, <6>1, Zenon
          <5>3. NextMatches(card.row) \cup {call[c].match} = {call[c].match, m}
            BY <3>2
          <5>4. Owed(card.row, call[c].open)
                  = {Key(card.row.player, call[c].match, x, "RED_CARD") :
                        x \in {call[c].match, m}}
            BY <2>2, <4>1, <5>3
          <5> QED
            BY <5>2, <5>4
        <4>2. CASE ~call[c].open
          <5>1. now \o later = <<m>>
            BY <3>2, <4>2
          <5> QED
            BY <2>2, <3>2, <4>2, <5>1, KeysOfOne
        <4> QED
          BY <4>1, <4>2
      <3> QED
        BY <1>3, <3>1, <3>2
    <2> HIDE DEF now
    <2> QED
      BY <2>1, <2>3, TakesUp DEF Reasons
  <1>5. CASE SyncYellowCard(c, card)
    <2> DEFINE yellowCount == countSeasonYellowCards(card.row.player, card.row.team)
               effective == IF yellowCount > 0 /\ yellowCount % 2 = 0 THEN later ELSE <<>>
    <2>1. /\ card.row.type = "YELLOW_CARD"
          /\ Upserts(c, card, "ACCUMULATED_YELLOW_CARDS", effective)
      BY <1>5 DEF SyncYellowCard
    <2>2. yellowCount > 0
      BY <1>2, <2>1, SomeYellow DEF CardsOf
    <2>3. Owed(card.row, call[c].open)
            = IF yellowCount % 2 = 0
              THEN {Key(card.row.player, call[c].match, m, "ACCUMULATED_YELLOW_CARDS") :
                        m \in NextMatches(card.row)}
              ELSE {}
      BY <1>2, <2>1 DEF Owed
    <2>4. effective = IF yellowCount % 2 = 0 THEN later ELSE <<>>
      BY <2>2
    <2> HIDE DEF yellowCount, effective, later
    <2>5. Owed(card.row, call[c].open)
            = KeysFor(card.row.player, call[c].match, effective, "ACCUMULATED_YELLOW_CARDS")
      <3>1. CASE effective = <<>> /\ Owed(card.row, call[c].open) = {}
        BY <3>1, KeysOfNone
      <3>2. ASSUME NEW m \in Matches, later = <<m>>, NextMatches(card.row) = {m},
                   yellowCount % 2 = 0
            PROVE  Owed(card.row, call[c].open)
                     = KeysFor(card.row.player, call[c].match, effective,
                               "ACCUMULATED_YELLOW_CARDS")
        <4>1. Owed(card.row, call[c].open)
                = {Key(card.row.player, call[c].match, m, "ACCUMULATED_YELLOW_CARDS")}
          BY <2>3, <3>2
        <4> QED
          BY <2>4, <3>2, <4>1, KeysOfOne
      <3> QED
        BY <1>3, <2>3, <2>4, <3>1, <3>2
    <2> QED
      BY <2>1, <2>5, TakesUp DEF Reasons
  <1> QED
    BY <1>4, <1>5

LEMMA FindReads ==
    ASSUME TypeOK, NEW c \in Clients, Reads(c), UpsertFind(c)
    PROVE  Reads(c)'
  <1>1. PICK label \in {"sync.update", "sync.create"} : Continue(c, label)
    BY DEF UpsertFind
  <1>2. call[c] \in UpsertCalls /\ At(c, "sync.find")
    BY CallShape DEF UpsertFind, At
  <1>3. PICK next : next = [call[c] EXCEPT !.at = label]
    OBVIOUS
  <1>4. /\ next.at = label /\ next.loop = call[c].loop /\ next.player = call[c].player
        /\ next.team = call[c].team /\ next.reason = call[c].reason
        /\ next.effective = call[c].effective /\ Goto(c, next)
    BY <1>1, <1>2, <1>3 DEF UpsertCalls, Continue
  <1>5. LoopHolds(call[c].loop, Pending(c)) /\ IsInput(call[c].player, call[c].team)
    BY <1>2 DEF Reads, SyncReads, At
  <1>6. PICK pending : pending = Pending(c)
    OBVIOUS
  <1>7. pending = KeysFor(next.player, next.loop.match, next.effective, next.reason)
    BY <1>4, <1>6 DEF Pending, KeysFor
  <1>8. \A key : Status(key)' = Status(key)
    BY DEF UpsertFind, rows, Status
  <1>9. LoopHolds(next.loop, pending)'
    <2>1. LoopHolds(next.loop, pending)
      BY <1>4, <1>5, <1>6
    <2> QED
      BY <1>8, <2>1, LoopKept DEF UpsertFind, rows
  <1> QED
    BY <1>4, <1>5, <1>7, <1>9, ReadsUpsert

-----------------------------------------------------------------------------
(* The end of a sync.                                                      *)

LEMMA ActiveIsStatus ==
    ASSUME NEW key
    PROVE  Status(key) = "ACTIVE" <=> suspensions[key] # Null /\ suspensions[key].status = "ACTIVE"
  <1>1. Null # "ACTIVE"
    BY SuspensionsAssumption DEF SuspensionStatuses
  <1> QED
    BY <1>1 DEF Status

\* Agrees(match) looks at the red cards of the match, at its status and at the
\* suspensions from it; those for a match that is FINISHED may be served.
LEMMA AgreesKept ==
    ASSUME TypeOK, NEW match \in Matches, Agrees(match),
           Reds(match)' = Reds(match), finished'[match] = finished[match],
           \A id \in Reds(match) : events'[id] = events[id],
           \A key \in Keys : key.source = match =>
                \/ suspensions'[key] = suspensions[key]
                \/ Status(key)' = "SERVED" /\ Status(key) = "ACTIVE" /\ finished[key.effective]
    PROVE  Agrees(match)'
  <1>1. \A key \in Keys : key.source = match =>
            \/ Status(key)' = Status(key) /\ suspensions'[key] = suspensions[key]
            \/ Status(key)' = "SERVED" /\ Status(key) = "ACTIVE" /\ finished[key.effective]
    BY DEF Status
  <1>2. ASSUME OneTeamPerPlayer PROVE RedsSuspended(match)'
    <2> SUFFICES ASSUME NEW id \in Reds(match), NEW player \in Players,
                        NEW next \in Matches \cup {Null}, player = events[id].player,
                        next = findNextTeamMatch(match, events[id].team)
                 PROVE  /\ ~finished'[match] =>
                             Status(Key(player, match, match, "RED_CARD"))' = "ACTIVE"
                        /\ next # Null =>
                             Status(Key(player, match, next, "RED_CARD"))' \in {"ACTIVE", "SERVED"}
      BY DEF RedsSuspended
    <2>1. player \in Players /\ events[id].team \in Teams
      BY DEF Reds, CardsOf, Live, TypeOK, Rows
    <2>2. next \in Matches \cup {Null}
      BY <2>1, NextTeamMatchType
    <2>3. \A m \in Matches : /\ Key(player, match, m, "RED_CARD") \in Keys
                             /\ Key(player, match, m, "RED_CARD").source = match
                             /\ Key(player, match, m, "RED_CARD").effective = m
      BY <2>1 DEF Key, Keys, Reasons
    <2>4. /\ ~finished[match] => Status(Key(player, match, match, "RED_CARD")) = "ACTIVE"
          /\ next # Null =>
               Status(Key(player, match, next, "RED_CARD")) \in {"ACTIVE", "SERVED"}
      BY <1>2 DEF Agrees, RedsSuspended
    <2>5. ~finished[match] => Status(Key(player, match, match, "RED_CARD"))' = "ACTIVE"
      BY <1>1, <2>3, <2>4
    <2>6. next # Null => Status(Key(player, match, next, "RED_CARD"))' \in {"ACTIVE", "SERVED"}
      BY <1>1, <2>2, <2>3, <2>4
    <2> QED
      BY <2>5, <2>6
  <1>3. OnlyReds(match)'
    BY <1>1 DEF Agrees, OnlyReds
  <1> QED
    BY <1>2, <1>3 DEF Agrees, OneTeamPerPlayer

\* What a sync writes are suspensions from its match, which it has yet to see.
LEMMA SyncWrites ==
    ASSUME TypeOK, RowsInv, NEW match \in unsynced,
           UNCHANGED <<finished, events, created, unsynced>>,
           \A key \in Keys : key.source # match => suspensions'[key] = suspensions[key],
           \A key \in Keys : suspensions'[key] # Null => IsInput(key.player, suspensions'[key].team)
    PROVE  RowsInv'
  <1>1. Live' = Live /\ \A m : CardsOf(m)' = CardsOf(m) /\ Reds(m)' = Reds(m)
    BY EventFacts
  <1>2. Traced' /\ NewIdsFree' /\ OneRedCardPerMatch'
    BY <1>1 DEF RowsInv, Traced, NewIdsFree, OneRedCardPerMatch, IsInput
  <1>3. ASSUME NEW m \in Matches \ unsynced PROVE Agrees(m)'
    BY <1>1, <1>3, AgreesKept DEF RowsInv
  <1> QED
    BY <1>2, <1>3 DEF RowsInv

LEMMA ReadsCancel ==
    ASSUME TypeOK, NEW c \in Clients, NEW match, NEW stale, match \in unsynced',
           Goto(c, [at |-> "sync.cancel", match |-> match, stale |-> stale]),
           CancelHolds(match, stale)'
    PROVE  Reads(c)'
  <1>1. call'[c].at = "sync.cancel" /\ call'[c].match = match /\ call'[c].stale = stale
    BY GotoAt
  <1>2. CancelHolds(call[c].match, call[c].stale)'
    BY <1>1 DEF CancelHolds
  <1> QED
    BY <1>1, <1>2 DEF Reads, EventReads, ReportReads, StatusReads, SyncReads, At

\* What the loop leaves behind.  Only the team of a suspension could set it
\* apart from a card that it is for.
LEMMA LoopDone ==
    ASSUME TypeOK, Traced, NEW loop \in Loops, loop.todo = {}, LoopHolds(loop, {}),
           NEW stale,
           stale = {key \in Keys :
                /\ key.source = loop.match /\ key.reason = "RED_CARD"
                /\ suspensions[key] # Null /\ suspensions[key].status = "ACTIVE"
                /\ <<key.player, suspensions[key].team>> \notin loop.reds}
    PROVE  CancelHolds(loop.match, stale)
  <1> DEFINE match == loop.match
  <1>1. \A key \in stale : key.source = match /\ key.reason = "RED_CARD"
    OBVIOUS
  <1>2. ASSUME NEW id \in CardsOf(match), NEW key \in Owed(events[id], ~finished[match]),
               key.reason = "RED_CARD" => OneTeamPerPlayer
        PROVE  Status(key) = "ACTIVE" /\ key \notin stale
    <2>1. Status(key) = "ACTIVE"
      BY <1>2 DEF LoopHolds
    <2>2. CASE key.reason # "RED_CARD"
      BY <2>1, <2>2
    <2>3. CASE key.reason = "RED_CARD"
      <3>1. events[id].type = "RED_CARD" /\ key.player = events[id].player
        BY <1>2, <2>3 DEF Owed, Key
      <3>2. <<events[id].player, events[id].team>> \in loop.reds
        BY <1>2, <3>1 DEF LoopHolds, Reds
      <3>3. key \in Keys /\ id \in Live
        BY <1>2, OwedType DEF CardsOf
      <3>4. suspensions[key] # Null
        BY <2>1, ActiveIsStatus
      <3>5. suspensions[key].team = events[id].team
        BY <1>2, <2>3, <3>1, <3>3, <3>4 DEF Traced, IsInput, OneTeamPerPlayer
      <3> QED
        BY <2>1, <3>1, <3>2, <3>5
    <2> QED
      BY <2>2, <2>3
  <1>3. ASSUME NEW key \in Keys \ stale, key.source = match, key.reason = "RED_CARD",
               Status(key) = "ACTIVE"
        PROVE  \E id \in Reds(match) : /\ events[id].player = key.player
                                       /\ events[id].team = suspensions[key].team
    <2>1. <<key.player, suspensions[key].team>> \in loop.reds
      BY <1>3, ActiveIsStatus
    <2> QED
      BY <2>1 DEF LoopHolds
  <1> QED
    BY <1>1, <1>2, <1>3 DEF CancelHolds

LEMMA CancelQuiet ==
    ASSUME NEW match, NEW stale, CancelHolds(match, stale),
           UNCHANGED <<finished, events, suspensions>>
    PROVE  CancelHolds(match, stale)'
  <1>1. /\ \A m : CardsOf(m)' = CardsOf(m) /\ Reds(m)' = Reds(m)
        /\ \A row, open : Owed(row, open)' = Owed(row, open)
    BY EventFacts
  <1>2. \A key : Status(key)' = Status(key)
    BY DEF Status
  <1>3. \A id : Owed(events[id], ~finished[match])' = Owed(events[id], ~finished[match])
    <2>1. events' = events /\ finished' = finished
      OBVIOUS
    <2> QED
      BY <2>1 DEF Owed, countSeasonYellowCards, NextMatches, findNextTeamMatch, Key, Live
  <1>4. \A id \in CardsOf(match)' : \A key \in Owed(events[id], ~finished[match])' :
            (key.reason = "RED_CARD" => OneTeamPerPlayer) =>
                Status(key)' = "ACTIVE" /\ key \notin stale
    BY <1>1, <1>2, <1>3 DEF CancelHolds
  <1>5. \A key \in Keys \ stale :
            key.source = match /\ key.reason = "RED_CARD" /\ Status(key)' = "ACTIVE" =>
            \E id \in Reds(match)' : /\ events'[id].player = key.player
                                     /\ events'[id].team = suspensions'[key].team
    BY <1>1, <1>2 DEF CancelHolds
  <1> QED
    BY <1>4, <1>5 DEF CancelHolds, OneTeamPerPlayer

LEMMA ActiveReads ==
    ASSUME TypeOK, NEW c \in Clients, Traced, Reads(c), SyncActive(c)
    PROVE  Reads(c)'
  <1>1. PICK stale :
            stale = {key \in Keys :
                /\ key.source = call[c].match /\ key.reason = "RED_CARD"
                /\ suspensions[key] # Null /\ suspensions[key].status = "ACTIVE"
                /\ <<key.player, suspensions[key].team>> \notin call[c].reds}
    OBVIOUS
  <1>2. PICK match : match = call[c].match
    OBVIOUS
  <1>3. /\ Goto(c, [at |-> "sync.cancel", match |-> match, stale |-> stale])
        /\ At(c, "sync.card") /\ call[c].todo = {} /\ UNCHANGED rows
    BY <1>1, <1>2 DEF SyncActive
  <1>4. call[c] \in Loops /\ LoopHolds(call[c], {})
    BY <1>3, CallShape DEF Reads, SyncReads
  <1>5. CancelHolds(match, stale)
    BY <1>1, <1>2, <1>3, <1>4, LoopDone
  <1>6. CancelHolds(match, stale)'
    BY <1>3, <1>5, CancelQuiet DEF rows
  <1>7. match \in unsynced'
    BY <1>2, <1>3, <1>4 DEF LoopHolds, rows
  <1> QED
    BY <1>3, <1>6, <1>7, ReadsCancel

LEMMA CancelStep ==
    ASSUME ServedInv, RowsInv, NEW c \in Clients, Reads(c), At(c, "sync.cancel"),
           NEW gone \in call[c].stale, CancelSuspension(c, gone)
    PROVE  RowsInv' /\ Reads(c)'
  <1>0. TypeOK /\ RowsFound(c) /\ CancelHolds(call[c].match, call[c].stale)
    BY DEF ServedInv, Relies, Reads, SyncReads
  <1>1. PICK match, stale : match = call[c].match /\ stale = call[c].stale
    OBVIOUS
  <1>2. call[c] \in [at : {"sync.cancel"}, match : Matches, stale : SUBSET Keys]
    BY <1>0, CallShape
  <1>3. /\ gone \in Keys /\ gone.source = match /\ suspensions[gone] \in Suspended
        /\ match \in unsynced
    BY <1>0, <1>1, <1>2 DEF RowsFound, CancelHolds, TypeOK, Reads, StatusReads, At
  <1>4. /\ suspensions'[gone] \in Suspended /\ suspensions'[gone].status = "CANCELLED"
        /\ suspensions'[gone].team = suspensions[gone].team
        /\ \A key \in Keys \ {gone} : suspensions'[key] = suspensions[key]
    BY <1>0, <1>3 DEF CancelSuspension, TypeOK, Suspended, SuspensionStatuses
  <1>5. Status(gone)' = "CANCELLED" /\ \A key \in Keys \ {gone} : Status(key)' = Status(key)
    BY <1>3, <1>4, NullIsNoRow DEF Status
  <1>6. RowsInv'
    <2>1. UNCHANGED <<finished, events, created, unsynced>>
      BY DEF CancelSuspension
    <2>2. \A key \in Keys : suspensions'[key] # Null => IsInput(key.player, suspensions'[key].team)
      BY <1>3, <1>4, NullIsNoRow DEF RowsInv, Traced
    <2>3. \A key \in Keys : key.source # match => suspensions'[key] = suspensions[key]
      BY <1>3, <1>4
    <2> QED
      BY <1>0, <1>3, <2>1, <2>2, <2>3, SyncWrites
  <1>7. Goto(c, [at |-> "sync.cancel", match |-> match, stale |-> stale \ {gone}])
    <2>1. [call[c] EXCEPT !.stale = @ \ {gone}]
            = [at |-> "sync.cancel", match |-> match, stale |-> stale \ {gone}]
      BY <1>1, <1>2
    <2> QED
      BY <2>1 DEF CancelSuspension
  <1>8. CancelHolds(match, stale \ {gone})'
    <2>0. events' = events /\ finished' = finished
      BY DEF CancelSuspension
    <2>1. /\ \A m : CardsOf(m)' = CardsOf(m) /\ Reds(m)' = Reds(m)
      BY <2>0, EventFacts
    <2>2. \A id : Owed(events[id], ~finished[match])' = Owed(events[id], ~finished[match])
      BY <2>0 DEF Owed, countSeasonYellowCards, NextMatches, findNextTeamMatch, Key, Live
    <2>3. \A key \in stale \ {gone} : key.source = match /\ key.reason = "RED_CARD"
      BY <1>0, <1>1 DEF CancelHolds
    <2>4. ASSUME NEW id \in CardsOf(match), NEW key \in Owed(events[id], ~finished[match]),
                 key.reason = "RED_CARD" => OneTeamPerPlayer
          PROVE  Status(key)' = "ACTIVE" /\ key \notin stale \ {gone}
      <3>1. Status(key) = "ACTIVE" /\ key \notin stale
        BY <1>0, <1>1, <2>4 DEF CancelHolds
      <3>2. key \in Keys /\ key # gone
        BY <1>0, <1>1, <2>4, <3>1, OwedType DEF CardsOf
      <3> QED
        BY <1>5, <3>1, <3>2
    <2>5. ASSUME NEW key \in Keys \ (stale \ {gone}), key.source = match,
                 key.reason = "RED_CARD", Status(key)' = "ACTIVE"
          PROVE  \E id \in Reds(match) : /\ events[id].player = key.player
                                         /\ events[id].team = suspensions'[key].team
      <3>1. key # gone /\ suspensions'[key] = suspensions[key] /\ Status(key) = "ACTIVE"
        BY <1>4, <1>5, <2>5
      <3> QED
        BY <1>0, <1>1, <2>5, <3>1 DEF CancelHolds
    <2>6. \A id \in CardsOf(match)' : \A key \in Owed(events[id], ~finished[match])' :
            (key.reason = "RED_CARD" => OneTeamPerPlayer) =>
                Status(key)' = "ACTIVE" /\ key \notin stale \ {gone}
      BY <2>1, <2>2, <2>4
    <2>7. \A key \in Keys \ (stale \ {gone}) :
            key.source = match /\ key.reason = "RED_CARD" /\ Status(key)' = "ACTIVE" =>
            \E id \in Reds(match)' : /\ events'[id].player = key.player
                                     /\ events'[id].team = suspensions'[key].team
      BY <2>0, <2>1, <2>5
    <2> QED
      BY <2>3, <2>6, <2>7 DEF CancelHolds, OneTeamPerPlayer
  <1>9. match \in unsynced'
    BY <1>3 DEF CancelSuspension
  <1> QED
    BY <1>0, <1>6, <1>7, <1>8, <1>9, ReadsCancel

LEMMA EndStep ==
    ASSUME ServedInv, RowsInv, NEW c \in Clients, Reads(c), SyncEnd(c)
    PROVE  RowsInv' /\ Reads(c)'
  <1>0. TypeOK /\ At(c, "sync.cancel") /\ CancelHolds(call[c].match, {})
    BY DEF ServedInv, SyncEnd, Reads, SyncReads
  <1>1. PICK match \in Matches : match = call[c].match
    BY <1>0, CallShape
  <1>2. events' = events /\ finished' = finished /\ suspensions' = suspensions
        /\ created' = created /\ unsynced' = unsynced \ {match}
    BY <1>1 DEF SyncEnd
  <1>3. Live' = Live /\ \A m : CardsOf(m)' = CardsOf(m) /\ Reds(m)' = Reds(m)
    BY <1>2, EventFacts
  <1>4. Agrees(match)
    <2>1. ASSUME OneTeamPerPlayer, NEW id \in Reds(match), NEW m \in Matches,
                 \/ m = match /\ ~finished[match]
                 \/ m = findNextTeamMatch(match, events[id].team)
          PROVE  Status(Key(events[id].player, match, m, "RED_CARD")) = "ACTIVE"
      <3>1. id \in CardsOf(match) /\ events[id].type = "RED_CARD" /\ events[id].match = match
        BY DEF Reds, CardsOf
      <3>2. Key(events[id].player, match, m, "RED_CARD") \in Owed(events[id], ~finished[match])
        BY <2>1, <3>1 DEF Owed, NextMatches
      <3> QED
        BY <1>0, <1>1, <2>1, <3>1, <3>2 DEF CancelHolds
    <2>2. ASSUME OneTeamPerPlayer PROVE RedsSuspended(match)
      <3>1. ASSUME NEW id \in Reds(match)
            PROVE  findNextTeamMatch(match, events[id].team) \in Matches \cup {Null}
        BY NextTeamMatchType, <1>0 DEF Reds, CardsOf, Live, TypeOK, Rows
      <3> QED
        BY <2>1, <2>2, <3>1 DEF RedsSuspended
    <2>3. OnlyReds(match)
      BY <1>0, <1>1 DEF CancelHolds, OnlyReds
    <2> QED
      BY <2>2, <2>3 DEF Agrees
  <1>5. \A m \in Matches \ unsynced' : Agrees(m)'
    <2>1. \A m \in Matches \ unsynced' : Agrees(m)
      BY <1>2, <1>4 DEF RowsInv
    <2> QED
      BY <1>0, <1>2, <1>3, <2>1, AgreesKept
  <1>6. Traced' /\ NewIdsFree' /\ OneRedCardPerMatch'
    BY <1>2, <1>3 DEF RowsInv, Traced, NewIdsFree, OneRedCardPerMatch, IsInput
  <1>7. Reads(c)'
    BY <1>0, ReadsNothing DEF SyncEnd
  <1> QED
    BY <1>5, <1>6, <1>7 DEF RowsInv

-----------------------------------------------------------------------------
(* The writes of an upsert.                                                *)

LEMMA UpsertFacts ==
    ASSUME TypeOK, NEW c \in Clients, Reads(c), call[c].at \in {"sync.update", "sync.create"}
    PROVE  /\ call[c] \in UpsertCalls /\ call[c].loop \in Loops
           /\ LoopHolds(call[c].loop, Pending(c)) /\ call[c].loop.match \in unsynced
           /\ IsInput(call[c].player, call[c].team) /\ call[c].team \in Teams
           /\ UpsertKey(c) \in Keys /\ UpsertKey(c).player = call[c].player
           /\ UpsertKey(c).source = call[c].loop.match
  <1>1. call[c] \in UpsertCalls /\ call[c].loop \in Loops
    BY CallShape DEF UpsertCalls
  <1>2. Head(call[c].effective) \in Matches
    BY <1>1 DEF UpsertCalls
  <1>3. UpsertKey(c) \in Keys
    BY <1>1, <1>2 DEF UpsertKey, Keys, UpsertCalls, Loops
  <1> QED
    BY <1>1, <1>3 DEF Reads, SyncReads, LoopHolds, UpsertKey, UpsertCalls

\* One suspension less is pending, and the loop goes on when it was the last.
LEMMA UpsertReads ==
    ASSUME TypeOK, NEW c \in Clients, Reads(c), call[c].at \in {"sync.update", "sync.create"},
           UNCHANGED <<events, finished, unsynced>>, AfterUpsert(c),
           NEW key, key = UpsertKey(c), Status(key)' = "ACTIVE",
           \A k \in Keys : Status(k) = "ACTIVE" => Status(k)' = "ACTIVE"
    PROVE  Reads(c)'
  <1>1. /\ call[c] \in UpsertCalls /\ call[c].loop \in Loops
        /\ LoopHolds(call[c].loop, Pending(c)) /\ IsInput(call[c].player, call[c].team)
    BY UpsertFacts
  <1>2. PICK loop, player, team, reason, before :
            /\ loop = call[c].loop /\ player = call[c].player /\ team = call[c].team
            /\ reason = call[c].reason /\ before = Pending(c)
    OBVIOUS
  <1>3. before = KeysFor(player, loop.match, call[c].effective, reason)
    BY <1>2 DEF Pending, KeysFor
  <1>4. ASSUME NEW m \in Matches, call[c].effective = <<m>>
        PROVE  Reads(c)'
    <2>1. Tail(call[c].effective) = <<>> /\ Head(call[c].effective) = m
      BY <1>4
    <2>2. Goto(c, loop)
      BY <1>2, <2>1 DEF AfterUpsert
    <2>3. before = {Key(player, loop.match, m, reason)}
      BY <1>3, <1>4, KeysOfOne
    <2>4. key = Key(player, loop.match, m, reason)
      BY <1>2, <2>1 DEF UpsertKey, Key
    <2>5. LoopHolds(loop, {})'
      BY <1>1, <1>2, <2>3, <2>4, LoopKept
    <2> QED
      BY <1>1, <1>2, <2>2, <2>5, ReadsLoop
  <1>5. ASSUME NEW m \in Matches, NEW n \in Matches, call[c].effective = <<m, n>>
        PROVE  Reads(c)'
    <2>1. Tail(call[c].effective) = <<n>> /\ Head(call[c].effective) = m
      <3>1. Tail(<<m, n>>) = <<n>> /\ Head(<<m, n>>) = m
        OBVIOUS
      <3> QED
        BY <1>5, <3>1
    <2>2. PICK next : next = [call[c] EXCEPT !.at = "sync.find", !.effective = <<n>>]
      OBVIOUS
    <2>3. /\ next.at = "sync.find" /\ next.loop = loop /\ next.player = player
          /\ next.team = team /\ next.reason = reason /\ next.effective = <<n>>
      BY <1>1, <1>2, <2>2 DEF UpsertCalls
    <2>4. Goto(c, next)
      <3>1. <<n>> # <<>>
        OBVIOUS
      <3> QED
        BY <2>1, <2>2, <3>1 DEF AfterUpsert
    <2>5. PICK pending : pending = {Key(player, loop.match, n, reason)}
      OBVIOUS
    <2>6. pending = KeysFor(next.player, next.loop.match, next.effective, next.reason)
      BY <2>3, <2>5, KeysOfOne
    <2>7. before = {Key(player, loop.match, m, reason), Key(player, loop.match, n, reason)}
      <3>1. KeysFor(player, loop.match, <<m, n>>, reason)
              = {Key(player, loop.match, m, reason), Key(player, loop.match, n, reason)}
        BY DEF KeysFor
      <3> QED
        BY <1>3, <1>5, <3>1, Zenon
    <2>8. key = Key(player, loop.match, m, reason)
      BY <1>2, <2>1 DEF UpsertKey, Key
    <2>9. LoopHolds(loop, pending)'
      BY <1>1, <1>2, <2>5, <2>7, <2>8, LoopKept
    <2>10. LoopHolds(next.loop, pending)'
      BY <2>3, <2>9 DEF LoopHolds
    <2>11. IsInput(next.player, next.team)
      BY <1>1, <1>2, <2>3
    <2> QED
      BY <2>3, <2>4, <2>6, <2>10, <2>11, ReadsUpsert
  <1>6. \/ \E m \in Matches : call[c].effective = <<m>>
        \/ \E m, n \in Matches : call[c].effective = <<m, n>>
    BY <1>1 DEF UpsertCalls
  <1> QED
    BY <1>4, <1>5, <1>6

LEMMA UpsertSteps ==
    ASSUME ServedInv, RowsInv, NEW c \in Clients, Reads(c), UpsertUpdate(c) \/ UpsertCreate(c)
    PROVE  RowsInv' /\ Reads(c)'
  <1>0. /\ TypeOK /\ RowsFound(c) /\ call[c].at \in {"sync.update", "sync.create"}
        /\ UNCHANGED <<finished, events, created, unsynced>>
    BY DEF ServedInv, Relies, UpsertUpdate, UpsertCreate, At
  <1>1. PICK key, match : key = UpsertKey(c) /\ match = call[c].loop.match
    OBVIOUS
  <1>2. /\ key \in Keys /\ key.player = call[c].player /\ key.source = match
        /\ match \in unsynced /\ IsInput(call[c].player, call[c].team) /\ call[c].team \in Teams
    BY <1>0, <1>1, UpsertFacts
  <1>3. CASE UpsertCreate(c) /\ suspensions[key] # Null
    <2>1. Reply(c) /\ suspensions' = suspensions
      BY <1>1, <1>3 DEF UpsertCreate
    <2>2. RowsInv'
      <3>1. \A k \in Keys : suspensions'[k] # Null => IsInput(k.player, suspensions'[k].team)
        BY <2>1 DEF RowsInv, Traced
      <3> QED
        BY <1>0, <1>2, <2>1, <3>1, SyncWrites
    <2> QED
      BY <1>0, <2>1, <2>2, ReadsNothing
  <1>4. CASE UpsertUpdate(c) \/ suspensions[key] = Null
    <2>1. /\ AfterUpsert(c)
          /\ \A k \in Keys \ {key} : suspensions'[k] = suspensions[k]
          /\ suspensions'[key] # Null /\ suspensions'[key].status = "ACTIVE"
          /\ IsInput(key.player, suspensions'[key].team)
      <3>1. CASE UpsertUpdate(c)
        <4>1. suspensions[key] \in Suspended
          BY <1>0, <1>1, <1>2, <3>1 DEF UpsertUpdate, RowsFound, TypeOK
        <4>2. suspensions'[key] = [suspensions[key] EXCEPT !.status = "ACTIVE"]
          BY <1>0, <1>1, <1>2, <3>1 DEF UpsertUpdate, TypeOK
        <4>3. /\ suspensions'[key] \in Suspended /\ suspensions'[key].status = "ACTIVE"
              /\ suspensions'[key].team = suspensions[key].team
          BY <4>1, <4>2 DEF Suspended, SuspensionStatuses
        <4>4. IsInput(key.player, suspensions[key].team)
          BY <1>2, <4>1, NullIsNoRow DEF RowsInv, Traced
        <4> QED
          BY <1>0, <1>1, <3>1, <4>3, <4>4, NullIsNoRow DEF UpsertUpdate, TypeOK
      <3>2. CASE UpsertCreate(c) /\ suspensions[key] = Null
        <4>1. suspensions'[key] = [team |-> call[c].team, status |-> "ACTIVE"]
          BY <1>0, <1>1, <1>2, <3>2 DEF UpsertCreate, TypeOK
        <4>2. suspensions'[key] \in Suspended
          BY <1>2, <4>1 DEF Suspended, SuspensionStatuses
        <4> QED
          BY <1>0, <1>1, <1>2, <3>2, <4>1, <4>2, NullIsNoRow DEF UpsertCreate, TypeOK
      <3> QED
        BY <1>4, <3>1, <3>2
    <2>2. Status(key)' = "ACTIVE" /\ \A k \in Keys \ {key} : Status(k)' = Status(k)
      BY <2>1 DEF Status
    <2>3. RowsInv'
      <3>1. \A k \in Keys : suspensions'[k] # Null => IsInput(k.player, suspensions'[k].team)
        BY <2>1 DEF RowsInv, Traced
      <3>2. \A k \in Keys : k.source # match => suspensions'[k] = suspensions[k]
        BY <1>2, <2>1
      <3> QED
        BY <1>0, <1>2, <3>1, <3>2, SyncWrites
    <2>4. Reads(c)'
      BY <1>0, <1>1, <2>1, <2>2, UpsertReads
    <2> QED
      BY <2>3, <2>4
  <1> QED
    BY <1>3, <1>4

-----------------------------------------------------------------------------
(* The writes of events.                                                   *)

LEMMA CardsKept ==
    ASSUME TypeOK, NEW match,
           \A id \in EventIds : \/ events'[id] = events[id]
                                \/ id \notin CardsOf(match) /\ id \notin CardsOf(match)'
    PROVE  /\ Reds(match)' = Reds(match)
           /\ \A id \in Reds(match) : events'[id] = events[id]
  <1>1. \A id \in EventIds : events'[id] = events[id] =>
            (id \in CardsOf(match)' <=> id \in CardsOf(match))
    BY DEF CardsOf, Live
  <1>2. CardsOf(match) \subseteq EventIds /\ CardsOf(match)' \subseteq EventIds
    BY DEF CardsOf, Live, EventIds
  <1>3. CardsOf(match)' = CardsOf(match) /\ \A id \in CardsOf(match) : events'[id] = events[id]
    BY <1>1, <1>2
  <1> QED
    BY <1>3 DEF Reds

\* A match whose cards a write leaves alone agrees with its suspensions as before.
LEMMA EventsWritten ==
    ASSUME TypeOK, RowsInv, UNCHANGED <<finished, suspensions>>, unsynced \subseteq unsynced',
           \A match \in Matches \ unsynced' : \A id \in EventIds :
                \/ events'[id] = events[id]
                \/ id \notin CardsOf(match) /\ id \notin CardsOf(match)'
    PROVE  \A match \in Matches \ unsynced' : Agrees(match)'
  <1> SUFFICES ASSUME NEW match \in Matches \ unsynced' PROVE Agrees(match)'
    OBVIOUS
  <1>1. Agrees(match)
    BY DEF RowsInv
  <1>2. Reds(match)' = Reds(match) /\ \A id \in Reds(match) : events'[id] = events[id]
    BY CardsKept
  <1> QED
    BY <1>1, <1>2, AgreesKept

LEMMA AfterEventReads ==
    ASSUME TypeOK, NEW c \in Clients, NEW match, NEW card, AfterEvent(c, match, card)
    PROVE  Reads(c)' /\ unsynced \subseteq unsynced' /\ (card => match \in unsynced')
  BY ReadsSync, ReadsNothing DEF AfterEvent

\* One row is written: to be an input, and the only red card of its player in
\* the match; the sync follows when it is or was a card.
LEMMA RowWritten ==
    ASSUME TypeOK, RowsInv, NEW c \in Clients, NEW id \in EventIds, NEW row, NEW match, NEW card,
           events' = [events EXCEPT ![id] = row], AfterEvent(c, match, card),
           UNCHANGED <<finished, suspensions>>,
           created' \in Nat, created <= created', id <= created',
           id \in Live => events[id].match = match /\ (IsCard(events[id].type) => card),
           row # Null => /\ row.match = match /\ (IsCard(row.type) => card)
                         /\ IsInput(row.player, row.team),
           row # Null /\ row.type = "RED_CARD" =>
                \A i \in Reds(match) \ {id} : events[i].player # row.player
    PROVE  RowsInv' /\ Reads(c)'
  <1>1. events'[id] = row /\ \A i \in EventIds \ {id} : events'[i] = events[i]
    BY DEF TypeOK
  <1>2. Reads(c)' /\ unsynced \subseteq unsynced' /\ (card => match \in unsynced')
    BY AfterEventReads
  <1>3. \A m \in Matches \ unsynced' : Agrees(m)'
    <2>1. ASSUME NEW m \in Matches \ unsynced'
          PROVE  id \notin CardsOf(m) /\ id \notin CardsOf(m)'
      BY <1>1, <1>2 DEF CardsOf, Live
    <2> QED
      BY <1>1, <1>2, <2>1, EventsWritten
  <1>4. Traced'
    <2>1. \A i \in Live' : IsInput(events'[i].player, events'[i].team)
      BY <1>1 DEF RowsInv, Traced, Live
    <2>2. \A key \in Keys : suspensions'[key] # Null => IsInput(key.player, suspensions'[key].team)
      BY DEF RowsInv, Traced
    <2> QED
      BY <2>1, <2>2 DEF Traced, IsInput
  <1>5. NewIdsFree'
    <2>1. \A i \in EventIds : i > created' => i > created /\ i # id
      BY SuspensionsAssumption DEF EventIds, TypeOK
    <2> QED
      BY <1>1, <2>1 DEF RowsInv, NewIdsFree
  <1>6. OneRedCardPerMatch'
    <2> SUFFICES ASSUME NEW i \in Live', NEW j \in Live',
                        events'[i].type = "RED_CARD", events'[j].type = "RED_CARD",
                        events'[i].match = events'[j].match,
                        events'[i].player = events'[j].player
                 PROVE  i = j
      BY DEF OneRedCardPerMatch
    <2>1. i \in EventIds /\ j \in EventIds /\ events'[i] # Null /\ events'[j] # Null
      BY DEF Live, EventIds
    <2>2. ASSUME NEW k \in EventIds \ {id}, events'[k] # Null, events'[k].type = "RED_CARD",
                 events'[k].match = match
          PROVE  k \in Reds(match) \ {id} /\ events[k] = events'[k]
      BY <1>1, <2>2 DEF Reds, CardsOf, Live, IsCard
    <2>3. CASE i = id /\ j # id
      BY <1>1, <2>1, <2>2, <2>3
    <2>4. CASE i # id /\ j = id
      BY <1>1, <2>1, <2>2, <2>4
    <2>5. CASE i # id /\ j # id
      <3>1. i \in Live /\ j \in Live /\ events'[i] = events[i] /\ events'[j] = events[j]
        BY <1>1, <2>1, <2>5 DEF Live
      <3> QED
        BY <3>1 DEF RowsInv, OneRedCardPerMatch
    <2> QED
      BY <2>3, <2>4, <2>5
  <1> QED
    BY <1>2, <1>3, <1>4, <1>5, <1>6 DEF RowsInv

LEMMA RowFields ==
    ASSUME NEW match, NEW body, NEW source
    PROVE  /\ Row(match, body, source).match = match /\ Row(match, body, source).type = body.type
           /\ Row(match, body, source).player = body.player
           /\ Row(match, body, source).team = body.team
           /\ Row(match, body, source).source = source
  BY DEF Row

LEMMA EventWrites ==
    ASSUME TypeOK, RowsInv, NEW c \in Clients, Reads(c),
           AddEventWrite(c) \/ UpdateEventWrite(c) \/ RemoveEventWrite(c)
    PROVE  RowsInv' /\ Reads(c)'
  <1>1. PICK match, id, body, wasCard :
            /\ match = call[c].match /\ id = call[c].id /\ body = call[c].body
            /\ wasCard = call[c].wasCard
    OBVIOUS
  <1>2. /\ At(c, "event") /\ call[c] \in EventCalls /\ match \in Matches
        /\ wasCard \in BOOLEAN /\ created \in Nat
    BY <1>1, CallShape, SuspensionsAssumption
       DEF AddEventWrite, UpdateEventWrite, RemoveEventWrite, At, EventCalls, TypeOK
  <1>3. /\ body \in EventInputs \cup {Null}
        /\ id \in Live => events[id].match = match /\ IsCard(events[id].type) = wasCard
        /\ body # Null /\ body.type = "RED_CARD" =>
                \A i \in Reds(match) : events[i].player = body.player => i = id
    BY <1>1, <1>2 DEF Reads, EventReads, At
  <1>4. Live \subseteq EventIds /\ \A i \in Live : i <= created
    BY <1>2 DEF Live, RowsInv, NewIdsFree, EventIds
  <1>5. CASE AddEventWrite(c)
    <2>1. id = Null /\ body \in EventInputs
      BY <1>1, <1>2, <1>3, <1>5, NullIsNoId, NullIsNoRow DEF AddEventWrite, EventCalls
    <2>2. PICK row : row = Row(match, body, "MANUAL")
      OBVIOUS
    <2>3. created + 1 \in EventIds /\ created + 1 \notin Live
      BY <1>2, <1>4, <1>5, SuspensionsAssumption DEF AddEventWrite, EventIds
    <2>4. row.match = match /\ row.type = body.type /\ IsInput(row.player, row.team)
          /\ row.player = body.player
      BY <2>1, <2>2, RowFields DEF IsInput
    <2>5. row.type = "RED_CARD" =>
            \A i \in Reds(match) \ {created + 1} : events[i].player # row.player
      <3>1. body # Null
        BY <2>1, NullIsNoRow, SuspensionsAssumption
      <3> QED
        BY <1>3, <2>1, <2>4, <3>1, NullIsNotLive DEF Reds, CardsOf
    <2>6. /\ created' = created + 1 /\ AfterEvent(c, match, IsCard(body.type))
          /\ events' = [events EXCEPT ![created + 1] = row]
          /\ UNCHANGED <<finished, suspensions>>
      BY <1>1, <1>5, <2>2 DEF AddEventWrite
    <2>7. /\ created' \in Nat /\ created <= created' /\ created + 1 <= created'
      BY <1>2, <2>6
    <2> QED
      BY <2>3, <2>4, <2>5, <2>6, <2>7, RowWritten
  <1>6. CASE UNCHANGED rows /\ Reply(c)
    BY <1>6, RowsQuiet, ReadsNothing
  <1>7. CASE UpdateEventWrite(c) /\ id \in Live
    <2>1. body \in EventInputs /\ id \in EventIds
      BY <1>1, <1>3, <1>4, <1>7 DEF UpdateEventWrite
    <2>2. PICK row : row = Row(match, body, events[id].source)
      OBVIOUS
    <2>3. row.match = match /\ row.type = body.type /\ IsInput(row.player, row.team)
          /\ row.player = body.player
      BY <2>1, <2>2, RowFields DEF IsInput
    <2>4. row.type = "RED_CARD" => \A i \in Reds(match) \ {id} : events[i].player # row.player
      <3>1. body # Null
        BY <1>1, <1>7 DEF UpdateEventWrite
      <3> QED
        BY <1>3, <2>3, <3>1
    <2>5. /\ AfterEvent(c, match, wasCard \/ IsCard(body.type))
          /\ events' = [events EXCEPT ![id] = row]
          /\ UNCHANGED <<finished, suspensions, created>>
      BY <1>1, <1>7, <2>2 DEF UpdateEventWrite
    <2>6. PICK card \in BOOLEAN : card = (wasCard \/ IsCard(body.type))
      BY <1>2 DEF IsCard
    <2>7. /\ AfterEvent(c, match, card) /\ (IsCard(events[id].type) => card)
          /\ (IsCard(row.type) => card)
      BY <1>3, <1>7, <2>3, <2>5, <2>6
    <2>8. created' \in Nat /\ created <= created' /\ id <= created'
      BY <1>2, <1>4, <1>7, <2>5
    <2> QED
      BY <1>3, <2>1, <2>3, <2>4, <2>5, <2>7, <2>8, RowWritten
  <1>8. CASE RemoveEventWrite(c) /\ id \in Live
    <2>1. /\ AfterEvent(c, match, wasCard) /\ id \in EventIds
          /\ events' = [events EXCEPT ![id] = Null]
          /\ UNCHANGED <<finished, suspensions, created>>
      BY <1>1, <1>4, <1>8 DEF RemoveEventWrite
    <2>2. created' \in Nat /\ created <= created' /\ id <= created'
      BY <1>2, <1>4, <1>8, <2>1
    <2>3. IsCard(events[id].type) => wasCard
      BY <1>3, <1>8
    <2> QED
      BY <1>3, <2>1, <2>2, <2>3, RowWritten
  <1>9. (UpdateEventWrite(c) \/ RemoveEventWrite(c)) /\ id \notin Live =>
            UNCHANGED rows /\ Reply(c)
    BY <1>1 DEF UpdateEventWrite, RemoveEventWrite, rows
  <1> QED
    BY <1>5, <1>6, <1>7, <1>8, <1>9

-----------------------------------------------------------------------------
(* The writes of a report and of a status.                                 *)

LEMMA EventListInputs ==
    ASSUME NEW list \in EventLists
    PROVE  /\ Len(list) \in Nat /\ DOMAIN list = 1..Len(list)
           /\ \A i \in 1..Len(list) : list[i] \in EventInputs
  <1>1. PICK n \in 0..MaxReportEvents : list \in [1..n -> EventInputs]
    BY DEF EventLists
  <1>2. n \in Nat
    BY SuspensionsAssumption
  <1>3. list \in Seq(EventInputs)
    BY <1>1, <1>2, SeqDef
  <1> QED
    BY <1>3, LenProperties

LEMMA ReportDeletes ==
    ASSUME TypeOK, RowsInv, NEW c \in Clients, Reads(c), MatchReportDelete(c)
    PROVE  RowsInv' /\ Reads(c)'
  <1>1. PICK match, list : match = call[c].match /\ list = call[c].list
    OBVIOUS
  <1>2. call[c] \in ReportCalls /\ At(c, "report.delete") /\ match \in Matches
    BY <1>1, CallShape DEF MatchReportDelete, At, ReportCalls
  <1>3. PICK replaced : replaced = {id \in Live : events[id].match = match
                                        /\ events[id].source = "MATCH_REPORT"}
    OBVIOUS
  <1>4. /\ \A id \in EventIds : events'[id] = IF id \in replaced THEN Null ELSE events[id]
        /\ unsynced' = unsynced \cup {match}
        /\ UNCHANGED <<finished, created, suspensions>>
    BY <1>1, <1>3 DEF MatchReportDelete
  <1>5. Live' \subseteq Live \ replaced /\ \A id \in Live' : events'[id] = events[id]
    BY <1>4 DEF Live, EventIds
  <1>6. \A m \in Matches \ unsynced' : Agrees(m)'
    <2>1. ASSUME NEW m \in Matches \ unsynced', NEW id \in EventIds
          PROVE  \/ events'[id] = events[id]
                 \/ id \notin CardsOf(m) /\ id \notin CardsOf(m)'
      BY <1>3, <1>4, <1>5 DEF CardsOf
    <2> QED
      BY <1>4, <2>1, EventsWritten
  <1>7. Traced' /\ NewIdsFree' /\ OneRedCardPerMatch'
    <2>1. Traced'
      BY <1>4, <1>5 DEF RowsInv, Traced, IsInput
    <2>2. NewIdsFree'
      BY <1>4 DEF RowsInv, NewIdsFree
    <2>3. OneRedCardPerMatch'
      BY <1>5 DEF RowsInv, OneRedCardPerMatch
    <2> QED
      BY <2>1, <2>2, <2>3
  <1>8. CASE list = <<>>
    <2>1. Goto(c, [at |-> "sync", match |-> match])
      BY <1>1, <1>8 DEF MatchReportDelete
    <2>2. Reads(c)'
      BY <1>4, <2>1, ReadsSync
    <2> QED
      BY <1>6, <1>7, <2>2 DEF RowsInv
  <1>9. CASE list # <<>>
    <2>1. call'[c] = [call[c] EXCEPT !.at = "report.create"]
      BY <1>1, <1>9, GotoAt DEF MatchReportDelete, Continue
    <2>2. call'[c].at = "report.create" /\ call'[c].match = match /\ call'[c].list = list
      BY <1>1, <1>2, <2>1 DEF ReportCalls
    <2>3. \A id \in Reds(match) : events[id].player \in RedPlayers(list)
            => events[id].source = "MATCH_REPORT"
      BY <1>1, <1>2 DEF Reads, ReportReads
    <2>4. \A id \in Reds(match)' : events'[id].player \notin RedPlayers(list)
      <3>1. \A id \in Reds(match)' : /\ id \in Reds(match) /\ events'[id] = events[id]
                                     /\ id \notin replaced
        BY <1>5 DEF Reds, CardsOf
      <3> QED
        BY <1>3, <2>3, <3>1 DEF Reds, CardsOf
    <2>5. \A i, j \in DOMAIN list :
            /\ list[i].type = "RED_CARD" /\ list[j].type = "RED_CARD"
            /\ list[i].player = list[j].player
            => i = j
      BY <1>1, <1>2 DEF Reads, ReportReads, At
    <2>6. Reads(c)'
      BY <2>2, <2>4, <2>5
         DEF Reads, EventReads, ReportReads, StatusReads, SyncReads, At, RedPlayers
    <2> QED
      BY <1>6, <1>7, <2>6 DEF RowsInv
  <1> QED
    BY <1>8, <1>9

LEMMA ReportCreates ==
    ASSUME TypeOK, RowsInv, NEW c \in Clients, Reads(c), MatchReportCreate(c)
    PROVE  RowsInv' /\ Reads(c)'
  <1>1. PICK match, list : match = call[c].match /\ list = call[c].list
    OBVIOUS
  <1>2. /\ call[c] \in ReportCalls /\ At(c, "report.create") /\ match \in Matches
        /\ list \in EventLists /\ created \in Nat
    BY <1>1, CallShape, SuspensionsAssumption DEF MatchReportCreate, At, ReportCalls, TypeOK
  <1>3. /\ Len(list) \in Nat /\ DOMAIN list = 1..Len(list)
        /\ \A i \in 1..Len(list) : list[i] \in EventInputs
    BY <1>2, EventListInputs
  <1>4. PICK new : new = created + 1 .. created + Len(list)
    OBVIOUS
  <1>5. /\ \A id \in EventIds : events'[id] = IF id \in new
                                              THEN Row(match, list[id - created], "MATCH_REPORT")
                                              ELSE events[id]
        /\ created' = created + Len(list) /\ unsynced' = unsynced \cup {match}
        /\ UNCHANGED <<finished, suspensions>>
        /\ Goto(c, [at |-> "sync", match |-> match])
    BY <1>1, <1>4 DEF MatchReportCreate
  <1>6. \A id \in new : id - created \in 1..Len(list) /\ list[id - created] \in EventInputs
    BY <1>2, <1>3, <1>4
  <1>7. \A id \in EventIds \cap new : events[id] = Null
    BY <1>2, <1>4 DEF RowsInv, NewIdsFree, EventIds
  <1>8. /\ \A id \in Live' : id \in EventIds
        /\ \A id \in Live' \ new : id \in Live /\ events'[id] = events[id]
        /\ \A id \in Live' \cap new :
            /\ events'[id].match = match /\ events'[id].type = list[id - created].type
            /\ events'[id].player = list[id - created].player
            /\ events'[id].team = list[id - created].team
    BY <1>5, RowFields DEF Live, EventIds
  <1>9. \A m \in Matches \ unsynced' : Agrees(m)'
    <2>1. ASSUME NEW m \in Matches \ unsynced', NEW id \in EventIds
          PROVE  \/ events'[id] = events[id]
                 \/ id \notin CardsOf(m) /\ id \notin CardsOf(m)'
      <3>1. CASE id \notin new
        BY <1>5, <3>1
      <3>2. CASE id \in new
        <4>1. id \notin CardsOf(m)
          BY <1>7, <3>2 DEF CardsOf, Live
        <4>2. id \notin CardsOf(m)'
          BY <1>5, <1>8, <2>1, <3>2 DEF CardsOf
        <4> QED
          BY <4>1, <4>2
      <3> QED
        BY <3>1, <3>2
    <2> QED
      BY <1>5, <2>1, EventsWritten
  <1>10. Traced'
    <2>1. \A id \in Live' : IsInput(events'[id].player, events'[id].team)
      BY <1>6, <1>8 DEF RowsInv, Traced, IsInput
    <2>2. \A key \in Keys : suspensions'[key] # Null => IsInput(key.player, suspensions'[key].team)
      BY <1>5 DEF RowsInv, Traced
    <2> QED
      BY <2>1, <2>2 DEF Traced, IsInput
  <1>11. NewIdsFree'
    <2>1. \A id \in EventIds : id > created' => id > created /\ id \notin new
      BY <1>2, <1>3, <1>4, <1>5 DEF EventIds
    <2> QED
      BY <1>5, <2>1 DEF RowsInv, NewIdsFree
  <1>12. OneRedCardPerMatch'
    <2> SUFFICES ASSUME NEW i \in Live', NEW j \in Live',
                        events'[i].type = "RED_CARD", events'[j].type = "RED_CARD",
                        events'[i].match = events'[j].match,
                        events'[i].player = events'[j].player
                 PROVE  i = j
      BY DEF OneRedCardPerMatch
    <2>1. \A k \in Live' \ new : events'[k].type = "RED_CARD" /\ events'[k].match = match =>
            events'[k].player \notin RedPlayers(list)
      <3>1. \A id \in Reds(match) : events[id].player \notin RedPlayers(list)
        BY <1>1, <1>2 DEF Reads, ReportReads
      <3> QED
        BY <1>8, <3>1 DEF Reds, CardsOf, IsCard
    <2>2. \A k \in Live' \cap new : events'[k].type = "RED_CARD" =>
            events'[k].player \in RedPlayers(list) /\ events'[k].match = match
      BY <1>3, <1>6, <1>8 DEF RedPlayers
    <2>3. CASE i \in new /\ j \in new
      <3>1. i - created = j - created
        <4>1. \A k, l \in DOMAIN list :
                /\ list[k].type = "RED_CARD" /\ list[l].type = "RED_CARD"
                /\ list[k].player = list[l].player
                => k = l
          BY <1>1, <1>2 DEF Reads, ReportReads, At
        <4> QED
          BY <1>3, <1>6, <1>8, <2>3, <4>1
      <3> QED
        BY <1>2, <1>8, <3>1 DEF EventIds
    <2>4. CASE i \notin new /\ j \notin new
      BY <1>8, <2>4 DEF RowsInv, OneRedCardPerMatch
    <2>5. CASE i \in new /\ j \notin new
      BY <2>1, <2>2, <2>5
    <2>6. CASE i \notin new /\ j \in new
      BY <2>1, <2>2, <2>6
    <2> QED
      BY <2>3, <2>4, <2>5, <2>6
  <1>13. Reads(c)'
    BY <1>5, ReadsSync
  <1> QED
    BY <1>9, <1>10, <1>11, <1>12, <1>13 DEF RowsInv

\* The rows of events stay.
LEMMA StatusWritten ==
    ASSUME TypeOK, RowsInv, UNCHANGED <<events, created>>, unsynced \subseteq unsynced',
           \A match \in Matches \ unsynced' : finished'[match] = finished[match],
           \A key \in Keys :
                \/ suspensions'[key] = suspensions[key]
                \/ /\ Status(key)' = "SERVED" /\ Status(key) = "ACTIVE" /\ finished[key.effective]
                   /\ suspensions'[key].team = suspensions[key].team
    PROVE  RowsInv'
  <1>1. Live' = Live /\ \A m : Reds(m)' = Reds(m)
    BY EventFacts
  <1>2. \A match \in Matches \ unsynced' : Agrees(match)'
    BY <1>1, AgreesKept DEF RowsInv
  <1>3. NewIdsFree' /\ OneRedCardPerMatch'
    BY <1>1 DEF RowsInv, NewIdsFree, OneRedCardPerMatch
  <1>4. Traced'
    <2>1. \A key \in Keys : Status(key) = "ACTIVE" => suspensions[key] # Null
      BY ActiveIsStatus
    <2> QED
      BY <1>1, <2>1 DEF RowsInv, Traced, IsInput
  <1> QED
    BY <1>2, <1>3, <1>4 DEF RowsInv

LEMMA StatusWrites ==
    ASSUME TypeOK, RowsInv, NEW c \in Clients, Reads(c), UpdateStatusWrite(c)
    PROVE  RowsInv' /\ Reads(c)'
  <1>1. PICK match, finish : match = call[c].match /\ finish = call[c].finish
    OBVIOUS
  <1>2. match \in Matches /\ finish \in BOOLEAN /\ ~finished[match] /\ At(c, "status")
    BY <1>1, CallShape DEF UpdateStatusWrite, Reads, StatusReads
  <1>3. /\ finished'[match] = finish
        /\ \A m \in Matches \ {match} : finished'[m] = finished[m]
        /\ UNCHANGED <<events, created, suspensions>>
        /\ unsynced' = unsynced \cup (IF finish THEN {match} ELSE {})
        /\ IF finish THEN Goto(c, [at |-> "served", match |-> match]) ELSE Reply(c)
    BY <1>1, <1>2 DEF UpdateStatusWrite, TypeOK
  <1>4. RowsInv'
    <2>1. \A m \in Matches \ unsynced' : finished'[m] = finished[m]
      <3>1. CASE finish
        BY <1>3, <3>1
      <3>2. CASE ~finish
        <4>1. finished'[match] = FALSE /\ finished[match] = FALSE
          BY <1>2, <1>3, <3>2 DEF TypeOK
        <4> QED
          BY <1>3, <4>1
      <3> QED
        BY <3>1, <3>2
    <2> QED
      BY <1>3, <2>1, StatusWritten
  <1>5. CASE finish
    <2>1. call'[c].at = "served" /\ call'[c].match = match
      BY <1>3, <1>5, GotoAt
    <2>2. finished'[match] /\ match \in unsynced'
      BY <1>3, <1>5
    <2>3. Reads(c)'
      BY <2>1, <2>2 DEF Reads, EventReads, ReportReads, StatusReads, SyncReads, At
    <2> QED
      BY <1>4, <2>3
  <1>6. CASE ~finish
    BY <1>3, <1>4, <1>6, ReadsNothing
  <1> QED
    BY <1>2, <1>5, <1>6

LEMMA ServedWrites ==
    ASSUME TypeOK, RowsInv, NEW c \in Clients, Reads(c), markServedSuspensionsForMatch(c)
    PROVE  RowsInv' /\ Reads(c)'
  <1>1. PICK match : match = call[c].match
    OBVIOUS
  <1>2. /\ At(c, "served") /\ call[c] \in [at : {"served", "sync"}, match : Matches]
        /\ match \in unsynced /\ finished[match]
    BY <1>1, CallShape DEF markServedSuspensionsForMatch, At, Reads, StatusReads
  <1>3. UNCHANGED <<finished, events, created, unsynced>>
    BY DEF markServedSuspensionsForMatch
  <1>4. ASSUME NEW key \in Keys
        PROVE  \/ suspensions'[key] = suspensions[key]
               \/ /\ Status(key)' = "SERVED" /\ Status(key) = "ACTIVE" /\ finished[key.effective]
                  /\ suspensions'[key].team = suspensions[key].team
    <2>1. CASE /\ key.effective = match /\ suspensions[key] # Null
               /\ suspensions[key].status = "ACTIVE"
      <3>1. suspensions[key] \in Suspended
        BY <2>1 DEF TypeOK
      <3>2. suspensions'[key] = [suspensions[key] EXCEPT !.status = "SERVED"]
        BY <1>1, <2>1 DEF markServedSuspensionsForMatch
      <3>3. /\ suspensions'[key] \in Suspended /\ suspensions'[key].status = "SERVED"
            /\ suspensions'[key].team = suspensions[key].team
        BY <3>1, <3>2 DEF Suspended, SuspensionStatuses
      <3>4. Status(key)' = "SERVED"
        BY <3>3, NullIsNoRow DEF Status
      <3> QED
        BY <1>2, <2>1, <3>3, <3>4, ActiveIsStatus
    <2>2. CASE ~(/\ key.effective = match /\ suspensions[key] # Null
                 /\ suspensions[key].status = "ACTIVE")
      BY <1>1, <2>2 DEF markServedSuspensionsForMatch
    <2> QED
      BY <2>1, <2>2
  <1>5. RowsInv'
    BY <1>3, <1>4, StatusWritten
  <1>6. call'[c] = [call[c] EXCEPT !.at = "sync"]
    BY GotoAt DEF markServedSuspensionsForMatch, Continue
  <1>7. call'[c].at = "sync" /\ call'[c].match = match
    BY <1>1, <1>2, <1>6
  <1>8. Reads(c)'
    BY <1>2, <1>3, <1>7 DEF Reads, EventReads, ReportReads, StatusReads, SyncReads, At
  <1> QED
    BY <1>5, <1>8

-----------------------------------------------------------------------------
(* SoloInv is inductive when requests come one at a time.                  *)

LEMMA SoloInvInit == Init => SoloInv
  <1> SUFFICES ASSUME Init PROVE SoloInv
    OBVIOUS
  <1>1. ServedInv
    BY ServedInvInit
  <1>2. Live = {} /\ \A key \in Keys : suspensions[key] = Null
    BY DEF Init, Live
  <1>3. Traced /\ NewIdsFree /\ OneRedCardPerMatch
    BY <1>2 DEF Init, Traced, NewIdsFree, OneRedCardPerMatch
  <1>4. \A match \in Matches : Agrees(match)
    BY <1>2, ActiveIsStatus DEF Agrees, RedsSuspended, OnlyReds, Reds, CardsOf
  <1>5. \A c \in Clients : Reads(c)
    BY DEF Init, Idle, Reads, EventReads, ReportReads, StatusReads, SyncReads, At
  <1> QED
    BY <1>1, <1>3, <1>4, <1>5 DEF SoloInv, RowsInv

LEMMA ReadsQuiet ==
    ASSUME TypeOK, NEW c \in Clients, Reads(c), UNCHANGED rows, call' = call
    PROVE  Reads(c)'
  <1>0. /\ events' = events /\ finished' = finished /\ unsynced' = unsynced
        /\ suspensions' = suspensions
    BY DEF rows
  <1>1. /\ Live' = Live /\ \A m : Reds(m)' = Reds(m)
    BY <1>0, EventFacts
  <1>2. EventReads(c)' /\ ReportReads(c)' /\ StatusReads(c)'
    BY <1>0, <1>1 DEF Reads, EventReads, ReportReads, StatusReads, At, RedPlayers, IsCard
  <1>3. PICK entry : entry = call[c]
    OBVIOUS
  <1>4. ASSUME At(c, "sync.card") PROVE LoopHolds(entry, {})'
    <2>1. LoopHolds(entry, {})
      BY <1>3, <1>4 DEF Reads, SyncReads
    <2> QED
      BY <1>0, <2>1, LoopKept DEF Status
  <1>5. ASSUME call[c].at \in {"sync.find", "sync.update", "sync.create"}
        PROVE  LoopHolds(entry.loop, Pending(c))' /\ IsInput(entry.player, entry.team)
    <2>1. PICK pending : pending = Pending(c)
      OBVIOUS
    <2>2. LoopHolds(entry.loop, pending) /\ IsInput(entry.player, entry.team)
      BY <1>3, <1>5, <2>1 DEF Reads, SyncReads
    <2>3. LoopHolds(entry.loop, pending)'
      BY <1>0, <2>2, LoopKept DEF Status
    <2>4. Pending(c)' = pending
      BY <2>1 DEF Pending
    <2> QED
      BY <2>2, <2>3, <2>4 DEF LoopHolds
  <1>6. ASSUME At(c, "sync.cancel") PROVE CancelHolds(entry.match, entry.stale)'
    <2>1. CancelHolds(entry.match, entry.stale)
      BY <1>3, <1>6 DEF Reads, SyncReads
    <2> QED
      BY <1>0, <2>1, CancelQuiet
  <1>7. call'[c] = entry
    BY <1>3
  <1>8. SyncReads(c)'
    <2>1. At(c, "sync.card")' => LoopHolds(call[c], {})'
      BY <1>3, <1>4, <1>7 DEF At, LoopHolds
    <2>2. call'[c].at \in {"sync.find", "sync.update", "sync.create"} =>
            LoopHolds(call[c].loop, Pending(c))' /\ IsInput(call'[c].player, call'[c].team)
      BY <1>3, <1>5, <1>7 DEF LoopHolds
    <2>3. At(c, "sync.cancel")' => CancelHolds(call[c].match, call[c].stale)'
      BY <1>3, <1>6, <1>7 DEF At, CancelHolds
    <2> QED
      BY <2>1, <2>2, <2>3 DEF SyncReads, IsInput
  <1> QED
    BY <1>2, <1>8 DEF Reads

LEMMA SoloInvStep ==
    ASSUME OneAtATime, SoloInv, [Next]_vars
    PROVE  SoloInv'
  <1>0. ServedInv /\ TypeOK /\ RowsInv
    BY DEF SoloInv, ServedInv
  <1>1. ServedInv'
    BY <1>0, ServedInvStep
  <1>2. ASSUME NEW c \in Clients, RowsInv', Reads(c)'
        PROVE  SoloInv'
    <2>1. \A d \in Clients : d = c
      BY DEF OneAtATime
    <2>2. \A d \in Clients : Reads(d)'
      BY <1>2, <2>1
    <2> QED
      BY <1>1, <1>2, <2>2 DEF SoloInv
  <1>3. ASSUME NEW c \in Clients, EventStep(c)
        PROVE  RowsInv' /\ Reads(c)'
    <2>0. Reads(c) /\ Traced
      BY DEF SoloInv, RowsInv
    <2>1. CASE AddEventWrite(c) \/ UpdateEventWrite(c) \/ RemoveEventWrite(c)
      BY <1>0, <2>0, <2>1, EventWrites
    <2>2. ASSUME \/ \E match \in Matches, body \in EventInputs : AddEventBegin(c, match, body)
                 \/ \E id \in EventIds, body \in EventInputs \cup {Null} :
                        ChangeEventBegin(c, id, body)
                 \/ ChangeEventStatus(c) \/ assertSingleRedCardPerPlayer(c)
          PROVE  RowsInv' /\ Reads(c)'
      <3>1. UNCHANGED rows
        BY <2>2 DEF AddEventBegin, ChangeEventBegin, ChangeEventStatus,
                    assertSingleRedCardPerPlayer
      <3> QED
        BY <1>0, <2>0, <2>2, <3>1, EventSteps, RowsQuiet
    <2> QED
      BY <1>3, <2>1, <2>2 DEF EventStep
  <1>4. ASSUME NEW c \in Clients, MatchStep(c)
        PROVE  RowsInv' /\ Reads(c)'
    <2>0. Reads(c)
      BY DEF SoloInv
    <2>1. CASE MatchReportDelete(c)
      BY <1>0, <2>0, <2>1, ReportDeletes
    <2>2. CASE MatchReportCreate(c)
      BY <1>0, <2>0, <2>2, ReportCreates
    <2>3. CASE UpdateStatusWrite(c)
      BY <1>0, <2>0, <2>3, StatusWrites
    <2>4. CASE markServedSuspensionsForMatch(c)
      BY <1>0, <2>0, <2>4, ServedWrites
    <2>5. ASSUME \/ \E match \in Matches, list \in EventLists : MatchReportBegin(c, match, list)
                 \/ MatchReportRed(c)
                 \/ \E match \in Matches, finish \in BOOLEAN :
                        UpdateStatusBegin(c, match, finish)
          PROVE  RowsInv' /\ Reads(c)'
      <3>1. UNCHANGED rows
        BY <2>5 DEF MatchReportBegin, MatchReportRed, UpdateStatusBegin
      <3> QED
        BY <1>0, <2>0, <2>5, <3>1, MatchSteps, RowsQuiet
    <2> QED
      BY <1>4, <2>1, <2>2, <2>3, <2>4, <2>5 DEF MatchStep
  <1>5. ASSUME NEW c \in Clients, SyncStep(c)
        PROVE  RowsInv' /\ Reads(c)'
    <2>0. Reads(c) /\ Traced
      BY DEF SoloInv, RowsInv
    <2>1. CASE SyncMatch(c) \/ SyncEvents(c)
      <3>1. UNCHANGED rows
        BY <2>1 DEF SyncMatch, SyncEvents
      <3> QED
        BY <1>0, <2>0, <2>1, <3>1, SyncBegins, RowsQuiet
    <2>2. ASSUME At(c, "sync.card"), NEW card \in call[c].todo,
                 createSuspensionsForRedCard(c, card) \/ SyncYellowCard(c, card)
          PROVE  RowsInv' /\ Reads(c)'
      <3>1. UNCHANGED rows
        BY <2>2 DEF createSuspensionsForRedCard, SyncYellowCard
      <3> QED
        BY <1>0, <2>0, <2>2, <3>1, LoopTakesUp, RowsQuiet
    <2>3. CASE UpsertFind(c)
      BY <1>0, <2>0, <2>3, FindReads, RowsQuiet DEF UpsertFind
    <2>4. CASE UpsertUpdate(c) \/ UpsertCreate(c)
      BY <1>0, <2>0, <2>4, UpsertSteps
    <2>5. CASE SyncActive(c)
      BY <1>0, <2>0, <2>5, ActiveReads, RowsQuiet DEF SyncActive
    <2>6. ASSUME At(c, "sync.cancel"), NEW key \in call[c].stale, CancelSuspension(c, key)
          PROVE  RowsInv' /\ Reads(c)'
      BY <1>0, <2>0, <2>6, CancelStep
    <2>7. CASE SyncEnd(c)
      BY <1>0, <2>0, <2>7, EndStep
    <2> QED
      BY <1>5, <2>1, <2>2, <2>3, <2>4, <2>5, <2>6, <2>7 DEF SyncStep
  <1>6. ASSUME NEW c \in Clients, Fail(c)
        PROVE  RowsInv' /\ Reads(c)'
    BY <1>0, <1>6, RowsQuiet, ReadsNothing DEF Fail
  <1>7. CASE UNCHANGED vars
    <2>1. UNCHANGED rows /\ call' = call
      BY <1>7 DEF vars
    <2>2. ASSUME NEW c \in Clients PROVE Reads(c)'
      BY <1>0, <2>1, ReadsQuiet DEF SoloInv
    <2>3. RowsInv'
      BY <1>0, <2>1, RowsQuiet
    <2> QED
      BY <1>1, <2>2, <2>3 DEF SoloInv
  <1> QED
    BY <1>2, <1>3, <1>4, <1>5, <1>6, <1>7 DEF Next

-----------------------------------------------------------------------------
(* What follows.                                                           *)

LEMMA AgreesEverywhere ==
    ASSUME TypeOK, RowsInv, OneTeamPerPlayer
    PROVE  CardsAndSuspensionsAgree
  <1>1. ASSUME NEW id \in Live, events[id].type = "RED_CARD", events[id].match \notin unsynced
        PROVE  /\ id \in Reds(events[id].match) /\ Agrees(events[id].match)
               /\ events[id].player \in Players
               /\ findNextTeamMatch(events[id].match, events[id].team) \in Matches \cup {Null}
    <2>1. /\ events[id].match \in Matches /\ events[id].player \in Players
          /\ events[id].team \in Teams /\ id \in Reds(events[id].match)
      BY <1>1 DEF TypeOK, Rows, Live, Reds, CardsOf, IsCard
    <2> QED
      BY <1>1, <2>1, NextTeamMatchType DEF RowsInv
  <1>2. RedCardSuspends
    BY <1>1 DEF RedCardSuspends, Agrees, RedsSuspended
  <1>3. NoRedCardNoSuspension
    <2>1. ASSUME NEW key \in Keys, key.reason = "RED_CARD", key.source \notin unsynced,
                 Status(key) = "ACTIVE"
          PROVE  \E id \in CardsOf(key.source) :
                    /\ events[id].type = "RED_CARD" /\ events[id].player = key.player
                    /\ events[id].team = suspensions[key].team
      <3>1. OnlyReds(key.source)
        BY <2>1 DEF RowsInv, Agrees, Keys
      <3> QED
        BY <2>1, <3>1 DEF OnlyReds, Reds
    <2> QED
      BY <2>1 DEF NoRedCardNoSuspension
  <1> QED
    BY <1>2, <1>3 DEF CardsAndSuspensionsAgree

\* Only the end of a sync takes a match out of unsynced.
LEMMA OnlySyncEnds ==
    ASSUME NEW c \in Clients, EventStep(c) \/ MatchStep(c) \/ SyncStep(c) \/ Fail(c)
    PROVE  SyncEnd(c) \/ unsynced \subseteq unsynced'
  <1>1. CASE EventStep(c)
    BY <1>1 DEF EventStep, AddEventBegin, ChangeEventBegin, ChangeEventStatus,
                assertSingleRedCardPerPlayer, AddEventWrite, UpdateEventWrite,
                RemoveEventWrite, AfterEvent, rows
  <1>2. CASE MatchStep(c)
    BY <1>2 DEF MatchStep, MatchReportBegin, MatchReportRed, MatchReportDelete,
                MatchReportCreate, UpdateStatusBegin, UpdateStatusWrite,
                markServedSuspensionsForMatch, rows
  <1>3. CASE SyncStep(c)
    BY <1>3 DEF SyncStep, SyncMatch, SyncEvents, createSuspensionsForRedCard, SyncYellowCard,
                UpsertFind, UpsertUpdate, UpsertCreate, SyncActive, CancelSuspension, rows
  <1>4. CASE Fail(c)
    BY <1>4 DEF Fail, rows
  <1> QED
    BY <1>1, <1>2, <1>3, <1>4

YellowsSuspend ==
    \A id \in Live : \A next \in Matches :
        /\ events[id].type = "YELLOW_CARD"
        /\ events[id].match \in unsynced \ unsynced'
        /\ countSeasonYellowCards(events[id].player, events[id].team) % 2 = 0
        /\ next = findNextTeamMatch(events[id].match, events[id].team)
        => Status(Key(events[id].player, events[id].match, next,
                      "ACCUMULATED_YELLOW_CARDS")) = "ACTIVE"

LEMMA EndSuspends ==
    ASSUME SoloInv, [Next]_vars
    PROVE  YellowsSuspend
  <1> SUFFICES ASSUME NEW id \in Live, NEW next \in Matches,
                      events[id].type = "YELLOW_CARD",
                      events[id].match \in unsynced, events[id].match \notin unsynced',
                      countSeasonYellowCards(events[id].player, events[id].team) % 2 = 0,
                      next = findNextTeamMatch(events[id].match, events[id].team)
               PROVE  Status(Key(events[id].player, events[id].match, next,
                                 "ACCUMULATED_YELLOW_CARDS")) = "ACTIVE"
    BY DEF YellowsSuspend
  <1>1. PICK c \in Clients : SyncEnd(c)
    <2>1. ~UNCHANGED vars
      BY DEF vars, rows
    <2> QED
      BY <2>1, OnlySyncEnds DEF Next
  <1>2. /\ At(c, "sync.cancel") /\ call[c].stale = {} /\ unsynced' = unsynced \ {call[c].match}
        /\ Reads(c)
    BY <1>1 DEF SyncEnd, SoloInv
  <1>3. CancelHolds(call[c].match, {}) /\ events[id].match = call[c].match
    BY <1>2 DEF Reads, SyncReads
  <1>4. id \in CardsOf(call[c].match)
    BY <1>3 DEF CardsOf, IsCard
  <1> DEFINE key == Key(events[id].player, events[id].match, next, "ACCUMULATED_YELLOW_CARDS")
  <1>5. key \in Owed(events[id], ~finished[call[c].match])
    BY DEF Owed, NextMatches
  <1>6. key.reason # "RED_CARD"
    BY DEF Key
  <1> HIDE DEF key
  <1>7. Status(key) = "ACTIVE"
    BY <1>3, <1>4, <1>5, <1>6 DEF CancelHolds
  <1> QED
    BY <1>7 DEF key

LEMMA SoloInvHolds == OneAtATime => (Spec => []SoloInv)
  <1> SUFFICES ASSUME OneAtATime PROVE Spec => []SoloInv
    OBVIOUS
  <1>1. SoloInv /\ [Next]_vars => SoloInv'
    BY SoloInvStep
  <1> QED
    BY SoloInvInit, <1>1, PTL DEF Spec

\* One request at a time: a player has at most one red card in a match, however
\* events and reports replace each other and wherever a request dies between
\* two statements (assertSingleRedCardPerPlayer and the checks of a report).
THEOREM OneRedCard == OneAtATime => (Spec => []OneRedCardPerMatch)
  <1> SUFFICES ASSUME OneAtATime PROVE Spec => []OneRedCardPerMatch
    OBVIOUS
  <1>1. SoloInv => OneRedCardPerMatch
    BY DEF SoloInv, RowsInv
  <1> QED
    BY SoloInvHolds, <1>1, PTL

\* One request at a time, and a player's cards name one team: once a sync has
\* seen the cards of a match, the red cards in it and the suspensions for them
\* are the same, after any corrections, replaced reports and syncs that died.
THEOREM CardsAndSuspensionsMatch ==
    OneAtATime /\ OneTeamPerPlayer => (Spec => []CardsAndSuspensionsAgree)
  <1> SUFFICES ASSUME OneAtATime, OneTeamPerPlayer PROVE Spec => []CardsAndSuspensionsAgree
    OBVIOUS
  <1>1. SoloInv => CardsAndSuspensionsAgree
    BY AgreesEverywhere DEF SoloInv, ServedInv
  <1> QED
    BY SoloInvHolds, <1>1, PTL

\* One request at a time: the sync of a match with a yellow card of a player who
\* has an even number of them leaves him suspended in the next match of his team.
THEOREM YellowCardsSuspend == OneAtATime => (Spec => EvenYellowCardsSuspend)
  <1> SUFFICES ASSUME OneAtATime PROVE Spec => EvenYellowCardsSuspend
    OBVIOUS
  <1>1. SoloInv /\ [Next]_vars => [YellowsSuspend]_vars
    BY EndSuspends
  <1>2. Spec => [][YellowsSuspend]_vars
    BY SoloInvHolds, <1>1, PTL DEF Spec
  <1> QED
    BY <1>2 DEF EvenYellowCardsSuspend, YellowsSuspend
=============================================================================
