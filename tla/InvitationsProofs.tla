-------------------------- MODULE InvitationsProofs -------------------------
(***************************************************************************)
(* The promises of Invitations, for any teams, slots and numbers of        *)
(* requests.  That a refusal stands holds whatever races and dies; that an *)
(* answer registers and a replacement fits, of requests that have not      *)
(* overlapped, any of which may die.                                       *)
(***************************************************************************)
EXTENDS Invitations, FiniteSetTheorems, TLAPS

-----------------------------------------------------------------------------
(* Types.                                                                  *)

Answers == {"ACCEPTED", "DECLINED"}
InSend == {"sendSweep", "sendSlots", "sendWrite", "sendPromo"}
InRespond == {"respondLate", "respondWrite", "respondTeam", "respondPromo"}
InApproval == {"approveSweep", "approveList", "approveWrite"}
Entries == [team : Teams, source : Sources]

Locals == [at : {"none"} \cup InSend \cup InRespond \cup InApproval,
           team : Teams \cup {Nil}, source : Sources \cup {Nil}, answer : Answers \cup {Nil},
           candidates : SUBSET Entries]

\* What a request has in its local variables at one of its awaits.
LocalsFit(c) ==
  /\ call[c].at \in InSend \cup InRespond => call[c].team \in Teams /\ call[c].source \in Sources
  /\ call[c].at \in InRespond => call[c].answer \in Answers
  /\ call[c].at = "respondWrite" => inv[call[c].team] # Nil

InvitationsType ==
  /\ inv \in [Teams -> InvitationRows \cup {Nil}]
  /\ reg \in [Teams -> Holding \cup {Nil}]
  /\ promo \in [Teams -> PromotionRows \cup {Nil}]
  /\ call \in [Clients -> Locals] /\ \A c \in Clients : LocalsFit(c)
  /\ overlap \in BOOLEAN /\ torn \subseteq Teams /\ older \in [Teams -> SUBSET Clients]
  /\ begun \in Nat

\* Only time has passed for the invitations.
Ages ==
  /\ inv' \in [Teams -> InvitationRows \cup {Nil}]
  /\ \A t \in Teams :
       /\ inv'[t] = Nil <=> inv[t] = Nil
       /\ inv[t] # Nil => inv'[t].source = inv[t].source
       /\ \/ InvStatus(t)' = InvStatus(t)
          \/ InvStatus(t) = "SENT" /\ InvStatus(t)' = "EXPIRED"

LEMMA IdleLocals ==
  NoCall \in Locals /\ NoCall.at = "none"
  BY DEF NoCall, Locals

LEMMA Named ==
  /\ Nil \notin Teams /\ Nil \notin Sources
  /\ Nil \notin {"REGISTERED", "APPROVED", "SENT", "ACCEPTED", "DECLINED", "EXPIRED"}
  /\ Nil \notin InvitationRows /\ Nil \notin PromotionRows
  BY InvitationsAssumption DEF Holding, Active

LEMMA StatusType ==
  ASSUME InvitationsType, NEW t \in Teams
  PROVE  /\ InvStatus(t) \in Active \cup {"DECLINED", "EXPIRED", Nil}
         /\ InvStatus(t) = Nil <=> inv[t] = Nil
         /\ inv[t] # Nil => inv[t] \in InvitationRows /\ InvStatus(t) = inv[t].status
  BY InvitationsAssumption DEF InvitationsType, InvStatus, InvitationRows

LEMMA Unaged ==
  ASSUME InvitationsType, inv' = inv
  PROVE  Ages
  BY DEF InvitationsType, Ages, InvStatus

LEMMA SweptAges ==
  ASSUME InvitationsType, NEW S, inv' = Swept(S)
  PROVE  Ages
  <1>1. ASSUME NEW t \in Teams, inv[t] # Nil, inv[t].status = "SENT",
               inv'[t] = [inv[t] EXCEPT !.status = "EXPIRED", !.late = FALSE]
        PROVE  /\ inv'[t] \in InvitationRows /\ inv'[t].status = "EXPIRED"
               /\ inv'[t].source = inv[t].source
    BY <1>1, StatusType DEF InvitationRows
  <1>2. \A t \in Teams : \/ inv'[t] = inv[t]
                         \/ /\ inv[t] # Nil /\ inv[t].status = "SENT"
                            /\ inv'[t] = [inv[t] EXCEPT !.status = "EXPIRED", !.late = FALSE]
    <2> SUFFICES ASSUME NEW t \in Teams, inv'[t] # inv[t]
                 PROVE  /\ inv[t] # Nil /\ inv[t].status = "SENT"
                        /\ inv'[t] = [inv[t] EXCEPT !.status = "EXPIRED", !.late = FALSE]
      OBVIOUS
    <2>1. InvStatus(t) = "SENT" => inv[t] # Nil /\ inv[t].status = "SENT"
      BY Named, StatusType
    <2> QED
      BY <2>1 DEF Swept
  <1>3. ASSUME NEW t \in Teams
        PROVE  /\ inv'[t] \in InvitationRows \cup {Nil}
               /\ inv'[t] = Nil <=> inv[t] = Nil
               /\ inv[t] # Nil => inv'[t].source = inv[t].source
               /\ \/ InvStatus(t)' = InvStatus(t)
                  \/ InvStatus(t) = "SENT" /\ InvStatus(t)' = "EXPIRED"
    <2>1. CASE inv'[t] = inv[t]
      BY <2>1 DEF InvStatus, InvitationsType
    <2>2. CASE inv'[t] # inv[t]
      <3>1. /\ inv[t] # Nil /\ inv[t].status = "SENT"
            /\ inv'[t] \in InvitationRows /\ inv'[t].status = "EXPIRED"
            /\ inv'[t].source = inv[t].source
        BY <1>1, <1>2, <2>2
      <3> QED
        BY <3>1, Named DEF InvStatus
    <2> QED
      BY <2>1, <2>2
  <1>4. inv' \in [Teams -> InvitationRows \cup {Nil}]
    BY <1>3 DEF Swept
  <1> QED
    BY <1>3, <1>4 DEF Ages

LEMMA LateAges ==
  ASSUME InvitationsType, NEW t \in Teams, DeadlinePasses(t)
  PROVE  Ages
  <1>1. /\ inv[t] # Nil /\ inv[t] \in InvitationRows
        /\ inv' = [inv EXCEPT ![t] = [inv[t] EXCEPT !.late = TRUE]]
    <2>1. InvStatus(t) = "SENT" => inv[t] # Nil /\ inv[t] \in InvitationRows
      BY Named, StatusType
    <2>2. InvStatus(t) = "SENT" /\ inv' = [inv EXCEPT ![t].late = TRUE]
      BY DEF DeadlinePasses
    <2> QED
      BY <2>1, <2>2
  <1>2. [inv[t] EXCEPT !.late = TRUE] \in InvitationRows
    BY <1>1 DEF InvitationRows
  <1>3. [inv[t] EXCEPT !.late = TRUE].status = inv[t].status
        /\ [inv[t] EXCEPT !.late = TRUE].source = inv[t].source
    BY <1>1 DEF InvitationRows
  <1>4. \A u \in Teams : inv'[u] = IF u = t THEN [inv[t] EXCEPT !.late = TRUE] ELSE inv[u]
    BY <1>1 DEF InvitationsType
  <1>5. inv' \in [Teams -> InvitationRows \cup {Nil}]
    BY <1>1, <1>2 DEF InvitationsType
  <1>6. [inv[t] EXCEPT !.late = TRUE] # Nil
    BY <1>2, Named
  <1> QED
    BY <1>1, <1>3, <1>4, <1>5, <1>6 DEF Ages, InvStatus

\* A request that moves on or ends, and the others.
LEMMA MoveLocals ==
  ASSUME InvitationsType, NEW c \in Clients,
         NEW step \in {"none"} \cup InSend \cup InRespond \cup InApproval,
         call' = [call EXCEPT ![c].at = step]
  PROVE  /\ call' \in [Clients -> Locals]
         /\ \A d \in Clients \ {c} : call'[d] = call[d]
         /\ call'[c].at = step /\ call'[c].team = call[c].team
         /\ call'[c].source = call[c].source /\ call'[c].answer = call[c].answer
         /\ call'[c].candidates = call[c].candidates
  <1>1. call[c] \in Locals
    BY DEF InvitationsType
  <1>2. PICK next : next = [call[c] EXCEPT !.at = step]
    OBVIOUS
  <1>3. /\ next \in Locals
        /\ next.at = step /\ next.team = call[c].team
        /\ next.source = call[c].source /\ next.answer = call[c].answer
        /\ next.candidates = call[c].candidates
    BY <1>1, <1>2 DEF Locals
  <1>4. call' = [call EXCEPT ![c] = next]
    BY <1>2
  <1> QED
    BY <1>3, <1>4 DEF InvitationsType

LEMMA EndLocals ==
  ASSUME InvitationsType, NEW c \in Clients, Ends(c)
  PROVE  /\ call' \in [Clients -> Locals]
         /\ call'[c] = NoCall /\ \A d \in Clients \ {c} : call'[d] = call[d]
         /\ older' \in [Teams -> SUBSET Clients]
         /\ \A t \in Teams : older'[t] = older[t] \ {c}
  BY IdleLocals DEF Ends, InvitationsType

LEMMA BeginLocals ==
  ASSUME InvitationsType, NEW c \in Clients, NEW local \in Locals,
         Begin(c, local)
  PROVE  /\ call' \in [Clients -> Locals]
         /\ call'[c] = local /\ \A d \in Clients \ {c} : call'[d] = call[d]
         /\ older' \in [Teams -> SUBSET Clients] /\ overlap' \in BOOLEAN
  BY DEF Begin, InvitationsType

LEMMA MovedFit ==
  ASSUME InvitationsType, NEW c \in Clients, LocalsFit(c)',
         \A d \in Clients \ {c} : call'[d] = call[d],
         \A t \in Teams : inv[t] # Nil => inv'[t] # Nil
  PROVE  \A d \in Clients : LocalsFit(d)'
  BY DEF InvitationsType, LocalsFit, InRespond

\* The entries of a list are teams with a source, and none has declined unless
\* it holds a registration: those are the teams registered by hand.
LEMMA ListEntries ==
  ASSUME InvitationsType, NEW list \in CandidateLists
  PROVE  /\ list \subseteq Entries
         /\ \A e \in list : InvStatus(e.team) = "DECLINED" => reg[e.team] \in Holding
  <1> DEFINE rest(S) == Teams \ (TopTeams \cup S)
             invited(S) == {t \in rest(S) : inv[t] # Nil /\ inv[t].source = "PROMOTED"}
             byHand(S) == {t \in rest(S) : reg[t] \in Holding}
             top == {t \in TopTeams : IsDisplayable(t)}
             promoted(p) == {t \in p[1] : t \in p[2] \/ IsDisplayable(t)}
             free(p) == TotalRequired - Cardinality(top) - Cardinality(promoted(p))
             entry(p, t) == [team |-> t,
                             source |-> IF t \in top THEN "PREVIOUS_TOP_8"
                                        ELSE IF t \in promoted(p) THEN "PROMOTED"
                                        ELSE "REPLACEMENT"]
  <1>1. \A S, n : \A T \in Pick(S, n) : T \subseteq S
    BY DEF Pick, kSubset
  <1>2. PICK p \in PromotedCandidates :
          \E R \in Pick(Replacements(TopTeams \cup p[1]), free(p)) :
            list = {entry(p, t) : t \in top \cup promoted(p) \cup R}
    BY DEF CandidateLists
  <1>3. PICK R \in Pick(Replacements(TopTeams \cup p[1]), free(p)) :
          list = {entry(p, t) : t \in top \cup promoted(p) \cup R}
    BY <1>2
  <1>4. PICK I, H : /\ I \in Pick(invited(ByRank), Left(ByRank))
                    /\ H \in Pick(byHand(ByRank \cup I), Left(ByRank \cup I))
                    /\ p = <<ByRank \cup I \cup H, H>>
    <2> DEFINE pairs(S) == {<<ByRank \cup S \cup H, H>> :
                              H \in Pick(byHand(ByRank \cup S), Left(ByRank \cup S))}
    <2>1. PromotedCandidates = UNION {UNION {pairs(S) : S \in Pick(invited(ByRank), Left(ByRank))}}
      BY DEF PromotedCandidates
    <2>2. \E S \in Pick(invited(ByRank), Left(ByRank)) : p \in pairs(S)
      <3> HIDE DEF pairs, invited
      <3> QED
        BY <2>1
    <2> QED
      BY <2>2
  <1>5. p[1] \subseteq Teams /\ p[2] \subseteq {t \in Teams : reg[t] \in Holding}
    <2>1. I \subseteq Teams /\ H \subseteq {t \in Teams : reg[t] \in Holding}
      BY <1>1, <1>4
    <2>2. ByRank \subseteq Teams
      BY DEF ByRank
    <2> QED
      BY <1>4, <2>1, <2>2
  <1>6. R \subseteq {t \in Teams : inv[t] # Nil /\ inv[t].status \in Active}
    BY <1>1 DEF Replacements
  <1>7. \A t \in top \cup promoted(p) \cup R :
          t \in Teams /\ (reg[t] \in Holding \/ inv[t] = Nil \/ inv[t].status \in Active)
    BY <1>5, <1>6, InvitationsAssumption DEF IsDisplayable
  <1>8. \A t \in Teams : InvStatus(t) = "DECLINED" =>
                           inv[t] # Nil /\ inv[t].status \notin Active
    BY Named DEF InvStatus, Active
  <1>9. \A t : entry(p, t).team = t /\ entry(p, t).source \in Sources
    BY DEF Sources
  <1>10. \A t \in Teams : entry(p, t) \in Entries
    BY DEF Entries, Sources
  <1> HIDE DEF entry, top, promoted
  <1> QED
    BY <1>3, <1>7, <1>8, <1>9, <1>10

\* The team that approveAll writes, with its source.
LEMMA ApprovedRow ==
  ASSUME InvitationsType, NEW c \in Clients, NEW t, t \in {e.team : e \in call[c].candidates}
  PROVE  /\ t \in Teams
         /\ (CHOOSE e \in call[c].candidates : e.team = t).source \in Sources
  <1>1. call[c].candidates \subseteq Entries
    BY DEF InvitationsType, Locals
  <1>2. PICK e \in call[c].candidates : e.team = t
    OBVIOUS
  <1>3. (CHOOSE f \in call[c].candidates : f.team = t) \in call[c].candidates
    BY <1>2
  <1> QED
    BY <1>1, <1>2, <1>3 DEF Entries

\* A row that is written has the status it is written with.
LEMMA RowWritten ==
  ASSUME InvitationsType, NEW t \in Teams, NEW row \in InvitationRows,
         inv' = [inv EXCEPT ![t] = row]
  PROVE  /\ inv' \in [Teams -> InvitationRows \cup {Nil}]
         /\ inv'[t] = row /\ InvStatus(t)' = row.status
         /\ \A u \in Teams \ {t} : inv'[u] = inv[u] /\ InvStatus(u)' = InvStatus(u)
  BY Named DEF InvitationsType, InvStatus

LEMMA SendWritten ==
  ASSUME InvitationsType, NEW c \in Clients, SendWrite(c),
         NEW t, t = call[c].team, NEW source, source = call[c].source
  PROVE  /\ t \in Teams /\ source \in Sources
         /\ inv' \in [Teams -> InvitationRows \cup {Nil}]
         /\ inv'[t] = Sent(source) /\ InvStatus(t)' = "SENT"
         /\ \A u \in Teams \ {t} : inv'[u] = inv[u] /\ InvStatus(u)' = InvStatus(u)
  <1>1. t \in Teams /\ source \in Sources
    BY DEF InvitationsType, LocalsFit, SendWrite, At, InSend
  <1>2. Sent(source) \in InvitationRows /\ Sent(source).status = "SENT"
    BY <1>1 DEF Sent, InvitationRows, Active
  <1>3. inv' = [inv EXCEPT ![t] = Sent(source)]
    BY DEF SendWrite
  <1> QED
    BY <1>1, <1>2, <1>3, RowWritten

LEMMA Responding ==
  ASSUME InvitationsType, NEW c \in Clients, call[c].at \in InRespond
  PROVE  call[c].team \in Teams /\ call[c].source \in Sources /\ call[c].answer \in Answers
  BY DEF InvitationsType, LocalsFit

\* respondToInvitation writes the answer to a row that need not be SENT any more.
LEMMA RespondWritten ==
  ASSUME InvitationsType, NEW c \in Clients, RespondWrite(c),
         NEW t, t = call[c].team
  PROVE  /\ t \in Teams /\ call[c].answer \in Answers
         /\ inv' \in [Teams -> InvitationRows \cup {Nil}]
         /\ inv'[t] # Nil /\ InvStatus(t)' = call[c].answer
         /\ \A u \in Teams \ {t} : inv'[u] = inv[u] /\ InvStatus(u)' = InvStatus(u)
  <1>1. t \in Teams /\ call[c].answer \in Answers
    BY Responding DEF RespondWrite, At, InRespond
  <1>2. inv[t] # Nil
    BY DEF InvitationsType, LocalsFit, RespondWrite, At
  <1>3. PICK row : row = [inv[t] EXCEPT !.status = call[c].answer, !.late = FALSE]
    OBVIOUS
  <1>4. inv[t] \in InvitationRows
    BY <1>1, <1>2, StatusType
  <1>5. row \in InvitationRows /\ row.status = call[c].answer
    BY <1>1, <1>3, <1>4 DEF InvitationRows, Answers, Active
  <1>6. inv' = [inv EXCEPT ![t] = row]
    BY <1>3 DEF RespondWrite
  <1> QED
    BY <1>1, <1>5, <1>6, RowWritten, Named

LEMMA InvitationsTypeInit ==
  ASSUME Init
  PROVE  InvitationsType
  BY IdleLocals
     DEF Init, InvitationsType, LocalsFit, NoCall, InSend, InRespond

\* What SetPromo leaves.
LEMMA PromoType ==
  ASSUME InvitationsType, NEW S, NEW open \in BOOLEAN, SetPromo(S, open)
  PROVE  promo' \in [Teams -> PromotionRows \cup {Nil}]
  <1>1. \A t \in Teams : promo[t] # Nil => [promo[t] EXCEPT !.open = open] \in PromotionRows
    BY DEF InvitationsType, PromotionRows
  <1> QED
    BY <1>1 DEF SetPromo, InvitationsType

LEMMA CallsFit ==
  ASSUME InvitationsType, NEW c \in Clients,
         call' \in [Clients -> Locals],
         \A d \in Clients \ {c} : call'[d] = call[d],
         \/ call'[c].at \notin InSend \cup InRespond
         \/ /\ call[c].at \in InSend /\ call'[c].at \in InSend
            /\ call'[c].team = call[c].team /\ call'[c].source = call[c].source
         \/ /\ call[c].at \in InRespond /\ call'[c].at \in InRespond \ {"respondWrite"}
            /\ call'[c].team = call[c].team /\ call'[c].source = call[c].source
            /\ call'[c].answer = call[c].answer,
         \A t \in Teams : inv[t] # Nil => inv'[t] # Nil
  PROVE  \A d \in Clients : LocalsFit(d)'
  <1>1. LocalsFit(c)'
    BY DEF InvitationsType, LocalsFit, InSend, InRespond
  <1> QED
    BY <1>1, MovedFit

LEMMA InvitationsTypeClient ==
  ASSUME InvitationsType, NEW c \in Clients,
         \/ \E t \in Teams : \/ \E s \in Sources : SendBegin(c, t, s)
                             \/ \E a \in {"ACCEPTED", "DECLINED"} : RespondBegin(c, t, a)
         \/ SendSweep(c) \/ SendSlots(c) \/ SendWrite(c) \/ SendPromo(c)
         \/ RespondLate(c) \/ RespondWrite(c)
         \/ RespondTeam(c) \/ RespondPromo(c)
         \/ ApproveAllBegin(c) \/ ApproveAllSweep(c) \/ ApproveAllList(c) \/ ApproveAllWrite(c)
         \/ Die(c)
  PROVE  InvitationsType'
  <1> USE DEF InSend, InRespond, InApproval
  <1> DEFINE Rest == /\ overlap' \in BOOLEAN /\ torn' \subseteq Teams
                     /\ older' \in [Teams -> SUBSET Clients] /\ begun' \in Nat
             Rows == /\ inv' \in [Teams -> InvitationRows \cup {Nil}]
                     /\ reg' \in [Teams -> Holding \cup {Nil}]
                     /\ promo' \in [Teams -> PromotionRows \cup {Nil}]
             Calls == call' \in [Clients -> Locals] /\ \A d \in Clients : LocalsFit(d)'
  <1>0. /\ call[c] \in Locals /\ LocalsFit(c)
        /\ inv \in [Teams -> InvitationRows \cup {Nil}]
        /\ reg \in [Teams -> Holding \cup {Nil}]
        /\ promo \in [Teams -> PromotionRows \cup {Nil}]
        /\ overlap \in BOOLEAN /\ torn \subseteq Teams
        /\ older \in [Teams -> SUBSET Clients] /\ begun \in Nat
    BY DEF InvitationsType
  <1>1. ASSUME NEW t \in Teams, NEW s \in Sources, SendBegin(c, t, s) PROVE Rest /\ Rows /\ Calls
    <2>1. PICK local : /\ Begin(c, local) /\ Counts
                       /\ local = [NoCall EXCEPT !.team = t, !.source = s,
                                     !.at = IF s = "REPLACEMENT" THEN "sendSweep" ELSE "sendWrite"]
      BY <1>1 DEF SendBegin
    <2>2. /\ local \in Locals /\ local.at \in InSend /\ local.team = t /\ local.source = s
      BY <2>1 DEF NoCall, Locals
    <2>3. /\ call' \in [Clients -> Locals] /\ call'[c] = local
          /\ \A d \in Clients \ {c} : call'[d] = call[d]
          /\ older' \in [Teams -> SUBSET Clients] /\ overlap' \in BOOLEAN
      BY <2>1, <2>2, BeginLocals
    <2>4. inv' = inv /\ reg' = reg /\ promo' = promo /\ torn' = torn /\ begun' = begun + 1
      BY <2>1 DEF Begin, rows, Counts
    <2>5. LocalsFit(c)'
      BY <2>2, <2>3 DEF LocalsFit
    <2>6. \A d \in Clients : LocalsFit(d)'
      BY <2>3, <2>4, <2>5, MovedFit
    <2> QED
      BY <1>0, <2>3, <2>4, <2>6
  <1>2. ASSUME NEW t \in Teams, NEW a \in {"ACCEPTED", "DECLINED"}, RespondBegin(c, t, a)
        PROVE  Rest /\ Rows /\ Calls
    <2>1. PICK local : /\ Begin(c, local)
                       /\ local = [NoCall EXCEPT !.team = t, !.answer = a, !.source = inv[t].source,
                                     !.at = IF inv[t].late THEN "respondLate" ELSE "respondWrite"]
      BY <1>2 DEF RespondBegin
    <2>2. inv[t] # Nil /\ inv[t] \in InvitationRows
      BY <1>2, Named, StatusType DEF RespondBegin
    <2>3. /\ local \in Locals /\ local.at \in InRespond /\ local.team = t
          /\ local.source \in Sources /\ local.answer \in Answers
      BY <2>1, <2>2 DEF NoCall, Locals, InvitationRows, Answers
    <2>4. /\ call' \in [Clients -> Locals] /\ call'[c] = local
          /\ \A d \in Clients \ {c} : call'[d] = call[d]
          /\ older' \in [Teams -> SUBSET Clients] /\ overlap' \in BOOLEAN
      BY <2>1, <2>3, BeginLocals
    <2>5. inv' = inv /\ reg' = reg /\ promo' = promo /\ torn' = torn /\ begun' = begun
      BY <1>2, <2>1 DEF RespondBegin, Begin, rows
    <2>6. LocalsFit(c)'
      BY <2>2, <2>3, <2>4, <2>5 DEF LocalsFit
    <2>7. \A d \in Clients : LocalsFit(d)'
      BY <2>4, <2>5, <2>6, MovedFit
    <2> QED
      BY <1>0, <2>4, <2>5, <2>7
  <1>3. ASSUME ApproveAllBegin(c) PROVE Rest /\ Rows /\ Calls
    <2>1. PICK local : /\ Begin(c, local) /\ Counts
                       /\ local = [NoCall EXCEPT !.at = "approveSweep"]
      BY <1>3 DEF ApproveAllBegin
    <2>2. local \in Locals /\ local.at = "approveSweep"
      BY <2>1 DEF NoCall, Locals
    <2>3. /\ call' \in [Clients -> Locals] /\ call'[c] = local
          /\ \A d \in Clients \ {c} : call'[d] = call[d]
          /\ older' \in [Teams -> SUBSET Clients] /\ overlap' \in BOOLEAN
      BY <2>1, <2>2, BeginLocals
    <2>4. inv' = inv /\ reg' = reg /\ promo' = promo /\ torn' = torn /\ begun' = begun + 1
      BY <2>1 DEF Begin, rows, Counts
    <2>5. \A d \in Clients : LocalsFit(d)'
      BY <2>2, <2>3, <2>4, CallsFit
    <2> QED
      BY <1>0, <2>3, <2>4, <2>5
  <1>4. ASSUME Ages, reg' = reg, Rest,
               \/ Ends(c) /\ promo' \in [Teams -> PromotionRows \cup {Nil}]
               \/ /\ promo' = promo
                  /\ \/ At(c, "sendSweep") /\ Goto(c, "sendSlots")
                     \/ At(c, "sendSlots") /\ Goto(c, "sendWrite")
                     \/ At(c, "approveSweep") /\ Goto(c, "approveList")
        PROVE  Rest /\ Rows /\ Calls
    <2>1. \A t \in Teams : inv[t] # Nil => inv'[t] # Nil
      BY <1>4 DEF Ages
    <2>2. CASE Ends(c)
      <3>1. /\ call' \in [Clients -> Locals] /\ call'[c] = NoCall
            /\ \A d \in Clients \ {c} : call'[d] = call[d]
        BY <2>2, EndLocals
      <3>2. call'[c].at = "none"
        BY <3>1 DEF NoCall
      <3>3. Calls
        BY <2>1, <3>1, <3>2, CallsFit
      <3>4. Rows
        BY <1>0, <1>4 DEF Ages
      <3> QED
        BY <1>4, <3>3, <3>4
    <2>3. CASE /\ promo' = promo
               /\ \/ At(c, "sendSweep") /\ Goto(c, "sendSlots")
                  \/ At(c, "sendSlots") /\ Goto(c, "sendWrite")
                  \/ At(c, "approveSweep") /\ Goto(c, "approveList")
      <3>1. PICK step \in {"sendSlots", "sendWrite", "approveList"} :
              /\ Goto(c, step)
              /\ step \in InSend => call[c].at \in InSend
        BY <2>3 DEF At
      <3>2. /\ call' \in [Clients -> Locals]
            /\ \A d \in Clients \ {c} : call'[d] = call[d]
            /\ call'[c].at = step /\ call'[c].team = call[c].team
            /\ call'[c].source = call[c].source
        BY <3>1, MoveLocals DEF Goto
      <3>3. Calls
        BY <2>1, <3>1, <3>2, CallsFit
      <3>4. Rows
        BY <1>0, <1>4, <2>3 DEF Ages
      <3> QED
        BY <1>4, <3>3, <3>4
    <2> QED
      BY <1>4, <2>2, <2>3
  <1>5. ASSUME SendSweep(c) PROVE Rest /\ Rows /\ Calls
    <2>1. Ages
      BY <1>5, SweptAges DEF SendSweep
    <2>2. Rest
      BY <1>0, <1>5 DEF SendSweep, Goto
    <2> QED
      BY <1>4, <1>5, <2>1, <2>2 DEF SendSweep
  <1>6. ASSUME SendSlots(c) PROVE Rest /\ Rows /\ Calls
    <2>1. Ages
      BY <1>6, Unaged DEF SendSlots, rows
    <2>2. Goto(c, "sendWrite") \/ Reply(c)
      BY <1>6, Zenon DEF SendSlots
    <2>3. Ends(c) \/ Goto(c, "sendWrite")
      BY <2>2 DEF Reply
    <2>4. Rest
      BY <1>0, <2>2, EndLocals DEF Goto, Reply, Ends
    <2> QED
      BY <1>0, <1>4, <1>6, <2>1, <2>3, <2>4 DEF SendSlots, rows
  <1>7. ASSUME ApproveAllSweep(c) PROVE Rest /\ Rows /\ Calls
    <2>1. Ages
      BY <1>7, SweptAges DEF ApproveAllSweep
    <2>2. Rest
      BY <1>0, <1>7 DEF ApproveAllSweep, Goto
    <2> QED
      BY <1>4, <1>7, <2>1, <2>2 DEF ApproveAllSweep
  <1>8. ASSUME Ends(c), torn' \subseteq Teams PROVE Rest
    BY <1>0, <1>8, EndLocals DEF Ends
  <1>9. ASSUME SendPromo(c) PROVE Rest /\ Rows /\ Calls
    <2>1. Ages
      BY <1>9, Unaged DEF SendPromo
    <2>2. Ends(c) /\ torn' = torn /\ promo' \in [Teams -> PromotionRows \cup {Nil}]
      BY <1>9, PromoType DEF SendPromo, Reply
    <2> QED
      BY <1>0, <1>4, <1>8, <1>9, <2>1, <2>2 DEF SendPromo
  <1>10. ASSUME RespondLate(c) PROVE Rest /\ Rows /\ Calls
    <2>1. Ages
      BY <1>10, SweptAges DEF RespondLate
    <2> QED
      BY <1>0, <1>4, <1>8, <1>10, <2>1 DEF RespondLate, Reply
  <1>11. ASSUME RespondPromo(c) PROVE Rest /\ Rows /\ Calls
    <2>1. Ages
      BY <1>11, Unaged DEF RespondPromo
    <2>2. (call[c].answer = "ACCEPTED") \in BOOLEAN
      OBVIOUS
    <2>3. Ends(c) /\ torn' = torn /\ promo' \in [Teams -> PromotionRows \cup {Nil}]
      BY <1>11, <2>2, PromoType DEF RespondPromo, Reply
    <2> QED
      BY <1>0, <1>4, <1>8, <1>11, <2>1, <2>3 DEF RespondPromo
  <1>12. ASSUME Die(c) PROVE Rest /\ Rows /\ Calls
    <2>1. Ages
      BY <1>12, Unaged DEF Die, rows
    <2>2. torn' \subseteq Teams
      BY <1>0, <1>12 DEF Die, At, LocalsFit
    <2> QED
      BY <1>0, <1>4, <1>8, <1>12, <2>1, <2>2 DEF Die, rows
  <1>13. ASSUME SendWrite(c) PROVE Rest /\ Rows /\ Calls
    <2>1. inv' \in [Teams -> InvitationRows \cup {Nil}]
          /\ \A t \in Teams : inv[t] # Nil => inv'[t] # Nil
      BY <1>13, SendWritten, Named DEF InvitationsType, Sent, InvitationRows, InvStatus
    <2>2. Rows
      BY <1>0, <1>13, <2>1 DEF SendWrite
    <2>3. torn' \subseteq Teams /\ At(c, "sendWrite")
      BY <1>0, <1>13 DEF SendWrite
    <2>4. CASE Ends(c)
      <3>1. /\ call' \in [Clients -> Locals] /\ call'[c] = NoCall
            /\ \A d \in Clients \ {c} : call'[d] = call[d]
        BY <2>4, EndLocals
      <3>2. call'[c].at = "none"
        BY <3>1 DEF NoCall
      <3> QED
        BY <1>8, <2>1, <2>2, <2>3, <2>4, <3>1, <3>2, CallsFit
    <2>5. CASE call' = [call EXCEPT ![c].at = "sendPromo"] /\ UNCHANGED <<overlap, older, begun>>
      <3>1. /\ call' \in [Clients -> Locals]
            /\ \A d \in Clients \ {c} : call'[d] = call[d]
            /\ call'[c].at = "sendPromo" /\ call'[c].team = call[c].team
            /\ call'[c].source = call[c].source
        BY <2>5, MoveLocals
      <3>2. Calls
        BY <2>1, <2>3, <3>1, CallsFit DEF At
      <3> QED
        BY <1>0, <2>2, <2>3, <2>5, <3>2
    <2> QED
      BY <1>13, <2>4, <2>5, Zenon DEF SendWrite
  <1>14. ASSUME RespondWrite(c) PROVE Rest /\ Rows /\ Calls
    <2>0. PICK t : t = call[c].team
      OBVIOUS
    <2>1. /\ inv' \in [Teams -> InvitationRows \cup {Nil}] /\ t \in Teams
          /\ \A u \in Teams : inv[u] # Nil => inv'[u] # Nil
      BY <1>14, <2>0, RespondWritten
    <2>2. Rows
      BY <1>0, <1>14, <2>1 DEF RespondWrite
    <2>3. At(c, "respondWrite") /\ call' = [call EXCEPT ![c].at = "respondTeam"]
      BY <1>14 DEF RespondWrite
    <2>4. /\ call' \in [Clients -> Locals]
          /\ \A d \in Clients \ {c} : call'[d] = call[d]
          /\ call'[c].at = "respondTeam" /\ call'[c].team = call[c].team
          /\ call'[c].source = call[c].source /\ call'[c].answer = call[c].answer
      BY <2>3, MoveLocals
    <2>5. Calls
      BY <2>1, <2>3, <2>4, CallsFit DEF At
    <2>6. Rest
      <3>1. PICK S \in SUBSET Clients : older' = [older EXCEPT ![t] = S]
        BY <1>14, <2>0 DEF RespondWrite
      <3>2. older' \in [Teams -> SUBSET Clients]
        BY <1>0, <3>1
      <3> QED
        BY <1>0, <1>14, <3>2 DEF RespondWrite
    <2> QED
      BY <2>2, <2>5, <2>6
  <1>15. ASSUME RespondTeam(c) PROVE Rest /\ Rows /\ Calls
    <2>1. /\ inv' = inv /\ promo' = promo /\ At(c, "respondTeam")
          /\ Goto(c, "respondPromo") \/ Reply(c)
      BY <1>15, Zenon DEF RespondTeam
    <2>2. reg' \in [Teams -> Holding \cup {Nil}]
      BY <1>0, <1>15 DEF RespondTeam, Holding
    <2>3. Rows
      BY <1>0, <2>1, <2>2
    <2>4. CASE Reply(c)
      <3>1. /\ call' \in [Clients -> Locals] /\ call'[c] = NoCall
            /\ \A d \in Clients \ {c} : call'[d] = call[d]
        BY <2>4, EndLocals DEF Reply
      <3>2. call'[c].at = "none"
        BY <3>1 DEF NoCall
      <3> QED
        BY <1>0, <1>8, <2>1, <2>3, <2>4, <3>1, <3>2, CallsFit DEF Reply
    <2>5. CASE Goto(c, "respondPromo")
      <3>1. /\ call' \in [Clients -> Locals]
            /\ \A d \in Clients \ {c} : call'[d] = call[d]
            /\ call'[c].at = "respondPromo" /\ call'[c].team = call[c].team
            /\ call'[c].source = call[c].source /\ call'[c].answer = call[c].answer
        BY <2>5, MoveLocals DEF Goto
      <3>2. Calls
        BY <2>1, <3>1, CallsFit DEF At
      <3> QED
        BY <1>0, <2>3, <2>5, <3>2 DEF Goto
    <2> QED
      BY <2>1, <2>4, <2>5
  <1>16. ASSUME ApproveAllList(c) PROVE Rest /\ Rows /\ Calls
    <2>1. PICK list \in CandidateLists :
            call' = [call EXCEPT ![c].at = "approveWrite", ![c].candidates = list]
      BY <1>16 DEF ApproveAllList
    <2>2. list \subseteq Entries
      BY ListEntries
    <2>3. PICK next : next = [call[c] EXCEPT !.at = "approveWrite", !.candidates = list]
      OBVIOUS
    <2>4. next \in Locals /\ next.at = "approveWrite"
      BY <1>0, <2>2, <2>3 DEF Locals
    <2>5. call' = [call EXCEPT ![c] = next]
      BY <2>1, <2>3
    <2>6. /\ call' \in [Clients -> Locals] /\ call'[c] = next
          /\ \A d \in Clients \ {c} : call'[d] = call[d]
      BY <2>4, <2>5 DEF InvitationsType
    <2>7. Rows /\ Rest /\ inv' = inv
      BY <1>0, <1>16 DEF ApproveAllList, rows
    <2>8. Calls
      BY <2>4, <2>6, <2>7, CallsFit
    <2> QED
      BY <2>7, <2>8
  <1>17. ASSUME ApproveAllWrite(c) PROVE Rest /\ Rows /\ Calls
    <2> DEFINE approved == {e.team : e \in call[c].candidates}
               sourceOf(t) == (CHOOSE e \in call[c].candidates : e.team = t).source
               row(t) == [status |-> "ACCEPTED", source |-> sourceOf(t), late |-> FALSE]
    <2>1. /\ inv' = [t \in Teams |-> IF t \in approved THEN row(t) ELSE inv[t]]
          /\ reg' = [t \in Teams |-> IF t \in approved THEN "APPROVED" ELSE reg[t]]
          /\ SetPromo({t \in approved : sourceOf(t) = "PROMOTED"}, TRUE)
          /\ Reply(c)
      BY <1>17 DEF ApproveAllWrite
    <2>2. \A t \in approved : row(t) \in InvitationRows
      BY ApprovedRow DEF InvitationRows, Active
    <2> HIDE DEF row, sourceOf, approved
    <2>3. inv' \in [Teams -> InvitationRows \cup {Nil}]
          /\ \A t \in Teams : inv[t] # Nil => inv'[t] # Nil
      BY <1>0, <2>1, <2>2, Named
    <2>4. promo' \in [Teams -> PromotionRows \cup {Nil}]
      BY <2>1, PromoType
    <2>5. Rows
      BY <1>0, <2>1, <2>3, <2>4 DEF Holding
    <2>6. /\ call' \in [Clients -> Locals] /\ call'[c] = NoCall
          /\ \A d \in Clients \ {c} : call'[d] = call[d]
      BY <2>1, EndLocals DEF Reply
    <2>7. call'[c].at = "none"
      BY <2>6 DEF NoCall
    <2>8. Calls
      BY <2>3, <2>6, <2>7, CallsFit
    <2> QED
      BY <1>0, <1>8, <2>1, <2>5, <2>8 DEF Reply
  <1>18. Rest /\ Rows /\ Calls
    <2> HIDE DEF Rest, Rows, Calls
    <2> QED
      BY <1>1, <1>2, <1>3, <1>5, <1>6, <1>7, <1>9, <1>10, <1>11, <1>12, <1>13, <1>14, <1>15,
         <1>16, <1>17
  <1> QED
    BY <1>18 DEF InvitationsType

LEMMA InvitationsTypeStep ==
  ASSUME InvitationsType, [Next]_vars
  PROVE  InvitationsType'
  <1>1. ASSUME call' = call, torn' = torn, older' = older,
               overlap' \in BOOLEAN, begun' \in Nat, Ages,
               reg' \in [Teams -> Holding \cup {Nil}],
               promo' \in [Teams -> PromotionRows \cup {Nil}]
        PROVE  InvitationsType'
    <2>1. \A c \in Clients : LocalsFit(c)'
      BY <1>1 DEF InvitationsType, LocalsFit, Ages, InRespond
    <2> QED
      BY <1>1, <2>1 DEF InvitationsType, Ages
  <1>2. ASSUME Counts PROVE begun' \in Nat
    BY <1>2 DEF Counts, InvitationsType
  <1>3. ASSUME NEW t \in Teams, NEW r \in Ranks, NEW open \in BOOLEAN,
               UpsertPromotionCandidate(t, r, open)
        PROVE  InvitationsType'
    <2>1. [rank |-> r, open |-> open] \in PromotionRows
      BY DEF PromotionRows
    <2>2. promo' \in [Teams -> PromotionRows \cup {Nil}]
      BY <1>3, <2>1 DEF UpsertPromotionCandidate, InvitationsType
    <2> QED
      BY <1>1, <1>2, <1>3, <2>2, Unaged DEF UpsertPromotionCandidate, InvitationsType
  <1>4. ASSUME NEW t \in Teams, DeletePromotionCandidate(t) PROVE InvitationsType'
    <2>1. promo' \in [Teams -> PromotionRows \cup {Nil}]
      BY <1>4 DEF DeletePromotionCandidate, InvitationsType
    <2> QED
      BY <1>1, <1>2, <1>4, <2>1, Unaged DEF DeletePromotionCandidate, InvitationsType
  <1>5. ASSUME NEW t \in Teams, RegisterTeam(t) PROVE InvitationsType'
    <2>1. reg' \in [Teams -> Holding \cup {Nil}] /\ overlap' \in BOOLEAN
      BY <1>5 DEF RegisterTeam, InvitationsType, Holding
    <2> QED
      BY <1>1, <1>2, <1>5, <2>1, Unaged DEF RegisterTeam, InvitationsType
  <1>6. ASSUME NEW t \in Teams, ApproveTeam(t) PROVE InvitationsType'
    <2>1. reg' \in [Teams -> Holding \cup {Nil}]
      BY <1>6 DEF ApproveTeam, InvitationsType, Holding
    <2> QED
      BY <1>1, <1>2, <1>6, <2>1, Unaged DEF ApproveTeam, InvitationsType
  <1>7. ASSUME NEW t \in Teams, DeadlinePasses(t) PROVE InvitationsType'
    BY <1>1, <1>7, LateAges DEF DeadlinePasses, InvitationsType
  <1>8. ASSUME NEW S, Sweep(S) PROVE InvitationsType'
    BY <1>1, <1>8, SweptAges DEF Sweep, InvitationsType
  <1>9. ASSUME NEW imported \in Imports, NEW wipe \in BOOLEAN,
               ImportPromotionCandidates(imported, wipe)
        PROVE  InvitationsType'
    <2>1. \A t \in DOMAIN imported : imported[t] \in PromotionRows
      <3>1. PICK S \in SUBSET Teams : imported \in [S -> [rank : Ranks, open : BOOLEAN]]
        BY DEF Imports
      <3> QED
        BY <3>1 DEF PromotionRows
    <2>2. promo' \in [Teams -> PromotionRows \cup {Nil}]
      BY <1>9, <2>1 DEF ImportPromotionCandidates, InvitationsType
    <2> QED
      BY <1>1, <1>2, <1>9, <2>2, Unaged DEF ImportPromotionCandidates, InvitationsType
  <1>10. CASE UNCHANGED vars
    BY <1>1, <1>10, Unaged DEF vars, rows, InvitationsType
  <1> QED
    BY <1>3, <1>4, <1>5, <1>6, <1>7, <1>8, <1>9, <1>10, InvitationsTypeClient DEF Next

-----------------------------------------------------------------------------
(* A refusal stands.                                                       *)

Answered(c, t) == call[c].at \in {"respondTeam", "respondPromo"} /\ call[c].team = t

\* For a team that has declined, older has whoever may still write an acceptance,
\* and whoever is looking at a registration that is about to go.
RefusalKnown ==
  \A t \in Teams : InvStatus(t) = "DECLINED" =>
    /\ \A c \in Clients : At(c, "respondWrite") /\ call[c].team = t => c \in older[t]
    /\ \A c \in Clients :
         At(c, "approveWrite") /\ t \in {e.team : e \in call[c].candidates}
           => reg[t] \in Holding \/ c \in older[t]
    /\ \A c, d \in Clients :
         Refuses(d, t) /\ Busy(c) /\ ~Answered(c, t) => c \in older[t]

\* A request that is neither new nor declining, whatever it writes.
LEMMA RefusalMove ==
  ASSUME InvitationsType, RefusalKnown, NEW c \in Clients, Busy(c),
         \A d \in Clients \ {c} : call'[d] = call[d],
         \A t \in Teams : older'[t] = older[t] \/ (older'[t] = older[t] \ {c} /\ ~Busy(c)'),
         \A t \in Teams : InvStatus(t)' = "DECLINED" => InvStatus(t) = "DECLINED",
         \A t \in Teams : reg[t] \in Holding => reg'[t] \in Holding \/ Refuses(c, t),
         call'[c].at \notin {"respondWrite", "approveWrite", "respondTeam"},
         \A t \in Teams : Answered(c, t) => ~Busy(c)' \/ Answered(c, t)'
  PROVE  RefusalKnown'
  <1> SUFFICES ASSUME NEW t \in Teams, InvStatus(t)' = "DECLINED"
               PROVE  /\ \A d \in Clients :
                           At(d, "respondWrite")' /\ call'[d].team = t => d \in older'[t]
                      /\ \A d \in Clients :
                           At(d, "approveWrite")' /\ t \in {e.team : e \in call'[d].candidates}
                             => reg'[t] \in Holding \/ d \in older'[t]
                      /\ \A d, f \in Clients :
                           Refuses(f, t)' /\ Busy(d)' /\ ~Answered(d, t)' => d \in older'[t]
    BY DEF RefusalKnown
  <1>1. /\ \A d \in Clients : At(d, "respondWrite") /\ call[d].team = t => d \in older[t]
        /\ \A d \in Clients :
             At(d, "approveWrite") /\ t \in {e.team : e \in call[d].candidates}
               => reg[t] \in Holding \/ d \in older[t]
        /\ \A d, f \in Clients :
             Refuses(f, t) /\ Busy(d) /\ ~Answered(d, t) => d \in older[t]
    BY DEF RefusalKnown
  <1>2. \A d \in Clients : d \in older[t] /\ Busy(d)' => d \in older'[t]
    OBVIOUS
  <1>3. ASSUME NEW d \in Clients, At(d, "respondWrite")', call'[d].team = t
        PROVE  d \in older'[t]
    BY <1>1, <1>2, <1>3 DEF At, Busy
  <1>4. ASSUME NEW d \in Clients, At(d, "approveWrite")',
               t \in {e.team : e \in call'[d].candidates}, reg'[t] \notin Holding
        PROVE  d \in older'[t]
    <2>1. d # c /\ call'[d] = call[d] /\ Busy(d) /\ Busy(d)' /\ ~Answered(d, t)
      BY <1>4 DEF At, Busy, Answered
    <2>2. reg[t] \in Holding => Refuses(c, t)
      BY <1>4
    <2>3. d \in older[t]
      BY <1>1, <1>4, <2>1, <2>2 DEF At
    <2> QED
      BY <1>2, <2>1, <2>3
  <1>5. ASSUME NEW d \in Clients, NEW f \in Clients,
               Refuses(f, t)', Busy(d)', ~Answered(d, t)'
        PROVE  d \in older'[t]
    <2>1. f # c /\ Refuses(f, t)
      BY <1>5 DEF Refuses, At
    <2>2. Busy(d) /\ ~Answered(d, t)
      BY <1>5 DEF Busy, Answered
    <2> QED
      BY <1>1, <1>2, <1>5, <2>1, <2>2
  <1> QED
    BY <1>3, <1>4, <1>5

\* A new request is marked as older than the refusals it may see come true.
LEMMA RefusalBegin ==
  ASSUME InvitationsType, RefusalKnown, NEW c \in Clients, NEW local, Begin(c, local),
         local.at \notin {"approveWrite", "respondTeam", "respondPromo"},
         local.at = "respondWrite" => InvStatus(local.team) # "DECLINED"
  PROVE  RefusalKnown'
  <1>1. /\ call' = [call EXCEPT ![c] = local] /\ inv' = inv /\ reg' = reg /\ ~Busy(c)
        /\ older' = [t \in Teams |-> IF \E d \in Clients : Refuses(d, t)
                                     THEN older[t] \cup {c} ELSE older[t]]
    BY DEF Begin, rows
  <1>2. call'[c] = local /\ \A d \in Clients \ {c} : call'[d] = call[d]
    BY <1>1 DEF InvitationsType
  <1>3. \A t \in Teams : /\ older[t] \subseteq older'[t]
                         /\ (\E d \in Clients : Refuses(d, t)) => c \in older'[t]
    BY <1>1
  <1>4. \A t \in Teams : InvStatus(t)' = InvStatus(t)
    BY <1>1 DEF InvStatus
  <1> SUFFICES ASSUME NEW t \in Teams, InvStatus(t) = "DECLINED"
               PROVE  /\ \A d \in Clients :
                           At(d, "respondWrite")' /\ call'[d].team = t => d \in older'[t]
                      /\ \A d \in Clients :
                           At(d, "approveWrite")' /\ t \in {e.team : e \in call'[d].candidates}
                             => reg'[t] \in Holding \/ d \in older'[t]
                      /\ \A d, f \in Clients :
                           Refuses(f, t)' /\ Busy(d)' /\ ~Answered(d, t)' => d \in older'[t]
    BY <1>4 DEF RefusalKnown
  <1>5. ASSUME NEW d \in Clients, At(d, "respondWrite")', call'[d].team = t
        PROVE  d \in older'[t]
    <2>1. d # c
      BY <1>2, <1>5 DEF At
    <2> QED
      BY <1>2, <1>3, <1>5, <2>1 DEF At, RefusalKnown
  <1>6. ASSUME NEW d \in Clients, At(d, "approveWrite")',
               t \in {e.team : e \in call'[d].candidates}
        PROVE  reg'[t] \in Holding \/ d \in older'[t]
    <2>1. d # c
      BY <1>2, <1>6 DEF At
    <2> QED
      BY <1>1, <1>2, <1>3, <1>6, <2>1 DEF At, RefusalKnown
  <1>7. ASSUME NEW d \in Clients, NEW f \in Clients,
               Refuses(f, t)', Busy(d)', ~Answered(d, t)'
        PROVE  d \in older'[t]
    <2>1. f # c /\ Refuses(f, t)
      BY <1>2, <1>7 DEF Refuses, At
    <2>2. CASE d = c
      BY <1>3, <2>1, <2>2
    <2>3. CASE d # c
      <3>1. Busy(d) /\ ~Answered(d, t)
        BY <1>2, <1>7, <2>3 DEF Busy, Answered
      <3> QED
        BY <1>3, <2>1, <3>1 DEF RefusalKnown
    <2> QED
      BY <2>2, <2>3
  <1> QED
    BY <1>5, <1>6, <1>7

\* Nobody's request moves, no team declines and none loses its registration.
LEMMA RefusalBystander ==
  ASSUME RefusalKnown, call' = call, older' = older,
         \A t \in Teams : InvStatus(t)' = "DECLINED" => InvStatus(t) = "DECLINED",
         \A t \in Teams : reg[t] \in Holding => reg'[t] \in Holding
  PROVE  RefusalKnown'
  BY DEF RefusalKnown, At, Busy, Refuses, Answered

LEMMA RefusalRespond ==
  ASSUME InvitationsType, RefusalKnown, NEW c \in Clients, RespondWrite(c)
  PROVE  RefusalKnown'
  <1>0. PICK u : u = call[c].team
    OBVIOUS
  <1>1. /\ u \in Teams /\ call[c].answer \in Answers
        /\ InvStatus(u)' = call[c].answer
        /\ \A t \in Teams \ {u} : InvStatus(t)' = InvStatus(t)
    BY <1>0, RespondWritten
  <1>2. /\ reg' = reg /\ At(c, "respondWrite")
        /\ older' = [older EXCEPT ![u] = IF call[c].answer = "DECLINED"
                                         THEN {d \in Clients \ {c} : Busy(d)} ELSE {}]
        /\ call' = [call EXCEPT ![c].at = "respondTeam"]
    BY <1>0 DEF RespondWrite
  <1>3. /\ \A d \in Clients \ {c} : call'[d] = call[d]
        /\ call'[c].at = "respondTeam" /\ call'[c].team = u
    BY <1>0, <1>2, MoveLocals DEF InRespond
  <1>4. \A t \in Teams \ {u} : older'[t] = older[t]
    BY <1>2 DEF InvitationsType
  <1>5. call[c].answer = "DECLINED" => older'[u] = {d \in Clients \ {c} : Busy(d)}
    BY <1>1, <1>2 DEF InvitationsType
  <1> SUFFICES ASSUME NEW t \in Teams, InvStatus(t)' = "DECLINED"
               PROVE  /\ \A d \in Clients :
                           At(d, "respondWrite")' /\ call'[d].team = t => d \in older'[t]
                      /\ \A d \in Clients :
                           At(d, "approveWrite")' /\ t \in {e.team : e \in call'[d].candidates}
                             => reg'[t] \in Holding \/ d \in older'[t]
                      /\ \A d, f \in Clients :
                           Refuses(f, t)' /\ Busy(d)' /\ ~Answered(d, t)' => d \in older'[t]
    BY DEF RefusalKnown
  <1>6. CASE t = u
    <2>1. \A d \in Clients \ {c} : Busy(d) => d \in older'[t]
      BY <1>1, <1>5, <1>6
    <2>2. Answered(c, t)' /\ ~At(c, "respondWrite")' /\ ~At(c, "approveWrite")'
      BY <1>3, <1>6 DEF Answered, At
    <2> QED
      BY <1>3, <2>1, <2>2 DEF At, Busy
  <1>7. CASE t # u
    <2>1. InvStatus(t) = "DECLINED" /\ older'[t] = older[t]
      BY <1>1, <1>4, <1>7
    <2>2. ASSUME NEW d \in Clients, At(d, "respondWrite")', call'[d].team = t
          PROVE  d \in older'[t]
      <3>1. d # c
        BY <1>3, <2>2 DEF At
      <3> QED
        BY <1>3, <2>1, <2>2, <3>1 DEF At, RefusalKnown
    <2>3. ASSUME NEW d \in Clients, At(d, "approveWrite")',
                 t \in {e.team : e \in call'[d].candidates}
          PROVE  reg'[t] \in Holding \/ d \in older'[t]
      <3>1. d # c
        BY <1>3, <2>3 DEF At
      <3> QED
        BY <1>2, <1>3, <2>1, <2>3, <3>1 DEF At, RefusalKnown
    <2>4. ASSUME NEW d \in Clients, NEW f \in Clients,
                 Refuses(f, t)', Busy(d)', ~Answered(d, t)'
          PROVE  d \in older'[t]
      <3>1. Refuses(f, t)
        BY <1>3, <1>7, <2>4 DEF Refuses, At
      <3>2. Busy(d) /\ ~Answered(d, t)
        BY <1>2, <1>3, <2>4 DEF Busy, Answered, At
      <3> QED
        BY <2>1, <3>1, <3>2 DEF RefusalKnown
    <2> QED
      BY <2>2, <2>3, <2>4
  <1> QED
    BY <1>6, <1>7

LEMMA RefusalList ==
  ASSUME InvitationsType, RefusalKnown, NEW c \in Clients, ApproveAllList(c)
  PROVE  RefusalKnown'
  <1>1. PICK list \in CandidateLists :
          call' = [call EXCEPT ![c].at = "approveWrite", ![c].candidates = list]
    BY DEF ApproveAllList
  <1>2. PICK next : next = [call[c] EXCEPT !.at = "approveWrite", !.candidates = list]
    OBVIOUS
  <1>3. next.at = "approveWrite" /\ next.candidates = list
    BY <1>2 DEF InvitationsType, Locals
  <1>4. call' = [call EXCEPT ![c] = next]
    BY <1>1, <1>2
  <1>5. call'[c] = next /\ \A d \in Clients \ {c} : call'[d] = call[d]
    BY <1>4 DEF InvitationsType
  <1>6. inv' = inv /\ reg' = reg /\ older' = older /\ At(c, "approveList")
    BY DEF ApproveAllList, rows
  <1> SUFFICES ASSUME NEW t \in Teams, InvStatus(t) = "DECLINED"
               PROVE  /\ \A d \in Clients :
                           At(d, "respondWrite")' /\ call'[d].team = t => d \in older'[t]
                      /\ \A d \in Clients :
                           At(d, "approveWrite")' /\ t \in {e.team : e \in call'[d].candidates}
                             => reg'[t] \in Holding \/ d \in older'[t]
                      /\ \A d, f \in Clients :
                           Refuses(f, t)' /\ Busy(d)' /\ ~Answered(d, t)' => d \in older'[t]
    BY <1>6 DEF RefusalKnown, InvStatus
  <1>7. ASSUME NEW d \in Clients, At(d, "respondWrite")', call'[d].team = t
        PROVE  d \in older'[t]
    <2>1. d # c
      BY <1>3, <1>5, <1>7 DEF At
    <2> QED
      BY <1>5, <1>6, <1>7, <2>1 DEF At, RefusalKnown
  <1>8. ASSUME NEW d \in Clients, At(d, "approveWrite")',
               t \in {e.team : e \in call'[d].candidates}
        PROVE  reg'[t] \in Holding \/ d \in older'[t]
    <2>1. CASE d = c
      <3>1. t \in {e.team : e \in list}
        BY <1>3, <1>5, <1>8, <2>1
      <3> QED
        BY <1>6, <3>1, ListEntries
    <2>2. CASE d # c
      BY <1>5, <1>6, <1>8, <2>2 DEF At, RefusalKnown
    <2> QED
      BY <2>1, <2>2
  <1>9. ASSUME NEW d \in Clients, NEW f \in Clients,
               Refuses(f, t)', Busy(d)', ~Answered(d, t)'
        PROVE  d \in older'[t]
    <2>1. f # c /\ Refuses(f, t)
      BY <1>3, <1>5, <1>9 DEF Refuses, At
    <2>2. Busy(d) /\ ~Answered(d, t)
      BY <1>3, <1>5, <1>6, <1>9 DEF Busy, Answered, At
    <2> QED
      BY <1>6, <2>1, <2>2 DEF RefusalKnown
  <1> QED
    BY <1>7, <1>8, <1>9

\* What the rows of a team are after approveAll.
LEMMA ApprovalWritten ==
  ASSUME InvitationsType, NEW c \in Clients, ApproveAllWrite(c), NEW t \in Teams
  PROVE  /\ \/ /\ t \in {e.team : e \in call[c].candidates}
               /\ InvStatus(t)' = "ACCEPTED" /\ reg'[t] = "APPROVED" /\ inv'[t] # Nil
               /\ inv'[t].status = "ACCEPTED"
            \/ inv'[t] = inv[t] /\ InvStatus(t)' = InvStatus(t) /\ reg'[t] = reg[t]
  <1> DEFINE approved == {e.team : e \in call[c].candidates}
             sourceOf(u) == (CHOOSE e \in call[c].candidates : e.team = u).source
             row(u) == [status |-> "ACCEPTED", source |-> sourceOf(u), late |-> FALSE]
  <1>1. /\ inv' = [u \in Teams |-> IF u \in approved THEN row(u) ELSE inv[u]]
        /\ reg' = [u \in Teams |-> IF u \in approved THEN "APPROVED" ELSE reg[u]]
    BY DEF ApproveAllWrite
  <1>2. \A u \in approved : row(u) \in InvitationRows
    BY ApprovedRow DEF InvitationRows, Active
  <1>3. \A u : row(u).status = "ACCEPTED"
    OBVIOUS
  <1> HIDE DEF row, approved
  <1>4. CASE t \in approved
    <2>1. inv'[t] = row(t) /\ reg'[t] = "APPROVED" /\ row(t) # Nil
      BY <1>1, <1>2, <1>4, Named
    <2> QED
      BY <1>3, <1>4, <2>1 DEF InvStatus, approved
  <1>5. CASE t \notin approved
    BY <1>1, <1>5 DEF InvStatus
  <1> QED
    BY <1>4, <1>5

LEMMA AgesDeclines ==
  ASSUME Ages
  PROVE  \A t \in Teams : InvStatus(t)' = "DECLINED" => InvStatus(t) = "DECLINED"
  BY DEF Ages

\* The steps of a request that write no status of an invitation but EXPIRED.
LEMMA RequestAges ==
  ASSUME InvitationsType, NEW c \in Clients,
         \/ SendSweep(c) \/ SendSlots(c) \/ SendPromo(c) \/ RespondLate(c)
         \/ RespondTeam(c) \/ RespondPromo(c) \/ ApproveAllSweep(c) \/ Die(c)
  PROVE  Ages
  <1>1. ASSUME SendSlots(c) \/ SendPromo(c) \/ RespondTeam(c) \/ RespondPromo(c) \/ Die(c)
        PROVE  Ages
    BY <1>1, Unaged DEF SendSlots, SendPromo, RespondTeam, RespondPromo, Die, rows
  <1>2. ASSUME SendSweep(c) \/ ApproveAllSweep(c) PROVE Ages
    BY <1>2, SweptAges DEF SendSweep, ApproveAllSweep
  <1>3. ASSUME RespondLate(c) PROVE Ages
    BY <1>3, SweptAges DEF RespondLate
  <1> QED
    BY <1>1, <1>2, <1>3

\* Where a request is after a step that is neither its first nor a decision.
LEMMA RequestMoves ==
  ASSUME InvitationsType, NEW c \in Clients,
         \/ SendSweep(c) \/ SendSlots(c) \/ SendWrite(c) \/ SendPromo(c) \/ RespondLate(c)
         \/ RespondTeam(c) \/ RespondPromo(c) \/ ApproveAllSweep(c) \/ ApproveAllWrite(c) \/ Die(c)
  PROVE  /\ Busy(c) /\ \A d \in Clients \ {c} : call'[d] = call[d]
         /\ \A t \in Teams : older'[t] = older[t] \/ (older'[t] = older[t] \ {c} /\ ~Busy(c)')
         /\ overlap' = overlap
         /\ \/ call'[c] = NoCall /\ call'[c].at = "none"
            \/ /\ \/ At(c, "sendSweep") /\ call'[c].at = "sendSlots"
                  \/ At(c, "sendSlots") /\ call'[c].at = "sendWrite"
                  \/ At(c, "sendWrite") /\ call'[c].at = "sendPromo"
                  \/ At(c, "approveSweep") /\ call'[c].at = "approveList"
                  \/ At(c, "respondTeam") /\ call'[c].at = "respondPromo"
               /\ call'[c].team = call[c].team /\ call'[c].source = call[c].source
               /\ call'[c].answer = call[c].answer
  <1> USE DEF InSend, InRespond, InApproval
  <1>1. ASSUME Ends(c), Busy(c)
        PROVE  /\ \A d \in Clients \ {c} : call'[d] = call[d]
               /\ \A t \in Teams : older'[t] = older[t] \ {c} /\ ~Busy(c)'
               /\ overlap' = overlap /\ call'[c] = NoCall /\ call'[c].at = "none"
    <2>1. NoCall.at = "none"
      BY DEF NoCall
    <2> QED
      BY <1>1, <2>1, EndLocals DEF Ends, Busy
  <1>2. ASSUME NEW step \in {"sendSlots", "sendWrite", "sendPromo", "approveList", "respondPromo"},
               call' = [call EXCEPT ![c].at = step]
        PROVE  /\ \A d \in Clients \ {c} : call'[d] = call[d]
               /\ call'[c].at = step /\ call'[c].team = call[c].team
               /\ call'[c].source = call[c].source /\ call'[c].answer = call[c].answer
    BY <1>2, MoveLocals
  <1>3. CASE SendSweep(c)
    BY <1>2, <1>3 DEF SendSweep, Goto, At, Busy
  <1>4. CASE ApproveAllSweep(c)
    BY <1>2, <1>4 DEF ApproveAllSweep, Goto, At, Busy
  <1>5. CASE SendSlots(c)
    <2>1. At(c, "sendSlots") /\ (Goto(c, "sendWrite") \/ Reply(c))
      BY <1>5, Zenon DEF SendSlots
    <2>2. Busy(c)
      BY <2>1 DEF At, Busy
    <2> QED
      BY <1>1, <1>2, <2>1, <2>2 DEF Goto, Reply
  <1>6. CASE SendWrite(c)
    <2>1. At(c, "sendWrite") /\ (\/ Ends(c)
                                 \/ call' = [call EXCEPT ![c].at = "sendPromo"]
                                    /\ UNCHANGED <<overlap, older, begun>>)
      BY <1>6, Zenon DEF SendWrite
    <2>2. Busy(c)
      BY <2>1 DEF At, Busy
    <2> QED
      BY <1>1, <1>2, <2>1, <2>2
  <1>7. CASE RespondTeam(c)
    <2>1. At(c, "respondTeam") /\ (Goto(c, "respondPromo") \/ Reply(c))
      BY <1>7, Zenon DEF RespondTeam
    <2>2. Busy(c)
      BY <2>1 DEF At, Busy
    <2> QED
      BY <1>1, <1>2, <2>1, <2>2 DEF Goto, Reply
  <1>8. CASE SendPromo(c) \/ RespondLate(c) \/ RespondPromo(c) \/ ApproveAllWrite(c) \/ Die(c)
    <2>1. Ends(c) /\ Busy(c)
      BY <1>8 DEF SendPromo, RespondLate, RespondPromo, ApproveAllWrite, Die, Reply, At, Busy
    <2> QED
      BY <1>1, <2>1
  <1> QED
    BY <1>3, <1>4, <1>5, <1>6, <1>7, <1>8

LEMMA RefusalStep ==
  ASSUME InvitationsType, RefusalKnown, [Next]_vars
  PROVE  RefusalKnown'
  <1>1. ASSUME NEW c \in Clients,
               \/ SendSweep(c) \/ SendSlots(c) \/ SendWrite(c) \/ SendPromo(c) \/ RespondLate(c)
               \/ RespondTeam(c) \/ RespondPromo(c) \/ ApproveAllSweep(c) \/ ApproveAllWrite(c)
               \/ Die(c)
        PROVE  RefusalKnown'
    <2>1. \A t \in Teams : InvStatus(t)' = "DECLINED" => InvStatus(t) = "DECLINED"
      <3>1. CASE SendWrite(c)
        <4>1. PICK u, source : u = call[c].team /\ source = call[c].source
          OBVIOUS
        <4> QED
          BY <3>1, <4>1, SendWritten
      <3>2. CASE ApproveAllWrite(c)
        BY <3>2, ApprovalWritten
      <3> QED
        BY <1>1, <3>1, <3>2, RequestAges, AgesDeclines
    <2>2. \A t \in Teams : reg[t] \in Holding => reg'[t] \in Holding \/ Refuses(c, t)
      <3>1. CASE RespondTeam(c)
        <4>1. call[c].answer \in Answers /\ call[c].team \in Teams /\ At(c, "respondTeam")
          BY <3>1, Responding DEF RespondTeam, At, InRespond
        <4>2. \A t \in Teams : t # call[c].team => reg'[t] = reg[t]
          BY <3>1 DEF RespondTeam, InvitationsType
        <4>3. call[c].answer = "ACCEPTED" => reg'[call[c].team] = "REGISTERED"
          BY <3>1, <4>1 DEF RespondTeam, InvitationsType
        <4> QED
          BY <4>1, <4>2, <4>3 DEF Holding, Refuses, Answers
      <3>2. CASE ApproveAllWrite(c)
        BY <3>2, ApprovalWritten DEF Holding
      <3> QED
        BY <1>1, <3>1, <3>2
           DEF SendSweep, SendSlots, SendWrite, SendPromo, RespondLate, RespondPromo,
               ApproveAllSweep, Die, rows
    <2>3. \A t \in Teams : Answered(c, t) => ~Busy(c)' \/ Answered(c, t)'
      BY <1>1, RequestMoves DEF Answered, Busy, At
    <2>4. call'[c].at \notin {"respondWrite", "approveWrite", "respondTeam"}
      BY <1>1, RequestMoves
    <2>5. /\ Busy(c) /\ \A d \in Clients \ {c} : call'[d] = call[d]
          /\ \A t \in Teams : older'[t] = older[t] \/ (older'[t] = older[t] \ {c} /\ ~Busy(c)')
      BY <1>1, RequestMoves
    <2> QED
      BY <2>1, <2>2, <2>3, <2>4, <2>5, RefusalMove
  <1>2. ASSUME NEW c \in Clients, NEW t \in Teams, NEW s \in Sources, SendBegin(c, t, s)
        PROVE  RefusalKnown'
    <2>1. PICK local : /\ Begin(c, local)
                       /\ local = [NoCall EXCEPT !.team = t, !.source = s,
                                     !.at = IF s = "REPLACEMENT" THEN "sendSweep" ELSE "sendWrite"]
      BY <1>2 DEF SendBegin
    <2>2. local.at \in {"sendSweep", "sendWrite"}
      BY <2>1 DEF NoCall
    <2> QED
      BY <2>1, <2>2, RefusalBegin
  <1>3. ASSUME NEW c \in Clients, NEW t \in Teams, NEW a \in Answers, RespondBegin(c, t, a)
        PROVE  RefusalKnown'
    <2>1. PICK local : /\ Begin(c, local)
                       /\ local = [NoCall EXCEPT !.team = t, !.answer = a, !.source = inv[t].source,
                                     !.at = IF inv[t].late THEN "respondLate" ELSE "respondWrite"]
      BY <1>3 DEF RespondBegin
    <2>2. local.at \in {"respondLate", "respondWrite"} /\ local.team = t
      BY <2>1 DEF NoCall
    <2>3. InvStatus(t) = "SENT"
      BY <1>3 DEF RespondBegin
    <2> QED
      BY <2>1, <2>2, <2>3, RefusalBegin
  <1>4. ASSUME NEW c \in Clients, ApproveAllBegin(c) PROVE RefusalKnown'
    <2>1. PICK local : Begin(c, local) /\ local = [NoCall EXCEPT !.at = "approveSweep"]
      BY <1>4 DEF ApproveAllBegin
    <2>2. local.at = "approveSweep"
      BY <2>1 DEF NoCall
    <2> QED
      BY <2>1, <2>2, RefusalBegin
  <1>5. ASSUME call' = call, older' = older, Ages,
               \A t \in Teams : reg[t] \in Holding => reg'[t] \in Holding
        PROVE  RefusalKnown'
    BY <1>5, AgesDeclines, RefusalBystander
  <1>6. ASSUME NEW t \in Teams, RegisterTeam(t) \/ ApproveTeam(t) PROVE RefusalKnown'
    <2>1. \A u \in Teams : reg[u] \in Holding => reg'[u] \in Holding
      BY <1>6 DEF RegisterTeam, ApproveTeam, InvitationsType, Holding
    <2> QED
      BY <1>5, <1>6, <2>1, Unaged DEF RegisterTeam, ApproveTeam
  <1>7. ASSUME NEW t \in Teams, DeadlinePasses(t) PROVE RefusalKnown'
    BY <1>5, <1>7, LateAges DEF DeadlinePasses
  <1>8. ASSUME NEW S, Sweep(S) PROVE RefusalKnown'
    BY <1>5, <1>8, SweptAges DEF Sweep
  <1>9. ASSUME inv' = inv, reg' = reg, call' = call, older' = older PROVE RefusalKnown'
    BY <1>5, <1>9, Unaged
  <1>10. ASSUME UNCHANGED vars PROVE RefusalKnown'
    BY <1>9, <1>10 DEF vars, rows
  <1> QED
    BY <1>1, <1>2, <1>3, <1>4, <1>6, <1>7, <1>8, <1>9, <1>10, RefusalRespond, RefusalList
       DEF Next, UpsertPromotionCandidate, DeletePromotionCandidate,
           ImportPromotionCandidates, Answers

LEMMA RefusalInit ==
  ASSUME Init
  PROVE  RefusalKnown
  <1>1. \A t \in Teams : InvStatus(t) = Nil
    BY DEF Init, InvStatus
  <1> QED
    BY <1>1, Named DEF RefusalKnown

\* A team that has declined is written as accepted only by a request that was in
\* flight while it declined, or by approveAll for a team that is registered.
LEMMA AcceptanceAfterRefusal ==
  ASSUME InvitationsType, RefusalKnown, [Next]_vars,
         NEW t \in Teams, InvStatus(t) = "DECLINED", InvStatus(t)' = "ACCEPTED"
  PROVE  reg[t] \in Holding \/ \E c \in older[t] : Acts(c)
  <1>0. ~Ages
    BY DEF Ages
  <1>1. ASSUME NEW c \in Clients, RespondWrite(c) PROVE c \in older[t] /\ Acts(c)
    <2>1. PICK u : u = call[c].team
      OBVIOUS
    <2>2. u = t
      BY <1>1, <2>1, RespondWritten
    <2>3. At(c, "respondWrite") /\ call'[c].at = "respondTeam"
      BY <1>1, MoveLocals DEF RespondWrite, InRespond
    <2> QED
      BY <2>1, <2>2, <2>3 DEF RefusalKnown, Acts, Busy, At
  <1>2. ASSUME NEW c \in Clients, ApproveAllWrite(c)
        PROVE  reg[t] \in Holding \/ (c \in older[t] /\ Acts(c))
    <2>1. t \in {e.team : e \in call[c].candidates} /\ At(c, "approveWrite")
      BY <1>2, ApprovalWritten DEF ApproveAllWrite
    <2>2. call'[c].at # "approveWrite"
      BY <1>2, RequestMoves DEF At
    <2> QED
      BY <2>1, <2>2 DEF RefusalKnown, Acts, Busy, At
  <1>3. ASSUME NEW c \in Clients, SendWrite(c) PROVE FALSE
    <2>1. PICK u, source : u = call[c].team /\ source = call[c].source
      OBVIOUS
    <2> QED
      BY <1>3, <2>1, SendWritten
  <1>4. ASSUME inv' = inv PROVE FALSE
    BY <1>0, <1>4, Unaged
  <1>5. ASSUME NEW u \in Teams, DeadlinePasses(u) PROVE FALSE
    BY <1>0, <1>5, LateAges
  <1>6. ASSUME NEW S, Sweep(S) PROVE FALSE
    BY <1>0, <1>6, SweptAges DEF Sweep
  <1>7. ASSUME NEW c \in Clients,
               \/ SendSweep(c) \/ SendSlots(c) \/ SendPromo(c) \/ RespondLate(c)
               \/ RespondTeam(c) \/ RespondPromo(c) \/ ApproveAllSweep(c) \/ Die(c)
        PROVE  FALSE
    BY <1>0, <1>7, RequestAges
  <1>8. ASSUME NEW c \in Clients, NEW local, Begin(c, local) PROVE inv' = inv
    BY <1>8 DEF Begin, rows
  <1>9. ASSUME NEW c \in Clients,
               \/ \E u \in Teams : \/ \E s \in Sources : SendBegin(c, u, s)
                                   \/ \E a \in {"ACCEPTED", "DECLINED"} : RespondBegin(c, u, a)
               \/ ApproveAllBegin(c) \/ ApproveAllList(c)
        PROVE  FALSE
    BY <1>4, <1>8, <1>9 DEF SendBegin, RespondBegin, ApproveAllBegin, ApproveAllList, rows
  <1>10. ASSUME NEW c \in Clients,
                RespondWrite(c) \/ ApproveAllWrite(c)
         PROVE  reg[t] \in Holding \/ \E d \in older[t] : Acts(d)
    BY <1>1, <1>2, <1>10
  <1>11. ASSUME NEW u \in Teams,
                \/ \E r \in Ranks, open \in BOOLEAN : UpsertPromotionCandidate(u, r, open)
                \/ DeletePromotionCandidate(u) \/ RegisterTeam(u) \/ ApproveTeam(u)
         PROVE  FALSE
    BY <1>4, <1>11
       DEF UpsertPromotionCandidate, DeletePromotionCandidate, RegisterTeam, ApproveTeam
  <1>12. ASSUME NEW rowOf, NEW wipe, ImportPromotionCandidates(rowOf, wipe) PROVE FALSE
    BY <1>4, <1>12 DEF ImportPromotionCandidates
  <1>13. ASSUME UNCHANGED vars PROVE FALSE
    BY <1>4, <1>13 DEF vars, rows
  <1> QED
    BY <1>3, <1>5, <1>6, <1>7, <1>9, <1>10, <1>11, <1>12, <1>13 DEF Next

-----------------------------------------------------------------------------
(* Requests that have not overlapped.                                      *)

\* The only one in flight knows who has accepted without being registered yet, that
\* the team it is about to drop has declined, and that its replacement has a slot.
AloneKnows ==
  /\ \A c, d \in Clients : Busy(c) /\ Busy(d) => c = d
  /\ \A t \in Teams \ torn : InvStatus(t) = "ACCEPTED" =>
       \/ reg[t] \in Holding
       \/ \E c \in Clients : At(c, "respondTeam") /\ call[c].team = t /\ call[c].answer = "ACCEPTED"
  /\ \A c \in Clients : At(c, "respondTeam") /\ call[c].answer = "DECLINED"
       => InvStatus(call[c].team) = "DECLINED"
  /\ \A c \in Clients : At(c, "sendWrite") /\ call[c].source = "REPLACEMENT" =>
       \/ inv[call[c].team] # Nil /\ inv[call[c].team].source = "REPLACEMENT"
       \/ Cardinality(Filled) < TotalRequired

SeasonInv == InvitationsType /\ RefusalKnown /\ (~overlap => AloneKnows)

LEMMA AloneInit ==
  ASSUME Init
  PROVE  AloneKnows
  <1>1. \A t \in Teams : InvStatus(t) = Nil
    BY DEF Init, InvStatus
  <1>2. \A c \in Clients : call[c].at = "none"
    BY DEF Init, NoCall
  <1> QED
    BY <1>1, <1>2, Named DEF AloneKnows, Busy, At

\* The slots that are taken, as long as no team takes another.
LEMMA SlotsCount ==
  ASSUME NEW S \in SUBSET Teams
  PROVE  /\ IsFiniteSet(S) /\ Cardinality(S) \in Nat /\ TotalRequired \in Nat
         /\ \A T \in SUBSET S : Cardinality(T) <= Cardinality(S) /\ Cardinality(T) \in Nat
  BY FS_Subset, FS_CardinalityType, InvitationsAssumption DEF TotalRequired

LEMMA SlotsKept ==
  ASSUME Cardinality(Filled) < TotalRequired, Filled' \subseteq Filled
  PROVE  (Cardinality(Filled) < TotalRequired)'
  <1>1. Filled \in SUBSET Teams
    BY DEF Filled
  <1>2. PICK S : S = Filled
    OBVIOUS
  <1>3. PICK T : T = Filled'
    OBVIOUS
  <1>4. Cardinality(T) <= Cardinality(S) /\ Cardinality(T) \in Nat /\ Cardinality(S) \in Nat
        /\ TotalRequired \in Nat
    BY <1>1, <1>2, <1>3, SlotsCount
  <1>5. Cardinality(T) < TotalRequired
    BY <1>2, <1>4
  <1> QED
    BY <1>3, <1>5 DEF TotalRequired

\* Nothing of a season moves but its clock and its approvals.
LEMMA AloneBystander ==
  ASSUME InvitationsType, AloneKnows, call' = call, torn' = torn, Ages,
         \A t \in Teams : reg[t] \in Holding <=> reg'[t] \in Holding
  PROVE  AloneKnows'
  <1>1. \A t \in Teams : InvStatus(t)' \in Active => InvStatus(t) = InvStatus(t)'
    BY DEF Ages, Active
  <1>2. Filled' \subseteq Filled
    BY <1>1 DEF Filled
  <1>3. ASSUME NEW c \in Clients, At(c, "sendWrite"), call[c].source = "REPLACEMENT"
        PROVE  \/ inv'[call[c].team] # Nil /\ inv'[call[c].team].source = "REPLACEMENT"
               \/ (Cardinality(Filled) < TotalRequired)'
    <2>1. call[c].team \in Teams
      BY <1>3 DEF InvitationsType, LocalsFit, At, InSend
    <2>2. \/ inv[call[c].team] # Nil /\ inv[call[c].team].source = "REPLACEMENT"
          \/ Cardinality(Filled) < TotalRequired
      BY <1>3 DEF AloneKnows
    <2> QED
      BY <1>2, <2>1, <2>2, SlotsKept DEF Ages
  <1>4. ASSUME NEW c \in Clients, At(c, "respondTeam"), call[c].answer = "DECLINED"
        PROVE  InvStatus(call[c].team)' = "DECLINED"
    <2>1. PICK t : t = call[c].team
      OBVIOUS
    <2>2. t \in Teams /\ InvStatus(t) = "DECLINED"
      BY <1>4, <2>1, Responding DEF AloneKnows, At, InRespond
    <2>3. InvStatus(t)' = "DECLINED"
      BY <2>2 DEF Ages
    <2> QED
      BY <2>1, <2>3
  <1>5. ASSUME NEW t \in Teams \ torn, InvStatus(t)' = "ACCEPTED"
        PROVE  \/ reg'[t] \in Holding
               \/ \E c \in Clients : /\ At(c, "respondTeam") /\ call[c].team = t
                                     /\ call[c].answer = "ACCEPTED"
    <2>1. InvStatus(t) = "ACCEPTED"
      BY <1>1, <1>5 DEF Active
    <2> QED
      BY <2>1 DEF AloneKnows
  <1> QED
    BY <1>3, <1>4, <1>5 DEF AloneKnows, At, Busy

\* What is to be shown when only c may be in flight after a step of c.
LEMMA AloneMove ==
  ASSUME AloneKnows, NEW c \in Clients, Busy(c) \/ \A d \in Clients : ~Busy(d),
         \A d \in Clients \ {c} : call'[d] = call[d],
         \A t \in Teams \ torn' : InvStatus(t)' = "ACCEPTED" =>
           \/ reg'[t] \in Holding
           \/ At(c, "respondTeam")' /\ call'[c].team = t /\ call'[c].answer = "ACCEPTED",
         At(c, "respondTeam")' /\ call'[c].answer = "DECLINED"
           => InvStatus(call[c].team)' = "DECLINED",
         At(c, "sendWrite")' /\ call'[c].source = "REPLACEMENT" =>
           \/ inv'[call'[c].team] # Nil /\ inv'[call'[c].team].source = "REPLACEMENT"
           \/ (Cardinality(Filled) < TotalRequired)'
  PROVE  AloneKnows'
  <1>1. \A d \in Clients \ {c} : ~Busy(d)' /\ ~At(d, "respondTeam")' /\ ~At(d, "sendWrite")'
    BY DEF AloneKnows, Busy, At
  <1> QED
    BY <1>1 DEF AloneKnows, At

\* What is known of the teams when the one request in flight is not about to
\* register one.
LEMMA AloneAccepted ==
  ASSUME InvitationsType, AloneKnows, NEW c \in Clients,
         Busy(c) \/ \A d \in Clients : ~Busy(d), ~At(c, "respondTeam")
  PROVE  \A t \in Teams \ torn : InvStatus(t) = "ACCEPTED" => reg[t] \in Holding
  BY DEF AloneKnows, Busy, At

\* A request that begins while there is no other.
LEMMA AloneBegin ==
  ASSUME InvitationsType, AloneKnows, NEW c \in Clients, NEW local, Begin(c, local),
         ~overlap', local.at # "respondTeam",
         local.at = "sendWrite" => local.source # "REPLACEMENT"
  PROVE  AloneKnows'
  <1>1. /\ \A d \in Clients : ~Busy(d)
        /\ inv' = inv /\ reg' = reg /\ torn' = torn /\ call' = [call EXCEPT ![c] = local]
    BY DEF Begin, rows
  <1>2. call'[c] = local /\ \A d \in Clients \ {c} : call'[d] = call[d]
    BY <1>1 DEF InvitationsType
  <1>3. \A t \in Teams \ torn' : InvStatus(t)' = "ACCEPTED" => reg'[t] \in Holding
    BY <1>1, AloneAccepted DEF InvStatus, Busy, At
  <1> QED
    BY <1>1, <1>2, <1>3, AloneMove DEF At

\* A request that goes on without a decision and without a registration.
LEMMA AloneGoesOn ==
  ASSUME InvitationsType, AloneKnows, NEW c \in Clients, ~At(c, "respondTeam"),
         reg' = reg, torn' = torn,
         \/ SendSweep(c) \/ SendSlots(c) \/ SendPromo(c) \/ RespondLate(c)
         \/ RespondPromo(c) \/ ApproveAllSweep(c) \/ Die(c)
  PROVE  AloneKnows'
  <1>1. Ages
    BY RequestAges
  <1>2. /\ Busy(c) /\ \A d \in Clients \ {c} : call'[d] = call[d]
        /\ ~At(c, "respondTeam")'
        /\ At(c, "sendWrite")' => /\ At(c, "sendSlots") /\ call'[c].team = call[c].team
                                  /\ call'[c].source = call[c].source
    BY RequestMoves DEF At
  <1>3. \A t \in Teams \ torn' : InvStatus(t)' = "ACCEPTED" => reg'[t] \in Holding
    BY <1>1, <1>2, AloneAccepted DEF Ages
  <1>4. ASSUME At(c, "sendWrite")'
        PROVE  \/ inv'[call'[c].team] # Nil /\ inv'[call'[c].team].source = "REPLACEMENT"
               \/ (Cardinality(Filled) < TotalRequired)'
    <2>1. SendSlots(c)
      <3>1. ~Die(c)
        BY <1>4, EndLocals DEF Die, At, NoCall
      <3>2. call[c].at = "sendSlots"
        BY <1>2, <1>4 DEF At
      <3> QED
        BY <3>1, <3>2
           DEF SendSweep, SendPromo, RespondLate, RespondPromo, ApproveAllSweep, At
    <2>2. /\ inv' = inv
          /\ \/ Cardinality(Filled) < TotalRequired
             \/ inv[call[c].team] # Nil /\ inv[call[c].team].source = "REPLACEMENT"
             \/ Reply(c)
      BY <2>1, Zenon DEF SendSlots, rows
    <2>3. ~Reply(c)
      BY <1>4, EndLocals DEF Reply, At, NoCall
    <2>4. Filled' = Filled
      BY <2>2 DEF Filled, InvStatus
    <2> QED
      BY <1>2, <1>4, <2>2, <2>3, <2>4, SlotsKept
  <1> QED
    BY <1>2, <1>3, <1>4, AloneMove

LEMMA AloneRegisters ==
  ASSUME InvitationsType, AloneKnows, NEW c \in Clients, RespondTeam(c)
  PROVE  AloneKnows'
  <1>1. PICK t : t = call[c].team
    OBVIOUS
  <1>2. /\ t \in Teams /\ call[c].answer \in Answers /\ At(c, "respondTeam")
        /\ inv' = inv /\ torn' = torn
        /\ reg' = [reg EXCEPT ![t] = IF call[c].answer = "ACCEPTED" THEN "REGISTERED"
                                     ELSE IF @ = "APPROVED" THEN @ ELSE Nil]
    BY <1>1, Responding DEF RespondTeam, At, InRespond, Goto, Reply
  <1>3. /\ Busy(c) /\ \A d \in Clients \ {c} : call'[d] = call[d]
        /\ ~At(c, "respondTeam")' /\ ~At(c, "sendWrite")'
    BY <1>2, RequestMoves DEF At
  <1>4. call[c].answer = "DECLINED" => InvStatus(t) = "DECLINED"
    BY <1>1, <1>2 DEF AloneKnows
  <1>5. \A u \in Teams \ torn : InvStatus(u) = "ACCEPTED" => reg[u] \in Holding \/ u = t
    BY <1>1, <1>2, <1>3 DEF AloneKnows, Busy, At
  <1>6. call[c].answer = "ACCEPTED" => reg'[t] \in Holding
    BY <1>2 DEF InvitationsType, Holding
  <1>7. \A u \in Teams \ {t} : reg'[u] = reg[u]
    BY <1>2 DEF InvitationsType
  <1>8. \A u \in Teams \ torn' : InvStatus(u)' = "ACCEPTED" => reg'[u] \in Holding
    BY <1>2, <1>4, <1>5, <1>6, <1>7 DEF InvStatus, Answers
  <1> QED
    BY <1>3, <1>8, AloneMove

LEMMA AloneAnswers ==
  ASSUME InvitationsType, AloneKnows, NEW c \in Clients, RespondWrite(c)
  PROVE  AloneKnows'
  <1>1. PICK t : t = call[c].team
    OBVIOUS
  <1>2. /\ At(c, "respondWrite") /\ reg' = reg /\ torn' = torn
        /\ call' = [call EXCEPT ![c].at = "respondTeam"]
    BY DEF RespondWrite
  <1>3. /\ Busy(c) /\ ~At(c, "respondTeam") /\ \A d \in Clients \ {c} : call'[d] = call[d]
        /\ At(c, "respondTeam")' /\ call'[c].team = t /\ call'[c].answer = call[c].answer
    BY <1>1, <1>2, MoveLocals DEF At, Busy, InRespond
  <1>4. /\ t \in Teams /\ call[c].answer \in Answers /\ InvStatus(t)' = call[c].answer
        /\ \A u \in Teams \ {t} : InvStatus(u)' = InvStatus(u)
    BY <1>1, RespondWritten
  <1>5. \A u \in Teams \ torn' : InvStatus(u)' = "ACCEPTED" =>
          reg'[u] \in Holding \/ (u = t /\ call'[c].answer = "ACCEPTED")
    BY <1>2, <1>3, <1>4, AloneAccepted
  <1>6. call'[c].answer = "DECLINED" => InvStatus(call[c].team)' = "DECLINED"
    BY <1>3, <1>4
  <1>7. ~At(c, "sendWrite")'
    BY <1>3 DEF At
  <1> QED
    BY <1>3, <1>5, <1>6, <1>7, AloneMove

LEMMA AloneSends ==
  ASSUME InvitationsType, AloneKnows, NEW c \in Clients, SendWrite(c)
  PROVE  AloneKnows'
  <1>1. PICK t, source : t = call[c].team /\ source = call[c].source
    OBVIOUS
  <1>2. At(c, "sendWrite") /\ reg' = reg /\ torn' = torn \ {t}
    BY <1>1 DEF SendWrite
  <1>3. /\ Busy(c) /\ ~At(c, "respondTeam") /\ \A d \in Clients \ {c} : call'[d] = call[d]
        /\ ~At(c, "respondTeam")' /\ ~At(c, "sendWrite")'
    BY <1>2, RequestMoves DEF At
  <1>4. InvStatus(t)' = "SENT" /\ \A u \in Teams \ {t} : InvStatus(u)' = InvStatus(u)
    BY <1>1, SendWritten
  <1>5. \A u \in Teams \ torn' : InvStatus(u)' = "ACCEPTED" => reg'[u] \in Holding
    BY <1>2, <1>3, <1>4, AloneAccepted
  <1> QED
    BY <1>3, <1>5, AloneMove

LEMMA AloneApproves ==
  ASSUME InvitationsType, AloneKnows, NEW c \in Clients,
         ApproveAllList(c) \/ ApproveAllWrite(c)
  PROVE  AloneKnows'
  <1>1. CASE ApproveAllList(c)
    <2>1. PICK list \in CandidateLists :
            call' = [call EXCEPT ![c].at = "approveWrite", ![c].candidates = list]
      BY <1>1 DEF ApproveAllList
    <2>2. PICK next : next = [call[c] EXCEPT !.at = "approveWrite", !.candidates = list]
      OBVIOUS
    <2>3. next.at = "approveWrite"
      BY <2>2 DEF InvitationsType, Locals
    <2>4. call' = [call EXCEPT ![c] = next]
      BY <2>1, <2>2
    <2>5. call'[c] = next /\ \A d \in Clients \ {c} : call'[d] = call[d]
      BY <2>4 DEF InvitationsType
    <2>6. /\ inv' = inv /\ reg' = reg /\ torn' = torn /\ Busy(c) /\ ~At(c, "respondTeam")
      BY <1>1 DEF ApproveAllList, rows, At, Busy
    <2>7. \A t \in Teams \ torn' : InvStatus(t)' = "ACCEPTED" => reg'[t] \in Holding
      BY <2>6, AloneAccepted DEF InvStatus
    <2> QED
      BY <2>3, <2>5, <2>6, <2>7, AloneMove DEF At
  <1>2. CASE ApproveAllWrite(c)
    <2>1. torn' = torn /\ At(c, "approveWrite")
      BY <1>2 DEF ApproveAllWrite, Reply
    <2>2. /\ Busy(c) /\ ~At(c, "respondTeam") /\ \A d \in Clients \ {c} : call'[d] = call[d]
          /\ ~At(c, "respondTeam")' /\ ~At(c, "sendWrite")'
      BY <1>2, <2>1, RequestMoves DEF At
    <2>3. \A t \in Teams \ torn' : InvStatus(t)' = "ACCEPTED" => reg'[t] \in Holding
      BY <1>2, <2>1, <2>2, ApprovalWritten, AloneAccepted DEF Holding
    <2> QED
      BY <2>2, <2>3, AloneMove
  <1> QED
    BY <1>1, <1>2

\* A request that dies between its answer and its registration leaves a torn team.
LEMMA AloneDies ==
  ASSUME InvitationsType, AloneKnows, NEW c \in Clients, Die(c)
  PROVE  AloneKnows'
  <1>1. inv' = inv /\ reg' = reg
    BY DEF Die, rows
  <1>2. /\ Busy(c) /\ \A d \in Clients \ {c} : call'[d] = call[d]
        /\ ~At(c, "respondTeam")' /\ ~At(c, "sendWrite")'
    BY EndLocals DEF Die, At, NoCall
  <1>3. \A t \in Teams \ torn' : InvStatus(t)' = "ACCEPTED" => reg'[t] \in Holding
    <2>1. /\ torn \subseteq torn'
          /\ At(c, "respondTeam") /\ call[c].answer = "ACCEPTED" => call[c].team \in torn'
      BY DEF Die
    <2>2. \A t \in Teams \ torn' : InvStatus(t) = "ACCEPTED" => reg[t] \in Holding
      BY <1>2, <2>1 DEF AloneKnows, Busy, At
    <2> QED
      BY <1>1, <2>2 DEF InvStatus
  <1> QED
    BY <1>2, <1>3, AloneMove

LEMMA AloneStep ==
  ASSUME InvitationsType, AloneKnows, [Next]_vars, ~overlap'
  PROVE  AloneKnows'
  <1>1. ASSUME NEW c \in Clients, NEW t \in Teams, NEW s \in Sources, SendBegin(c, t, s)
        PROVE  AloneKnows'
    <2>1. PICK local : /\ Begin(c, local)
                       /\ local = [NoCall EXCEPT !.team = t, !.source = s,
                                     !.at = IF s = "REPLACEMENT" THEN "sendSweep" ELSE "sendWrite"]
      BY <1>1 DEF SendBegin
    <2>2. /\ local.source = s /\ local.at \in {"sendSweep", "sendWrite"}
          /\ s = "REPLACEMENT" => local.at = "sendSweep"
      BY <2>1 DEF NoCall
    <2>3. local.at # "respondTeam" /\ (local.at = "sendWrite" => local.source # "REPLACEMENT")
      BY <2>2
    <2> QED
      BY <2>1, <2>3, AloneBegin
  <1>2. ASSUME NEW c \in Clients, NEW t \in Teams, NEW a \in Answers, RespondBegin(c, t, a)
        PROVE  AloneKnows'
    <2>1. PICK local : /\ Begin(c, local)
                       /\ local = [NoCall EXCEPT !.team = t, !.answer = a, !.source = inv[t].source,
                                     !.at = IF inv[t].late THEN "respondLate" ELSE "respondWrite"]
      BY <1>2 DEF RespondBegin
    <2>2. local.at \in {"respondLate", "respondWrite"}
      BY <2>1 DEF NoCall
    <2> QED
      BY <2>1, <2>2, AloneBegin
  <1>3. ASSUME NEW c \in Clients, ApproveAllBegin(c) PROVE AloneKnows'
    <2>1. PICK local : Begin(c, local) /\ local = [NoCall EXCEPT !.at = "approveSweep"]
      BY <1>3 DEF ApproveAllBegin
    <2>2. local.at = "approveSweep"
      BY <2>1 DEF NoCall
    <2> QED
      BY <2>1, <2>2, AloneBegin
  <1>4. ASSUME NEW c \in Clients,
               \/ SendSweep(c) \/ SendSlots(c) \/ SendPromo(c) \/ RespondLate(c)
               \/ RespondPromo(c) \/ ApproveAllSweep(c)
        PROVE  AloneKnows'
    <2>1. ~At(c, "respondTeam")
      BY <1>4 DEF SendSweep, SendSlots, SendPromo, RespondLate, RespondPromo, ApproveAllSweep, At
    <2>2. reg' = reg /\ torn' = torn
      BY <1>4 DEF SendSweep, SendSlots, SendPromo, RespondLate, RespondPromo, ApproveAllSweep,
                  Goto, Reply, rows
    <2> QED
      BY <1>4, <2>1, <2>2, AloneGoesOn
  <1>5. ASSUME NEW t \in Teams, RegisterTeam(t) PROVE AloneKnows'
    <2>1. /\ \A c \in Clients : ~Busy(c)
          /\ inv' = inv /\ torn' = torn /\ call' = call
          /\ \A u \in Teams : reg[u] \in Holding => reg'[u] \in Holding
      BY <1>5 DEF RegisterTeam, InvitationsType, Holding
    <2>2. \A c \in Clients : ~Busy(c)' /\ ~At(c, "respondTeam") /\ ~At(c, "respondTeam")'
                              /\ ~At(c, "sendWrite")'
      BY <2>1 DEF Busy, At
    <2> QED
      BY <2>1, <2>2 DEF AloneKnows, InvStatus
  <1>6. ASSUME NEW t \in Teams, ApproveTeam(t) PROVE AloneKnows'
    <2>1. \A u \in Teams : reg[u] \in Holding <=> reg'[u] \in Holding
      BY <1>6 DEF ApproveTeam, InvitationsType, Holding
    <2> QED
      BY <1>6, <2>1, Unaged, AloneBystander DEF ApproveTeam
  <1>7. ASSUME NEW t \in Teams, DeadlinePasses(t) PROVE AloneKnows'
    BY <1>7, LateAges, AloneBystander DEF DeadlinePasses
  <1>8. ASSUME NEW S, Sweep(S) PROVE AloneKnows'
    BY <1>8, SweptAges, AloneBystander DEF Sweep
  <1>9. ASSUME inv' = inv, reg' = reg, torn' = torn, call' = call PROVE AloneKnows'
    BY <1>9, Unaged, AloneBystander
  <1>10. ASSUME UNCHANGED vars PROVE AloneKnows'
    BY <1>9, <1>10 DEF vars, rows
  <1> QED
    BY <1>1, <1>2, <1>3, <1>4, <1>5, <1>6, <1>7, <1>8, <1>9, <1>10, AloneRegisters,
       AloneAnswers, AloneSends, AloneApproves, AloneDies
       DEF Next, UpsertPromotionCandidate, DeletePromotionCandidate,
           ImportPromotionCandidates, Answers

\* Once two requests have been in flight together that is remembered.
LEMMA OverlapStays ==
  ASSUME InvitationsType, [Next]_vars, ~overlap'
  PROVE  ~overlap
  <1>1. ASSUME NEW c \in Clients, NEW local, Begin(c, local) PROVE ~overlap
    BY <1>1 DEF Begin
  <1>2. ASSUME NEW c \in Clients,
               \/ \E t \in Teams : \/ \E s \in Sources : SendBegin(c, t, s)
                                   \/ \E a \in {"ACCEPTED", "DECLINED"} : RespondBegin(c, t, a)
               \/ ApproveAllBegin(c)
        PROVE  ~overlap
    BY <1>1, <1>2 DEF SendBegin, RespondBegin, ApproveAllBegin
  <1>3. ASSUME NEW c \in Clients, RespondWrite(c) \/ ApproveAllList(c) PROVE ~overlap
    BY <1>3 DEF RespondWrite, ApproveAllList
  <1>4. ASSUME NEW c \in Clients,
               \/ SendSweep(c) \/ SendSlots(c) \/ SendWrite(c) \/ SendPromo(c) \/ RespondLate(c)
               \/ RespondTeam(c) \/ RespondPromo(c) \/ ApproveAllSweep(c) \/ ApproveAllWrite(c)
               \/ Die(c)
        PROVE  ~overlap
    BY <1>4, RequestMoves
  <1>5. ASSUME NEW t \in Teams, RegisterTeam(t) PROVE ~overlap
    BY <1>5 DEF RegisterTeam
  <1>6. ASSUME overlap' = overlap PROVE ~overlap
    BY <1>6
  <1>7. ASSUME NEW t \in Teams,
               \/ \E r \in Ranks, open \in BOOLEAN : UpsertPromotionCandidate(t, r, open)
               \/ DeletePromotionCandidate(t) \/ ApproveTeam(t) \/ DeadlinePasses(t)
        PROVE  ~overlap
    BY <1>6, <1>7 DEF UpsertPromotionCandidate, DeletePromotionCandidate, ApproveTeam,
                      DeadlinePasses
  <1>8. ASSUME NEW S, Sweep(S) PROVE ~overlap
    BY <1>6, <1>8 DEF Sweep
  <1>9. ASSUME NEW rowOf, NEW wipe, ImportPromotionCandidates(rowOf, wipe) PROVE ~overlap
    BY <1>6, <1>9 DEF ImportPromotionCandidates
  <1>10. ASSUME UNCHANGED vars PROVE ~overlap
    BY <1>6, <1>10 DEF vars
  <1> QED
    BY <1>2, <1>3, <1>4, <1>5, <1>7, <1>8, <1>9, <1>10 DEF Next

LEMMA SeasonInvInit ==
  ASSUME Init
  PROVE  SeasonInv
  BY InvitationsTypeInit, RefusalInit, AloneInit DEF SeasonInv

LEMMA SeasonInvStep ==
  ASSUME SeasonInv, [Next]_vars
  PROVE  SeasonInv'
  BY InvitationsTypeStep, RefusalStep, AloneStep, OverlapStays DEF SeasonInv

\* A team becomes a replacement only by the write of sendInvitation, and the request
\* that has not overlapped with another has found a slot that is still free.
LEMMA ReplacementFound ==
  ASSUME SeasonInv, [Next]_vars, NEW t \in Teams,
         inv'[t] = Sent("REPLACEMENT"), inv[t] # inv'[t],
         inv[t] = Nil \/ inv[t].source # "REPLACEMENT", ~overlap
  PROVE  Cardinality({u \in Teams \ {t} : InvStatus(u) \in Active \/ reg[u] \in Holding})
           < TotalRequired
  <1>0. /\ InvitationsType /\ AloneKnows
        /\ Sent("REPLACEMENT").status = "SENT" /\ Sent("REPLACEMENT").source = "REPLACEMENT"
        /\ Sent("REPLACEMENT") # Nil
    <2>1. Sent("REPLACEMENT") \in InvitationRows
      BY DEF Sent, InvitationRows, Sources, Active
    <2>2. Sent("REPLACEMENT").status = "SENT" /\ Sent("REPLACEMENT").source = "REPLACEMENT"
      BY DEF Sent
    <2>3. Sent("REPLACEMENT") # Nil
      BY <2>1, Named
    <2> QED
      BY <2>2, <2>3 DEF SeasonInv
  <1>1. ASSUME Ages PROVE FALSE
    <2>1. inv[t] # Nil /\ inv[t].source = "REPLACEMENT"
      BY <1>0, <1>1 DEF Ages
    <2> QED
      BY <2>1
  <1>2. ASSUME NEW c \in Clients, SendWrite(c)
        PROVE  At(c, "sendWrite") /\ call[c].team = t /\ call[c].source = "REPLACEMENT"
    <2>1. PICK u, source : u = call[c].team /\ source = call[c].source
      OBVIOUS
    <2>2. u = t /\ inv'[t] = Sent(source)
      BY <1>0, <1>2, <2>1, SendWritten
    <2>3. Sent(source).source = source
      BY DEF Sent
    <2>4. source = "REPLACEMENT"
      BY <1>0, <2>2, <2>3
    <2> QED
      BY <1>2, <2>1, <2>2, <2>4 DEF SendWrite
  <1>3. ASSUME NEW c \in Clients, SendWrite(c)
        PROVE  Cardinality({u \in Teams \ {t} : InvStatus(u) \in Active \/ reg[u] \in Holding})
                 < TotalRequired
    <2> DEFINE others == {u \in Teams \ {t} : InvStatus(u) \in Active \/ reg[u] \in Holding}
    <2>1. Cardinality(Filled) < TotalRequired
      BY <1>0, <1>2, <1>3 DEF AloneKnows
    <2>2. others \subseteq Filled /\ Filled \in SUBSET Teams
      BY DEF Filled
    <2>3. PICK S, T : S = Filled /\ T = others
      OBVIOUS
    <2>4. /\ Cardinality(T) <= Cardinality(S) /\ Cardinality(T) \in Nat
          /\ Cardinality(S) \in Nat /\ TotalRequired \in Nat
      BY <2>2, <2>3, SlotsCount
    <2> QED
      BY <2>1, <2>3, <2>4
  <1>4. ASSUME NEW c \in Clients, RespondWrite(c) PROVE FALSE
    <2>1. PICK u : u = call[c].team
      OBVIOUS
    <2>2. u = t /\ InvStatus(t)' \in Answers
      BY <1>0, <1>4, <2>1, RespondWritten
    <2>3. InvStatus(t)' = "SENT"
      BY <1>0 DEF InvStatus
    <2> QED
      BY <2>2, <2>3 DEF Answers
  <1>5. ASSUME NEW c \in Clients, ApproveAllWrite(c) PROVE FALSE
    BY <1>0, <1>5, ApprovalWritten
  <1>6. ASSUME inv' = inv PROVE FALSE
    BY <1>6
  <1>7. ASSUME NEW c \in Clients,
               \/ SendSweep(c) \/ SendSlots(c) \/ SendPromo(c) \/ RespondLate(c)
               \/ RespondTeam(c) \/ RespondPromo(c) \/ ApproveAllSweep(c) \/ Die(c)
        PROVE  FALSE
    BY <1>0, <1>1, <1>7, RequestAges
  <1>8. ASSUME NEW c \in Clients, NEW local, Begin(c, local) PROVE FALSE
    BY <1>6, <1>8 DEF Begin, rows
  <1>9. ASSUME NEW c \in Clients,
               \/ \E u \in Teams : \/ \E s \in Sources : SendBegin(c, u, s)
                                   \/ \E a \in {"ACCEPTED", "DECLINED"} : RespondBegin(c, u, a)
               \/ ApproveAllBegin(c) \/ ApproveAllList(c)
        PROVE  FALSE
    BY <1>6, <1>8, <1>9 DEF SendBegin, RespondBegin, ApproveAllBegin, ApproveAllList, rows
  <1>10. ASSUME NEW u \in Teams,
                \/ \E r \in Ranks, open \in BOOLEAN : UpsertPromotionCandidate(u, r, open)
                \/ DeletePromotionCandidate(u) \/ RegisterTeam(u) \/ ApproveTeam(u)
         PROVE  FALSE
    BY <1>6, <1>10
       DEF UpsertPromotionCandidate, DeletePromotionCandidate, RegisterTeam, ApproveTeam
  <1>11. ASSUME NEW u \in Teams, DeadlinePasses(u) PROVE FALSE
    BY <1>0, <1>1, <1>11, LateAges
  <1>12. ASSUME NEW S, Sweep(S) PROVE FALSE
    BY <1>0, <1>1, <1>12, SweptAges DEF Sweep
  <1>13. ASSUME NEW rowOf, NEW wipe, ImportPromotionCandidates(rowOf, wipe) PROVE FALSE
    BY <1>6, <1>13 DEF ImportPromotionCandidates
  <1>14. ASSUME UNCHANGED vars PROVE FALSE
    BY <1>6, <1>14 DEF vars, rows
  <1> QED
    BY <1>3, <1>4, <1>5, <1>7, <1>9, <1>10, <1>11, <1>12, <1>13, <1>14 DEF Next

-----------------------------------------------------------------------------
(* The results.                                                            *)

LEMMA SeasonInvHolds == Spec => []SeasonInv
  <1>1. Init => SeasonInv
    BY SeasonInvInit
  <1>2. SeasonInv /\ [Next]_vars => SeasonInv'
    BY SeasonInvStep
  <1> QED
    BY <1>1, <1>2, PTL DEF Spec

\* An invitation that awaits an answer, was refused or has expired, and the local
\* variables of whoever handles one, are what the schema says, whatever races.
THEOREM InvitationsTypeCorrect == Spec => []InvitationsType
  <1>1. SeasonInv => InvitationsType
    BY DEF SeasonInv
  <1> QED
    BY <1>1, SeasonInvHolds, PTL

\* Between requests that have not overlapped, whoever accepted is registered, but
\* for those whose acceptance died half-way.
THEOREM AnswersRegister == Spec => []AnswerRegisters
  <1>1. SeasonInv => AnswerRegisters
    BY DEF SeasonInv, AloneKnows, AnswerRegisters, Busy, At
  <1> QED
    BY <1>1, SeasonInvHolds, PTL

\* Whatever races and dies, a refusal is turned into an acceptance only by who was
\* already in flight, or by an approval of all for a team that is registered.
THEOREM RefusalsStand == Spec => RefusalStands
  <1>1. SeasonInv /\ [Next]_vars =>
          [\A t \in Teams :
             InvStatus(t) = "DECLINED" /\ InvStatus(t)' = "ACCEPTED" =>
               (reg[t] \in Holding \/ \E c \in older[t] : Acts(c))]_vars
    BY AcceptanceAfterRefusal DEF SeasonInv
  <1> QED
    BY <1>1, SeasonInvHolds, PTL DEF Spec, RefusalStands

\* As long as requests do not overlap a replacement finds a slot that is free.
THEOREM ReplacementsFit == Spec => ReplacementFits
  <1>1. SeasonInv /\ [Next]_vars =>
          [\A t \in Teams :
             (/\ inv'[t] = Sent("REPLACEMENT") /\ inv[t] # inv'[t]
              /\ (inv[t] = Nil \/ inv[t].source # "REPLACEMENT")
              /\ ~overlap)
             => Cardinality({u \in Teams \ {t} : InvStatus(u) \in Active \/ reg[u] \in Holding})
                  < TotalRequired]_vars
    BY ReplacementFound
  <1> QED
    BY <1>1, SeasonInvHolds, PTL DEF Spec, ReplacementFits
=============================================================================
