----------------------------- MODULE Invitations -----------------------------
(***************************************************************************)
(* The invitations of one season (team-invitation.service.ts): the last    *)
(* season's best teams and the promoted ones are invited, answer within    *)
(* fourteen days or let the invitation expire, and replacements take the   *)
(* slots that are left.                                                    *)
(*                                                                         *)
(* One statement or transaction per step; a request may die between two.   *)
(* The code's 8 + 2 = 10 slots are parameters.  Where the code picks rows  *)
(* by sentAt or registeredAt any pick of the right size is possible.  Of   *)
(* season.service.ts only registerTeam and an approval are here: the other *)
(* edits of season_teams are in module Schedule.                           *)
(***************************************************************************)
EXTENDS Naturals, FiniteSets, FiniteSetsExt

CONSTANTS Clients, Teams, Nil,
          Managed,        \* teams that have an approved manager
          TopTeams,       \* the best of the previous season's final standings
          PromotedSlots,  \* promoted teams a season takes
          MaxRank,        \* bound: ranks of the promotion list
          MaxRequests     \* bound: requests, answers and sweeps aside

Ranks == 1..MaxRank
Sources == {"PREVIOUS_TOP_8", "PROMOTED", "REPLACEMENT"}
Active  == {"SENT", "ACCEPTED"}
Holding == {"REGISTERED", "APPROVED"}

\* The rows of team_invitations and promotion_candidates.
InvitationRows == [status : Active \cup {"DECLINED", "EXPIRED"}, source : Sources, late : BOOLEAN]
PromotionRows == [rank : Ranks, open : BOOLEAN]

\* Nil is no team, and no row or column of one.
ASSUME InvitationsAssumption ==
  /\ IsFiniteSet(Teams) /\ Managed \subseteq Teams /\ TopTeams \subseteq Teams
  /\ PromotedSlots \in Nat
  /\ Nil \notin Teams \cup Sources \cup Holding \cup Active \cup {"DECLINED", "EXPIRED"}
  /\ Nil \notin InvitationRows /\ Nil \notin PromotionRows

TotalRequired == Cardinality(TopTeams) + PromotedSlots

VARIABLES
  inv,      \* team_invitations: Nil, or the status, the source and, while it
            \* awaits an answer, whether the deadline has passed
  reg,      \* season_teams: Nil, "REGISTERED" or "APPROVED"
  promo,    \* promotion_candidates: Nil, or the rank and whether the candidate
            \* is still open: ELIGIBLE, INVITED or ACCEPTED
  call,     \* where each client's request is
  overlap,  \* history: two requests have been in flight together
  torn,     \* history: teams whose acceptance died between its two writes
  older,    \* history: the requests in flight while a team's refusal was
  begun     \* how many requests were begun, answers and sweeps aside

rows == <<inv, reg, promo>>
vars == <<rows, call, overlap, torn, older, begun>>

NoCall == [at |-> "none", team |-> Nil, source |-> Nil, answer |-> Nil,
           candidates |-> {}]

----------------------------------------------------------------------------
(* Requests                                                                *)

Busy(c) == call[c].at # "none"
At(c, step) == call[c].at = step
Goto(c, step) == /\ call' = [call EXCEPT ![c].at = step]
                 /\ UNCHANGED <<overlap, torn, older, begun>>

Counts == begun < MaxRequests /\ begun' = begun + 1

Refuses(d, t) ==
  At(d, "respondTeam") /\ call[d].team = t /\ call[d].answer = "DECLINED"

Begin(c, local) ==
  /\ ~Busy(c)
  /\ call' = [call EXCEPT ![c] = local]
  /\ overlap' = (overlap \/ \E d \in Clients : Busy(d))
  /\ older' = [t \in Teams |-> IF \E d \in Clients : Refuses(d, t)
                             THEN older[t] \cup {c} ELSE older[t]]
  /\ UNCHANGED <<rows, torn>>

Ends(c) == /\ call' = [call EXCEPT ![c] = NoCall]
           /\ older' = [t \in Teams |-> older[t] \ {c}]
           /\ UNCHANGED <<overlap, begun>>
Reply(c) == Ends(c) /\ UNCHANGED torn

InvStatus(t) == IF inv[t] = Nil THEN Nil ELSE inv[t].status

\* markExpiredInvitations
Swept(S) == [t \in Teams |-> IF t \in S /\ InvStatus(t) = "SENT" /\ inv[t].late
                             THEN [inv[t] EXCEPT !.status = "EXPIRED", !.late = FALSE]
                             ELSE inv[t]]

SetPromo(S, open) ==
  promo' = [t \in Teams |-> IF t \in S /\ promo[t] # Nil
                            THEN [promo[t] EXCEPT !.open = open] ELSE promo[t]]

----------------------------------------------------------------------------
(* sendInvitation                                                          *)

SendBegin(c, t, source) ==
  /\ Counts
  /\ t \in Managed
  /\ Begin(c, [NoCall EXCEPT !.team = t, !.source = source,
                !.at = IF source = "REPLACEMENT" THEN "sendSweep" ELSE "sendWrite"])

SendSweep(c) ==
  /\ At(c, "sendSweep")
  /\ inv' = Swept(Teams)
  /\ Goto(c, "sendSlots")
  /\ UNCHANGED <<reg, promo>>

\* The teams that hold a slot of the season.  A mutant: invited ones only.
FilledInvited == {t \in Teams : InvStatus(t) \in Active}
Filled == {t \in Teams : InvStatus(t) \in Active \/ reg[t] \in Holding}

\* getReplacementCandidates: a replacement needs a slot, unless it is one.
SendSlots(c) ==
  /\ At(c, "sendSlots")
  /\ LET t == call[c].team
         isReplacement == inv[t] # Nil /\ inv[t].source = "REPLACEMENT"
     IN  IF Cardinality(Filled) < TotalRequired \/ isReplacement
         THEN Goto(c, "sendWrite") ELSE Reply(c)
  /\ UNCHANGED rows

Sent(source) == [status |-> "SENT", source |-> source, late |-> FALSE]

SendWrite(c) ==
  /\ At(c, "sendWrite")
  /\ inv' = [inv EXCEPT ![call[c].team] = Sent(call[c].source)]
  /\ torn' = torn \ {call[c].team}
  /\ IF call[c].source = "PROMOTED"
     THEN call' = [call EXCEPT ![c].at = "sendPromo"] /\ UNCHANGED <<overlap, older, begun>>
     ELSE Ends(c)
  /\ UNCHANGED <<reg, promo>>

SendPromo(c) ==
  /\ At(c, "sendPromo")
  /\ SetPromo({call[c].team}, TRUE)
  /\ Reply(c)
  /\ UNCHANGED <<inv, reg>>

----------------------------------------------------------------------------
(* respondToInvitation                                                     *)

RespondBegin(c, t, answer) ==
  /\ t \in Managed /\ InvStatus(t) = "SENT"
  /\ Begin(c, [NoCall EXCEPT !.team = t, !.answer = answer, !.source = inv[t].source,
                !.at = IF inv[t].late THEN "respondLate" ELSE "respondWrite"])
  /\ UNCHANGED begun

\* Too late: this invitation alone is swept, and the answer refused.
RespondLate(c) ==
  /\ At(c, "respondLate")
  /\ inv' = Swept({call[c].team})
  /\ Reply(c)
  /\ UNCHANGED <<reg, promo>>

RespondWrite(c) ==
  /\ At(c, "respondWrite")
  /\ LET t == call[c].team
     IN  /\ inv' = [inv EXCEPT ![t].status = call[c].answer, ![t].late = FALSE]
         /\ older' = [older EXCEPT ![t] = IF call[c].answer = "DECLINED"
                        THEN {d \in Clients \ {c} : Busy(d)} ELSE {}]
  /\ call' = [call EXCEPT ![c].at = "respondTeam"]
  /\ UNCHANGED <<reg, promo, overlap, torn, begun>>

\* A mutant: an acceptance updates the season team but does not create it.
RespondTeamUpdate(c) ==
  /\ At(c, "respondTeam")
  /\ LET t == call[c].team
     IN  reg' = [reg EXCEPT ![t] = IF call[c].answer = "ACCEPTED" /\ @ # Nil THEN "REGISTERED"
                                   ELSE IF @ = "APPROVED" THEN @ ELSE Nil]
  /\ IF call[c].source = "PROMOTED" THEN Goto(c, "respondPromo") ELSE Reply(c)
  /\ UNCHANGED <<inv, promo>>

\* An approved team keeps its place even if it declines.
RespondTeam(c) ==
  /\ At(c, "respondTeam")
  /\ LET t == call[c].team
     IN  reg' = [reg EXCEPT ![t] = IF call[c].answer = "ACCEPTED" THEN "REGISTERED"
                                   ELSE IF @ = "APPROVED" THEN @ ELSE Nil]
  /\ IF call[c].source = "PROMOTED" THEN Goto(c, "respondPromo") ELSE Reply(c)
  /\ UNCHANGED <<inv, promo>>

RespondPromo(c) ==
  /\ At(c, "respondPromo")
  /\ SetPromo({call[c].team}, call[c].answer = "ACCEPTED")
  /\ Reply(c)
  /\ UNCHANGED <<inv, reg>>

----------------------------------------------------------------------------
(* getInvitationCandidates and approveAllInvitationCandidates              *)

\* A mutant: whoever was invited is displayed.
IsDisplayableAny(t) == TRUE
IsDisplayable(t) == inv[t] = Nil \/ inv[t].status \in Active

\* The promoted teams: by rank from the snapshot, then those invited as such,
\* then teams that were registered by hand.
ByRank ==
  LET open == {t \in Teams : promo[t] # Nil /\ promo[t].open}
  IN  {t \in open :
         Cardinality({u \in open : promo[u].rank < promo[t].rank}) < PromotedSlots}

Pick(S, n) == kSubset(IF n < Cardinality(S) THEN n ELSE Cardinality(S), S)
Left(S) == PromotedSlots - Cardinality(S)

\* Pairs of the promoted teams and those of them the lists take as not invited.
PromotedCandidates ==
  LET rest(S) == Teams \ (TopTeams \cup S)
      invited(S) == {t \in rest(S) : inv[t] # Nil /\ inv[t].source = "PROMOTED"}
      byHand(S) == {t \in rest(S) : reg[t] \in Holding}
  IN  UNION {UNION {{<<ByRank \cup I \cup H, H>> : H \in Pick(byHand(ByRank \cup I), Left(ByRank \cup I))}
                    : I \in Pick(invited(ByRank), Left(ByRank))}}

Replacements(S) == {t \in Teams \ S : inv[t] # Nil /\ inv[t].source = "REPLACEMENT"
                                        /\ inv[t].status \in Active}

\* A team in two lists takes two places and is approved once, as the first.
CandidateLists ==
  LET top == {t \in TopTeams : IsDisplayable(t)}
      lists(p) ==
        LET promoted == {t \in p[1] : t \in p[2] \/ IsDisplayable(t)}
            free == TotalRequired - Cardinality(top) - Cardinality(promoted)
            entry(t) == [team |-> t, source |-> IF t \in top THEN "PREVIOUS_TOP_8"
                                   ELSE IF t \in promoted THEN "PROMOTED" ELSE "REPLACEMENT"]
        IN  {{entry(t) : t \in top \cup promoted \cup R}
               : R \in Pick(Replacements(TopTeams \cup p[1]), free)}
  IN  UNION {lists(p) : p \in PromotedCandidates}

ApproveAllBegin(c) ==
  /\ Counts
  /\ Begin(c, [NoCall EXCEPT !.at = "approveSweep"])

ApproveAllSweep(c) ==
  /\ At(c, "approveSweep")
  /\ inv' = Swept(Teams)
  /\ Goto(c, "approveList")
  /\ UNCHANGED <<reg, promo>>

ApproveAllList(c) ==
  /\ At(c, "approveList")
  /\ \E list \in CandidateLists :
       call' = [call EXCEPT ![c].at = "approveWrite", ![c].candidates = list]
  /\ UNCHANGED <<rows, overlap, torn, older, begun>>

\* One transaction for all of them.
ApproveAllWrite(c) ==
  /\ At(c, "approveWrite")
  /\ LET list == call[c].candidates
         approved == {e.team : e \in list}
         sourceOf(t) == (CHOOSE e \in list : e.team = t).source
     IN  /\ inv' = [t \in Teams |-> IF t \in approved
                      THEN [status |-> "ACCEPTED", source |-> sourceOf(t), late |-> FALSE]
                      ELSE inv[t]]
         /\ reg' = [t \in Teams |-> IF t \in approved THEN "APPROVED" ELSE reg[t]]
         /\ SetPromo({t \in approved : sourceOf(t) = "PROMOTED"}, TRUE)
  /\ Reply(c)

----------------------------------------------------------------------------
(* Promotion candidates, registrations, time                               *)

\* Ranks are unique in a season (P2002): one statement, whole or nothing.
UpsertPromotionCandidate(t, rank, open) ==
  /\ Counts
  /\ \A u \in Teams \ {t} : promo[u] # Nil => promo[u].rank # rank
  /\ promo' = [promo EXCEPT ![t] = [rank |-> rank, open |-> open]]
  /\ UNCHANGED <<inv, reg, call, overlap, torn, older>>

\* The rows of an import: no team and no rank twice.
Imports == {rowOf \in UNION {[S -> [rank : Ranks, open : BOOLEAN]] : S \in SUBSET Teams} :
              \A t, u \in DOMAIN rowOf : rowOf[t].rank = rowOf[u].rank => t = u}

\* One transaction; an import that replaces begins by deleting every row, one that
\* does not fails on a rank that another team holds.
ImportPromotionCandidates(rowOf, wipe) ==
  /\ Counts
  /\ wipe \/ \A t \in DOMAIN rowOf : \A u \in Teams \ {t} :
                  promo[u] # Nil => promo[u].rank # rowOf[t].rank
  /\ promo' = [t \in Teams |-> IF t \in DOMAIN rowOf THEN rowOf[t]
                               ELSE IF wipe THEN Nil ELSE promo[t]]
  /\ UNCHANGED <<inv, reg, call, overlap, torn, older>>

DeletePromotionCandidate(t) ==
  /\ Counts
  /\ promo[t] # Nil
  /\ promo' = [promo EXCEPT ![t] = Nil]
  /\ UNCHANGED <<inv, reg, call, overlap, torn, older>>

\* season.service.ts: registerTeam, and updateTeamStatus with APPROVED.
RegisterTeam(t) ==
  /\ Counts
  /\ reg[t] = Nil
  /\ reg' = [reg EXCEPT ![t] = "REGISTERED"]
  /\ overlap' = (overlap \/ \E c \in Clients : Busy(c))
  /\ UNCHANGED <<inv, promo, call, torn, older>>

ApproveTeam(t) ==
  /\ Counts
  /\ reg[t] = "REGISTERED"
  /\ reg' = [reg EXCEPT ![t] = "APPROVED"]
  /\ UNCHANGED <<inv, promo, call, overlap, torn, older>>

\* listForSeason, getPendingForManager and getForManager sweep before they read.
Sweep(S) ==
  /\ Swept(S) # inv
  /\ inv' = Swept(S)
  /\ UNCHANGED <<reg, promo, call, overlap, torn, older, begun>>

DeadlinePasses(t) ==
  /\ InvStatus(t) = "SENT" /\ ~inv[t].late
  /\ inv' = [inv EXCEPT ![t].late = TRUE]
  /\ UNCHANGED <<reg, promo, call, overlap, torn, older, begun>>

Die(c) ==
  /\ Busy(c) /\ Ends(c)
  /\ torn' = IF At(c, "respondTeam") /\ call[c].answer = "ACCEPTED" THEN torn \cup {call[c].team} ELSE torn
  /\ UNCHANGED rows

----------------------------------------------------------------------------
Init ==
  /\ inv = [t \in Teams |-> Nil] /\ reg = [t \in Teams |-> Nil]
  /\ promo = [t \in Teams |-> Nil]
  /\ call = [c \in Clients |-> NoCall]
  /\ overlap = FALSE /\ torn = {} /\ older = [t \in Teams |-> {}] /\ begun = 0

Next ==
  \/ \E c \in Clients :
       \/ \E t \in Teams : \/ \E s \in Sources : SendBegin(c, t, s)
                           \/ \E a \in {"ACCEPTED", "DECLINED"} : RespondBegin(c, t, a)
       \/ SendSweep(c) \/ SendSlots(c) \/ SendWrite(c) \/ SendPromo(c)
       \/ RespondLate(c) \/ RespondWrite(c)
       \/ RespondTeam(c) \/ RespondPromo(c)
       \/ ApproveAllBegin(c) \/ ApproveAllSweep(c) \/ ApproveAllList(c) \/ ApproveAllWrite(c)
       \/ Die(c)
  \/ \E t \in Teams :
       \/ \E r \in Ranks, open \in BOOLEAN : UpsertPromotionCandidate(t, r, open)
       \/ DeletePromotionCandidate(t) \/ RegisterTeam(t) \/ ApproveTeam(t)
       \/ DeadlinePasses(t) \/ Sweep({t})
  \/ \E imported \in Imports, replace \in BOOLEAN : ImportPromotionCandidates(imported, replace)
  \/ Sweep(Teams)

Spec == Init /\ [][Next]_vars

----------------------------------------------------------------------------
\* Between requests that did not overlap, a team that accepted its invitation
\* is registered or approved: respondToInvitation writes the answer first and
\* the season team after, and approveAll both at once.  A team whose answer
\* died between the two is the exception: no request repeats the missing half.
AnswerRegisters ==
  ~overlap /\ (\A c \in Clients : ~Busy(c)) =>
    \A t \in Teams \ torn : InvStatus(t) = "ACCEPTED" => reg[t] \in Holding

\* The client a step ends or moves on is the one that takes it.
Acts(c) == Busy(c) /\ call'[c] # call[c]

\* A refusal stands: it becomes an acceptance only by a request that was in
\* flight while the refusal was, or by an approval of all for a team that
\* holds a registration all the same.
RefusalStands ==
  [][\A t \in Teams :
       InvStatus(t) = "DECLINED" /\ InvStatus(t)' = "ACCEPTED" =>
         (reg[t] \in Holding \/ \E c \in older[t] : Acts(c))]_vars

\* As long as requests do not overlap, a team that becomes a replacement finds
\* one of the season's slots free: neither an invitation that awaits an answer
\* nor a registration made by hand is overbooked.
ReplacementFits ==
  [][\A t \in Teams :
       (/\ inv'[t] = Sent("REPLACEMENT") /\ inv[t] # inv'[t]
        /\ (inv[t] = Nil \/ inv[t].source # "REPLACEMENT")
        /\ ~overlap)
       => Cardinality({u \in Teams \ {t} : InvStatus(u) \in Active \/ reg[u] \in Holding})
            < TotalRequired]_vars
=============================================================================
