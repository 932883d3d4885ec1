----------------------------- MODULE ClubsProofs -----------------------------
(***************************************************************************)
(* The invariants and the action property of Clubs, for any numbers of     *)
(* clients, managers, clubs, players and requests.                         *)
(*                                                                         *)
(* All four are about HTTP requests that come one by one, so the inductive *)
(* invariant says what the one request in flight has read and may still    *)
(* rely on: the roster has room, the player has no club, the claimed club  *)
(* has no manager.  The foreign keys hold whatever overlaps.               *)
(***************************************************************************)
EXTENDS Clubs, FiniteSetTheorems, TLAPS

\* The rows of squads and the local variables of a request.
TeamRows == [player : Players, team : Teams]

OnRequest == {"revise", "delete", "reject"} \cup Kinds
OnPlayerRequest == {"revisePlayer", "rejectPlayer", "ADD_PLAYER", "UPDATE_PLAYER",
                    "REMOVE_PLAYER"}
Locals == [at : {"none", "leave", "role", "add", "close", "player"} \cup OnRequest
                    \cup OnPlayerRequest,
           id : RequestIds \cup {Nil}, row : Requests \cup PlayerRequests \cup {Nil},
           user : Managers \cup {Nil}, team : TeamsOrNil, player : Players \cup {Nil},
           ok : BOOLEAN]

LocalOK(local) ==
  /\ local \in Locals
  /\ local.at \in OnRequest => local.row \in Requests /\ local.id \in RequestIds
  /\ local.at \in OnPlayerRequest => local.row \in PlayerRequests /\ local.id \in RequestIds
  /\ local.at \in {"leave", "role"} => local.user \in Managers
  /\ local.at \in {"add", "close"} => local.player \in Players
  /\ local.at = "add" => local.team \in Teams
  /\ local.at \in OfOwnClub => local.row.team \in Teams
  /\ local.at = "revisePlayer" => local.row.status = "PENDING"

\* Every row has a value the schema allows and every request is at one of its
\* awaits with the local variables it has there.
TypeOK ==
  /\ desk \in {"management", "squads"}
  /\ club \in [Teams -> {Nil} \cup Statuses]
  /\ role \in [Managers -> {Nil} \cup Roles]
  /\ managed \in [Managers -> TeamsOrNil]
  /\ req \in [RequestIds -> Requests \cup {Nil}]
  /\ preq \in [RequestIds -> PlayerRequests \cup {Nil}]
  /\ exists \subseteq Players /\ squad \subseteq TeamRows /\ past \subseteq TeamRows
  /\ call \in [Clients -> Locals] /\ \A c \in Clients : LocalOK(call[c])
  /\ overlap \in BOOLEAN
  /\ added \in [Players -> RequestIds \cup {Nil, "earlier"}]

\* The foreign keys of users, requests and squads.
Referential ==
  /\ \A m \in Managers : managed[m] # Nil => club[managed[m]] # Nil
  /\ \A i \in RequestIds : req[i] # Nil /\ req[i].team # Nil => club[req[i].team] # Nil
  /\ \A r \in squad : r.player \in exists

\* The players that count for the limit of a squad, and whether one more fits.
Counted(t) == {p \in Squad(t) : added[p] = Nil}
HasRoom(p, t) == added[p] # Nil \/ Cardinality(Counted(t) \ {p}) < MaxRoster

\* What a request has read that is still true when nobody else writes.
ManagementReads(c) ==
  /\ At(c, "CLAIM") => /\ ManagersOf(call[c].row.team) = {}
                       /\ req[call[c].id] # Nil => req[call[c].id].team = call[c].row.team
  /\ At(c, "role") => managed[call[c].user] = call[c].team
SquadReads(c) ==
  /\ At(c, "add") => /\ \A r \in squad : r.player # call[c].player
                     /\ HasRoom(call[c].player, call[c].team)
  /\ At(c, "close") /\ call[c].team # Nil => HasRoom(call[c].player, call[c].team)
  /\ At(c, "player") /\ call[c].team # Nil => Cardinality(Counted(call[c].team)) < MaxRoster
RequestReads(c) ==
  call[c].at \in {"revisePlayer", "rejectPlayer", "ADD_PLAYER"} =>
    \A p \in Players : added[p] # call[c].id

OneRow == \A r, s \in squad : r.player = s.player => r = s
WithinLimit == \A t \in Teams : Cardinality(Counted(t)) <= MaxRoster
AddedOnce ==
  /\ \A p, q \in Players : added[p] \in RequestIds /\ added[p] = added[q] => p = q
  /\ \A p \in Players, i \in RequestIds :
       preq[i] # Nil /\ added[p] = i => preq[i].status = "APPROVED"

Rows == OneRow /\ WithinLimit /\ AddedOnce

\* The four properties with what makes them inductive.
Alone ==
  /\ \A c, d \in Clients : Busy(c) /\ Busy(d) => c = d
  /\ \A c \in Clients : ManagementReads(c) /\ SquadReads(c) /\ RequestReads(c)
  /\ Rows

IInv == TypeOK /\ Referential /\ (~overlap => Alone)

-----------------------------------------------------------------------------
(* Types.                                                                  *)

LEMMA NilIsNull ==
  /\ Nil \notin Managers /\ Nil \notin Teams /\ Nil \notin Players /\ Nil \notin RequestIds
  /\ Nil \notin Requests /\ Nil \notin PlayerRequests
  /\ Nil # "ACTIVE" /\ Nil # "INACTIVE" /\ Nil # "PUBLIC" /\ Nil # "TEAM_MANAGER"
  BY ClubsAssumption DEF Statuses, Roles

LEMMA NoCallType == LocalOK(NoCall)
  BY DEF NoCall, LocalOK, Locals, OnRequest, OnPlayerRequest, Kinds, OfOwnClub, TeamsOrNil

\* The calls of the clients, when c's becomes local.
LEMMA CallStep ==
  ASSUME TypeOK, NEW c \in Clients, NEW local, LocalOK(local),
         call' = [call EXCEPT ![c] = local]
  PROVE  call' \in [Clients -> Locals] /\ \A d \in Clients : LocalOK(call'[d])
  BY DEF TypeOK, LocalOK

LEMMA BeginType ==
  ASSUME TypeOK, NEW c \in Clients, NEW d, NEW local, LocalOK(local), Begin(c, d, local)
  PROVE  TypeOK'
  BY CallStep DEF Begin, Counts, users, people, TypeOK

LEMMA ReplyType ==
  ASSUME TypeOK, NEW c \in Clients, Reply(c)
  PROVE  /\ call' \in [Clients -> Locals] /\ \A d \in Clients : LocalOK(call'[d])
         /\ desk' \in {"management", "squads"} /\ overlap' \in BOOLEAN
  BY CallStep, NoCallType DEF Reply, TypeOK

LEMMA AtOnceType ==
  ASSUME TypeOK, NEW d, AtOnce(d)
  PROVE  /\ call' \in [Clients -> Locals] /\ \A c \in Clients : LocalOK(call'[c])
         /\ desk' \in {"management", "squads"} /\ overlap' \in BOOLEAN
  BY DEF AtOnce, Counts, TypeOK

LEMMA ApprovedType ==
  /\ \A r \in Requests : Approved(r) \in Requests /\ Approved(r).team = r.team
                         /\ Approved(r).by = r.by
  /\ \A r \in PlayerRequests : Approved(r) \in PlayerRequests /\ Approved(r).status = "APPROVED"
                               /\ Approved(r).player = r.player
  BY DEF Approved, Requests, PlayerRequests, Progress

LEMMA ClubDeletedType ==
  ASSUME TypeOK, NEW t, ClubDeleted(t)
  PROVE  /\ club' \in [Teams -> {Nil} \cup Statuses]
         /\ preq' \in [RequestIds -> PlayerRequests \cup {Nil}]
         /\ exists' \subseteq Players /\ squad' \subseteq TeamRows /\ past' \subseteq TeamRows
         /\ added' = added
  BY DEF TypeOK, ClubDeleted

LEMMA WithoutClubType ==
  /\ \A t : \A f \in [Managers -> TeamsOrNil] : WithoutClub(f, t) \in [Managers -> TeamsOrNil]
  /\ \A t : \A f \in [RequestIds -> Requests \cup {Nil}] :
        RequestsWithoutClub(f, t) \in [RequestIds -> Requests \cup {Nil}]
  <1>1. \A t : \A f \in [Managers -> TeamsOrNil] : WithoutClub(f, t) \in [Managers -> TeamsOrNil]
    BY DEF WithoutClub, TeamsOrNil
  <1>2. \A r \in Requests : [r EXCEPT !.team = Nil] \in Requests
    BY DEF Requests, TeamsOrNil
  <1> QED
    BY <1>1, <1>2 DEF RequestsWithoutClub

LEMMA ManagementType ==
  ASSUME TypeOK, ManagementNext
  PROVE  TypeOK'
  <1> USE NilIsNull
  <1>1. ASSUME NEW id \in RequestIds, NEW kind \in Kinds, NEW t \in TeamsOrNil,
               NEW s \in Statuses, NEW m \in Managers, CreateRequest(m, id, kind, t, s)
        PROVE  TypeOK'
    <2>1. Request(m, kind, t, s) \in Requests
      BY DEF Request, Requests, Progress
    <2> QED
      BY <1>1, <2>1, AtOnceType DEF CreateRequest, users, people, TypeOK
  <1>2. ASSUME NEW id \in RequestIds, NEW kind \in Kinds, NEW t \in TeamsOrNil,
               NEW s \in Statuses, NEW c \in Clients, ReviseBegin(c, id, kind, t, s)
        PROVE  TypeOK'
    <2>1. req[id] \in Requests /\ req[id].by \in Managers
      BY <1>2 DEF ReviseBegin, TypeOK, Requests
    <2>2. Request(req[id].by, kind, t, s) \in Requests
      BY <2>1 DEF Request, Requests, Progress
    <2>3. LocalOK([NoCall EXCEPT !.at = "revise", !.id = id,
                                 !.row = Request(req[id].by, kind, t, s)])
      BY <2>2 DEF NoCall, LocalOK, Locals, OnRequest, OnPlayerRequest, Kinds, OfOwnClub, TeamsOrNil
    <2> QED
      BY <1>2, <2>3, BeginType DEF ReviseBegin
  <1>3. ASSUME NEW c \in Clients, NEW id \in RequestIds, DeleteBegin(c, id)
        PROVE  TypeOK'
    <2>1. req[id] \in Requests /\ managed[req[id].by] \in TeamsOrNil
      BY <1>3 DEF DeleteBegin, TypeOK, Requests
    <2>2. LocalOK([NoCall EXCEPT !.at = "delete", !.id = id, !.row = req[id],
                                 !.team = managed[req[id].by]])
      BY <2>1 DEF NoCall, LocalOK, Locals, OnRequest, OnPlayerRequest, Kinds, OfOwnClub, TeamsOrNil
    <2> QED
      BY <1>3, <2>2, BeginType DEF DeleteBegin
  <1>4. ASSUME NEW c \in Clients, NEW id \in RequestIds, NEW ok \in BOOLEAN,
               ReviewBegin(c, id, ok)
        PROVE  TypeOK'
    <2>1. req[id] \in Requests
      BY <1>4 DEF ReviewBegin, Pending, TypeOK
    <2>2. ASSUME ok, req[id].kind \in OfOwnClub
          PROVE  req[id].team \in Teams
      <3>1. req[id].team # Nil
        BY <1>4, <2>2 DEF ReviewBegin, OfOwnClub
      <3> QED
        BY <2>1, <3>1 DEF Requests, TeamsOrNil
    <2>3. LocalOK([NoCall EXCEPT !.at = IF ok THEN req[id].kind ELSE "reject",
                                 !.id = id, !.row = req[id], !.ok = ok])
      <3>1. req[id].kind \in Kinds
        BY <2>1 DEF Requests
      <3> QED
        BY <2>1, <2>2, <3>1
           DEF NoCall, LocalOK, Locals, OnRequest, OnPlayerRequest, Kinds, OfOwnClub, TeamsOrNil
    <2> QED
      BY <1>4, <2>3, BeginType DEF ReviewBegin
  <1>5. ASSUME NEW c \in Clients, NEW m \in Managers, LeaveBegin(c, m)
        PROVE  TypeOK'
    <2>1. LocalOK([NoCall EXCEPT !.at = "leave", !.user = m, !.team = managed[m]])
      BY DEF NoCall, LocalOK, Locals, OnRequest, OnPlayerRequest, Kinds, OfOwnClub, TeamsOrNil,
             TypeOK
    <2> QED
      BY <1>5, <2>1, BeginType DEF LeaveBegin
  <1>6. ASSUME NEW c \in Clients, NEW m \in Managers, NEW r \in Roles, RoleBegin(c, m, r)
        PROVE  TypeOK'
    <2>1. \A b \in BOOLEAN :
            LocalOK([NoCall EXCEPT !.at = "role", !.user = m, !.team = managed[m], !.ok = b])
      BY DEF NoCall, LocalOK, Locals, OnRequest, OnPlayerRequest, Kinds, OfOwnClub, TeamsOrNil,
             TypeOK
    <2>2. (r = "TEAM_MANAGER") \in BOOLEAN
      OBVIOUS
    <2>3. LocalOK([NoCall EXCEPT !.at = "role", !.user = m, !.team = managed[m],
                                 !.ok = (r = "TEAM_MANAGER")])
      BY <2>1, <2>2
    <2> QED
      BY <1>6, <2>3, BeginType DEF RoleBegin
  <1>7. ASSUME NEW c \in Clients, ReviseWrite(c) PROVE TypeOK'
    <2>1. call[c].row \in Requests
      BY <1>7 DEF ReviseWrite, At, TypeOK, LocalOK, OnRequest
    <2> QED
      BY <1>7, <2>1, ReplyType DEF ReviseWrite, users, people, TypeOK
  <1>8. ASSUME NEW c \in Clients, DeleteWrite(c) PROVE TypeOK'
    BY <1>8, ReplyType DEF DeleteWrite, people, TypeOK, TeamsOrNil
  <1>9. ASSUME NEW c \in Clients, LeaveWrite(c) PROVE TypeOK'
    BY <1>9, ReplyType DEF LeaveWrite, people, TypeOK, TeamsOrNil
  <1>10. ASSUME NEW c \in Clients, RoleWrite(c) PROVE TypeOK'
    <2>1. call[c].team \in TeamsOrNil
      BY DEF TypeOK, Locals
    <2> QED
      BY <1>10, <2>1, ReplyType DEF RoleWrite, users, people, TypeOK, TeamsOrNil, Roles
  <1>11. ASSUME NEW c \in Clients, NEW step, Deciding(c, step)
         PROVE  req[call[c].id] \in Requests \/ call[c].id \notin RequestIds
    BY <1>11 DEF Deciding, TypeOK
  <1>12. ASSUME NEW c \in Clients, RejectWrite(c) PROVE TypeOK'
    <2>1. \A r \in Requests : [r EXCEPT !.status = "REJECTED"] \in Requests
      BY DEF Requests, Progress
    <2>2. req' \in [RequestIds -> Requests \cup {Nil}]
      BY <1>11, <1>12, <2>1 DEF RejectWrite, TypeOK
    <2> QED
      BY <1>12, <2>2, ReplyType DEF RejectWrite, Deciding, users, people, TypeOK
  <1>13. ASSUME NEW c \in Clients, ClaimWrite(c) PROVE TypeOK'
    <2>1. call[c].id \in RequestIds
      BY <1>13 DEF ClaimWrite, Deciding, At, TypeOK, LocalOK, OnRequest, Kinds
    <2>2. req[call[c].id] \in Requests
      BY <1>11, <1>13, <2>1 DEF ClaimWrite
    <2>3. /\ req' \in [RequestIds -> Requests \cup {Nil}]
          /\ managed' \in [Managers -> TeamsOrNil]
      BY <1>13, <2>2, ApprovedType DEF ClaimWrite, TypeOK, Requests
    <2> QED
      BY <1>13, <2>3, ReplyType DEF ClaimWrite, Deciding, people, TypeOK
  <1>14. ASSUME NEW c \in Clients, NEW t \in Teams, CreateWrite(c, t) PROVE TypeOK'
    <2>1. call[c].id \in RequestIds /\ call[c].row \in Requests
      BY <1>14 DEF CreateWrite, Deciding, At, TypeOK, LocalOK, OnRequest, Kinds
    <2>2. req[call[c].id] \in Requests
      BY <1>11, <1>14, <2>1 DEF CreateWrite
    <2>3. [Approved(req[call[c].id]) EXCEPT !.team = t] \in Requests
      <3>1. \A r \in Requests : [r EXCEPT !.team = t] \in Requests
        BY DEF Requests, TeamsOrNil
      <3> QED
        BY <2>2, <3>1, ApprovedType
    <2>4. /\ req' \in [RequestIds -> Requests \cup {Nil}]
          /\ managed' \in [Managers -> TeamsOrNil]
          /\ club' \in [Teams -> {Nil} \cup Statuses]
      BY <1>14, <2>1, <2>3 DEF CreateWrite, TypeOK, Requests, TeamsOrNil
    <2> QED
      BY <1>14, <2>4, ReplyType DEF CreateWrite, Deciding, people, TypeOK
  <1>15. ASSUME NEW c \in Clients, UpdateWrite(c) PROVE TypeOK'
    <2>1. call[c].id \in RequestIds /\ call[c].row \in Requests
      BY <1>15 DEF UpdateWrite, Deciding, At, TypeOK, LocalOK, OnRequest, Kinds
    <2>2. req[call[c].id] \in Requests
      BY <1>11, <1>15, <2>1 DEF UpdateWrite
    <2>3. /\ req' \in [RequestIds -> Requests \cup {Nil}]
          /\ club' \in [Teams -> {Nil} \cup Statuses]
      BY <1>15, <2>1, <2>2, ApprovedType DEF UpdateWrite, TypeOK, Requests
    <2> QED
      BY <1>15, <2>3, ReplyType DEF UpdateWrite, Deciding, users, people, TypeOK
  <1>16. ASSUME NEW c \in Clients, DeleteClubWrite(c) PROVE TypeOK'
    <2>1. call[c].id \in RequestIds
      BY <1>16 DEF DeleteClubWrite, Deciding, At, TypeOK, LocalOK, OnRequest, Kinds
    <2>2. req[call[c].id] \in Requests
      BY <1>11, <1>16, <2>1 DEF DeleteClubWrite
    <2>3. /\ [req EXCEPT ![call[c].id] = Approved(@)] \in [RequestIds -> Requests \cup {Nil}]
          /\ [managed EXCEPT ![call[c].row.by] = Nil] \in [Managers -> TeamsOrNil]
      BY <2>2, ApprovedType DEF TypeOK, TeamsOrNil
    <2>4. /\ req' \in [RequestIds -> Requests \cup {Nil}]
          /\ managed' \in [Managers -> TeamsOrNil]
      BY <1>16, <2>3, WithoutClubType DEF DeleteClubWrite
    <2> QED
      BY <1>16, <2>4, ReplyType, ClubDeletedType DEF DeleteClubWrite, Deciding, TypeOK
  <1>17. ASSUME NEW t \in Teams, NEW m \in Managers \cup {Nil}, CreateTeam(t, m) PROVE TypeOK'
    BY <1>17, AtOnceType DEF CreateTeam, people, TypeOK, TeamsOrNil, Statuses
  <1>18. ASSUME NEW t \in Teams, NEW m \in Managers \cup {Nil}, Assign(t, m) PROVE TypeOK'
    BY <1>18, AtOnceType DEF Assign, people, TypeOK, TeamsOrNil
  <1>19. ASSUME NEW t \in Teams, DeleteTeam(t) PROVE TypeOK'
    <2>1. /\ req' \in [RequestIds -> Requests \cup {Nil}]
          /\ managed' \in [Managers -> TeamsOrNil]
      BY <1>19, WithoutClubType DEF DeleteTeam, TypeOK
    <2> QED
      BY <1>19, <2>1, AtOnceType, ClubDeletedType DEF DeleteTeam, TypeOK
  <1>20. ASSUME NEW m \in Managers, DeleteUser(m) PROVE TypeOK'
    BY <1>20, AtOnceType DEF DeleteUser, people, TypeOK, TeamsOrNil
  <1>21. ASSUME NEW m \in Managers, NEW t \in TeamsOrNil, CreateUser(m, t) PROVE TypeOK'
    BY <1>21, AtOnceType DEF CreateUser, people, TypeOK, Roles
  <1> QED
    BY <1>1, <1>2, <1>3, <1>4, <1>5, <1>6, <1>7, <1>8, <1>9, <1>10, <1>12, <1>13, <1>14, <1>15,
       <1>16, <1>17, <1>18, <1>19, <1>20, <1>21 DEF ManagementNext

LEMMA SquadsType ==
  ASSUME TypeOK, SquadsNext
  PROVE  TypeOK'
  <1> USE NilIsNull
  <1>1. ASSUME NEW c \in Clients, NEW p \in Players, NEW t \in Teams, AddBegin(c, p, t)
        PROVE  TypeOK'
    <2>1. LocalOK([NoCall EXCEPT !.at = "add", !.player = p, !.team = t])
      BY DEF NoCall, LocalOK, Locals, OnRequest, OnPlayerRequest, Kinds, OfOwnClub, TeamsOrNil
    <2> QED
      BY <1>1, <2>1, BeginType DEF AddBegin
  <1>2. ASSUME NEW c \in Clients, NEW p \in Players, NEW t \in TeamsOrNil, MoveBegin(c, p, t)
        PROVE  TypeOK'
    <2>1. LocalOK([NoCall EXCEPT !.at = "close", !.player = p, !.team = t])
      BY DEF NoCall, LocalOK, Locals, OnRequest, OnPlayerRequest, Kinds, OfOwnClub, TeamsOrNil
    <2> QED
      BY <1>2, <2>1, BeginType DEF MoveBegin
  <1>3. ASSUME NEW c \in Clients, NEW p \in Players, CreatePlayerWrite(c, p)
        PROVE  TypeOK'
    <2>1. added' \in [Players -> RequestIds \cup {Nil, "earlier"}]
      BY <1>3 DEF CreatePlayerWrite, TypeOK
    <2>2. CASE call[c].team = Nil
      BY <1>3, <2>1, <2>2, ReplyType DEF CreatePlayerWrite, users, TypeOK
    <2>3. CASE call[c].team # Nil
      <3>1. LocalOK([call[c] EXCEPT !.at = "add", !.player = p])
        BY <2>3 DEF TypeOK, LocalOK, Locals, OnRequest, OnPlayerRequest, Kinds, OfOwnClub,
                    TeamsOrNil
      <3>2. call' = [call EXCEPT ![c] = [call[c] EXCEPT !.at = "add", !.player = p]]
        BY <1>3, <2>3 DEF CreatePlayerWrite, TypeOK
      <3>3. call' \in [Clients -> Locals] /\ \A d \in Clients : LocalOK(call'[d])
        BY <3>1, <3>2, CallStep
      <3> QED
        BY <1>3, <2>1, <2>3, <3>3 DEF CreatePlayerWrite, users, TypeOK
    <2> QED
      BY <2>2, <2>3
  <1>4. ASSUME NEW c \in Clients, NEW p \in Players, ApproveAdd(c, p)
        PROVE  TypeOK'
    <2>1. call[c].id \in RequestIds /\ call[c].row \in PlayerRequests
      BY <1>4 DEF ApproveAdd, DecidingPlayer, At, TypeOK, LocalOK, OnPlayerRequest
    <2>2. [Approved(preq[call[c].id]) EXCEPT !.player = p] \in PlayerRequests
      <3>1. \A r \in PlayerRequests : [r EXCEPT !.player = p] \in PlayerRequests
        BY DEF PlayerRequests
      <3>2. preq[call[c].id] \in PlayerRequests
        BY <1>4, <2>1 DEF ApproveAdd, DecidingPlayer, TypeOK
      <3> QED
        BY <3>1, <3>2, ApprovedType
    <2>3. Row(p, call[c].row.team) \in TeamRows
      BY <2>1 DEF Row, TeamRows, PlayerRequests
    <2>4. /\ preq' \in [RequestIds -> PlayerRequests \cup {Nil}]
          /\ added' \in [Players -> RequestIds \cup {Nil, "earlier"}]
          /\ squad' \subseteq TeamRows
      BY <1>4, <2>1, <2>2, <2>3 DEF ApproveAdd, Join, TypeOK
    <2> QED
      BY <1>4, <2>4, ReplyType DEF ApproveAdd, DecidingPlayer, users, TypeOK
  <1>5. ASSUME NEW c \in Clients, NEW t \in TeamsOrNil, CreatePlayerBegin(c, t)
        PROVE  TypeOK'
    <2>1. LocalOK([NoCall EXCEPT !.at = "player", !.team = t])
      BY DEF NoCall, LocalOK, Locals, OnRequest, OnPlayerRequest, Kinds, OfOwnClub, TeamsOrNil
    <2> QED
      BY <1>5, <2>1, BeginType DEF CreatePlayerBegin
  <1>6. ASSUME NEW c \in Clients, AddWrite(c) PROVE TypeOK'
    <2>1. Row(call[c].player, call[c].team) \in TeamRows
      BY <1>6 DEF AddWrite, At, TypeOK, LocalOK, Row, TeamRows
    <2> QED
      BY <1>6, <2>1, ReplyType DEF AddWrite, Join, users, TypeOK
  <1>7. ASSUME NEW c \in Clients, MoveClose(c) PROVE TypeOK'
    <2>1. squad' \subseteq TeamRows /\ past' \subseteq TeamRows
      BY <1>7 DEF MoveClose, TypeOK
    <2>2. CASE call[c].team = Nil
      BY <1>7, <2>1, <2>2, ReplyType DEF MoveClose, users, TypeOK
    <2>3. CASE call[c].team # Nil
      <3>1. LocalOK([call[c] EXCEPT !.at = "add"])
        BY <1>7, <2>3
           DEF MoveClose, At, TypeOK, LocalOK, Locals, OnRequest, OnPlayerRequest, Kinds,
               OfOwnClub, TeamsOrNil
      <3>2. call' = [call EXCEPT ![c] = [call[c] EXCEPT !.at = "add"]]
        BY <1>7, <2>3 DEF MoveClose, Goto, TypeOK
      <3>3. call' \in [Clients -> Locals] /\ \A d \in Clients : LocalOK(call'[d])
        BY <3>1, <3>2, CallStep
      <3> QED
        BY <1>7, <2>1, <2>3, <3>3 DEF MoveClose, Goto, users, TypeOK
    <2> QED
      BY <2>2, <2>3
  <1>8. ASSUME NEW c \in Clients, RevisePlayerWrite(c) PROVE TypeOK'
    <2>1. call[c].row \in PlayerRequests
      BY <1>8 DEF RevisePlayerWrite, At, TypeOK, LocalOK, OnPlayerRequest
    <2> QED
      BY <1>8, <2>1, ReplyType DEF RevisePlayerWrite, users, people, TypeOK
  <1>9. ASSUME NEW c \in Clients, NEW step, DecidingPlayer(c, step), call[c].id \in RequestIds
        PROVE  preq[call[c].id] \in PlayerRequests
    BY <1>9 DEF DecidingPlayer, TypeOK
  <1>10. ASSUME NEW c \in Clients, RejectPlayerWrite(c) PROVE TypeOK'
    <2>1. \A r \in PlayerRequests : [r EXCEPT !.status = "REJECTED"] \in PlayerRequests
      BY DEF PlayerRequests, Progress
    <2>2. preq' \in [RequestIds -> PlayerRequests \cup {Nil}]
      BY <1>9, <1>10, <2>1 DEF RejectPlayerWrite, TypeOK
    <2> QED
      BY <1>10, <2>2, ReplyType DEF RejectPlayerWrite, DecidingPlayer, users, people, TypeOK
  <1>11. ASSUME NEW c \in Clients, ApproveUpdate(c) PROVE TypeOK'
    <2>1. preq' \in [RequestIds -> PlayerRequests \cup {Nil}]
      BY <1>9, <1>11, ApprovedType DEF ApproveUpdate, TypeOK
    <2> QED
      BY <1>11, <2>1, ReplyType DEF ApproveUpdate, DecidingPlayer, users, people, TypeOK
  <1>12. ASSUME NEW f \in [RequestIds -> PlayerRequests \cup {Nil}], NEW p, PlayerDeleted(p, f)
         PROVE  /\ preq' \in [RequestIds -> PlayerRequests \cup {Nil}]
                /\ exists' \subseteq Players /\ squad' \subseteq TeamRows
                /\ past' \subseteq TeamRows
    <2>1. \A r \in PlayerRequests : [r EXCEPT !.player = Nil] \in PlayerRequests
      BY DEF PlayerRequests
    <2> QED
      BY <1>12, <2>1 DEF PlayerDeleted, TypeOK
  <1>13. ASSUME NEW c \in Clients, ApproveRemove(c) PROVE TypeOK'
    <2>1. [preq EXCEPT ![call[c].id] = Approved(@)] \in [RequestIds -> PlayerRequests \cup {Nil}]
      BY <1>9, <1>13, ApprovedType DEF ApproveRemove, TypeOK
    <2> QED
      BY <1>12, <1>13, <2>1, ReplyType DEF ApproveRemove, DecidingPlayer, users, TypeOK
  <1>14. ASSUME NEW c \in Clients, NEW id \in RequestIds, NEW ok \in BOOLEAN,
                ReviewPlayerBegin(c, id, ok)
         PROVE  TypeOK'
    <2>1. preq[id] \in PlayerRequests
      BY <1>14 DEF ReviewPlayerBegin, Pending, TypeOK
    <2>2. (IF ok THEN PlayerStep[preq[id].kind] ELSE "rejectPlayer") \in OnPlayerRequest
      BY <2>1 DEF PlayerStep, OnPlayerRequest, PlayerRequests, PlayerKinds
    <2>3. \A step \in OnPlayerRequest \ {"revisePlayer"} :
            LocalOK([NoCall EXCEPT !.at = step, !.id = id, !.row = preq[id],
                                   !.player = preq[id].player])
      BY <2>1 DEF NoCall, LocalOK, Locals, OnRequest, OnPlayerRequest, Kinds, OfOwnClub,
                  TeamsOrNil, PlayerRequests
    <2>4. (IF ok THEN PlayerStep[preq[id].kind] ELSE "rejectPlayer") # "revisePlayer"
      BY <2>1 DEF PlayerStep, PlayerRequests, PlayerKinds
    <2> QED
      BY <1>14, <2>2, <2>3, <2>4, BeginType DEF ReviewPlayerBegin
  <1>15. ASSUME NEW p \in Players, DeletePlayer(p) PROVE TypeOK'
    <2>1. preq \in [RequestIds -> PlayerRequests \cup {Nil}]
      BY DEF TypeOK
    <2> QED
      BY <1>12, <1>15, <2>1, AtOnceType DEF DeletePlayer, users, TypeOK
  <1>16. ASSUME NEW p \in Players, NEW t \in Teams, RosterRemove(p, t) PROVE TypeOK'
    <2>1. Row(p, t) \in TeamRows
      BY DEF Row, TeamRows
    <2> QED
      BY <1>16, <2>1, AtOnceType DEF RosterRemove, Closed, users, TypeOK
  <1>17. ASSUME NEW id \in RequestIds, DeletePlayerRequest(id) PROVE TypeOK'
    BY <1>17, AtOnceType DEF DeletePlayerRequest, users, people, TypeOK
  <1>18. ASSUME NEW m \in Managers, NEW kind \in PlayerKinds, NEW p \in Players \cup {Nil},
                MayFile(m, kind, p)
         PROVE  PlayerRequest(m, kind, p) \in PlayerRequests
    BY <1>18 DEF MayFile, PlayerRequest, PlayerRequests, Progress, TypeOK, TeamsOrNil
  <1>19. ASSUME NEW id \in RequestIds, NEW kind \in PlayerKinds, NEW p \in Players \cup {Nil},
                NEW m \in Managers, CreatePlayerRequest(m, id, kind, p)
         PROVE  TypeOK'
    <2>1. /\ preq' \in [RequestIds -> PlayerRequests \cup {Nil}]
          /\ added' \in [Players -> RequestIds \cup {Nil, "earlier"}]
      BY <1>18, <1>19 DEF CreatePlayerRequest, TypeOK
    <2> QED
      BY <1>19, <2>1, AtOnceType DEF CreatePlayerRequest, users, people, TypeOK
  <1>20. ASSUME NEW id \in RequestIds, NEW kind \in PlayerKinds, NEW p \in Players \cup {Nil},
                NEW c \in Clients, RevisePlayerBegin(c, id, kind, p)
         PROVE  TypeOK'
    <2>1. preq[id].by \in Managers
      BY <1>20 DEF RevisePlayerBegin, TypeOK, PlayerRequests
    <2>2. PlayerRequest(preq[id].by, kind, p) \in PlayerRequests
      BY <1>18, <1>20, <2>1 DEF RevisePlayerBegin
    <2>3. PlayerRequest(preq[id].by, kind, p).status = "PENDING"
      BY DEF PlayerRequest
    <2>4. LocalOK([NoCall EXCEPT !.at = "revisePlayer", !.id = id,
                                 !.row = PlayerRequest(preq[id].by, kind, p)])
      BY <2>2, <2>3
         DEF NoCall, LocalOK, Locals, OnRequest, OnPlayerRequest, Kinds, OfOwnClub, TeamsOrNil
    <2> QED
      BY <1>20, <2>4, BeginType DEF RevisePlayerBegin
  <1> QED
    BY <1>1, <1>2, <1>3, <1>4, <1>5, <1>6, <1>7, <1>8, <1>10, <1>11, <1>13, <1>14, <1>15, <1>16,
       <1>17, <1>19, <1>20 DEF SquadsNext

LEMMA InitType == Init => TypeOK
  <1> SUFFICES ASSUME Init PROVE TypeOK
    OBVIOUS
  <1> USE NilIsNull
  <1>1. desk \in {"management", "squads"}
    BY ClubsAssumption DEF Init
  <1>2. squad \subseteq TeamRows
    BY DEF Init, Row, TeamRows
  <1>3. call \in [Clients -> Locals] /\ \A c \in Clients : LocalOK(call[c])
    BY NoCallType DEF Init, LocalOK
  <1>4. role \in [Managers -> {Nil} \cup Roles]
    BY DEF Init, Roles
  <1> QED
    BY <1>1, <1>2, <1>3, <1>4 DEF Init, TypeOK, TeamsOrNil

LEMMA StepType == TypeOK /\ [Next]_vars => TypeOK'
  <1> SUFFICES ASSUME TypeOK, [Next]_vars PROVE TypeOK'
    OBVIOUS
  <1>1. ASSUME NEW c \in Clients, Die(c) PROVE TypeOK'
    BY <1>1, ReplyType DEF Die, users, people, TypeOK
  <1>2. CASE UNCHANGED vars
    BY <1>2 DEF vars, users, people, TypeOK, LocalOK
  <1> QED
    BY <1>1, <1>2, ManagementType, SquadsType DEF Next

\* Every row has a value the schema allows, and every HTTP request is at one of
\* its awaits with the local variables that the code has there.
THEOREM TypeCorrect == Spec => []TypeOK
  BY InitType, StepType, PTL DEF Spec

-----------------------------------------------------------------------------
(* Foreign keys.                                                           *)

\* A step that reads and begins a call leaves every row alone.
LEMMA BeginFrame ==
  ASSUME NEW c, NEW d, NEW local, Begin(c, d, local)
  PROVE  UNCHANGED <<club, role, managed, req, preq, exists, squad, past, added>>
  BY DEF Begin, users, people

LEMMA ManagementReferential ==
  ASSUME TypeOK, Referential, ManagementNext
  PROVE  Referential'
  <1> USE NilIsNull
  <1>1. ASSUME NEW c, NEW d, NEW local, Begin(c, d, local) PROVE Referential'
    BY <1>1, BeginFrame DEF Referential
  <1>2. ASSUME NEW id \in RequestIds, NEW kind \in Kinds, NEW t \in TeamsOrNil,
               NEW s \in Statuses, NEW m \in Managers, CreateRequest(m, id, kind, t, s)
        PROVE  Referential'
    <2>1. t # Nil => club[t] # Nil
      <3>1. CASE kind \in OfOwnClub
        BY <1>2, <3>1 DEF CreateRequest, Referential, OfOwnClub
      <3>2. CASE kind = "CLAIM"
        BY <1>2, <3>2 DEF CreateRequest, Claimable, OfOwnClub
      <3>3. CASE kind = "CREATE"
        BY <1>2, <3>3 DEF CreateRequest, OfOwnClub
      <3> QED
        BY <3>1, <3>2, <3>3 DEF Kinds, OfOwnClub
    <2>2. Request(m, kind, t, s).team = t
      BY DEF Request
    <2> QED
      BY <1>2, <2>1, <2>2 DEF CreateRequest, Referential, TypeOK, users, people
  <1>3. ASSUME NEW c \in Clients, ReviseWrite(c) PROVE Referential'
    BY <1>3 DEF ReviseWrite, Referential, TypeOK, users, people
  <1>4. ASSUME NEW c \in Clients, DeleteWrite(c) PROVE Referential'
    BY <1>4 DEF DeleteWrite, Referential, TypeOK, people
  <1>5. ASSUME NEW c \in Clients, LeaveWrite(c) PROVE Referential'
    BY <1>5 DEF LeaveWrite, Referential, TypeOK, people
  <1>6. ASSUME NEW c \in Clients, RoleWrite(c) PROVE Referential'
    BY <1>6 DEF RoleWrite, Referential, TypeOK, people, users
  <1>7. ASSUME NEW c \in Clients, RejectWrite(c) PROVE Referential'
    BY <1>7 DEF RejectWrite, Deciding, Referential, TypeOK, people, users
  <1>8. ASSUME NEW c \in Clients, NEW step, Deciding(c, step), call[c].id \in RequestIds
        PROVE  req[call[c].id] \in Requests
    BY <1>8 DEF Deciding, TypeOK
  <1>9. ASSUME NEW c \in Clients, ClaimWrite(c) PROVE Referential'
    <2>1. call[c].id \in RequestIds
      BY <1>9 DEF ClaimWrite, Deciding, At, TypeOK, LocalOK, OnRequest, Kinds
    <2>2. /\ Approved(req[call[c].id]).team = req[call[c].id].team
          /\ req[call[c].id].team # Nil => club[req[call[c].id].team] # Nil
      BY <1>8, <1>9, <2>1, ApprovedType DEF ClaimWrite, Referential
    <2> QED
      BY <1>9, <2>1, <2>2 DEF ClaimWrite, Referential, TypeOK, people
  <1>10. ASSUME NEW c \in Clients, NEW t \in Teams, CreateWrite(c, t) PROVE Referential'
    <2>1. call[c].id \in RequestIds /\ call[c].row \in Requests
      BY <1>10 DEF CreateWrite, Deciding, At, TypeOK, LocalOK, OnRequest, Kinds
    <2>2. club' = [club EXCEPT ![t] = call[c].row.proposed] /\ call[c].row.proposed # Nil
      BY <1>10, <2>1 DEF CreateWrite, Requests, Statuses
    <2>3. [Approved(req[call[c].id]) EXCEPT !.team = t].team = t
      BY <1>8, <1>10, <2>1, ApprovedType DEF CreateWrite, Requests
    <2> QED
      BY <1>10, <2>1, <2>2, <2>3 DEF CreateWrite, Referential, TypeOK, people
  <1>11. ASSUME NEW c \in Clients, UpdateWrite(c) PROVE Referential'
    <2>1. call[c].id \in RequestIds /\ call[c].row \in Requests
      BY <1>11 DEF UpdateWrite, Deciding, At, TypeOK, LocalOK, OnRequest, Kinds
    <2>2. call[c].row.proposed # Nil
      BY <2>1 DEF Requests, Statuses
    <2>3. Approved(req[call[c].id]).team = req[call[c].id].team
      BY <1>8, <1>11, <2>1, ApprovedType DEF UpdateWrite
    <2>4. \A t \in Teams : club[t] # Nil => club'[t] # Nil
      BY <1>11, <2>2 DEF UpdateWrite, TypeOK
    <2>5. \A i \in RequestIds : req'[i] # Nil => req[i] # Nil /\ req'[i].team = req[i].team
      BY <1>11, <2>1, <2>3 DEF UpdateWrite, Deciding, TypeOK
    <2>6. \A i \in RequestIds : req[i] # Nil /\ req[i].team # Nil => req[i].team \in Teams
      BY DEF TypeOK, Requests, TeamsOrNil
    <2>7. \A m \in Managers : managed[m] # Nil => managed[m] \in Teams
      BY DEF TypeOK, TeamsOrNil
    <2>8. UNCHANGED <<managed, squad, exists>>
      BY <1>11 DEF UpdateWrite, users, people
    <2> QED
      BY <2>4, <2>5, <2>6, <2>7, <2>8 DEF Referential
  <1>12. ASSUME NEW f \in [Managers -> TeamsOrNil], NEW g \in [RequestIds -> Requests \cup {Nil}],
                NEW t \in Teams, ClubDeleted(t),
                managed' = WithoutClub(f, t), req' = RequestsWithoutClub(g, t),
                \A m \in Managers : f[m] \in {Nil, managed[m]},
                \A i \in RequestIds : g[i] # Nil => req[i] # Nil /\ g[i].team = req[i].team
         PROVE  Referential'
    <2>1. \A m \in Managers : managed'[m] # Nil => managed'[m] = managed[m] /\ managed[m] # t
      BY <1>12 DEF WithoutClub
    <2>2. \A i \in RequestIds : req'[i] # Nil /\ req'[i].team # Nil =>
            req[i] # Nil /\ req'[i].team = req[i].team /\ req[i].team # t
      BY <1>12 DEF RequestsWithoutClub, Requests
    <2>3. \A u : u # t /\ u \in Teams => club'[u] = club[u]
      BY <1>12 DEF ClubDeleted, TypeOK
    <2>4. \A i \in RequestIds : req[i] # Nil /\ req[i].team # Nil => req[i].team \in Teams
      BY DEF TypeOK, Requests, TeamsOrNil
    <2>5. \A m \in Managers : managed[m] # Nil => managed[m] \in Teams
      BY DEF TypeOK, TeamsOrNil
    <2>6. exists' = exists /\ squad' \subseteq squad
      BY <1>12 DEF ClubDeleted
    <2> QED
      BY <2>1, <2>2, <2>3, <2>4, <2>5, <2>6 DEF Referential
  <1>13. ASSUME NEW c \in Clients, DeleteClubWrite(c) PROVE Referential'
    <2>1. call[c].id \in RequestIds /\ call[c].row.team \in Teams
      BY <1>13 DEF DeleteClubWrite, Deciding, At, TypeOK, LocalOK, OnRequest, Kinds, OfOwnClub
    <2>2. req[call[c].id] \in Requests
      BY <1>8, <1>13, <2>1 DEF DeleteClubWrite
    <2>3. /\ [req EXCEPT ![call[c].id] = Approved(@)] \in [RequestIds -> Requests \cup {Nil}]
          /\ [managed EXCEPT ![call[c].row.by] = Nil] \in [Managers -> TeamsOrNil]
      BY <2>2, ApprovedType DEF TypeOK, TeamsOrNil
    <2>4. \A i \in RequestIds :
            LET g == [req EXCEPT ![call[c].id] = Approved(@)]
            IN  g[i] # Nil => req[i] # Nil /\ g[i].team = req[i].team
      BY <2>1, <2>2, ApprovedType DEF TypeOK
    <2>5. \A m \in Managers : [managed EXCEPT ![call[c].row.by] = Nil][m] \in {Nil, managed[m]}
      BY DEF TypeOK
    <2> QED
      BY <1>12, <1>13, <2>1, <2>3, <2>4, <2>5 DEF DeleteClubWrite
  <1>14. ASSUME NEW t \in Teams, DeleteTeam(t) PROVE Referential'
    <2>1. managed \in [Managers -> TeamsOrNil] /\ req \in [RequestIds -> Requests \cup {Nil}]
      BY DEF TypeOK
    <2> QED
      BY <1>12, <1>14, <2>1 DEF DeleteTeam
  <1>15. ASSUME NEW t \in Teams, NEW m \in Managers \cup {Nil}, CreateTeam(t, m)
         PROVE  Referential'
    BY <1>15 DEF CreateTeam, Referential, TypeOK, people
  <1>16. ASSUME NEW t \in Teams, NEW m \in Managers \cup {Nil}, Assign(t, m) PROVE Referential'
    BY <1>16 DEF Assign, Referential, TypeOK, people
  <1>17. ASSUME NEW m \in Managers, DeleteUser(m) PROVE Referential'
    BY <1>17 DEF DeleteUser, Referential, TypeOK, people
  <1>18. ASSUME NEW m \in Managers, NEW t \in TeamsOrNil, CreateUser(m, t) PROVE Referential'
    BY <1>18 DEF CreateUser, Referential, TypeOK, people
  <1> QED
    BY <1>1, <1>2, <1>3, <1>4, <1>5, <1>6, <1>7, <1>9, <1>10, <1>11, <1>13, <1>14, <1>15, <1>16,
       <1>17, <1>18 DEF ManagementNext, ReviseBegin, DeleteBegin, ReviewBegin, LeaveBegin, RoleBegin

\* What a step on squads leaves alone.
LEMMA SquadsFrame ==
  ASSUME SquadsNext
  PROVE  UNCHANGED <<club, role, managed, req>>
  <1> DEFINE Frame == UNCHANGED <<club, role, managed, req>>
  <1>1. ASSUME NEW c, NEW d, NEW local, Begin(c, d, local) PROVE Frame
    BY <1>1, BeginFrame
  <1>2. ASSUME NEW c \in Clients,
               AddWrite(c) \/ MoveClose(c) \/ RevisePlayerWrite(c) \/ RejectPlayerWrite(c)
                 \/ ApproveUpdate(c) \/ ApproveRemove(c)
        PROVE  Frame
    BY <1>2 DEF AddWrite, MoveClose, RevisePlayerWrite, RejectPlayerWrite, ApproveUpdate,
                ApproveRemove, users
  <1>3. ASSUME NEW c \in Clients, NEW p \in Players,
               CreatePlayerWrite(c, p) \/ ApproveAdd(c, p)
        PROVE  Frame
    BY <1>3 DEF CreatePlayerWrite, ApproveAdd, users
  <1>4. ASSUME NEW p \in Players,
               DeletePlayer(p) \/ \E t \in Teams : RosterRemove(p, t)
        PROVE  Frame
    BY <1>4 DEF DeletePlayer, RosterRemove, users
  <1>5. ASSUME NEW id, DeletePlayerRequest(id) PROVE Frame
    BY <1>5 DEF DeletePlayerRequest, users
  <1>6. ASSUME NEW m, NEW id, NEW kind, NEW p, CreatePlayerRequest(m, id, kind, p) PROVE Frame
    BY <1>6 DEF CreatePlayerRequest, users
  <1> HIDE DEF Frame
  <1>7. Frame
    BY <1>1, <1>2, <1>3, <1>4, <1>5, <1>6
       DEF SquadsNext, AddBegin, MoveBegin, CreatePlayerBegin, ReviewPlayerBegin, RevisePlayerBegin
  <1> QED
    BY <1>7 DEF Frame

LEMMA SquadsReferential ==
  ASSUME TypeOK, Referential, SquadsNext
  PROVE  Referential'
  <1>1. \A r \in squad' : r.player \in exists'
    <2>1. ASSUME NEW c, NEW d, NEW local, Begin(c, d, local)
          PROVE  squad' = squad /\ exists' = exists
      BY <2>1, BeginFrame
    <2>2. ASSUME NEW c \in Clients, NEW p \in Players, CreatePlayerWrite(c, p)
          PROVE  squad' = squad /\ exists \subseteq exists'
      BY <2>2 DEF CreatePlayerWrite
    <2>3. ASSUME NEW c \in Clients, NEW p \in Players, ApproveAdd(c, p)
          PROVE  \A r \in squad' : r.player \in exists'
      BY <2>3 DEF ApproveAdd, Join, Row, Referential
    <2>4. ASSUME NEW c \in Clients, AddWrite(c) PROVE \A r \in squad' : r.player \in exists'
      BY <2>4 DEF AddWrite, Join, Row, Referential
    <2>5. ASSUME NEW c \in Clients, MoveClose(c) PROVE squad' \subseteq squad /\ exists' = exists
      BY <2>5 DEF MoveClose
    <2>6. ASSUME NEW c \in Clients,
                 RevisePlayerWrite(c) \/ RejectPlayerWrite(c) \/ ApproveUpdate(c)
          PROVE  squad' = squad /\ exists' = exists
      BY <2>6 DEF RevisePlayerWrite, RejectPlayerWrite, ApproveUpdate, people
    <2>7. ASSUME NEW c \in Clients, ApproveRemove(c) PROVE \A r \in squad' : r.player \in exists'
      BY <2>7 DEF ApproveRemove, PlayerDeleted, Referential
    <2>8. ASSUME NEW p \in Players, DeletePlayer(p) PROVE \A r \in squad' : r.player \in exists'
      BY <2>8 DEF DeletePlayer, PlayerDeleted, Referential
    <2>9. ASSUME NEW p \in Players, NEW t \in Teams, RosterRemove(p, t)
          PROVE  squad' \subseteq squad /\ exists' = exists
      BY <2>9 DEF RosterRemove, Closed
    <2>10. ASSUME NEW id \in RequestIds, DeletePlayerRequest(id)
           PROVE  squad' = squad /\ exists' = exists
      BY <2>10 DEF DeletePlayerRequest, people
    <2>11. ASSUME NEW m \in Managers, NEW id \in RequestIds, NEW kind, NEW p,
                  CreatePlayerRequest(m, id, kind, p)
           PROVE  squad' = squad /\ exists' = exists
      BY <2>11 DEF CreatePlayerRequest, people
    <2>12. squad' \subseteq squad /\ exists \subseteq exists'
              => \A r \in squad' : r.player \in exists'
      BY DEF Referential
    <2> QED
      BY <2>1, <2>2, <2>3, <2>4, <2>5, <2>6, <2>7, <2>8, <2>9, <2>10, <2>11, <2>12
         DEF SquadsNext, AddBegin, MoveBegin, CreatePlayerBegin, ReviewPlayerBegin,
             RevisePlayerBegin
  <1> QED
    BY <1>1, SquadsFrame DEF Referential

-----------------------------------------------------------------------------
(* Requests one by one.                                                    *)

\* While nobody has begun beside another, a new request finds nobody busy.
LEMMA CountsAlone ==
  ASSUME TypeOK, NEW d, Counts(d), ~overlap'
  PROVE  ~overlap /\ \A c \in Clients : call[c].at = "none"
  BY DEF Counts, Busy, TypeOK

\* Nobody is busy, and nothing that was read matters.
LEMMA NobodyReads ==
  ASSUME \A c \in Clients : call'[c].at = "none", Rows'
  PROVE  Alone'
  BY DEF Alone, Busy, ManagementReads, SquadReads, RequestReads, At

LEMMA ReplyAlone ==
  ASSUME TypeOK, Alone, NEW c \in Clients, Busy(c), Reply(c), Rows'
  PROVE  Alone'
  <1>1. \A d \in Clients : call'[d].at = "none"
    BY DEF Alone, Busy, Reply, NoCall, TypeOK
  <1> QED
    BY <1>1, NobodyReads

LEMMA AtOnceAlone ==
  ASSUME TypeOK, NEW d, AtOnce(d), ~overlap', Rows'
  PROVE  Alone'
  <1>1. \A c \in Clients : call'[c].at = "none"
    BY CountsAlone DEF AtOnce
  <1> QED
    BY <1>1, NobodyReads

\* c is the only one busy.
LEMMA OneReads ==
  ASSUME NEW c \in Clients, \A e \in Clients : e # c => call'[e].at = "none", Rows',
         ManagementReads(c)', SquadReads(c)', RequestReads(c)'
  PROVE  Alone'
  BY DEF Alone, Busy, ManagementReads, SquadReads, RequestReads, At

LEMMA BeginAlone ==
  ASSUME TypeOK, Alone, NEW c \in Clients, NEW d, NEW local, Begin(c, d, local), ~overlap',
         ManagementReads(c)', SquadReads(c)', RequestReads(c)'
  PROVE  Alone'
  <1>1. \A e \in Clients : e # c => call'[e].at = "none"
    BY CountsAlone DEF Begin, TypeOK
  <1>2. Rows'
    BY BeginFrame DEF Alone, Rows, OneRow, WithinLimit, AddedOnce, Counted, Squad
  <1> QED
    BY <1>1, <1>2, OneReads

\* The sizes of squads.
LEMMA SquadIsFinite ==
  ASSUME TypeOK, NEW t, NEW S \in SUBSET Squad(t)
  PROVE  /\ IsFiniteSet(S) /\ Cardinality(S) \in Nat
         /\ Cardinality(S) <= Cardinality(Squad(t)) /\ Cardinality(Squad(t)) \in Nat
  <1>1. Squad(t) \subseteq Players
    BY DEF Squad, TypeOK, TeamRows
  <1>2. IsFiniteSet(Squad(t))
    BY <1>1, ClubsAssumption, FS_Subset
  <1> QED
    BY <1>2, FS_Subset, FS_CardinalityType

LEMMA CountedIsFinite ==
  ASSUME TypeOK, NEW t
  PROVE  /\ IsFiniteSet(Counted(t)) /\ Cardinality(Counted(t)) \in Nat
         /\ Cardinality(Counted(t)) <= Cardinality(Squad(t))
         /\ \A S \in SUBSET Counted(t) :
              IsFiniteSet(S) /\ Cardinality(S) \in Nat /\ Cardinality(S) <= Cardinality(Counted(t))
  <1>1. Counted(t) \subseteq Squad(t)
    BY DEF Counted
  <1>2. IsFiniteSet(Counted(t)) /\ Cardinality(Counted(t)) \in Nat
           /\ Cardinality(Counted(t)) <= Cardinality(Squad(t))
    BY <1>1, SquadIsFinite
  <1> QED
    BY <1>2, FS_Subset, FS_CardinalityType

\* Squads that lose rows keep their limit, and make no room less.
LEMMA RowsShrink ==
  ASSUME TypeOK, Rows, squad' \subseteq squad, added' = added,
         \A p \in Players, i \in RequestIds :
           preq'[i] # Nil /\ added[p] = i => preq'[i].status = "APPROVED"
  PROVE  Rows'
  <1>1. OneRow'
    BY DEF Rows, OneRow
  <1>2. ASSUME NEW t \in Teams PROVE Cardinality(Counted(t)') <= MaxRoster
    <2>1. Counted(t)' \in SUBSET Counted(t)
      BY DEF Counted, Squad
    <2>2. Cardinality(Counted(t)) <= MaxRoster
      BY DEF Rows, WithinLimit
    <2> QED
      BY <2>1, <2>2, CountedIsFinite, ClubsAssumption
  <1>3. WithinLimit'
    BY <1>2 DEF WithinLimit
  <1>4. AddedOnce'
    BY DEF Rows, AddedOnce
  <1> QED
    BY <1>1, <1>3, <1>4 DEF Rows

LEMMA RowsKept ==
  ASSUME TypeOK, Rows, squad' \subseteq squad, added' = added,
         \A i \in RequestIds : preq'[i] # Nil => preq'[i] = preq[i]
  PROVE  Rows'
  BY RowsShrink DEF Rows, AddedOnce

\* No step takes back that two requests have overlapped.
LEMMA NotYetOverlapped ==
  ASSUME TypeOK, ManagementNext \/ SquadsNext, ~overlap'
  PROVE  ~overlap
  <1> DEFINE Kept == overlap' = overlap \/ \E d : Counts(d)
  <1>1. ASSUME NEW c, NEW d, NEW local, Begin(c, d, local) PROVE Kept
    BY <1>1 DEF Begin
  <1>2. ASSUME NEW d, AtOnce(d) PROVE Kept
    BY <1>2 DEF AtOnce
  <1>3. ASSUME NEW c, Reply(c) PROVE Kept
    BY <1>3 DEF Reply
  <1>4. ASSUME NEW c, NEW p, CreatePlayerWrite(c, p) \/ MoveClose(c) PROVE Kept
    BY <1>3, <1>4 DEF CreatePlayerWrite, MoveClose, Goto
  <1> HIDE DEF Kept
  <1>5. ASSUME ManagementNext PROVE Kept
    <2>1. ASSUME NEW c \in Clients,
                 ReviseWrite(c) \/ DeleteWrite(c) \/ LeaveWrite(c) \/ RoleWrite(c)
                   \/ RejectWrite(c) \/ ClaimWrite(c) \/ UpdateWrite(c) \/ DeleteClubWrite(c)
                   \/ \E t \in Teams : CreateWrite(c, t)
          PROVE  Kept
      BY <1>3, <2>1
         DEF ReviseWrite, DeleteWrite, LeaveWrite, RoleWrite, RejectWrite, ClaimWrite, UpdateWrite,
             DeleteClubWrite, CreateWrite, Deciding
    <2>2. ASSUME NEW t, NEW m, CreateTeam(t, m) \/ Assign(t, m) \/ DeleteTeam(t)
                                 \/ CreateUser(m, t) \/ DeleteUser(m)
          PROVE  Kept
      BY <1>2, <2>2 DEF CreateTeam, Assign, DeleteTeam, DeleteUser, CreateUser
    <2>3. ASSUME NEW m, NEW id, NEW kind, NEW t, NEW s, CreateRequest(m, id, kind, t, s)
          PROVE  Kept
      BY <1>2, <2>3 DEF CreateRequest
    <2>4. ASSUME NEW c, NEW id, NEW kind, NEW t, NEW s, ReviseBegin(c, id, kind, t, s)
          PROVE  Kept
      BY <1>1, <2>4 DEF ReviseBegin
    <2>5. ASSUME NEW c, NEW id, NEW m, NEW ok,
                 DeleteBegin(c, id) \/ ReviewBegin(c, id, ok) \/ LeaveBegin(c, m)
                   \/ RoleBegin(c, m, ok)
          PROVE  Kept
      BY <1>1, <2>5 DEF DeleteBegin, ReviewBegin, LeaveBegin, RoleBegin
    <2> QED
      BY <1>5, <2>1, <2>2, <2>3, <2>4, <2>5 DEF ManagementNext
  <1>6. SquadsNext => Kept
    BY <1>1, <1>2, <1>3, <1>4
       DEF SquadsNext, AddBegin, MoveBegin, ApproveAdd, CreatePlayerBegin, AddWrite,
           RevisePlayerWrite, RejectPlayerWrite, ApproveUpdate, ApproveRemove, ReviewPlayerBegin,
           DeletePlayer, RosterRemove, DeletePlayerRequest, CreatePlayerRequest,
           RevisePlayerBegin, DecidingPlayer
  <1> QED
    BY <1>5, <1>6, CountsAlone DEF Kept

\* A club that is deleted takes its rows along.
LEMMA ClubDeletedRows ==
  ASSUME TypeOK, Rows, NEW t, ClubDeleted(t)
  PROVE  Rows'
  BY RowsKept DEF ClubDeleted, TypeOK

LEMMA PeopleRows ==
  ASSUME TypeOK, Rows, UNCHANGED people, UNCHANGED <<preq, added>>
  PROVE  Rows'
  BY RowsKept DEF people

LEMMA ManagementAlone ==
  ASSUME TypeOK, Alone, ManagementNext, ~overlap'
  PROVE  Alone'
  <1> USE NilIsNull
  <1>0. Rows
    BY DEF Alone
  <1>1. ASSUME NEW c \in Clients, NEW d, NEW local, Begin(c, d, local),
               local.at \in OnRequest \ {"CLAIM"} \/ local.at = "leave"
        PROVE  Alone'
    <2>1. call'[c] = local
      BY <1>1 DEF Begin, TypeOK
    <2>2. ManagementReads(c)' /\ SquadReads(c)' /\ RequestReads(c)'
      BY <1>1, <2>1 DEF ManagementReads, SquadReads, RequestReads, At, OnRequest, Kinds
    <2> QED
      BY <1>1, <2>2, BeginAlone
  <1>2. ASSUME NEW id \in RequestIds, NEW kind \in Kinds, NEW t \in TeamsOrNil,
               NEW s \in Statuses, NEW m \in Managers, CreateRequest(m, id, kind, t, s)
        PROVE  Alone'
    BY <1>0, <1>2, PeopleRows, AtOnceAlone DEF CreateRequest
  <1>3. ASSUME NEW id \in RequestIds, NEW kind \in Kinds, NEW t \in TeamsOrNil,
               NEW s \in Statuses, NEW c \in Clients, ReviseBegin(c, id, kind, t, s)
        PROVE  Alone'
    BY <1>1, <1>3 DEF ReviseBegin, NoCall, OnRequest
  <1>4. ASSUME NEW c \in Clients, NEW id \in RequestIds, DeleteBegin(c, id)
        PROVE  Alone'
    BY <1>1, <1>4 DEF DeleteBegin, NoCall, OnRequest
  <1>5. ASSUME NEW c \in Clients, NEW id \in RequestIds, NEW ok \in BOOLEAN,
               ReviewBegin(c, id, ok)
        PROVE  Alone'
    <2> DEFINE local == [NoCall EXCEPT !.at = IF ok THEN req[id].kind ELSE "reject",
                                       !.id = id, !.row = req[id], !.ok = ok]
    <2>1. Begin(c, "management", local)
      BY <1>5 DEF ReviewBegin
    <2>2. req[id] \in Requests /\ req[id].kind \in Kinds
      BY <1>5 DEF ReviewBegin, Pending, TypeOK, Requests
    <2>3. local.at \in OnRequest /\ local.id = id /\ local.row = req[id]
      BY <2>2 DEF NoCall, OnRequest
    <2>4. CASE local.at # "CLAIM"
      BY <1>1, <2>1, <2>3, <2>4
    <2>5. CASE local.at = "CLAIM"
      <3>1. ok /\ req[id].kind = "CLAIM"
        BY <2>5 DEF NoCall
      <3>2. ManagersOf(req[id].team) = {}
        BY <1>5, <3>1 DEF ReviewBegin, Claimable, OfOwnClub
      <3>3. call'[c] = local /\ UNCHANGED <<role, managed, req>>
        BY <2>1 DEF Begin, users, TypeOK
      <3>4. ManagementReads(c)'
        BY <2>3, <2>5, <3>2, <3>3 DEF ManagementReads, At, ManagersOf, IsManager
      <3>5. SquadReads(c)' /\ RequestReads(c)'
        BY <2>5, <3>3 DEF SquadReads, RequestReads, At
      <3> QED
        BY <1>5, <2>1, <3>4, <3>5, BeginAlone
    <2> QED
      BY <2>4, <2>5
  <1>6. ASSUME NEW c \in Clients, NEW m \in Managers, LeaveBegin(c, m)
        PROVE  Alone'
    BY <1>1, <1>6 DEF LeaveBegin, NoCall
  <1>7. ASSUME NEW c \in Clients, NEW m \in Managers, NEW r \in Roles, RoleBegin(c, m, r)
        PROVE  Alone'
    <2> DEFINE local == [NoCall EXCEPT !.at = "role", !.user = m, !.team = managed[m],
                                       !.ok = (r = "TEAM_MANAGER")]
    <2>1. Begin(c, "management", local)
      BY <1>7 DEF RoleBegin
    <2>2. local.at = "role" /\ local.user = m /\ local.team = managed[m]
      BY DEF NoCall
    <2>3. call'[c] = local /\ UNCHANGED managed
      BY <2>1 DEF Begin, users, TypeOK
    <2>4. ManagementReads(c)' /\ SquadReads(c)' /\ RequestReads(c)'
      BY <2>2, <2>3 DEF ManagementReads, SquadReads, RequestReads, At
    <2> QED
      BY <2>1, <2>4, BeginAlone
  <1>8. ASSUME NEW c \in Clients, Busy(c), Reply(c),
               UNCHANGED people, UNCHANGED <<preq, added>>
        PROVE  Alone'
    BY <1>0, <1>8, PeopleRows, ReplyAlone
  <1>9. ASSUME NEW c \in Clients,
               ReviseWrite(c) \/ DeleteWrite(c) \/ LeaveWrite(c) \/ RoleWrite(c)
        PROVE  Busy(c) /\ Reply(c) /\ UNCHANGED people /\ UNCHANGED <<preq, added>>
    BY <1>9 DEF ReviseWrite, DeleteWrite, LeaveWrite, RoleWrite, Busy, At
  <1>10. ASSUME NEW c \in Clients,
                RejectWrite(c) \/ ClaimWrite(c) \/ UpdateWrite(c)
                  \/ \E t \in Teams : CreateWrite(c, t)
         PROVE  Busy(c) /\ Reply(c) /\ UNCHANGED people /\ UNCHANGED <<preq, added>>
    BY <1>10 DEF RejectWrite, ClaimWrite, UpdateWrite, CreateWrite, Deciding, Busy, At
  <1>11. ASSUME NEW c \in Clients, DeleteClubWrite(c)
         PROVE  Alone'
    <2>1. Busy(c) /\ Reply(c) /\ ClubDeleted(call[c].row.team)
      BY <1>11 DEF DeleteClubWrite, Deciding, Busy, At
    <2> QED
      BY <1>0, <2>1, ClubDeletedRows, ReplyAlone
  <1>12. ASSUME NEW t \in Teams, DeleteTeam(t) PROVE Alone'
    BY <1>0, <1>12, ClubDeletedRows, AtOnceAlone DEF DeleteTeam
  <1>13. ASSUME NEW t \in Teams, NEW m \in Managers \cup {Nil}, CreateTeam(t, m) \/ Assign(t, m)
         PROVE  Alone'
    BY <1>0, <1>13, PeopleRows, AtOnceAlone DEF CreateTeam, Assign
  <1>14. ASSUME NEW m \in Managers, NEW t \in TeamsOrNil, CreateUser(m, t)
         PROVE  Alone'
    BY <1>0, <1>14, PeopleRows, AtOnceAlone DEF CreateUser
  <1>15. ASSUME NEW m \in Managers, DeleteUser(m) PROVE Alone'
    <2>1. Rows'
      BY <1>0, <1>15, RowsKept DEF DeleteUser, people, TypeOK
    <2> QED
      BY <1>15, <2>1, AtOnceAlone DEF DeleteUser
  <1> QED
    BY <1>2, <1>3, <1>4, <1>5, <1>6, <1>7, <1>8, <1>9, <1>10, <1>11, <1>12, <1>13, <1>14, <1>15
       DEF ManagementNext

\* A move, an addition and a new player leave their caller busy.
LEMMA SquadsAlone ==
  ASSUME TypeOK, Referential, Alone, SquadsNext, ~overlap'
  PROVE  Alone'
  <1> USE NilIsNull
  <1>0. Rows
    BY DEF Alone
  <1>1. ASSUME NEW t \in Teams
        PROVE  /\ Cardinality(Counted(t)) \in Nat /\ Cardinality(Counted(t)) <= MaxRoster
               /\ \A S \in SUBSET Counted(t) : IsFiniteSet(S) /\ Cardinality(S) \in Nat
                                               /\ Cardinality(S) <= Cardinality(Counted(t))
    BY <1>0, CountedIsFinite DEF Rows, WithinLimit
  <1>2. ASSUME NEW c \in Clients, NEW d, NEW local, Begin(c, d, local)
        PROVE  /\ call'[c] = local /\ ~overlap
               /\ UNCHANGED <<club, role, managed, req, preq, exists, squad, past, added>>
    <2>1. Begin(c, d, local) => call'[c] = local /\ Counts(d)
      BY DEF Begin, TypeOK
    <2> QED
      BY <1>2, <2>1, BeginFrame, CountsAlone
  <1>3. ASSUME NEW c \in Clients, Busy(c), Reply(c), Rows' PROVE Alone'
    BY <1>3, ReplyAlone

  <1>4. ASSUME NEW c \in Clients, NEW p \in Players, NEW t \in Teams, AddBegin(c, p, t)
        PROVE  Alone'
    <2>1. PICK local : local = [NoCall EXCEPT !.at = "add", !.player = p, !.team = t]
      OBVIOUS
    <2>2. Begin(c, "squads", local) /\ local.at = "add" /\ local.player = p /\ local.team = t
      BY <1>4, <2>1 DEF AddBegin, NoCall
    <2>3. /\ call'[c] = local
          /\ UNCHANGED <<squad, added>>
      BY <1>2, <2>2
    <2>4. \A r \in squad : r.player # p
      BY <1>4 DEF AddBegin, ClubsOf
    <2>5. Cardinality(Counted(t) \ {p}) < MaxRoster
      <3>1. Counted(t) \ {p} \in SUBSET Squad(t)
        BY DEF Counted
      <3> QED
        BY <1>4, <3>1, SquadIsFinite, ClubsAssumption DEF AddBegin
    <2>6. HasRoom(p, t)'
      BY <2>3, <2>5 DEF HasRoom, Counted, Squad
    <2>7. SquadReads(c)'
      BY <2>2, <2>3, <2>4, <2>6 DEF SquadReads, At
    <2>8. ManagementReads(c)' /\ RequestReads(c)'
      BY <2>2, <2>3 DEF ManagementReads, RequestReads, At
    <2> QED
      BY <2>2, <2>7, <2>8, BeginAlone

  <1>5. ASSUME NEW c \in Clients, NEW p \in Players, NEW t \in TeamsOrNil, MoveBegin(c, p, t)
        PROVE  Alone'
    <2>1. PICK local : local = [NoCall EXCEPT !.at = "close", !.player = p, !.team = t]
      OBVIOUS
    <2>2. Begin(c, "squads", local) /\ local.at = "close" /\ local.player = p /\ local.team = t
      BY <1>5, <2>1 DEF MoveBegin, NoCall
    <2>3. /\ call'[c] = local
          /\ UNCHANGED <<squad, added>>
      BY <1>2, <2>2
    <2>4. ASSUME t # Nil, added[p] = Nil
          PROVE  Cardinality(Counted(t) \ {p}) < MaxRoster
      <3>1. t \in Teams
        BY <2>4 DEF TeamsOrNil
      <3>2. CASE t \in ClubsOf(p)
        <4>1. p \in Counted(t)
          BY <2>4, <3>2 DEF ClubsOf, Squad, Counted
        <4>2. Cardinality(Counted(t) \ {p}) = Cardinality(Counted(t)) - 1
          BY <4>1, CountedIsFinite, FS_RemoveElement
        <4> QED
          BY <1>1, <3>1, <4>2, ClubsAssumption
      <3>3. CASE RosterFits(t, p)
        <4>1. Counted(t) \ {p} \in SUBSET (Squad(t) \ {p})
          BY DEF Counted
        <4>2. Squad(t) \ {p} \in SUBSET Squad(t)
          OBVIOUS
        <4>3. IsFiniteSet(Squad(t) \ {p}) /\ Cardinality(Squad(t) \ {p}) \in Nat
          BY <4>2, SquadIsFinite
        <4>4. /\ Cardinality(Counted(t) \ {p}) <= Cardinality(Squad(t) \ {p})
              /\ Cardinality(Counted(t) \ {p}) \in Nat
          BY <4>1, <4>3, FS_Subset, FS_CardinalityType
        <4> QED
          BY <3>3, <4>3, <4>4, ClubsAssumption DEF RosterFits
      <3> QED
        BY <1>5, <2>4, <3>2, <3>3 DEF MoveBegin
    <2>5. t # Nil => HasRoom(p, t)'
      BY <2>3, <2>4 DEF HasRoom, Counted, Squad
    <2>6. SquadReads(c)'
      BY <2>2, <2>3, <2>5 DEF SquadReads, At
    <2>7. ManagementReads(c)' /\ RequestReads(c)'
      BY <2>2, <2>3 DEF ManagementReads, RequestReads, At
    <2> QED
      BY <2>2, <2>6, <2>7, BeginAlone

  <1>6. ASSUME NEW c \in Clients, NEW t \in TeamsOrNil, CreatePlayerBegin(c, t)
        PROVE  Alone'
    <2>1. PICK local : local = [NoCall EXCEPT !.at = "player", !.team = t]
      OBVIOUS
    <2>2. Begin(c, "squads", local) /\ local.at = "player" /\ local.team = t
      BY <1>6, <2>1 DEF CreatePlayerBegin, NoCall
    <2>3. /\ call'[c] = local
          /\ UNCHANGED <<squad, added>>
      BY <1>2, <2>2
    <2>4. ASSUME t # Nil PROVE Cardinality(Counted(t)) < MaxRoster
      <3>1. Squad(t) \ {Nil} = Squad(t)
        BY DEF Squad, TypeOK, TeamRows
      <3>2. Cardinality(Squad(t)) < MaxRoster
        BY <1>6, <2>4, <3>1 DEF CreatePlayerBegin, RosterFits
      <3>3. Squad(t) \in SUBSET Squad(t)
        OBVIOUS
      <3> QED
        BY <3>2, <3>3, SquadIsFinite, CountedIsFinite, ClubsAssumption
    <2>5. t # Nil => Cardinality(Counted(t)') < MaxRoster
      BY <2>3, <2>4 DEF Counted, Squad
    <2>6. SquadReads(c)'
      BY <2>2, <2>3, <2>5 DEF SquadReads, At
    <2>7. ManagementReads(c)' /\ RequestReads(c)'
      BY <2>2, <2>3 DEF ManagementReads, RequestReads, At
    <2> QED
      BY <2>2, <2>6, <2>7, BeginAlone

  <1>7. ASSUME NEW c \in Clients, NEW p \in Players, CreatePlayerWrite(c, p)
        PROVE  Alone'
    <2>1. squad' = squad /\ preq' = preq /\ added' = [added EXCEPT ![p] = Nil]
      BY <1>7 DEF CreatePlayerWrite
    <2>2. \A r \in squad : r.player # p
      BY <1>7 DEF CreatePlayerWrite, Referential
    <2>3. \A t \in Teams : Counted(t)' = Counted(t) /\ p \notin Counted(t)
      BY <2>1, <2>2 DEF Counted, Squad, TypeOK, TeamRows
    <2>4. Rows'
      BY <1>0, <2>1, <2>3 DEF Rows, OneRow, WithinLimit, AddedOnce, TypeOK
    <2>5. CASE call[c].team = Nil
      <3>1. Busy(c) /\ Reply(c)
        BY <1>7, <2>5 DEF CreatePlayerWrite, Busy, At
      <3> QED
        BY <1>3, <2>4, <3>1
    <2>6. CASE call[c].team # Nil
      <3>1. PICK t : t = call[c].team
        OBVIOUS
      <3>2. t \in Teams
        BY <2>6, <3>1 DEF TypeOK, Locals, TeamsOrNil
      <3>3. Cardinality(Counted(t)) < MaxRoster
        BY <1>7, <2>6, <3>1 DEF CreatePlayerWrite, Alone, SquadReads, At
      <3>4. call' = [call EXCEPT ![c] = [call[c] EXCEPT !.at = "add", !.player = p]]
        BY <1>7, <2>6 DEF CreatePlayerWrite, TypeOK
      <3>5. call'[c].at = "add" /\ call'[c].player = p /\ call'[c].team = t
        BY <3>1, <3>4 DEF TypeOK, Locals
      <3>6. Counted(t)' \ {p} = Counted(t)
        BY <2>3, <3>2
      <3>7. HasRoom(p, t)'
        BY <3>3, <3>6 DEF HasRoom
      <3>8. SquadReads(c)'
        BY <2>1, <2>2, <3>5, <3>7 DEF SquadReads, At
      <3>9. ManagementReads(c)' /\ RequestReads(c)'
        BY <3>5 DEF ManagementReads, RequestReads, At
      <3>10. \A e \in Clients : e # c => call'[e].at = "none"
        BY <1>7, <3>4 DEF CreatePlayerWrite, Alone, Busy, At, TypeOK
      <3> QED
        BY <2>4, <3>8, <3>9, <3>10, OneReads
    <2> QED
      BY <2>5, <2>6

  <1>8. ASSUME NEW c \in Clients, MoveClose(c) PROVE Alone'
    <2>1. squad' = {r \in squad : r.player # call[c].player} /\ UNCHANGED <<preq, added>>
      BY <1>8 DEF MoveClose
    <2>2. Rows'
      BY <1>0, <2>1, RowsKept
    <2>3. CASE call[c].team = Nil
      <3>1. Busy(c) /\ Reply(c)
        BY <1>8, <2>3 DEF MoveClose, Busy, At
      <3> QED
        BY <1>3, <2>2, <3>1
    <2>4. CASE call[c].team # Nil
      <3>1. PICK t, p : t = call[c].team /\ p = call[c].player
        OBVIOUS
      <3>2. t \in Teams
        BY <2>4, <3>1 DEF TypeOK, Locals, TeamsOrNil
      <3>3. HasRoom(p, t)
        BY <1>8, <2>4, <3>1 DEF MoveClose, Alone, SquadReads, At
      <3>4. call' = [call EXCEPT ![c] = [call[c] EXCEPT !.at = "add"]]
        BY <1>8, <2>4 DEF MoveClose, Goto, TypeOK
      <3>5. call'[c].at = "add" /\ call'[c].player = p /\ call'[c].team = t
        BY <3>1, <3>4 DEF TypeOK, Locals
      <3>6. HasRoom(p, t)'
        <4>1. CASE added[p] # Nil
          BY <2>1, <4>1 DEF HasRoom
        <4>2. CASE Cardinality(Counted(t) \ {p}) < MaxRoster
          <5>1. /\ Counted(t)' \ {p} \in SUBSET (Counted(t) \ {p})
                /\ Counted(t) \ {p} \in SUBSET Counted(t)
            BY <2>1 DEF Counted, Squad
          <5>2. IsFiniteSet(Counted(t) \ {p}) /\ Cardinality(Counted(t) \ {p}) \in Nat
            BY <5>1, CountedIsFinite
          <5>3. /\ Cardinality(Counted(t)' \ {p}) <= Cardinality(Counted(t) \ {p})
                /\ Cardinality(Counted(t)' \ {p}) \in Nat
            BY <5>1, <5>2, FS_Subset, FS_CardinalityType
          <5>4. Cardinality(Counted(t)' \ {p}) < MaxRoster
            BY <4>2, <5>2, <5>3, ClubsAssumption
          <5> QED
            BY <5>4 DEF HasRoom
        <4> QED
          BY <3>3, <4>1, <4>2 DEF HasRoom
      <3>7. SquadReads(c)'
        BY <2>1, <3>1, <3>5, <3>6 DEF SquadReads, At
      <3>8. ManagementReads(c)' /\ RequestReads(c)'
        BY <3>5 DEF ManagementReads, RequestReads, At
      <3>9. \A e \in Clients : e # c => call'[e].at = "none"
        BY <1>8, <3>4 DEF MoveClose, Alone, Busy, At, TypeOK
      <3> QED
        BY <2>2, <3>7, <3>8, <3>9, OneReads
    <2> QED
      BY <2>3, <2>4

  <1>9. ASSUME NEW c \in Clients, AddWrite(c) PROVE Alone'
    <2>1. Busy(c) /\ Reply(c) /\ UNCHANGED <<preq, added>>
      BY <1>9 DEF AddWrite, Busy, At
    <2>2. CASE squad' = squad
      BY <1>0, <1>3, <2>1, <2>2, RowsKept
    <2>3. CASE Join(call[c].player, call[c].team)
      <3>1. PICK t, p : t = call[c].team /\ p = call[c].player
        OBVIOUS
      <3>2. t \in Teams /\ p \in Players
        BY <1>9, <3>1 DEF AddWrite, At, TypeOK, LocalOK
      <3>3. squad' = squad \cup {Row(p, t)} /\ (\A r \in squad : r.player # p) /\ HasRoom(p, t)
        BY <1>9, <2>3, <3>1 DEF Join, AddWrite, Alone, SquadReads, At
      <3>4. OneRow'
        BY <1>0, <3>3 DEF Rows, OneRow, Row
      <3>5. \A u \in Teams \ {t} : Counted(u)' = Counted(u)
        BY <2>1, <3>3 DEF Counted, Squad, Row
      <3>6. Cardinality(Counted(t)') <= MaxRoster
        <4>1. CASE added[p] # Nil
          <5>1. Counted(t)' = Counted(t)
            BY <2>1, <3>3, <4>1 DEF Counted, Squad, Row
          <5> QED
            BY <1>1, <3>2, <5>1
        <4>2. CASE added[p] = Nil
          <5>1. Counted(t)' = Counted(t) \cup {p} /\ p \notin Counted(t)
            <6>1. \A q : q \in Squad(t)' <=> \E r \in squad' : r.team = t /\ r.player = q
              BY DEF Squad
            <6>2. \A q : q \in Squad(t) <=> \E r \in squad : r.team = t /\ r.player = q
              BY DEF Squad
            <6>3. Row(p, t).team = t /\ Row(p, t).player = p
              BY DEF Row
            <6>4. Squad(t)' = Squad(t) \cup {p} /\ p \notin Squad(t)
              BY <3>3, <6>1, <6>2, <6>3
            <6> QED
              BY <2>1, <4>2, <6>4 DEF Counted
          <5>2. Cardinality(Counted(t)') = Cardinality(Counted(t)) + 1
            BY <5>1, CountedIsFinite, FS_AddElement
          <5>3. Counted(t) \ {p} = Counted(t)
            BY <5>1
          <5>4. Cardinality(Counted(t)) < MaxRoster
            BY <3>3, <4>2, <5>3 DEF HasRoom
          <5> QED
            BY <1>1, <3>2, <5>2, <5>4, ClubsAssumption
        <4> QED
          BY <4>1, <4>2
      <3>7. WithinLimit'
        BY <1>1, <3>5, <3>6 DEF WithinLimit
      <3>8. AddedOnce'
        BY <1>0, <2>1 DEF Rows, AddedOnce
      <3> QED
        BY <1>3, <2>1, <3>4, <3>7, <3>8 DEF Rows
    <2> QED
      BY <1>9, <2>2, <2>3 DEF AddWrite

  <1>10. ASSUME NEW c \in Clients, NEW p \in Players, ApproveAdd(c, p) PROVE Alone'
    <2>1. PICK id, t : id = call[c].id /\ t = call[c].row.team
      OBVIOUS
    <2>2. id \in RequestIds /\ preq[id] \in PlayerRequests
      BY <1>10, <2>1 DEF ApproveAdd, DecidingPlayer, At, TypeOK, LocalOK, OnPlayerRequest
    <2>3. Busy(c) /\ Reply(c)
      BY <1>10 DEF ApproveAdd, DecidingPlayer, Busy, At
    <2>4. \A q \in Players : added[q] # id
      BY <1>10, <2>1 DEF ApproveAdd, DecidingPlayer, Alone, RequestReads, At
    <2>5. \A r \in squad : r.player # p
      BY <1>10 DEF ApproveAdd, Referential
    <2>6. squad' = squad \cup {Row(p, t)} /\ added' = [added EXCEPT ![p] = id]
      BY <1>10, <2>1 DEF ApproveAdd, Join
    <2>7. OneRow'
      BY <1>0, <2>5, <2>6 DEF Rows, OneRow, Row
    <2>8. \A u \in Teams : Counted(u)' = Counted(u)
      <3>1. \A u \in Teams, q \in Players : q # p => (q \in Squad(u)' <=> q \in Squad(u))
        BY <2>6 DEF Squad, Row
      <3>2. \A u \in Teams : p \notin Squad(u)
        BY <2>5 DEF Squad
      <3>3. \A u \in Teams : p \notin Counted(u)' /\ p \notin Counted(u)
        BY <2>2, <2>6, <3>2 DEF Counted, TypeOK
      <3>4. \A u \in Teams : Squad(u) \subseteq Players /\ Squad(u)' \subseteq Players
        BY <2>6 DEF Squad, TypeOK, TeamRows, Row
      <3>5. \A q \in Players : q # p => added'[q] = added[q]
        BY <2>6 DEF TypeOK
      <3> QED
        BY <3>1, <3>3, <3>4, <3>5 DEF Counted
    <2>9. WithinLimit'
      BY <1>1, <2>8 DEF WithinLimit
    <2>10. AddedOnce'
      <3>1. preq' = [preq EXCEPT ![id] = [Approved(preq[id]) EXCEPT !.player = p]]
        BY <1>10, <2>1 DEF ApproveAdd
      <3>2. preq'[id].status = "APPROVED" /\ \A i \in RequestIds \ {id} : preq'[i] = preq[i]
        BY <2>2, <3>1, ApprovedType DEF TypeOK, PlayerRequests
      <3> QED
        BY <1>0, <2>2, <2>4, <2>6, <3>2 DEF Rows, AddedOnce, TypeOK
    <2> QED
      BY <1>3, <2>3, <2>7, <2>9, <2>10 DEF Rows

  <1>11. ASSUME NEW c \in Clients, RevisePlayerWrite(c) PROVE Alone'
    <2>1. PICK id : id = call[c].id
      OBVIOUS
    <2>2. \A q \in Players : added[q] # id
      BY <1>11, <2>1 DEF RevisePlayerWrite, Alone, RequestReads, At
    <2>3. Busy(c) /\ Reply(c) /\ squad' = squad /\ added' = added
      BY <1>11 DEF RevisePlayerWrite, Busy, At, people
    <2>4. \A i \in RequestIds \ {id} : preq'[i] = preq[i]
      BY <1>11, <2>1 DEF RevisePlayerWrite, TypeOK
    <2>5. Rows'
      BY <1>0, <2>2, <2>3, <2>4, RowsShrink DEF Rows, AddedOnce
    <2> QED
      BY <1>3, <2>3, <2>5

  <1>12. ASSUME NEW c \in Clients, RejectPlayerWrite(c) PROVE Alone'
    <2>1. PICK id : id = call[c].id
      OBVIOUS
    <2>2. \A q \in Players : added[q] # id
      BY <1>12, <2>1 DEF RejectPlayerWrite, DecidingPlayer, Alone, RequestReads, At
    <2>3. Busy(c) /\ Reply(c) /\ squad' = squad /\ added' = added
      BY <1>12 DEF RejectPlayerWrite, DecidingPlayer, Busy, At, people
    <2>4. \A i \in RequestIds \ {id} : preq'[i] = preq[i]
      BY <1>12, <2>1 DEF RejectPlayerWrite, TypeOK
    <2>5. Rows'
      BY <1>0, <2>2, <2>3, <2>4, RowsShrink DEF Rows, AddedOnce
    <2> QED
      BY <1>3, <2>3, <2>5

  \* Approving a request leaves it as approved as it was.
  <1>13. ASSUME NEW c \in Clients, NEW step, DecidingPlayer(c, step), call[c].id \in RequestIds,
                NEW i \in RequestIds
         PROVE  LET f == [preq EXCEPT ![call[c].id] = Approved(@)]
                IN  f[i] # Nil => preq[i] # Nil /\ f[i].status \in {preq[i].status, "APPROVED"}
    <2>1. preq[call[c].id] \in PlayerRequests
      BY <1>13 DEF DecidingPlayer, TypeOK
    <2> QED
      BY <2>1, <1>13, ApprovedType DEF TypeOK
  <1>14. ASSUME NEW c \in Clients, ApproveUpdate(c) PROVE Alone'
    <2>1. call[c].id \in RequestIds
      BY <1>14 DEF ApproveUpdate, DecidingPlayer, At, TypeOK, LocalOK, OnPlayerRequest
    <2>2. Busy(c) /\ Reply(c) /\ squad' = squad /\ added' = added
      BY <1>14 DEF ApproveUpdate, DecidingPlayer, Busy, At, people
    <2>3. \A i \in RequestIds :
            preq'[i] # Nil => preq[i] # Nil /\ preq'[i].status \in {preq[i].status, "APPROVED"}
      BY <1>13, <1>14, <2>1 DEF ApproveUpdate
    <2>4. Rows'
      BY <1>0, <2>2, <2>3, RowsShrink DEF Rows, AddedOnce
    <2> QED
      BY <1>3, <2>2, <2>4
  <1>15. ASSUME NEW p, NEW f \in [RequestIds -> PlayerRequests \cup {Nil}], PlayerDeleted(p, f),
                added' = added,
                \A i \in RequestIds : f[i] # Nil =>
                  preq[i] # Nil /\ f[i].status \in {preq[i].status, "APPROVED"}
         PROVE  Rows'
    <2>1. \A r \in PlayerRequests : [r EXCEPT !.player = Nil].status = r.status
      BY DEF PlayerRequests
    <2>2. \A i \in RequestIds : preq'[i] # Nil => f[i] # Nil /\ preq'[i].status = f[i].status
      BY <1>15, <2>1 DEF PlayerDeleted
    <2>3. squad' \subseteq squad
      BY <1>15 DEF PlayerDeleted
    <2> QED
      BY <1>0, <1>15, <2>2, <2>3, RowsShrink DEF Rows, AddedOnce
  <1>16. ASSUME NEW c \in Clients, ApproveRemove(c) PROVE Alone'
    <2>1. call[c].id \in RequestIds
      BY <1>16 DEF ApproveRemove, DecidingPlayer, At, TypeOK, LocalOK, OnPlayerRequest
    <2>2. DecidingPlayer(c, "REMOVE_PLAYER") /\ Busy(c) /\ Reply(c) /\ added' = added
      BY <1>16 DEF ApproveRemove, DecidingPlayer, Busy, At
    <2>3. PICK f : f = [preq EXCEPT ![call[c].id] = Approved(@)]
      OBVIOUS
    <2>4. \A i \in RequestIds :
            f[i] # Nil => preq[i] # Nil /\ f[i].status \in {preq[i].status, "APPROVED"}
      BY <1>13, <2>1, <2>2, <2>3
    <2>5. f \in [RequestIds -> PlayerRequests \cup {Nil}]
      BY <2>2, <2>3, ApprovedType DEF DecidingPlayer, TypeOK
    <2>6. PlayerDeleted(call[c].player, f)
      BY <1>16, <2>3 DEF ApproveRemove
    <2>7. Rows'
      BY <1>15, <2>2, <2>4, <2>5, <2>6
    <2> QED
      BY <1>3, <2>2, <2>7

  <1>17. ASSUME NEW d, AtOnce(d), Rows' PROVE Alone'
    BY <1>17, AtOnceAlone
  <1>18. ASSUME NEW p \in Players, DeletePlayer(p) PROVE Alone'
    <2>1. preq \in [RequestIds -> PlayerRequests \cup {Nil}]
      BY DEF TypeOK
    <2> QED
      BY <1>15, <1>17, <1>18, <2>1 DEF DeletePlayer
  <1>19. ASSUME NEW p \in Players, NEW t \in Teams, RosterRemove(p, t) PROVE Alone'
    <2>1. squad' \subseteq squad /\ UNCHANGED <<preq, added>>
      BY <1>19 DEF RosterRemove, Closed
    <2> QED
      BY <1>0, <1>17, <1>19, <2>1, RowsKept DEF RosterRemove
  <1>20. ASSUME NEW id \in RequestIds, DeletePlayerRequest(id) PROVE Alone'
    <2>1. /\ squad' = squad /\ added' = added
          /\ \A i \in RequestIds : preq'[i] # Nil => preq'[i] = preq[i]
      BY <1>20 DEF DeletePlayerRequest, people, TypeOK
    <2> QED
      BY <1>0, <1>17, <1>20, <2>1, RowsKept DEF DeletePlayerRequest
  <1>21. ASSUME NEW id \in RequestIds, NEW kind \in PlayerKinds, NEW p \in Players \cup {Nil},
                NEW m \in Managers, CreatePlayerRequest(m, id, kind, p)
         PROVE  Alone'
    <2>1. /\ squad' = squad
          /\ added' = [q \in Players |-> IF added[q] = id THEN "earlier" ELSE added[q]]
          /\ \A i \in RequestIds \ {id} : preq'[i] = preq[i]
      BY <1>21 DEF CreatePlayerRequest, people, TypeOK
    <2>2. \A q \in Players : added'[q] = Nil <=> added[q] = Nil
      BY <2>1, ClubsAssumption
    <2>3. \A u \in Teams : Counted(u)' = Counted(u)
      BY <2>1, <2>2 DEF Counted, Squad, TypeOK, TeamRows
    <2>4. OneRow' /\ WithinLimit'
      BY <1>0, <1>1, <2>1, <2>3 DEF Rows, OneRow, WithinLimit
    <2>5. AddedOnce'
      BY <1>0, <2>1, ClubsAssumption DEF Rows, AddedOnce
    <2> QED
      BY <1>17, <1>21, <2>4, <2>5 DEF CreatePlayerRequest, Rows

  \* A request that is not approved has added nobody.
  <1>22. ASSUME NEW id \in RequestIds, preq[id] # Nil, preq[id].status # "APPROVED"
         PROVE  \A q \in Players : added[q] # id
    BY <1>0, <1>22 DEF Rows, AddedOnce
  <1>23. ASSUME NEW c \in Clients, NEW d, NEW local, NEW id \in RequestIds, Begin(c, d, local),
                local.at \in OnPlayerRequest, local.id = id,
                preq[id] # Nil, preq[id].status # "APPROVED"
         PROVE  Alone'
    <2>1. call'[c] = local /\ added' = added
      BY <1>2, <1>23
    <2>2. RequestReads(c)'
      BY <1>22, <1>23, <2>1 DEF RequestReads
    <2>3. ManagementReads(c)' /\ SquadReads(c)'
      BY <1>23, <2>1 DEF ManagementReads, SquadReads, At, OnPlayerRequest
    <2> QED
      BY <1>23, <2>2, <2>3, BeginAlone
  <1>24. ASSUME NEW id \in RequestIds, NEW kind \in PlayerKinds, NEW p \in Players \cup {Nil},
                NEW c \in Clients, RevisePlayerBegin(c, id, kind, p)
         PROVE  Alone'
    <2>1. PICK local : local = [NoCall EXCEPT !.at = "revisePlayer", !.id = id,
                                              !.row = PlayerRequest(preq[id].by, kind, p)]
      OBVIOUS
    <2>2. Begin(c, "squads", local) /\ preq[id] # Nil /\ preq[id].status # "APPROVED"
      BY <1>24, <2>1 DEF RevisePlayerBegin
    <2>3. local.at \in OnPlayerRequest /\ local.id = id
      BY <2>1 DEF NoCall, OnPlayerRequest
    <2> QED
      BY <1>23, <2>2, <2>3
  <1>25. ASSUME NEW c \in Clients, NEW id \in RequestIds, NEW ok \in BOOLEAN,
                ReviewPlayerBegin(c, id, ok)
         PROVE  Alone'
    <2>1. PICK at : at = IF ok THEN PlayerStep[preq[id].kind] ELSE "rejectPlayer"
      OBVIOUS
    <2>2. PICK local : local = [NoCall EXCEPT !.at = at, !.id = id, !.row = preq[id],
                                              !.player = preq[id].player]
      OBVIOUS
    <2>3. Begin(c, "squads", local)
      BY <1>25, <2>1, <2>2 DEF ReviewPlayerBegin
    <2>4. preq[id] \in PlayerRequests /\ preq[id].status = "PENDING"
      BY <1>25 DEF ReviewPlayerBegin, Pending, TypeOK
    <2>5. at \in OnPlayerRequest
      BY <2>1, <2>4 DEF PlayerStep, OnPlayerRequest, PlayerRequests, PlayerKinds
    <2>6. local.at = at /\ local.id = id
      BY <2>2 DEF NoCall
    <2>7. preq[id] # Nil
      BY <1>25 DEF ReviewPlayerBegin, Pending
    <2> QED
      BY <1>23, <2>3, <2>4, <2>5, <2>6, <2>7
  <1> QED
    BY <1>4, <1>5, <1>6, <1>7, <1>8, <1>9, <1>10, <1>11, <1>12, <1>14, <1>16, <1>18, <1>19, <1>20,
       <1>21, <1>24, <1>25 DEF SquadsNext

LEMMA InitInvariant == Init => IInv
  <1> SUFFICES ASSUME Init PROVE IInv
    OBVIOUS
  <1> USE NilIsNull
  <1>1. TypeOK
    BY InitType
  <1>2. Referential
    BY <1>1 DEF Init, Referential, TypeOK
  <1>3. \A c \in Clients : call[c].at = "none"
    BY DEF Init, NoCall
  <1>4. OneRow
    <2>1. PICK member \in [Players -> Teams \cup {Nil}] :
            squad = {Row(p, member[p]) : p \in {q \in Players : member[q] # Nil}}
      BY DEF Init
    <2> QED
      BY <2>1 DEF OneRow, Row
  <1>5. WithinLimit
    <2>1. ASSUME NEW t \in Teams PROVE Cardinality(Counted(t)) <= MaxRoster
      <3>1. Cardinality(Squad(t)) <= MaxRoster
        BY DEF Init
      <3>2. Squad(t) \in SUBSET Squad(t)
        OBVIOUS
      <3> QED
        BY <1>1, <3>1, <3>2, CountedIsFinite, SquadIsFinite, ClubsAssumption
    <2> QED
      BY <2>1 DEF WithinLimit
  <1>6. AddedOnce
    BY DEF Init, AddedOnce
  <1>7. Alone
    BY <1>3, <1>4, <1>5, <1>6 DEF Alone, Rows, Busy, ManagementReads, SquadReads, RequestReads, At
  <1> QED
    BY <1>1, <1>2, <1>7 DEF IInv

LEMMA StepInvariant == IInv /\ [Next]_vars => IInv'
  <1> SUFFICES ASSUME IInv, [Next]_vars PROVE IInv'
    OBVIOUS
  <1>1. TypeOK /\ TypeOK' /\ Referential /\ (~overlap => Alone)
    BY StepType DEF IInv
  <1>2. CASE ManagementNext
    <2>1. Referential'
      BY <1>1, <1>2, ManagementReferential
    <2>2. ASSUME ~overlap' PROVE Alone'
      BY <1>1, <1>2, <2>2, ManagementAlone, NotYetOverlapped
    <2> QED
      BY <1>1, <2>1, <2>2 DEF IInv
  <1>3. CASE SquadsNext
    <2>1. Referential'
      BY <1>1, <1>3, SquadsReferential
    <2>2. ASSUME ~overlap' PROVE Alone'
      BY <1>1, <1>3, <2>2, SquadsAlone, NotYetOverlapped
    <2> QED
      BY <1>1, <2>1, <2>2 DEF IInv
  <1>4. ASSUME NEW c \in Clients, Die(c) PROVE IInv'
    <2>1. Referential'
      BY <1>1, <1>4 DEF Die, Referential, users, people
    <2>2. ASSUME ~overlap' PROVE Alone'
      <3>1. overlap' = overlap /\ Busy(c) /\ Reply(c)
        BY <1>4 DEF Die, Reply
      <3>2. Alone
        BY <1>1, <2>2, <3>1
      <3>3. Rows'
        BY <1>1, <1>4, <3>2, PeopleRows DEF Die, Alone
      <3> QED
        BY <1>1, <3>1, <3>2, <3>3, ReplyAlone
    <2> QED
      BY <1>1, <2>1, <2>2 DEF IInv
  <1>5. CASE UNCHANGED vars
    <2>1. Referential'
      BY <1>1, <1>5 DEF vars, Referential, users, people
    <2>2. (~overlap => Alone)'
      BY <1>1, <1>5
         DEF vars, users, people, Alone, Rows, OneRow, WithinLimit, AddedOnce, Counted, Squad, Busy,
             ManagementReads, SquadReads, RequestReads, HasRoom, At, ManagersOf, IsManager
    <2> QED
      BY <1>1, <2>1, <2>2 DEF IInv
  <1> QED
    BY <1>2, <1>3, <1>4, <1>5 DEF Next

\* The inductive invariant: the types, the foreign keys, and, while no two HTTP
\* requests have overlapped, that what the one request in flight has read is
\* still so.
THEOREM Invariant == Spec => []IInv
  BY InitInvariant, StepInvariant, PTL DEF Spec

LEMMA AtMostOne ==
  ASSUME NEW S, \A x, y \in S : x = y
  PROVE  Cardinality(S) <= 1
  <1>1. CASE S = {}
    BY <1>1, FS_EmptySet
  <1>2. CASE S # {}
    <2>1. PICK x \in S : S = {x}
      BY <1>2
    <2> QED
      BY <2>1, FS_Singleton
  <1> QED
    BY <1>1, <1>2

\* As long as HTTP requests do not overlap, a player is in one club at most:
\* a move closes the old row before it opens the new one, and nobody who has
\* a club is added to another.
THEOREM OneClub == Spec => []OneClubPerPlayer
  <1>1. IInv => OneClubPerPlayer
    <2> SUFFICES ASSUME IInv, ~overlap, NEW p \in Players
                 PROVE  Cardinality(ClubsOf(p)) <= 1
      BY DEF OneClubPerPlayer
    <2>1. OneRow
      BY DEF IInv, Alone, Rows
    <2>2. \A t, u \in ClubsOf(p) : t = u
      BY <2>1 DEF OneRow, ClubsOf
    <2> QED
      BY <2>2, AtMostOne
  <1> QED
    BY <1>1, Invariant, PTL

\* As long as HTTP requests do not overlap, the limit of a squad holds for
\* every player that did not come by the approval of a manager's request,
\* which looks at no limit: additions, new players and moves count them all.
THEOREM SquadLimitHolds == Spec => []SquadsWithinLimit
  <1>1. IInv => SquadsWithinLimit
    BY DEF IInv, Alone, Rows, WithinLimit, Counted, SquadsWithinLimit
  <1> QED
    BY <1>1, Invariant, PTL

\* As long as HTTP requests do not overlap, a request to add a player adds one
\* player, however often it is refused, revised and reviewed again.
THEOREM RequestAddsOne == Spec => []AddsOnePlayer
  <1>1. IInv => AddsOnePlayer
    <2> SUFFICES ASSUME IInv, ~overlap, NEW i \in RequestIds
                 PROVE  Cardinality({p \in Players : added[p] = i}) <= 1
      BY DEF AddsOnePlayer
    <2>1. \A p, q \in Players : added[p] = i /\ added[q] = i => p = q
      BY DEF IInv, Alone, Rows, AddedOnce
    <2> QED
      BY <2>1, AtMostOne
  <1> QED
    BY <1>1, Invariant, PTL

-----------------------------------------------------------------------------
(* Who gets a club.                                                        *)

\* m, a manager already, gets the club t.
Gets(m, t) == IsManager(m) /\ managed[m] # t /\ managed'[m] = t

LEMMA GetsItAlone ==
  ASSUME TypeOK, Referential, Alone, ManagementNext,
         NEW m \in Managers, NEW t \in Teams, Gets(m, t)
  PROVE  ManagersOf(t)' = {m}
  <1> USE NilIsNull
  <1>1. t # Nil /\ IsManager(m) /\ managed[m] # t /\ managed'[m] = t
    BY DEF Gets
  <1>2. ~(managed'[m] \in {managed[m], Nil})
    BY <1>1
  \* Whoever has the club to himself after the step.
  <1>3. ASSUME role' = role, \A n \in Managers \ {m} : managed'[n] # t
        PROVE  ManagersOf(t)' = {m}
    BY <1>1, <1>3 DEF ManagersOf, IsManager
  <1>4. ASSUME club[t] = Nil, role' = role, \A n \in Managers \ {m} : managed'[n] = managed[n]
        PROVE  ManagersOf(t)' = {m}
    <2>1. \A n \in Managers : managed[n] # t
      BY <1>1, <1>4 DEF Referential
    <2> QED
      BY <1>3, <1>4, <2>1
  <1>5. ASSUME UNCHANGED managed PROVE FALSE
    BY <1>1, <1>5
  <1>6. ASSUME NEW c \in Clients, ReviseWrite(c) \/ RejectWrite(c) \/ UpdateWrite(c) PROVE FALSE
    BY <1>5, <1>6 DEF ReviseWrite, RejectWrite, UpdateWrite, users
  <1>7. ASSUME NEW c, NEW d, NEW local, Begin(c, d, local) PROVE FALSE
    BY <1>5, <1>7, BeginFrame
  <1>8. ASSUME NEW n, NEW id, NEW kind, NEW u, NEW s, CreateRequest(n, id, kind, u, s) PROVE FALSE
    BY <1>5, <1>8 DEF CreateRequest, users
  <1>9. ASSUME NEW c \in Clients, DeleteWrite(c) \/ LeaveWrite(c) PROVE FALSE
    BY <1>2, <1>9 DEF DeleteWrite, LeaveWrite, TypeOK
  <1>10. ASSUME NEW c \in Clients, RoleWrite(c) PROVE FALSE
    <2>1. managed[call[c].user] = call[c].team
      BY <1>10 DEF RoleWrite, Alone, ManagementReads, At
    <2> QED
      BY <1>2, <1>10, <2>1 DEF RoleWrite, users, TypeOK
  <1>11. ASSUME NEW n \in Managers, DeleteUser(n) PROVE FALSE
    BY <1>2, <1>11 DEF DeleteUser, TypeOK
  <1>12. ASSUME NEW u \in Teams, DeleteTeam(u) PROVE FALSE
    BY <1>2, <1>12 DEF DeleteTeam, WithoutClub
  <1>13. ASSUME NEW c \in Clients, DeleteClubWrite(c) PROVE FALSE
    BY <1>2, <1>13 DEF DeleteClubWrite, WithoutClub, TypeOK
  <1>14. ASSUME NEW n \in Managers, NEW u \in TeamsOrNil, CreateUser(n, u) PROVE FALSE
    <2>1. n # m
      BY <1>1, <1>14 DEF CreateUser, IsManager
    <2> QED
      BY <1>2, <1>14, <2>1 DEF CreateUser, TypeOK

  <1>15. ASSUME NEW c \in Clients, ClaimWrite(c) PROVE ManagersOf(t)' = {m}
    <2>1. PICK row : row = req[call[c].id]
      OBVIOUS
    <2>2. managed' = [managed EXCEPT ![row.by] = row.team] /\ role' = role
      BY <1>15, <2>1 DEF ClaimWrite
    <2>3. row.by = m /\ row.team = t
      BY <1>1, <2>2 DEF TypeOK
    <2>4. ManagersOf(t) = {}
      BY <1>15, <2>1, <2>3 DEF ClaimWrite, Deciding, Alone, ManagementReads, At
    <2>5. \A n \in Managers \ {m} : managed'[n] = managed[n]
      BY <2>2, <2>3 DEF TypeOK
    <2>6. \A n \in Managers \ {m} : ~(IsManager(n) /\ managed[n] = t)
      BY <2>4 DEF ManagersOf
    <2> QED
      BY <1>1, <2>2, <2>5, <2>6 DEF ManagersOf, IsManager
  <1>16. ASSUME NEW c \in Clients, NEW u \in Teams, CreateWrite(c, u) PROVE ManagersOf(t)' = {m}
    <2>1. PICK n : n = call[c].row.by
      OBVIOUS
    <2>2. managed' = [managed EXCEPT ![n] = u] /\ role' = role /\ club[u] = Nil
      BY <1>16, <2>1 DEF CreateWrite
    <2>3. n = m /\ u = t
      BY <1>1, <2>2 DEF TypeOK
    <2> QED
      BY <1>4, <2>2, <2>3 DEF TypeOK
  <1>17. ASSUME NEW u \in Teams, NEW n \in Managers \cup {Nil}, CreateTeam(u, n)
         PROVE  ManagersOf(t)' = {m}
    <2>1. /\ role' = role /\ club[u] = Nil
          /\ managed' = [k \in Managers |-> IF k = n THEN u ELSE managed[k]]
      BY <1>17 DEF CreateTeam
    <2>2. n = m /\ u = t
      BY <1>1, <2>1
    <2> QED
      BY <1>4, <2>1, <2>2
  <1>18. ASSUME NEW u \in Teams, NEW n \in Managers \cup {Nil}, Assign(u, n)
         PROVE  ManagersOf(t)' = {m}
    <2>1. /\ role' = role
          /\ managed' = [k \in Managers |->
               IF k = n THEN u ELSE IF managed[k] = u THEN Nil ELSE managed[k]]
      BY <1>18 DEF Assign
    <2>2. n = m /\ u = t
      BY <1>1, <2>1
    <2> QED
      BY <1>1, <1>3, <2>1, <2>2
  <1> QED
    BY <1>6, <1>7, <1>8, <1>9, <1>10, <1>11, <1>12, <1>13, <1>14, <1>15, <1>16, <1>17, <1>18
       DEF ManagementNext, ReviseBegin, DeleteBegin, ReviewBegin, LeaveBegin, RoleBegin

\* As long as HTTP requests do not overlap, no approval and no assignment gives
\* a club a second manager: whoever was a manager before and gets the club gets
\* it alone.
THEOREM OneManager == Spec => NoSecondManager
  <1> DEFINE Second == \A t \in Teams : \A m \in Managers :
               (IsManager(m) /\ managed[m] # t /\ managed'[m] = t /\ ~overlap)
                 => ManagersOf(t)' = {m}
  <1>1. IInv /\ [Next]_vars => [Second]_vars
    <2> SUFFICES ASSUME IInv, Next, NEW t \in Teams, NEW m \in Managers, Gets(m, t), ~overlap
                 PROVE  ManagersOf(t)' = {m}
      BY DEF Gets
    <2>1. TypeOK /\ Referential /\ Alone
      BY DEF IInv
    <2>2. CASE ManagementNext
      BY <2>1, <2>2, GetsItAlone
    <2>3. CASE SquadsNext
      BY <2>3, SquadsFrame DEF Gets
    <2>4. ASSUME NEW c \in Clients, Die(c) PROVE FALSE
      BY <2>4 DEF Die, users, Gets
    <2> QED
      BY <2>2, <2>3, <2>4 DEF Next
  <1> QED
    BY <1>1, Invariant, PTL DEF Spec, NoSecondManager
=============================================================================
