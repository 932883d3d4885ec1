-------------------------------- MODULE Clubs --------------------------------
(***************************************************************************)
(* The clubs, their managers and their squads: team-manager.service.ts     *)
(* (the requests a manager files and an admin reviews) composed with the   *)
(* edits of registration.service.ts, roster.service.ts and                 *)
(* users.service.ts that change the same rows.                             *)
(*                                                                         *)
(* The reads of a request are one step and each of its statements or       *)
(* transactions another; a request may die between two.  A request that    *)
(* the code would refuse takes no step; so do the refusals the model       *)
(* leaves out (a name that is taken, an age, a scope, the quota of foreign *)
(* players, a foreign key of a match or a lineup).  Names, nationalities,  *)
(* shirt numbers and notes are left out; the home-stadium requests are not *)
(* modelled.                                                               *)
(***************************************************************************)
EXTENDS Naturals, FiniteSets

CONSTANTS Clients, Managers, Teams, Players, Nil,
          RequestIds,  \* bound: requests of either kind that are kept at once
          MaxRoster,
          MaxCalls,    \* bound: HTTP requests
          Desks        \* "management" and "squads": what a behaviour's clients do

TeamsOrNil == Teams \cup {Nil}
Statuses == {"ACTIVE", "INACTIVE"}
Roles == {"PUBLIC", "TEAM_MANAGER"}  \* PUBLIC stands for every other role
Progress == {"PENDING", "APPROVED", "REJECTED"}
Kinds == {"CLAIM", "CREATE", "UPDATE", "DELETE"}
PlayerKinds == {"ADD", "UPDATE", "REMOVE"}
Requests == [by : Managers, kind : Kinds, team : TeamsOrNil, proposed : Statuses,
             status : Progress]
PlayerRequests == [by : Managers, team : Teams, kind : PlayerKinds,
                   player : Players \cup {Nil}, status : Progress]

ASSUME ClubsAssumption ==
  /\ Nil \notin Managers \cup Teams \cup Players \cup RequestIds \cup Requests
             \cup PlayerRequests \cup Statuses \cup Roles
  /\ "earlier" \notin RequestIds \cup {Nil}
  /\ IsFiniteSet(Players) /\ MaxRoster \in Nat
  /\ Desks \subseteq {"management", "squads"}

VARIABLES
  desk,     \* which of Desks this behaviour is about
  club,     \* teams: Nil or the team's status
  role,     \* users: Nil, "PUBLIC" or "TEAM_MANAGER"
  managed,  \* users.managed_team_id
  req,      \* team_manager_requests
  preq,     \* manager_player_requests
  exists,   \* players
  squad,    \* team_players that have not left: pairs of player and team
  past,     \* team_players that have
  call,     \* where each client's HTTP request is
  calls, overlap, \* how many there were; whether two were in flight together
  added     \* history: Nil, or the request whose approval created the player

users == <<role, managed>>
people == <<exists, squad, past>>
vars == <<desk, club, users, req, preq, people, call, calls, overlap, added>>

NoCall == [at |-> "none", id |-> Nil, row |-> Nil, user |-> Nil, team |-> Nil,
           player |-> Nil, ok |-> FALSE]

----------------------------------------------------------------------------
(* HTTP requests                                                           *)

Busy(c) == call[c].at # "none"
At(c, step) == call[c].at = step
Goto(c, step) == call' = [call EXCEPT ![c].at = step] /\ UNCHANGED <<desk, calls, overlap>>
Reply(c) == call' = [call EXCEPT ![c] = NoCall] /\ UNCHANGED <<desk, calls, overlap>>

Counts(d) == /\ desk = d /\ calls < MaxCalls /\ calls' = calls + 1
             /\ overlap' = (overlap \/ \E c \in Clients : Busy(c))
             /\ UNCHANGED desk
Begin(c, d, local) == /\ ~Busy(c) /\ Counts(d)
                      /\ call' = [call EXCEPT ![c] = local]
                      /\ UNCHANGED <<club, users, req, preq, people, added>>
AtOnce(d) == Counts(d) /\ UNCHANGED call

Die(c) == Busy(c) /\ Reply(c) /\ UNCHANGED <<club, users, req, preq, people, added>>

IsManager(m) == role[m] = "TEAM_MANAGER"
ManagersOf(t) == {m \in Managers : IsManager(m) /\ managed[m] = t}
Pending(r) == r # Nil /\ r.status = "PENDING"
Approved(r) == [r EXCEPT !.status = "APPROVED"]

\* team.delete: users and requests lose the club; its squad rows and its
\* players' requests go with it.
ClubDeleted(t) ==
  /\ club' = [club EXCEPT ![t] = Nil]
  /\ preq' = [i \in RequestIds |-> IF preq[i] # Nil /\ preq[i].team = t THEN Nil ELSE preq[i]]
  /\ squad' = {r \in squad : r.team # t} /\ past' = {r \in past : r.team # t}
  /\ UNCHANGED <<exists, added>>
WithoutClub(f, t) == [m \in Managers |-> IF f[m] = t THEN Nil ELSE f[m]]
RequestsWithoutClub(f, t) ==
  [i \in RequestIds |-> IF f[i] # Nil /\ f[i].team = t THEN [f[i] EXCEPT !.team = Nil] ELSE f[i]]

----------------------------------------------------------------------------
(* Management requests                                                     *)

OfOwnClub == {"UPDATE", "DELETE"}

Request(m, kind, t, status) ==
  [by |-> m, kind |-> kind, team |-> t, proposed |-> status, status |-> "PENDING"]

\* ensureClaimableTeam.  A mutant: a club with a manager can be claimed.
ClaimableByAnyone(t, id) ==
  /\ t # Nil /\ club[t] = "ACTIVE"
  /\ \A i \in RequestIds \ {id} : ~(Pending(req[i]) /\ req[i].kind = "CLAIM" /\ req[i].team = t)
Claimable(t, id) ==
  /\ t # Nil /\ club[t] = "ACTIVE"
  /\ ManagersOf(t) = {}
  /\ \A i \in RequestIds \ {id} : ~(Pending(req[i]) /\ req[i].kind = "CLAIM" /\ req[i].team = t)

\* The two partial unique indexes on pending requests.
FitsIndexes(id, row) ==
  \A i \in RequestIds \ {id} :
    Pending(req[i]) => /\ req[i].by # row.by
                       /\ ~(req[i].kind = "CLAIM" /\ row.kind = "CLAIM" /\ req[i].team = row.team)

\* createManagementRequest: one step, since a request that was checked before
\* another's write leaves the same row as one that was filed before it.
CreateRequest(m, id, kind, t, status) ==
  /\ AtOnce("management")
  /\ IsManager(m) /\ req[id] = Nil
  /\ CASE kind \in OfOwnClub -> t # Nil /\ managed[m] = t
       [] kind = "CLAIM"     -> managed[m] = Nil /\ Claimable(t, id)
       [] kind = "CREATE"    -> managed[m] = Nil /\ t = Nil
  /\ kind \in {"CREATE", "UPDATE"} \/ status = "ACTIVE"
  /\ FitsIndexes(id, Request(m, kind, t, status))
  /\ req' = [req EXCEPT ![id] = Request(m, kind, t, status)]
  /\ UNCHANGED <<club, users, preq, people, added>>

\* updateManagementRequest: whatever the request asked for before, it can ask
\* for anything now.
ReviseBegin(c, id, kind, t, status) ==
  /\ req[id] # Nil /\ req[id].status # "APPROVED"
  /\ LET m == req[id].by
     IN  /\ IsManager(m)
         /\ CASE kind \in OfOwnClub -> /\ t # Nil /\ t = managed[m]
                                       /\ req[id].team \in {Nil, t}
              [] kind = "CLAIM"     -> Claimable(t, id)
              [] kind = "CREATE"    -> t = Nil
         /\ kind \in {"CREATE", "UPDATE"} \/ status = "ACTIVE"
         /\ Begin(c, "management",
                  [NoCall EXCEPT !.at = "revise", !.id = id, !.row = Request(m, kind, t, status)])

ReviseWrite(c) ==
  /\ At(c, "revise")
  /\ LET id == call[c].id  row == call[c].row
     IN  req' = IF req[id] # Nil /\ FitsIndexes(id, row)
                  /\ (row.team = Nil \/ club[row.team] # Nil)
                THEN [req EXCEPT ![id] = row] ELSE req
  /\ Reply(c) /\ UNCHANGED <<club, users, preq, people, added>>

\* deleteManagementRequest: deleting the request a club was granted by gives
\* the club back.
DeleteBegin(c, id) ==
  /\ req[id] # Nil /\ IsManager(req[id].by)
  /\ Begin(c, "management", [NoCall EXCEPT !.at = "delete", !.id = id, !.row = req[id],
                              !.team = managed[req[id].by]])

DeleteWrite(c) ==
  /\ At(c, "delete")
  /\ LET id == call[c].id  row == call[c].row
         ends == row.status = "APPROVED" /\ row.kind \notin OfOwnClub
                   /\ call[c].team # Nil /\ call[c].team = row.team
     IN  IF req[id] = Nil THEN UNCHANGED <<managed, req>>
         ELSE /\ managed' = IF ends THEN [managed EXCEPT ![row.by] = Nil] ELSE managed
              /\ req' = [req EXCEPT ![id] = Nil]
  /\ Reply(c) /\ UNCHANGED <<club, role, preq, people, added>>

LeaveBegin(c, m) ==
  /\ IsManager(m) /\ managed[m] # Nil
  /\ Begin(c, "management", [NoCall EXCEPT !.at = "leave", !.user = m, !.team = managed[m]])

LeaveWrite(c) ==
  /\ At(c, "leave")
  /\ LET m == call[c].user
     IN  /\ managed' = [managed EXCEPT ![m] = Nil]
         /\ req' = [i \in RequestIds |->
                      IF req[i] # Nil /\ req[i].by = m /\ req[i].team = call[c].team
                      THEN Nil ELSE req[i]]
  /\ Reply(c) /\ UNCHANGED <<club, role, preq, people, added>>

----------------------------------------------------------------------------
(* reviewManagementRequest                                                 *)

ReviewBegin(c, id, ok) ==
  /\ Pending(req[id])
  /\ LET row == req[id]
     IN  ok => CASE row.kind \in OfOwnClub -> row.team # Nil /\ managed[row.by] = row.team
                 [] row.kind = "CLAIM"     -> managed[row.by] = Nil /\ Claimable(row.team, id)
                 [] row.kind = "CREATE"    -> managed[row.by] = Nil
  /\ Begin(c, "management", [NoCall EXCEPT !.at = IF ok THEN req[id].kind ELSE "reject",
                              !.id = id, !.row = req[id], !.ok = ok])

\* The request must still be there; only its own transaction fails otherwise.
Deciding(c, step) == At(c, step) /\ req[call[c].id] # Nil /\ Reply(c)

RejectWrite(c) ==
  /\ Deciding(c, "reject")
  /\ req' = [req EXCEPT ![call[c].id].status = "REJECTED"]
  /\ UNCHANGED <<club, users, preq, people, added>>

\* The manager and the club are those of the row as the transaction updates it.
ClaimWrite(c) ==
  /\ Deciding(c, "CLAIM")
  /\ req' = [req EXCEPT ![call[c].id] = Approved(@)]
  /\ LET row == req[call[c].id] IN managed' = [managed EXCEPT ![row.by] = row.team]
  /\ UNCHANGED <<club, role, preq, people, added>>

CreateWrite(c, t) ==
  /\ Deciding(c, "CREATE") /\ club[t] = Nil
  /\ LET row == call[c].row
     IN  /\ role[row.by] # Nil
         /\ club' = [club EXCEPT ![t] = row.proposed]
         /\ req' = [req EXCEPT ![call[c].id] = [Approved(@) EXCEPT !.team = t]]
         /\ managed' = [managed EXCEPT ![row.by] = t]
  /\ UNCHANGED <<role, preq, people, added>>

UpdateWrite(c) ==
  /\ Deciding(c, "UPDATE") /\ club[call[c].row.team] # Nil
  /\ club' = [club EXCEPT ![call[c].row.team] = call[c].row.proposed]
  /\ req' = [req EXCEPT ![call[c].id] = Approved(@)]
  /\ UNCHANGED <<users, preq, people, added>>

DeleteClubWrite(c) ==
  /\ Deciding(c, "DELETE") /\ club[call[c].row.team] # Nil
  /\ LET t == call[c].row.team
     IN  /\ managed' = WithoutClub([managed EXCEPT ![call[c].row.by] = Nil], t)
         /\ req' = RequestsWithoutClub([req EXCEPT ![call[c].id] = Approved(@)], t)
         /\ ClubDeleted(t)
  /\ UNCHANGED role

----------------------------------------------------------------------------
(* The admin's edits: registration.service.ts and users.service.ts         *)

\* createTeam, with or without a manager
CreateTeam(t, m) ==
  /\ AtOnce("management") /\ club[t] = Nil
  /\ m # Nil => IsManager(m) /\ managed[m] = Nil
  /\ club' = [club EXCEPT ![t] = "ACTIVE"]
  /\ managed' = [n \in Managers |-> IF n = m THEN t ELSE managed[n]]
  /\ UNCHANGED <<role, req, preq, people, added>>

\* updateTeam's manager.  A mutant: the former manager keeps the club.
AssignBesides(t, m) ==
  /\ AtOnce("management") /\ club[t] # Nil
  /\ m # Nil => IsManager(m) /\ managed[m] \in {Nil, t}
  /\ managed' = [n \in Managers |-> IF n = m THEN t ELSE managed[n]]
  /\ UNCHANGED <<club, role, req, preq, people, added>>
Assign(t, m) ==
  /\ AtOnce("management") /\ club[t] # Nil
  /\ m # Nil => IsManager(m) /\ managed[m] \in {Nil, t}
  /\ managed' = [n \in Managers |-> IF n = m THEN t ELSE IF managed[n] = t THEN Nil ELSE managed[n]]
  /\ UNCHANGED <<club, role, req, preq, people, added>>

DeleteTeam(t) ==
  /\ AtOnce("management") /\ club[t] # Nil
  /\ ClubDeleted(t)
  /\ managed' = WithoutClub(managed, t) /\ req' = RequestsWithoutClub(req, t)
  /\ UNCHANGED role

\* createUser: the club need only exist.
CreateUser(m, t) ==
  /\ AtOnce("management") /\ role[m] = Nil
  /\ t # Nil => club[t] # Nil
  /\ role' = [role EXCEPT ![m] = "TEAM_MANAGER"] /\ managed' = [managed EXCEPT ![m] = t]
  /\ UNCHANGED <<club, req, preq, people, added>>

\* updateRole writes back the club it has read.
RoleBegin(c, m, r) ==
  /\ role[m] # Nil
  /\ Begin(c, "management", [NoCall EXCEPT !.at = "role", !.user = m, !.team = managed[m],
                              !.ok = (r = "TEAM_MANAGER")])
RoleWrite(c) ==
  /\ At(c, "role")
  /\ LET m == call[c].user  t == call[c].team
     IN  IF role[m] # Nil /\ (t = Nil \/ club[t] # Nil)
         THEN /\ role' = [role EXCEPT ![m] = IF call[c].ok THEN "TEAM_MANAGER" ELSE "PUBLIC"]
              /\ managed' = [managed EXCEPT ![m] = IF call[c].ok THEN t ELSE Nil]
         ELSE UNCHANGED users
  /\ Reply(c) /\ UNCHANGED <<club, req, preq, people, added>>

\* deleteUser takes the user's requests along.
DeleteUser(m) ==
  /\ AtOnce("management") /\ role[m] # Nil
  /\ role' = [role EXCEPT ![m] = Nil] /\ managed' = [managed EXCEPT ![m] = Nil]
  /\ req' = [i \in RequestIds |-> IF req[i] # Nil /\ req[i].by = m THEN Nil ELSE req[i]]
  /\ preq' = [i \in RequestIds |-> IF preq[i] # Nil /\ preq[i].by = m THEN Nil ELSE preq[i]]
  /\ UNCHANGED <<club, people, added>>

----------------------------------------------------------------------------
(* Squads                                                                  *)

Row(p, t) == [player |-> p, team |-> t]
Squad(t) == {r.player : r \in {s \in squad : s.team = t}}
ClubsOf(p) == {r.team : r \in {s \in squad : s.player = p}}
\* assertPlayerCurrentTeamActive looks at one of the player's rows.
NotInactive(p) == ClubsOf(p) # {} => \E t \in ClubsOf(p) : club[t] # "INACTIVE"

\* validateTeamRosterLimitsForPlayer
RosterFits(t, p) == Cardinality(Squad(t) \ {p}) < MaxRoster

Join(p, t) == squad' = squad \cup {Row(p, t)}

\* addPlayerToRoster.  A mutant: a player may already have a club.
AddBeginAnyone(c, p, t) ==
  /\ club[t] = "ACTIVE" /\ p \in exists
  /\ Cardinality(Squad(t)) < MaxRoster
  /\ Begin(c, "squads", [NoCall EXCEPT !.at = "add", !.player = p, !.team = t])
AddBegin(c, p, t) ==
  /\ club[t] = "ACTIVE" /\ p \in exists
  /\ ClubsOf(p) = {}
  /\ Cardinality(Squad(t)) < MaxRoster
  /\ Begin(c, "squads", [NoCall EXCEPT !.at = "add", !.player = p, !.team = t])

AddWrite(c) ==
  /\ At(c, "add")
  /\ IF call[c].player \in exists /\ club[call[c].team] # Nil
     THEN Join(call[c].player, call[c].team) ELSE UNCHANGED squad
  /\ Reply(c) /\ UNCHANGED <<club, users, req, preq, exists, past, added>>

Closed(p, t) == /\ squad' = squad \ {Row(p, t)} /\ past' = past \cup {Row(p, t)}

RosterRemove(p, t) ==
  /\ AtOnce("squads") /\ club[t] = "ACTIVE" /\ Row(p, t) \in squad
  /\ Closed(p, t)
  /\ UNCHANGED <<club, users, req, preq, exists, added>>

\* createPlayer, with or without a club
CreatePlayerBegin(c, t) ==
  /\ t # Nil => club[t] = "ACTIVE" /\ RosterFits(t, Nil)
  /\ Begin(c, "squads", [NoCall EXCEPT !.at = "player", !.team = t])

CreatePlayerWrite(c, p) ==
  /\ At(c, "player") /\ p \notin exists
  /\ exists' = exists \cup {p} /\ added' = [added EXCEPT ![p] = Nil]
  /\ IF call[c].team = Nil THEN Reply(c)
     ELSE /\ call' = [call EXCEPT ![c].at = "add", ![c].player = p]
          /\ UNCHANGED <<desk, calls, overlap>>
  /\ UNCHANGED <<club, users, req, preq, squad, past>>

\* updatePlayer with a club (Nil to release).  Only a move checks the roster
\* size; the closing of the old row and the new row are separate statements.
\* A mutant: no move checks it.
MoveBeginUnchecked(c, p, t) ==
  /\ p \in exists /\ NotInactive(p)
  /\ t # Nil => club[t] = "ACTIVE"
  /\ Begin(c, "squads", [NoCall EXCEPT !.at = "close", !.player = p, !.team = t])
MoveBegin(c, p, t) ==
  /\ p \in exists /\ NotInactive(p)
  /\ t # Nil => club[t] = "ACTIVE" /\ (t \in ClubsOf(p) \/ RosterFits(t, p))
  /\ Begin(c, "squads", [NoCall EXCEPT !.at = "close", !.player = p, !.team = t])

MoveClose(c) ==
  /\ At(c, "close")
  /\ LET rows == {r \in squad : r.player = call[c].player}
     IN  squad' = squad \ rows /\ past' = past \cup rows
  /\ IF call[c].team = Nil THEN Reply(c) ELSE Goto(c, "add")
  /\ UNCHANGED <<club, users, req, preq, exists, added>>

PlayerDeleted(p, rows) ==
  /\ exists' = exists \ {p}
  /\ squad' = {r \in squad : r.player # p} /\ past' = {r \in past : r.player # p}
  /\ preq' = [i \in RequestIds |-> IF rows[i] # Nil /\ rows[i].player = p
                                   THEN [rows[i] EXCEPT !.player = Nil] ELSE rows[i]]

DeletePlayer(p) ==
  /\ AtOnce("squads") /\ p \in exists /\ NotInactive(p)
  /\ PlayerDeleted(p, preq)
  /\ UNCHANGED <<club, users, req, added>>

----------------------------------------------------------------------------
(* Player requests                                                         *)

PlayerRequest(m, kind, p) ==
  [by |-> m, team |-> managed[m], kind |-> kind, player |-> p, status |-> "PENDING"]

\* assertNoPendingPlayerRequest, and the index behind it
NoOtherRequest(id, row) ==
  row.kind # "ADD" => \A i \in RequestIds \ {id} :
    ~(Pending(preq[i]) /\ preq[i].kind # "ADD" /\ preq[i].player = row.player)

MayFile(m, kind, p) ==
  /\ IsManager(m) /\ managed[m] # Nil /\ club[managed[m]] = "ACTIVE"
  /\ IF kind = "ADD" THEN p = Nil ELSE p # Nil /\ Row(p, managed[m]) \in squad

CreatePlayerRequest(m, id, kind, p) ==
  /\ AtOnce("squads") /\ preq[id] = Nil
  /\ MayFile(m, kind, p) /\ NoOtherRequest(id, PlayerRequest(m, kind, p))
  /\ preq' = [preq EXCEPT ![id] = PlayerRequest(m, kind, p)]
  /\ added' = [q \in Players |-> IF added[q] = id THEN "earlier" ELSE added[q]]
  /\ UNCHANGED <<club, users, req, people>>

\* updatePlayerRequest.  A mutant: an approved request can be revised.
RevisePlayerBeginApproved(c, id, kind, p) ==
  /\ preq[id] # Nil
  /\ LET m == preq[id].by
     IN  /\ MayFile(m, kind, p) /\ preq[id].team = managed[m]
         /\ NoOtherRequest(id, PlayerRequest(m, kind, p))
         /\ Begin(c, "squads", [NoCall EXCEPT !.at = "revisePlayer", !.id = id,
                                 !.row = PlayerRequest(m, kind, p)])
RevisePlayerBegin(c, id, kind, p) ==
  /\ preq[id] # Nil /\ preq[id].status # "APPROVED"
  /\ LET m == preq[id].by
     IN  /\ MayFile(m, kind, p) /\ preq[id].team = managed[m]
         /\ NoOtherRequest(id, PlayerRequest(m, kind, p))
         /\ Begin(c, "squads", [NoCall EXCEPT !.at = "revisePlayer", !.id = id,
                                 !.row = PlayerRequest(m, kind, p)])

RevisePlayerWrite(c) ==
  /\ At(c, "revisePlayer")
  /\ LET id == call[c].id  row == call[c].row
     IN  preq' = IF preq[id] # Nil /\ NoOtherRequest(id, row)
                   /\ (row.player = Nil \/ row.player \in exists)
                 THEN [preq EXCEPT ![id] = row] ELSE preq
  /\ Reply(c) /\ UNCHANGED <<club, users, req, people, added>>

DeletePlayerRequest(id) ==
  /\ AtOnce("squads") /\ preq[id] # Nil
  /\ IsManager(preq[id].by) /\ managed[preq[id].by] = preq[id].team
  /\ preq' = [preq EXCEPT ![id] = Nil]
  /\ UNCHANGED <<club, users, req, people, added>>

PlayerStep == [ADD |-> "ADD_PLAYER", UPDATE |-> "UPDATE_PLAYER", REMOVE |-> "REMOVE_PLAYER"]

\* reviewPlayerRequest: neither the manager nor the roster limits are looked at.
ReviewPlayerBegin(c, id, ok) ==
  /\ Pending(preq[id])
  /\ ok => CASE preq[id].kind = "ADD"    -> TRUE
             [] preq[id].kind = "UPDATE" -> preq[id].player # Nil
                                              /\ Row(preq[id].player, preq[id].team) \in squad
             [] preq[id].kind = "REMOVE" -> preq[id].player # Nil
  /\ Begin(c, "squads", [NoCall EXCEPT !.at = IF ok THEN PlayerStep[preq[id].kind] ELSE "rejectPlayer",
                          !.id = id, !.row = preq[id], !.player = preq[id].player])

DecidingPlayer(c, step) == At(c, step) /\ preq[call[c].id] # Nil /\ Reply(c)

RejectPlayerWrite(c) ==
  /\ DecidingPlayer(c, "rejectPlayer")
  /\ preq' = [preq EXCEPT ![call[c].id].status = "REJECTED"]
  /\ UNCHANGED <<club, users, req, people, added>>

ApproveAdd(c, p) ==
  /\ DecidingPlayer(c, "ADD_PLAYER") /\ p \notin exists
  /\ exists' = exists \cup {p}
  /\ Join(p, call[c].row.team)
  /\ preq' = [preq EXCEPT ![call[c].id] = [Approved(@) EXCEPT !.player = p]]
  /\ added' = [added EXCEPT ![p] = call[c].id]
  /\ UNCHANGED <<club, users, req, past>>

ApproveUpdate(c) ==
  /\ DecidingPlayer(c, "UPDATE_PLAYER") /\ call[c].player \in exists
  /\ preq' = [preq EXCEPT ![call[c].id] = Approved(@)]
  /\ UNCHANGED <<club, users, req, people, added>>

\* approveRemovePlayerRequest deletes the player.
ApproveRemove(c) ==
  /\ DecidingPlayer(c, "REMOVE_PLAYER") /\ call[c].player \in exists
  /\ \A r \in squad \cup past : r.player = call[c].player => r.team = call[c].row.team
  /\ PlayerDeleted(call[c].player, [preq EXCEPT ![call[c].id] = Approved(@)])
  /\ UNCHANGED <<club, users, req, added>>

----------------------------------------------------------------------------
\* Any clubs, managers without requests, and squads within their limits.
Init ==
  /\ desk \in Desks
  /\ club \in [Teams -> {Nil} \cup Statuses]
  /\ role \in [Managers -> {Nil, "TEAM_MANAGER"}]
  /\ managed \in [Managers -> Teams \cup {Nil}]
  /\ \A m \in Managers : managed[m] # Nil => IsManager(m) /\ club[managed[m]] # Nil
  /\ \A m, n \in Managers : managed[m] = managed[n] => m = n \/ managed[m] = Nil
  /\ req = [i \in RequestIds |-> Nil] /\ preq = [i \in RequestIds |-> Nil]
  /\ \E member \in [Players -> Teams \cup {Nil}] :
       squad = {Row(p, member[p]) : p \in {q \in Players : member[q] # Nil}}
  /\ exists \in SUBSET Players
  /\ \A r \in squad : club[r.team] # Nil /\ r.player \in exists
  /\ \A t \in Teams : Cardinality(Squad(t)) <= MaxRoster
  /\ desk = "management" => exists = {}
  /\ desk = "squads" => \A m \in Managers : managed[m] # Nil
  /\ past = {}
  /\ call = [c \in Clients |-> NoCall] /\ calls = 0 /\ overlap = FALSE
  /\ added = [p \in Players |-> Nil]

ManagementNext ==
  \/ \E id \in RequestIds, kind \in Kinds, t \in TeamsOrNil, s \in Statuses :
       \/ \E m \in Managers : CreateRequest(m, id, kind, t, s)
       \/ \E c \in Clients : ReviseBegin(c, id, kind, t, s)
  \/ \E c \in Clients :
       \/ \E id \in RequestIds : DeleteBegin(c, id) \/ \E ok \in BOOLEAN : ReviewBegin(c, id, ok)
       \/ \E m \in Managers : LeaveBegin(c, m) \/ \E r \in Roles : RoleBegin(c, m, r)
       \/ ReviseWrite(c) \/ DeleteWrite(c) \/ LeaveWrite(c) \/ RoleWrite(c)
       \/ RejectWrite(c) \/ ClaimWrite(c) \/ UpdateWrite(c) \/ DeleteClubWrite(c)
       \/ \E t \in Teams : CreateWrite(c, t)
  \/ \E t \in Teams : \/ \E m \in Managers \cup {Nil} : CreateTeam(t, m) \/ Assign(t, m)
                      \/ DeleteTeam(t)
  \/ \E m \in Managers : DeleteUser(m) \/ \E t \in TeamsOrNil : CreateUser(m, t)

SquadsNext ==
  \/ \E c \in Clients :
       \/ \E p \in Players : \/ \E t \in Teams : AddBegin(c, p, t)
                             \/ \E t \in TeamsOrNil : MoveBegin(c, p, t)
                             \/ CreatePlayerWrite(c, p) \/ ApproveAdd(c, p)
       \/ \E t \in TeamsOrNil : CreatePlayerBegin(c, t)
       \/ AddWrite(c) \/ MoveClose(c) \/ RevisePlayerWrite(c)
       \/ RejectPlayerWrite(c) \/ ApproveUpdate(c) \/ ApproveRemove(c)
       \/ \E id \in RequestIds, ok \in BOOLEAN : ReviewPlayerBegin(c, id, ok)
  \/ \E p \in Players : DeletePlayer(p) \/ \E t \in Teams : RosterRemove(p, t)
  \/ \E id \in RequestIds : \/ DeletePlayerRequest(id)
       \/ \E kind \in PlayerKinds, p \in Players \cup {Nil} :
            \/ \E m \in Managers : CreatePlayerRequest(m, id, kind, p)
            \/ \E c \in Clients : RevisePlayerBegin(c, id, kind, p)

Next == ManagementNext \/ SquadsNext \/ \E c \in Clients : Die(c)

Spec == Init /\ [][Next]_vars

----------------------------------------------------------------------------
\* As long as HTTP requests do not overlap, no approval and no assignment gives
\* a club a second manager: whoever was a manager before and gets the club gets
\* it alone.  (createUser and updateRole can make a manager of a club that has
\* one: they look at nobody else.)
NoSecondManager ==
  [][\A t \in Teams : \A m \in Managers :
       (IsManager(m) /\ managed[m] # t /\ managed'[m] = t /\ ~overlap)
         => ManagersOf(t)' = {m}]_vars

\* As long as HTTP requests do not overlap, a player is in one club at most:
\* a move closes the old row before it opens the new one, and nobody who has
\* a club is added to another.
OneClubPerPlayer == ~overlap => \A p \in Players : Cardinality(ClubsOf(p)) <= 1

\* As long as HTTP requests do not overlap, the limit of a squad holds for
\* every player that did not come by the approval of a manager's request,
\* which looks at no limit: additions, new players and moves count them all.
SquadsWithinLimit ==
  ~overlap => \A t \in Teams : Cardinality({p \in Squad(t) : added[p] = Nil}) <= MaxRoster

\* As long as HTTP requests do not overlap, a request to add a player adds one
\* player, however often it is refused, revised and reviewed again.
AddsOnePlayer ==
  ~overlap => \A i \in RequestIds : Cardinality({p \in Players : added[p] = i}) <= 1
=============================================================================
