------------------------------- MODULE Session -------------------------------
(***************************************************************************)
(* One browser tab of the web application and its session with the API:    *)
(* the axios interceptors of apps/web/src/lib/api.ts, the AuthProvider of  *)
(* apps/web/src/auth/AuthContext.tsx, and what auth.service.ts answers to  *)
(* login, refresh and logout.                                              *)
(*                                                                         *)
(* A session is a row of refresh_tokens.  An access token is the session   *)
(* it was minted for and its place in the order of issue; the API expires  *)
(* access tokens in that order.  A fetch is "sent" until the server has    *)
(* answered it or the browser has given up on it ("lost": a network        *)
(* error, or any status the interceptor rejects without a look, 429 and    *)
(* 5xx included); the tab handles the answer in a step of its own, so that *)
(* answers are handled in any order.  Another tab shares the localStorage  *)
(* of this one, other devices reach the same account.                      *)
(***************************************************************************)
EXTENDS Naturals

CONSTANTS Requests,    \* slots for api calls to protected endpoints
          Sessions,    \* identities of refresh tokens
          MaxIssued,   \* bound on the access tokens the API issues
          None

ASSUME NoneIsNoSession == None \notin Sessions
ASSUME BoundIsNatural == MaxIssued \in Nat

VARIABLES
  token,     \* refresh_tokens: "none" (no row), "valid" or "revoked"
  issued,    \* number of access tokens issued so far
  expired,   \* access tokens 1..expired have expired
  storage,   \* localStorage.refreshToken
  mem,       \* accessTokenMem
  user,      \* the session of the user AuthContext shows, or None
  req,       \* the protected requests
  refreshing,\* the POST /auth/refresh of the interceptor (isRefreshing)
  queue,     \* pendingQueue: requests that wait for it
  entry,     \* login() or the bootstrap of AuthProvider in flight
  logout     \* logout() in flight

server  == <<token, issued, expired>>
tab     == <<storage, mem, user>>
calls   == <<req, refreshing, queue, entry, logout>>
tabVars == <<server, tab, calls>>

AccessTokens == [session : Sessions, n : 1..MaxIssued]
OrNone(S) == S \cup {None}

Idle    == [st |-> "idle", auth |-> None, retry |-> FALSE]
NoFetch == [st |-> "none", rt |-> None, got |-> None]
NoEntry == [kind |-> "none", st |-> "none", rt |-> None, got |-> None]

----------------------------------------------------------------------------
(* The server                                                              *)

\* Signature and expiry; a revoked session does not end an access token.
Accepts(auth) == auth # None /\ auth.n > expired

Minted(s) == [session |-> s, n |-> issued + 1]

\* The answers to a refresh with rt: a new access token, a refusal, or loss.
RefreshAnswer(rt, got) ==
  \/ /\ token[rt] = "valid" /\ issued < MaxIssued
     /\ issued' = issued + 1 /\ got.st = "ok" /\ got.token = Minted(rt)
  \/ /\ token[rt] # "valid"
     /\ got.st = "refused" /\ got.token = None /\ UNCHANGED issued
  \/ /\ got.st = "lost" /\ got.token = None /\ UNCHANGED issued

Answers == [st : {"ok", "refused", "lost"}, token : OrNone(AccessTokens)]

----------------------------------------------------------------------------
(* The tab                                                                 *)

\* applySession(at, u, rt)
ApplySession(at, s, rt) == mem' = at /\ user' = s /\ storage' = rt
\* A mutant: the refresh token stays in localStorage.
ClearSessionInMemory == ApplySession(None, None, storage)

\* applySession(null, null, null), which the 'auth:expired' handler runs
ClearSession == ApplySession(None, None, None)

\* React renders nothing but "Loading..." until the bootstrap has ended.
Ready == entry.kind # "bootstrap"

\* A page calls the API: the request interceptor attaches accessTokenMem.
Send(q) ==
  /\ Ready /\ req[q].st = "idle"
  /\ req' = [req EXCEPT ![q] = [st |-> "sent", auth |-> mem, retry |-> FALSE]]
  /\ UNCHANGED <<server, tab, refreshing, queue, entry, logout>>

\* JwtStrategy answers 401 to a dead token.  Any other answer or none, and the
\* 401 of a retried request, the interceptor hands on to the page: it settles.
Respond(q) ==
  /\ req[q].st = "sent"
  /\ \/ req' = [req EXCEPT ![q] = Idle]
     \/ /\ ~Accepts(req[q].auth) /\ ~req[q].retry
        /\ req' = [req EXCEPT ![q] = [Idle EXCEPT !.st = "401"]]
  /\ UNCHANGED <<server, tab, refreshing, queue, entry, logout>>

\* A first 401 with no refresh token: 'auth:expired'.
Expire(q) ==
  /\ req[q].st = "401" /\ storage = None
  /\ req' = [req EXCEPT ![q] = Idle]
  /\ ClearSession
  /\ UNCHANGED <<server, refreshing, queue, entry, logout>>

\* A mutant: a 401 during a refresh means that the session has expired.
EnqueueExpired(q) ==
  /\ req[q].st = "401" /\ refreshing.st # "none"
  /\ req' = [req EXCEPT ![q] = Idle]
  /\ ClearSession
  /\ UNCHANGED <<server, refreshing, queue, entry, logout>>

\* A first 401 while a refresh is in flight waits for it.
Enqueue(q) ==
  /\ req[q].st = "401" /\ storage # None
  /\ refreshing.st # "none"
  /\ queue' = queue \cup {q}
  /\ req' = [req EXCEPT ![q].st = "queued", ![q].retry = TRUE]
  /\ UNCHANGED <<server, tab, refreshing, entry, logout>>

\* The first 401 starts the refresh; its request resumes with the queue.
StartRefresh(q) ==
  /\ req[q].st = "401" /\ storage # None
  /\ refreshing.st = "none"
  /\ refreshing' = [st |-> "sent", rt |-> storage, got |-> None]
  /\ req' = [req EXCEPT ![q].st = "waiting", ![q].retry = TRUE]
  /\ UNCHANGED <<server, tab, queue, entry, logout>>

RespondRefresh ==
  /\ refreshing.st = "sent"
  /\ \E got \in Answers :
       /\ RefreshAnswer(refreshing.rt, got)
       /\ refreshing' = [refreshing EXCEPT !.st = got.st, !.got = got.token]
  /\ UNCHANGED <<token, expired, tab, req, queue, entry, logout>>

\* The requests a finished refresh wakes up.
Woken == {q \in Requests : req[q].st = "waiting"} \cup queue

\* Mutants: the queue is not flushed when the refresh succeeds, or fails.
RefreshDoneUnflushed ==
  /\ refreshing.st = "ok"
  /\ mem' = refreshing.got
  /\ req' = [q \in Requests |-> IF req[q].st = "waiting"
               THEN [st |-> "sent", auth |-> refreshing.got, retry |-> TRUE]
               ELSE req[q]]
  /\ refreshing' = NoFetch
  /\ UNCHANGED <<server, storage, user, queue, entry, logout>>

RefreshFailedUnflushed ==
  /\ refreshing.st \in {"refused", "lost"}
  /\ ClearSession
  /\ req' = [q \in Requests |-> IF req[q].st = "waiting" THEN Idle ELSE req[q]]
  /\ refreshing' = NoFetch
  /\ UNCHANGED <<server, queue, entry, logout>>

\* setAccessToken and flushQueue(token): all of them are sent again.
RefreshDone ==
  /\ refreshing.st = "ok"
  /\ mem' = refreshing.got
  /\ req' = [q \in Requests |-> IF q \in Woken
               THEN [st |-> "sent", auth |-> refreshing.got, retry |-> TRUE]
               ELSE req[q]]
  /\ queue' = {} /\ refreshing' = NoFetch
  /\ UNCHANGED <<server, storage, user, entry, logout>>

\* catch: any error clears the session, flushQueue(null) rejects the queue.
RefreshFailed ==
  /\ refreshing.st \in {"refused", "lost"}
  /\ ClearSession
  /\ req' = [q \in Requests |-> IF q \in Woken THEN Idle ELSE req[q]]
  /\ queue' = {} /\ refreshing' = NoFetch
  /\ UNCHANGED <<server, entry, logout>>

\* LoginPage is shown to nobody who is logged in.
Login ==
  /\ entry = NoEntry /\ user = None
  /\ entry' = [NoEntry EXCEPT !.kind = "login", !.st = "sent"]
  /\ UNCHANGED <<server, tab, req, refreshing, queue, logout>>

\* generateTokens: a refresh token of its own for every login.
RespondLogin ==
  /\ entry.kind = "login" /\ entry.st = "sent"
  /\ \/ /\ entry' = [entry EXCEPT !.st = "lost"]
        /\ UNCHANGED <<token, issued>>
     \/ \E s \in Sessions :
          /\ token[s] = "none" /\ issued < MaxIssued
          /\ token' = [token EXCEPT ![s] = "valid"]
          /\ issued' = issued + 1
          /\ entry' = [entry EXCEPT !.st = "ok", !.rt = s, !.got = Minted(s)]
  /\ UNCHANGED <<expired, tab, req, refreshing, queue, logout>>

LoginDone ==
  /\ entry.kind = "login" /\ entry.st # "sent"
  /\ IF entry.st = "ok" THEN ApplySession(entry.got, entry.rt, entry.rt)
                        ELSE UNCHANGED tab
  /\ entry' = NoEntry
  /\ UNCHANGED <<server, req, refreshing, queue, logout>>

\* The page is loaded again, by the user or by an OAuth redirect that failed.
Reload ==
  /\ mem' = None /\ user' = None /\ UNCHANGED storage
  /\ req' = [q \in Requests |-> Idle] /\ queue' = {}
  /\ refreshing' = NoFetch /\ logout' = NoFetch
  /\ entry' = IF storage = None THEN NoEntry
              ELSE [kind |-> "bootstrap", st |-> "sent", rt |-> storage, got |-> None]
  /\ UNCHANGED server

RespondBootstrap ==
  /\ entry.kind = "bootstrap" /\ entry.st = "sent"
  /\ \E got \in Answers :
       /\ RefreshAnswer(entry.rt, got)
       /\ entry' = [entry EXCEPT !.st = got.st, !.got = got.token]
  /\ UNCHANGED <<token, expired, tab, req, refreshing, queue, logout>>

\* A mutant: the user of the stored token, not of the token that came back.
BootstrapDoneStored ==
  /\ entry.kind = "bootstrap" /\ entry.st # "sent"
  /\ IF entry.st = "ok" THEN ApplySession(entry.got, storage, storage)
                        ELSE ClearSession
  /\ entry' = NoEntry
  /\ UNCHANGED <<server, req, refreshing, queue, logout>>

BootstrapDone ==
  /\ entry.kind = "bootstrap" /\ entry.st # "sent"
  /\ IF entry.st = "ok" THEN ApplySession(entry.got, entry.rt, storage)
                        ELSE ClearSession
  /\ entry' = NoEntry
  /\ UNCHANGED <<server, req, refreshing, queue, logout>>

\* The user leaves: without a refresh token there is nothing to tell the API.
Logout ==
  /\ user # None /\ logout = NoFetch
  /\ IF storage = None
     THEN ClearSession /\ UNCHANGED logout
     ELSE logout' = [NoFetch EXCEPT !.st = "sent", !.rt = storage] /\ UNCHANGED tab
  /\ UNCHANGED <<server, req, refreshing, queue, entry>>

Revoked(rt) == [token EXCEPT ![rt] = IF @ = "valid" THEN "revoked" ELSE @]

RespondLogout ==
  /\ logout.st = "sent"
  /\ \/ token' = Revoked(logout.rt) \* the answer may be lost all the same
     \/ UNCHANGED token
  /\ logout' = [logout EXCEPT !.st = "done"]
  /\ UNCHANGED <<issued, expired, tab, req, refreshing, queue, entry>>

\* finally: the tab forgets its session whatever the API has answered.
LogoutDone ==
  /\ logout.st = "done"
  /\ ClearSession
  /\ logout' = NoFetch
  /\ UNCHANGED <<server, req, refreshing, queue, entry>>

----------------------------------------------------------------------------
(* The rest of the world                                                   *)

\* The oldest live access token reaches JWT_ACCESS_TTL.
AccessTokenExpires ==
  /\ expired < issued
  /\ expired' = expired + 1
  /\ UNCHANGED <<token, issued, tab, calls>>

\* logoutAll, revokeSession or resetPassword, from another device.
RevokeElsewhere(s) ==
  /\ token[s] = "valid"
  /\ token' = Revoked(s)
  /\ UNCHANGED <<issued, expired, tab, calls>>

\* Another tab of the same browser logs in or out.
OtherTabLogin(s) ==
  /\ storage = None /\ token[s] = "none"
  /\ token' = [token EXCEPT ![s] = "valid"]
  /\ storage' = s
  /\ UNCHANGED <<issued, expired, mem, user, calls>>

OtherTabLogout ==
  /\ storage # None
  /\ token' = Revoked(storage)
  /\ storage' = None
  /\ UNCHANGED <<issued, expired, mem, user, calls>>

----------------------------------------------------------------------------
TabInit ==
  /\ token = [s \in Sessions |-> "none"] /\ issued = 0 /\ expired = 0
  /\ storage = None /\ mem = None /\ user = None
  /\ req = [q \in Requests |-> Idle] /\ queue = {}
  /\ refreshing = NoFetch /\ entry = NoEntry /\ logout = NoFetch

TabNext ==
  \/ \E q \in Requests : \/ Send(q) \/ Respond(q)
                         \/ Expire(q) \/ Enqueue(q) \/ StartRefresh(q)
  \/ RespondRefresh \/ RefreshDone \/ RefreshFailed
  \/ Login \/ RespondLogin \/ LoginDone
  \/ Reload \/ RespondBootstrap \/ BootstrapDone
  \/ Logout \/ RespondLogout \/ LogoutDone
  \/ AccessTokenExpires \/ OtherTabLogout
  \/ \E s \in Sessions : RevokeElsewhere(s) \/ OtherTabLogin(s)

\* A fetch settles, if only with the browser's own error, and the event loop
\* runs the callback of a settled promise.  Nothing makes the user, the other
\* tab or the clock move.
Fairness ==
  /\ \A q \in Requests : /\ WF_tabVars(Respond(q)) /\ WF_tabVars(Expire(q))
                         /\ WF_tabVars(Enqueue(q) \/ StartRefresh(q))
  /\ WF_tabVars(RespondRefresh) /\ WF_tabVars(RefreshDone \/ RefreshFailed)
  /\ WF_tabVars(RespondLogin) /\ WF_tabVars(LoginDone)
  /\ WF_tabVars(RespondBootstrap) /\ WF_tabVars(BootstrapDone)
  /\ WF_tabVars(RespondLogout) /\ WF_tabVars(LogoutDone)

TabSpec == TabInit /\ [][TabNext]_tabVars /\ Fairness

----------------------------------------------------------------------------
\* Types of the server's rows, the browser's storage and the calls in flight.
TabTypeOK ==
  /\ token \in [Sessions -> {"none", "valid", "revoked"}]
  /\ issued \in 0..MaxIssued /\ expired \in 0..issued
  /\ storage \in OrNone(Sessions) /\ user \in OrNone(Sessions)
  /\ mem \in OrNone(AccessTokens)
  /\ req \in [Requests -> [st : {"idle", "sent", "401", "queued", "waiting"},
                           auth : OrNone(AccessTokens), retry : BOOLEAN]]
  /\ queue \subseteq Requests
  /\ refreshing \in [st : {"none", "sent", "ok", "refused", "lost"},
                     rt : OrNone(Sessions), got : OrNone(AccessTokens)]
  /\ refreshing.st # "none" => refreshing.rt \in Sessions
  /\ entry \in [kind : {"none", "login", "bootstrap"},
                st : {"none", "sent", "ok", "refused", "lost"},
                rt : OrNone(Sessions), got : OrNone(AccessTokens)]
  /\ entry.kind = "bootstrap" => entry.rt \in Sessions
  /\ logout \in [st : {"none", "sent", "done"}, rt : OrNone(Sessions), got : {None}]
  /\ logout.st # "none" => logout.rt \in Sessions

\* A request waits only for a refresh that is in flight: at most one started
\* it, and every other one that waits is in pendingQueue.
WaitsForRefresh ==
  LET starter == {q \in Requests : req[q].st = "waiting"}
  IN  /\ queue = {q \in Requests : req[q].st = "queued"}
      /\ queue # {} => refreshing.st # "none"
      /\ refreshing.st # "none" => \E q \in Requests : starter = {q}

\* A token in memory and a user on screen belong to the same session, unless
\* the token was fetched by a refresh with a refresh token that was not the
\* user's: one that this tab started under an earlier user or that it read
\* after another tab had changed it.
Strange(at, s) == at # None /\ s # None /\ at.session # s
TokenOfTheUser ==
  [][Strange(mem', user') /\ ~Strange(mem, user)
       => refreshing.st = "ok" /\ refreshing'.st = "none" /\ refreshing.rt # user]_tabVars

\* The tab drops a session that the API still honours only when the user logs
\* out in one of the tabs, when a refresh was lost, or when the refresh that
\* was refused had been started with another refresh token.
SessionKept ==
  [][storage # None /\ storage' = None /\ token[storage] = "valid" =>
       \/ logout.st = "done" \/ OtherTabLogout
       \/ refreshing.st = "lost" \/ entry.st = "lost"
       \/ (refreshing.st = "refused" /\ refreshing.rt # storage)
       \/ (entry.st = "refused" /\ entry.rt # storage)]_tabVars

\* Every request settles: none hangs in pendingQueue or behind a refresh.
EveryRequestSettles ==
  \A q \in Requests : (req[q].st # "idle") ~> (req[q].st = "idle")

\* Logging out everywhere reaches this tab: once the API has answered 401 to a
\* request of a revoked session, the tab forgets that session, unless the
\* user loads the page again first.
RevocationArrives ==
  \A q \in Requests, s \in Sessions :
    (/\ req[q].st = "401" /\ refreshing.st = "none"
     /\ storage = s /\ token[s] = "revoked") ~> (storage # s \/ ~Ready)

=============================================================================
