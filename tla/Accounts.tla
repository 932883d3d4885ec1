------------------------------- MODULE Accounts -------------------------------
(***************************************************************************)
(* The account of one e-mail address: its row in users, its one-time codes *)
(* (otp_codes) and its sessions (refresh_tokens), under the requests of    *)
(* auth.service.ts and users.service.ts.                                   *)
(*                                                                         *)
(* A request runs one SQL statement or transaction per step, so requests   *)
(* interleave between statements, and one may die between two of them (a   *)
(* crash, a lost connection, a mail server that refuses the message).      *)
(* Bodies are abstract: a password is a value, a code the number of its    *)
(* row.  A code ages: "new" within OTP_COOLDOWN_SECONDS, "live" until      *)
(* OTP_EXPIRATION_MINUTES have passed, "dead" afterwards.                  *)
(***************************************************************************)
EXTENDS Naturals, FiniteSets

CONSTANTS Clients, Passwords, Nil,
          MaxUsers, MaxCodes, MaxSessions   \* bounds on rows ever created

Types == {"EMAIL_VERIFICATION", "PASSWORD_RESET"}
Ages  == {"new", "live", "dead"}
Users == [id : Nat, verified : BOOLEAN, pw : Passwords \cup {Nil}, linked : BOOLEAN,
          resets : Nat]

\* No row and no number is the null of the database.
ASSUME NilIsNull == Nil \notin Users /\ Nil \notin Nat

VARIABLES
  account,   \* the row in users of the e-mail address, or Nil
  users,     \* number of such rows ever created
  codes,     \* otp_codes
  sent,      \* number of codes ever created, and mailed
  sessions,  \* refresh_tokens
  opened,    \* number of sessions ever opened
  call,      \* where each client's request is
  overlap    \* history: two requests have been in flight together

rows == <<account, users, codes, sent, sessions, opened>>
vars == <<rows, call, overlap>>

NoCall == [at |-> "none", user |-> Nil, type |-> Nil, code |-> Nil, pw |-> Nil,
           epoch |-> 0]

----------------------------------------------------------------------------
(* Requests                                                                *)

Busy(c) == call[c].at # "none"
At(c, step) == call[c].at = step
Goto(c, local) == call' = [call EXCEPT ![c] = local] /\ UNCHANGED overlap
Next2(c, step) == Goto(c, [call[c] EXCEPT !.at = step])
Reply(c) == Goto(c, NoCall)

\* A request begins; a request that is refused at once changes nothing.
Begin(c, local) ==
  /\ ~Busy(c)
  /\ call' = [call EXCEPT ![c] = local]
  /\ overlap' = (overlap \/ \E d \in Clients \ {c} : Busy(d))
  /\ UNCHANGED rows

\* The rows other statements find.
Mine(id) == account # Nil /\ account.id = id
Usable(code) == ~code.used /\ code.age # "dead"
Latest(S) == CHOOSE m \in S : \A k \in S : k.n <= m.n

\* onDelete: Cascade
DeleteAccount == account' = Nil /\ codes' = {} /\ sessions' = {}

CreateAccount(verified, pw, linked) ==
  /\ users < MaxUsers
  /\ users' = users + 1
  /\ account' = [id |-> users + 1, verified |-> verified, pw |-> pw,
                 linked |-> linked, resets |-> 0]

----------------------------------------------------------------------------
(* register                                                                *)

RegisterBegin(c, pw) ==
  /\ account # Nil => ~account.verified
  /\ Begin(c, [NoCall EXCEPT !.pw = pw, !.type = "EMAIL_VERIFICATION",
                !.at = IF account = Nil THEN "registerCreate" ELSE "registerDelete",
                !.user = IF account = Nil THEN Nil ELSE account.id])

\* An account that nobody has verified makes room; P2025 if it is gone.
RegisterDelete(c) ==
  /\ At(c, "registerDelete")
  /\ IF Mine(call[c].user)
     THEN DeleteAccount /\ Next2(c, "registerCreate") /\ UNCHANGED <<users, sent, opened>>
     ELSE Reply(c) /\ UNCHANGED rows

\* P2002 if the address has an account by now.
RegisterCreate(c) ==
  /\ At(c, "registerCreate")
  /\ IF account = Nil
     THEN /\ CreateAccount(FALSE, call[c].pw, FALSE)
          /\ Goto(c, [call[c] EXCEPT !.at = "newCode", !.user = users + 1])
          /\ UNCHANGED <<codes, sent, sessions, opened>>
     ELSE Reply(c) /\ UNCHANGED rows

\* otpCode.create; the foreign key refuses a code for a user who is gone.
NewCode(c) ==
  /\ At(c, "newCode") /\ sent < MaxCodes
  /\ IF Mine(call[c].user)
     THEN /\ codes' = codes \cup {[n |-> sent + 1, type |-> call[c].type,
                                   age |-> "new", used |-> FALSE]}
          /\ sent' = sent + 1
     ELSE UNCHANGED <<codes, sent>>
  /\ Reply(c)
  /\ UNCHANGED <<account, users, sessions, opened>>

----------------------------------------------------------------------------
(* resendVerificationOtp and forgotPassword                                *)

RequestCodeBegin(c, type) ==
  /\ account # Nil /\ account.verified = (type = "PASSWORD_RESET")
  /\ Begin(c, [NoCall EXCEPT !.at = "cooldown", !.type = type, !.user = account.id])

CodesOf(id, type) == IF Mine(id) THEN {k \in codes : k.type = type} ELSE {}

RequestCodeCooldown(c) ==
  /\ At(c, "cooldown")
  /\ LET S == CodesOf(call[c].user, call[c].type)
     IN  IF S # {} /\ Latest(S).age = "new" THEN Reply(c) ELSE Next2(c, "invalidate")
  /\ UNCHANGED rows

\* A mutant: the codes already sent stay usable.
RequestCodeInvalidateNone(c) ==
  /\ At(c, "invalidate")
  /\ Next2(c, "newCode")
  /\ UNCHANGED rows

RequestCodeInvalidate(c) ==
  /\ At(c, "invalidate")
  /\ codes' = {IF k \in CodesOf(call[c].user, call[c].type)
               THEN [k EXCEPT !.used = TRUE] ELSE k : k \in codes}
  /\ Next2(c, "newCode")
  /\ UNCHANGED <<account, users, sent, sessions, opened>>

----------------------------------------------------------------------------
(* verifyEmail and resetPassword                                           *)

UseCodeBegin(c, type, n, pw) ==
  /\ account # Nil
  /\ type = "EMAIL_VERIFICATION" => ~account.verified
  /\ Begin(c, [NoCall EXCEPT !.at = "findCode", !.type = type, !.code = n,
                             !.pw = pw, !.user = account.id])

UseCodeFind(c) ==
  /\ At(c, "findCode")
  /\ IF \E k \in CodesOf(call[c].user, call[c].type) : k.n = call[c].code /\ Usable(k)
     THEN Next2(c, "useCode") ELSE Reply(c)
  /\ UNCHANGED rows

Spend(n) == codes' = {IF k.n = n THEN [k EXCEPT !.used = TRUE] ELSE k : k \in codes}

\* One transaction: it rolls back if the code or the user is gone (P2025).
Found(c) == Mine(call[c].user) /\ \E k \in codes : k.n = call[c].code

VerifyWrite(c) ==
  /\ At(c, "useCode") /\ call[c].type = "EMAIL_VERIFICATION"
  /\ IF Found(c)
     THEN Spend(call[c].code) /\ account' = [account EXCEPT !.verified = TRUE]
     ELSE UNCHANGED <<codes, account>>
  /\ Reply(c)
  /\ UNCHANGED <<users, sent, sessions, opened>>

\* A mutant: sessions survive the reset.
ResetWriteOnly(c) ==
  /\ At(c, "useCode") /\ call[c].type = "PASSWORD_RESET"
  /\ IF Found(c)
     THEN /\ Spend(call[c].code)
          /\ account' = [account EXCEPT !.pw = call[c].pw, !.resets = @ + 1]
     ELSE UNCHANGED <<codes, account>>
  /\ Reply(c)
  /\ UNCHANGED <<users, sent, sessions, opened>>

ResetWrite(c) ==
  /\ At(c, "useCode") /\ call[c].type = "PASSWORD_RESET"
  /\ IF Found(c)
     THEN /\ Spend(call[c].code)
          /\ account' = [account EXCEPT !.pw = call[c].pw, !.resets = @ + 1]
          /\ sessions' = {[s EXCEPT !.valid = FALSE] : s \in sessions}
     ELSE UNCHANGED <<codes, account, sessions>>
  /\ Reply(c)
  /\ UNCHANGED <<users, sent, opened>>

----------------------------------------------------------------------------
(* login, googleLogin and facebookLogin                                    *)

\* A mutant: the right password is enough.
LoginBeginUnverified(c, pw) ==
  /\ account # Nil /\ account.pw = pw
  /\ Begin(c, [NoCall EXCEPT !.at = "openSession", !.user = account.id,
                             !.epoch = account.resets])

LoginBegin(c, pw) ==
  /\ account # Nil /\ account.pw = pw /\ account.verified
  /\ Begin(c, [NoCall EXCEPT !.at = "openSession", !.user = account.id,
                             !.epoch = account.resets])

\* The provider's id is looked up first, then the e-mail address.
OAuthBegin(c) ==
  LET linked == account # Nil /\ account.linked
  IN  Begin(c, [NoCall EXCEPT !.at = IF linked THEN "oauthUpdate" ELSE "oauthEmail",
                              !.user = IF linked THEN account.id ELSE Nil])

OAuthEmail(c) ==
  /\ At(c, "oauthEmail")
  /\ Goto(c, [call[c] EXCEPT !.at = IF account = Nil THEN "oauthCreate" ELSE "oauthUpdate",
                             !.user = IF account = Nil THEN Nil ELSE account.id])
  /\ UNCHANGED rows

OpenSession(c, id, epoch) ==
  Goto(c, [call[c] EXCEPT !.at = "openSession", !.user = id, !.epoch = epoch])

\* Linking an account verifies it: the provider vouches for the address.
OAuthUpdate(c) ==
  /\ At(c, "oauthUpdate")
  /\ IF Mine(call[c].user)
     THEN /\ account' = [account EXCEPT !.linked = TRUE, !.verified = TRUE]
          /\ OpenSession(c, account.id, account.resets)
     ELSE Reply(c) /\ UNCHANGED account
  /\ UNCHANGED <<users, codes, sent, sessions, opened>>

OAuthCreate(c) ==
  /\ At(c, "oauthCreate")
  /\ IF account = Nil
     THEN CreateAccount(TRUE, Nil, TRUE) /\ OpenSession(c, users + 1, 0)
     ELSE Reply(c) /\ UNCHANGED <<account, users>>
  /\ UNCHANGED <<codes, sent, sessions, opened>>

\* generateTokens: the foreign key refuses a session of a user who is gone.
GenerateTokens(c) ==
  /\ At(c, "openSession") /\ opened < MaxSessions
  /\ IF Mine(call[c].user)
     THEN /\ sessions' = sessions \cup {[n |-> opened + 1, valid |-> TRUE,
                                         epoch |-> call[c].epoch]}
          /\ opened' = opened + 1
     ELSE UNCHANGED <<sessions, opened>>
  /\ Reply(c)
  /\ UNCHANGED <<account, users, codes, sent>>

----------------------------------------------------------------------------
(* changePassword and setPassword; logout, revokeSession and logoutAll     *)

ChangePasswordBegin(c, old, new) ==
  /\ account # Nil /\ account.pw = old /\ old # new
  /\ Begin(c, [NoCall EXCEPT !.at = "writePassword", !.user = account.id, !.pw = new])

SetPasswordBegin(c, new) == ChangePasswordBegin(c, Nil, new)

WritePassword(c) ==
  /\ At(c, "writePassword")
  /\ account' = IF Mine(call[c].user) THEN [account EXCEPT !.pw = call[c].pw] ELSE account
  /\ Reply(c)
  /\ UNCHANGED <<users, codes, sent, sessions, opened>>

RevokeSession(n) ==
  /\ \E s \in sessions : s.n = n /\ s.valid
  /\ sessions' = {IF s.n = n THEN [s EXCEPT !.valid = FALSE] ELSE s : s \in sessions}
  /\ UNCHANGED <<account, users, codes, sent, opened, call, overlap>>

LogoutAll ==
  /\ \E s \in sessions : s.valid
  /\ sessions' = {[s EXCEPT !.valid = FALSE] : s \in sessions}
  /\ UNCHANGED <<account, users, codes, sent, opened, call, overlap>>

----------------------------------------------------------------------------
(* createUser and deleteUser of the administrator                          *)

CreateUserBegin(c, pw) ==
  /\ account = Nil
  /\ Begin(c, [NoCall EXCEPT !.at = "createUser", !.pw = pw])

CreateUserWrite(c) ==
  /\ At(c, "createUser")
  /\ IF account = Nil THEN CreateAccount(TRUE, call[c].pw, FALSE)
                      ELSE UNCHANGED <<account, users>>
  /\ Reply(c)
  /\ UNCHANGED <<codes, sent, sessions, opened>>

DeleteUserBegin(c) ==
  /\ account # Nil
  /\ Begin(c, [NoCall EXCEPT !.at = "deleteCodes", !.user = account.id])

DeleteUserCodes(c) ==
  /\ At(c, "deleteCodes")
  /\ codes' = IF Mine(call[c].user) THEN {} ELSE codes
  /\ Next2(c, "deleteSessions")
  /\ UNCHANGED <<account, users, sent, sessions, opened>>

DeleteUserSessions(c) ==
  /\ At(c, "deleteSessions")
  /\ sessions' = IF Mine(call[c].user) THEN {} ELSE sessions
  /\ Next2(c, "deleteUser")
  /\ UNCHANGED <<account, users, codes, sent, opened>>

DeleteUserWrite(c) ==
  /\ At(c, "deleteUser")
  /\ IF Mine(call[c].user) THEN DeleteAccount ELSE UNCHANGED <<account, codes, sessions>>
  /\ Reply(c)
  /\ UNCHANGED <<users, sent, opened>>

----------------------------------------------------------------------------
\* The request ends here: a crash, a lost connection, a mail that fails.
Die(c) == Busy(c) /\ Reply(c) /\ UNCHANGED rows

\* Time passes; an older code is never younger than a newer one.
Older(age) == IF age = "new" THEN "live" ELSE "dead"
Tick ==
  \E k \in codes :
    /\ k.age # "dead" /\ \A j \in codes : j.n < k.n => j.age # k.age
    /\ \A j \in codes : j.n < k.n /\ k.age = "live" => j.age = "dead"
    /\ codes' = (codes \ {k}) \cup {[k EXCEPT !.age = Older(@)]}
    /\ UNCHANGED <<account, users, sent, sessions, opened, call, overlap>>

Init ==
  /\ account = Nil /\ users = 0 /\ codes = {} /\ sent = 0
  /\ sessions = {} /\ opened = 0
  /\ call = [c \in Clients |-> NoCall] /\ overlap = FALSE

Next ==
  \/ \E c \in Clients :
       \/ RegisterDelete(c) \/ RegisterCreate(c) \/ NewCode(c)
       \/ \E t \in Types : RequestCodeBegin(c, t)
       \/ RequestCodeCooldown(c) \/ RequestCodeInvalidate(c)
       \/ \E n \in 1..sent : UseCodeBegin(c, "EMAIL_VERIFICATION", n, Nil)
       \/ \E n \in 1..sent, pw \in Passwords : UseCodeBegin(c, "PASSWORD_RESET", n, pw)
       \/ UseCodeFind(c) \/ VerifyWrite(c) \/ ResetWrite(c)
       \/ OAuthBegin(c) \/ OAuthEmail(c) \/ OAuthUpdate(c) \/ OAuthCreate(c)
       \/ GenerateTokens(c) \/ WritePassword(c)
       \/ \E pw \in Passwords : \/ RegisterBegin(c, pw) \/ LoginBegin(c, pw)
                                \/ SetPasswordBegin(c, pw) \/ CreateUserBegin(c, pw)
       \/ \E old, new \in Passwords : ChangePasswordBegin(c, old, new)
       \/ DeleteUserBegin(c) \/ DeleteUserCodes(c) \/ DeleteUserSessions(c)
       \/ CreateUserWrite(c) \/ DeleteUserWrite(c) \/ Die(c)
  \/ \E n \in 1..opened : RevokeSession(n)
  \/ LogoutAll \/ Tick

Spec == Init /\ [][Next]_vars

----------------------------------------------------------------------------
\* Types of the rows and of what requests remember; no id is ahead of its counter.
Steps == {"none", "registerDelete", "registerCreate", "newCode", "cooldown",
          "invalidate", "findCode", "useCode", "openSession", "oauthUpdate",
          "oauthEmail", "oauthCreate", "writePassword", "createUser",
          "deleteCodes", "deleteSessions", "deleteUser"}
Calls == [at : Steps, user : Nat \cup {Nil}, type : Types \cup {Nil},
          code : Nat \cup {Nil}, pw : Passwords \cup {Nil}, epoch : Nat]
TypeOK ==
  /\ account \in Users \cup {Nil}
  /\ users \in Nat /\ sent \in Nat /\ opened \in Nat
  /\ codes \subseteq [n : Nat, type : Types \cup {Nil}, age : Ages, used : BOOLEAN]
  /\ sessions \subseteq [n : Nat, valid : BOOLEAN, epoch : Nat]
  /\ call \in [Clients -> Calls] /\ overlap \in BOOLEAN
  /\ account # Nil => account.id <= users
  /\ \A c \in Clients : call[c].user # Nil => call[c].user <= users

\* Whatever requests race and wherever they die, a session that the API honours
\* belongs to an account whose address has been verified: neither the deletion
\* of an unverified account by register nor the three deletes of deleteUser
\* leave a session behind.
VerifiedSessions ==
  \A s \in sessions : s.valid => account # Nil /\ account.verified

\* As long as requests for the account do not overlap, only the latest code of
\* a kind opens anything: older ones were used up when it was sent.
OneUsableCode ==
  ~overlap => \A k, m \in codes : k.type = m.type /\ Usable(k) /\ Usable(m) => k = m

\* As long as requests for the account do not overlap, no session that was
\* opened before a password reset outlives it.
ResetEndsSessions ==
  ~overlap => \A s \in sessions : s.valid => s.epoch = account.resets
=============================================================================
