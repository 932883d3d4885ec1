----------------------------- MODULE AuthProofs -----------------------------
(***************************************************************************)
(* Proofs about the two ends of a login: Accounts, the API's, for every    *)
(* number of requests, users, codes and sessions, and Session, the browser *)
(* tab's, for every number of requests and of sessions.                    *)
(***************************************************************************)
EXTENDS Accounts, Session, TLAPS

-----------------------------------------------------------------------------
(* Accounts.                                                               *)


\* What a request that is about to open a session has established.  Whoever it
\* has looked up was verified, and no statement takes that back: the address
\* gets an unverified account only under an id that nobody has looked up yet.
OpensForVerified ==
  \A c \in Clients : At(c, "openSession") /\ Mine(call[c].user) => account.verified

IInv == TypeOK /\ OpensForVerified /\ VerifiedSessions

\* The part of TypeOK about the tables.
RowsOK ==
  /\ account \in Users \cup {Nil}
  /\ users \in Nat /\ sent \in Nat /\ opened \in Nat
  /\ codes \subseteq [n : Nat, type : Types \cup {Nil}, age : Ages, used : BOOLEAN]
  /\ sessions \subseteq [n : Nat, valid : BOOLEAN, epoch : Nat]
  /\ account # Nil => account.id <= users

\* What may become of the account: it goes, it comes under a new id, or it
\* keeps its id and does not lose its verification.
AccountStep ==
  \/ account' = Nil
  \/ account = Nil /\ account'.id = users + 1
  \/ account # Nil /\ account'.id = account.id /\ (account.verified => account'.verified)

\* A step of request c, whose memory becomes local.
Local(c, local) ==
  /\ local \in Calls
  /\ call' = [call EXCEPT ![c] = local] /\ overlap' \in BOOLEAN
  /\ local.user # Nil => local.user <= users'
  /\ local.at = "openSession" /\ Mine(local.user)' => account'.verified

\* A step of one request keeps the invariant if it keeps the tables in order.
LEMMA RequestStep ==
  ASSUME IInv, NEW c \in Clients, NEW local, Local(c, local),
         RowsOK', users' >= users, AccountStep, VerifiedSessions'
  PROVE  IInv'
<1>1. call' \in [Clients -> Calls]
  BY DEF IInv, TypeOK, Local
<1>2. \A d \in Clients : call'[d] = IF d = c THEN local ELSE call[d]
  BY DEF IInv, TypeOK, Local
<1>3. ASSUME NEW d \in Clients, call'[d].user # Nil PROVE call'[d].user <= users'
  <2>1. call[d].user \in Nat \cup {Nil} /\ users \in Nat /\ users' \in Nat
    BY DEF IInv, TypeOK, RowsOK, Calls
  <2>. QED BY <1>2, <1>3, <2>1 DEF IInv, TypeOK, Local
<1>4. TypeOK'
  BY <1>1, <1>3 DEF RowsOK, TypeOK, Local
<1>5. ASSUME NEW d \in Clients, call'[d].at = "openSession", Mine(call[d].user)', d # c
      PROVE  account'.verified
  <2>1. call[d].at = "openSession" /\ account' # Nil /\ account'.id = call[d].user
    BY <1>2, <1>5 DEF Mine
  <2>2. call[d].user \in Nat /\ users \in Nat
    BY <2>1, NilIsNull DEF IInv, TypeOK, RowsOK, Users, Calls
  <2>3. call[d].user <= users
    BY <2>2, NilIsNull DEF IInv, TypeOK
  <2>4. account # Nil /\ account'.id = account.id /\ (account.verified => account'.verified)
    BY <2>1, <2>2, <2>3 DEF AccountStep
  <2>. QED BY <2>1, <2>4 DEF IInv, OpensForVerified, At, Mine
<1>6. OpensForVerified'
  <2>. SUFFICES ASSUME NEW d \in Clients, call'[d].at = "openSession", Mine(call[d].user)'
                PROVE  account'.verified
    BY DEF OpensForVerified, At
  <2>1. CASE d = c BY <2>1, <1>2 DEF Local, Mine
  <2>2. CASE d # c BY <2>2, <1>5
  <2>. QED BY <2>1, <2>2
<1>. QED BY <1>4, <1>6 DEF IInv

\* The same for a step that writes nothing.
LEMMA IdleStep ==
  ASSUME IInv, NEW c \in Clients, NEW local, Local(c, local), UNCHANGED rows
  PROVE  IInv'
<1>1. RowsOK' /\ users' >= users /\ AccountStep /\ VerifiedSessions'
  BY DEF IInv, TypeOK, RowsOK, AccountStep, VerifiedSessions, rows
<1>. QED BY <1>1, RequestStep

\* A reply forgets everything.
LEMMA NoCallType == NoCall \in Calls /\ NoCall.user = Nil /\ NoCall.at = "none"
BY DEF NoCall, Calls, Steps

LEMMA ReplyStep ==
  ASSUME IInv, NEW c \in Clients, Reply(c) PROVE Local(c, NoCall)
BY NoCallType DEF IInv, TypeOK, Reply, Goto, Local


\* A step of a request that goes on, and one that begins.
LEMMA GotoStep ==
  ASSUME IInv, NEW c \in Clients, NEW local \in Calls, Goto(c, local),
         local.user # Nil => local.user <= users',
         local.at = "openSession" /\ Mine(local.user)' => account'.verified
  PROVE  Local(c, local)
BY DEF IInv, TypeOK, Goto, Local

LEMMA BeginStep ==
  ASSUME IInv, NEW c \in Clients, NEW local \in Calls, Begin(c, local),
         local.user = Nil \/ (account # Nil /\ local.user = account.id),
         local.at = "openSession" => account # Nil /\ account.verified
  PROVE  IInv'
<1>1. local.user # Nil => local.user <= users'
  BY DEF IInv, TypeOK, Begin, rows
<1>2. Local(c, local)
  BY <1>1 DEF IInv, TypeOK, Begin, Local, rows
<1>. QED BY <1>2, IdleStep DEF Begin

\* The rows in which the account is new, changed or gone.
LEMMA CreateStep ==
  ASSUME IInv, NEW verified \in BOOLEAN, NEW pw \in Passwords \cup {Nil},
         NEW linked \in BOOLEAN, account = Nil, CreateAccount(verified, pw, linked),
         UNCHANGED <<codes, sent, sessions, opened>>
  PROVE  /\ RowsOK' /\ users' = users + 1 /\ AccountStep /\ VerifiedSessions'
         /\ account'.id = users + 1 /\ account'.verified = verified
BY DEF IInv, TypeOK, RowsOK, CreateAccount, Users, AccountStep, VerifiedSessions

LEMMA UserFields ==
  ASSUME NEW a \in Users, NEW pw \in Passwords \cup {Nil}, NEW resets \in Nat
  PROVE  /\ [a EXCEPT !.pw = pw, !.resets = resets] \in Users
         /\ [a EXCEPT !.pw = pw, !.resets = resets].id = a.id
         /\ [a EXCEPT !.pw = pw, !.resets = resets].verified = a.verified
BY DEF Users

LEMMA UpdateStep ==
  ASSUME IInv, account # Nil, account' \in Users, account'.id = account.id,
         account.verified => account'.verified, UNCHANGED <<users, sent, opened>>,
         codes' \subseteq [n : Nat, type : Types \cup {Nil}, age : Ages, used : BOOLEAN],
         sessions' \subseteq [n : Nat, valid : BOOLEAN, epoch : Nat],
         \A s \in sessions' : s.valid => s \in sessions
  PROVE  RowsOK' /\ users' >= users /\ AccountStep /\ VerifiedSessions'
<1>1. account' # Nil
  BY NilIsNull
<1>2. account'.id <= users' /\ users' >= users /\ users' \in Nat /\ sent' \in Nat
      /\ opened' \in Nat
  BY DEF IInv, TypeOK
<1>3. RowsOK'
  BY <1>1, <1>2 DEF RowsOK
<1>4. VerifiedSessions'
  BY <1>1 DEF IInv, VerifiedSessions
<1>. QED BY <1>2, <1>3, <1>4 DEF AccountStep

LEMMA BeginActions ==
  ASSUME IInv, NEW c \in Clients
  PROVE  /\ \A pw \in Passwords : RegisterBegin(c, pw) => IInv'
         /\ \A t \in Types : RequestCodeBegin(c, t) => IInv'
         /\ \A t \in Types, n \in Nat, pw \in Passwords \cup {Nil} :
              UseCodeBegin(c, t, n, pw) => IInv'
         /\ \A pw \in Passwords : LoginBegin(c, pw) => IInv'
         /\ OAuthBegin(c) => IInv'
         /\ \A old \in Passwords \cup {Nil}, pw \in Passwords :
              ChangePasswordBegin(c, old, pw) => IInv'
         /\ \A pw \in Passwords : CreateUserBegin(c, pw) => IInv'
         /\ DeleteUserBegin(c) => IInv'
<1>. account # Nil => account.id \in Nat /\ account.resets \in Nat
  BY DEF IInv, TypeOK, Users
<1>1. ASSUME NEW pw \in Passwords, RegisterBegin(c, pw) PROVE IInv'
  <2>. DEFINE local == [NoCall EXCEPT !.pw = pw, !.type = "EMAIL_VERIFICATION",
                 !.at = IF account = Nil THEN "registerCreate" ELSE "registerDelete",
                 !.user = IF account = Nil THEN Nil ELSE account.id]
  <2>1. local \in Calls /\ local.at # "openSession"
        /\ local.user = IF account = Nil THEN Nil ELSE account.id
    BY DEF Calls, Steps, Types, NoCall
  <2>2. Begin(c, local) BY <1>1 DEF RegisterBegin
  <2>. HIDE DEF local
  <2>. QED BY <2>1, <2>2, BeginStep
<1>2. ASSUME NEW t \in Types, RequestCodeBegin(c, t) PROVE IInv'
  <2>. DEFINE local == [NoCall EXCEPT !.at = "cooldown", !.type = t, !.user = account.id]
  <2>1. local \in Calls /\ local.at # "openSession" /\ local.user = account.id
    BY <1>2 DEF RequestCodeBegin, Calls, Steps, NoCall
  <2>2. Begin(c, local) /\ account # Nil BY <1>2 DEF RequestCodeBegin
  <2>. HIDE DEF local
  <2>. QED BY <2>1, <2>2, BeginStep
<1>3. ASSUME NEW t \in Types, NEW n \in Nat, NEW pw \in Passwords \cup {Nil},
             UseCodeBegin(c, t, n, pw) PROVE IInv'
  <2>. DEFINE local == [NoCall EXCEPT !.at = "findCode", !.type = t, !.code = n,
                                      !.pw = pw, !.user = account.id]
  <2>1. local \in Calls /\ local.at # "openSession" /\ local.user = account.id
    BY <1>3 DEF UseCodeBegin, Calls, Steps, NoCall
  <2>2. Begin(c, local) /\ account # Nil BY <1>3 DEF UseCodeBegin
  <2>. HIDE DEF local
  <2>. QED BY <2>1, <2>2, BeginStep
<1>4. ASSUME NEW pw \in Passwords, LoginBegin(c, pw) PROVE IInv'
  <2>. DEFINE local == [NoCall EXCEPT !.at = "openSession", !.user = account.id,
                                      !.epoch = account.resets]
  <2>1. local \in Calls /\ local.user = account.id
    BY <1>4 DEF LoginBegin, Calls, Steps, NoCall
  <2>2. Begin(c, local) /\ account # Nil /\ account.verified BY <1>4 DEF LoginBegin
  <2>. HIDE DEF local
  <2>. QED BY <2>1, <2>2, BeginStep
<1>5. ASSUME OAuthBegin(c) PROVE IInv'
  <2>1. PICK linked \in BOOLEAN : /\ linked => account # Nil
          /\ Begin(c, [NoCall EXCEPT !.at = IF linked THEN "oauthUpdate" ELSE "oauthEmail",
                                     !.user = IF linked THEN account.id ELSE Nil])
    BY <1>5 DEF OAuthBegin, IInv, TypeOK, Users
  <2>. DEFINE local == [NoCall EXCEPT !.at = IF linked THEN "oauthUpdate" ELSE "oauthEmail",
                                      !.user = IF linked THEN account.id ELSE Nil]
  <2>2. local \in Calls /\ local.at # "openSession"
        /\ local.user = IF linked THEN account.id ELSE Nil
    BY <2>1 DEF Calls, Steps, NoCall
  <2>3. Begin(c, local) BY <2>1
  <2>. HIDE DEF local
  <2>. QED BY <2>1, <2>2, <2>3, BeginStep
<1>6. ASSUME NEW old \in Passwords \cup {Nil}, NEW pw \in Passwords,
             ChangePasswordBegin(c, old, pw) PROVE IInv'
  <2>. DEFINE local == [NoCall EXCEPT !.at = "writePassword", !.user = account.id, !.pw = pw]
  <2>1. local \in Calls /\ local.at # "openSession" /\ local.user = account.id
    BY <1>6 DEF ChangePasswordBegin, Calls, Steps, NoCall
  <2>2. Begin(c, local) /\ account # Nil BY <1>6 DEF ChangePasswordBegin
  <2>. HIDE DEF local
  <2>. QED BY <2>1, <2>2, BeginStep
<1>7. ASSUME NEW pw \in Passwords, CreateUserBegin(c, pw) PROVE IInv'
  <2>. DEFINE local == [NoCall EXCEPT !.at = "createUser", !.pw = pw]
  <2>1. local \in Calls /\ local.at # "openSession" /\ local.user = Nil
    BY DEF Calls, Steps, NoCall
  <2>2. Begin(c, local) BY <1>7 DEF CreateUserBegin
  <2>. HIDE DEF local
  <2>. QED BY <2>1, <2>2, BeginStep
<1>8. ASSUME DeleteUserBegin(c) PROVE IInv'
  <2>. DEFINE local == [NoCall EXCEPT !.at = "deleteCodes", !.user = account.id]
  <2>1. local \in Calls /\ local.at # "openSession" /\ local.user = account.id
    BY <1>8 DEF DeleteUserBegin, Calls, Steps, NoCall
  <2>2. Begin(c, local) /\ account # Nil BY <1>8 DEF DeleteUserBegin
  <2>. HIDE DEF local
  <2>. QED BY <2>1, <2>2, BeginStep
<1>. QED BY <1>1, <1>2, <1>3, <1>4, <1>5, <1>6, <1>7, <1>8

\* The statements that open, close or delete accounts.
LEMMA AccountActions ==
  ASSUME IInv, NEW c \in Clients
  PROVE  /\ RegisterDelete(c) => IInv'
         /\ RegisterCreate(c) => IInv'
         /\ OAuthUpdate(c) => IInv'
         /\ OAuthCreate(c) => IInv'
         /\ CreateUserWrite(c) => IInv'
         /\ DeleteUserWrite(c) => IInv'
         /\ VerifyWrite(c) => IInv'
         /\ ResetWrite(c) => IInv'
         /\ WritePassword(c) => IInv'
<1>1. call[c] \in Calls /\ users \in Nat
  BY DEF IInv, TypeOK
<1>2. call[c].user # Nil => call[c].user <= users
  BY DEF IInv, TypeOK
<1>3. ASSUME RegisterDelete(c) PROVE IInv'
  <2>1. CASE ~Mine(call[c].user)
    BY <1>3, <2>1, ReplyStep, IdleStep DEF RegisterDelete
  <2>2. CASE Mine(call[c].user)
    <3>. DEFINE local == [call[c] EXCEPT !.at = "registerCreate"]
    <3>1. DeleteAccount /\ Goto(c, local) /\ UNCHANGED <<users, sent, opened>>
      BY <1>3, <2>2 DEF RegisterDelete, Next2
    <3>2. local \in Calls /\ local.at # "openSession" /\ local.user = call[c].user
      BY <1>1 DEF Calls, Steps
    <3>. HIDE DEF local
    <3>3. RowsOK' /\ users' >= users /\ AccountStep /\ VerifiedSessions'
      BY <3>1 DEF IInv, TypeOK, RowsOK, DeleteAccount, AccountStep, VerifiedSessions
    <3>. QED BY <1>2, <3>1, <3>2, <3>3, GotoStep, RequestStep
  <2>. QED BY <2>1, <2>2
<1>4. ASSUME RegisterCreate(c) PROVE IInv'
  <2>1. CASE account # Nil
    BY <1>4, <2>1, ReplyStep, IdleStep DEF RegisterCreate
  <2>2. CASE account = Nil
    <3>. DEFINE local == [call[c] EXCEPT !.at = "newCode", !.user = users + 1]
    <3>1. Goto(c, local) /\ CreateAccount(FALSE, call[c].pw, FALSE)
          /\ UNCHANGED <<codes, sent, sessions, opened>>
      BY <1>4, <2>2 DEF RegisterCreate
    <3>2. local \in Calls /\ local.at # "openSession" /\ local.user = users + 1
      <4>1. ASSUME NEW id \in Nat
            PROVE  LET l == [call[c] EXCEPT !.at = "newCode", !.user = id]
                   IN  l \in Calls /\ l.at # "openSession" /\ l.user = id
        BY <1>1 DEF Calls, Steps
      <4>2. users + 1 \in Nat
        BY <1>1
      <4>. QED BY <4>1, <4>2, Zenon
    <3>. HIDE DEF local
    <3>3. call[c].pw \in Passwords \cup {Nil}
      BY <1>1 DEF Calls
    <3>4. RowsOK' /\ users' = users + 1 /\ AccountStep /\ VerifiedSessions'
      BY <2>2, <3>1, <3>3, CreateStep
    <3>. QED BY <1>1, <3>1, <3>2, <3>4, GotoStep, RequestStep
  <2>. QED BY <2>1, <2>2
<1>5. ASSUME OAuthUpdate(c) PROVE IInv'
  <2>1. CASE ~Mine(call[c].user)
    BY <1>5, <2>1, ReplyStep, IdleStep DEF OAuthUpdate, rows
  <2>2. CASE Mine(call[c].user)
    <3>. DEFINE local == [call[c] EXCEPT !.at = "openSession", !.user = account.id,
                                         !.epoch = account.resets]
    <3>1. /\ account # Nil /\ account \in Users
          /\ account' = [account EXCEPT !.linked = TRUE, !.verified = TRUE]
          /\ Goto(c, local) /\ UNCHANGED <<users, codes, sent, sessions, opened>>
      BY <1>5, <2>2 DEF OAuthUpdate, OpenSession, Mine, IInv, TypeOK
    <3>2. local \in Calls /\ local.user = account.id
      BY <1>1, <3>1 DEF Calls, Steps, Users
    <3>. HIDE DEF local
    <3>3. account' \in Users /\ account'.id = account.id /\ account'.verified
      BY <3>1 DEF Users
    <3>4. RowsOK' /\ users' >= users /\ AccountStep /\ VerifiedSessions'
      <4>1. codes' \subseteq [n : Nat, type : Types \cup {Nil}, age : Ages, used : BOOLEAN]
            /\ sessions' \subseteq [n : Nat, valid : BOOLEAN, epoch : Nat]
        BY <3>1 DEF IInv, TypeOK
      <4>. QED BY <3>1, <3>3, <4>1, UpdateStep
    <3>5. account.id <= users'
      BY <3>1 DEF IInv, TypeOK
    <3>. QED BY <3>1, <3>2, <3>3, <3>4, <3>5, GotoStep, RequestStep
  <2>. QED BY <2>1, <2>2
<1>6. ASSUME OAuthCreate(c) PROVE IInv'
  <2>1. CASE account # Nil
    BY <1>6, <2>1, ReplyStep, IdleStep DEF OAuthCreate, rows
  <2>2. CASE account = Nil
    <3>. DEFINE local == [call[c] EXCEPT !.at = "openSession", !.user = users + 1,
                                         !.epoch = 0]
    <3>1. Goto(c, local) /\ CreateAccount(TRUE, Nil, TRUE)
          /\ UNCHANGED <<codes, sent, sessions, opened>>
      BY <1>6, <2>2 DEF OAuthCreate, OpenSession
    <3>2. local \in Calls /\ local.user = users + 1
      <4>1. ASSUME NEW id \in Nat
            PROVE  LET l == [call[c] EXCEPT !.at = "openSession", !.user = id, !.epoch = 0]
                   IN  l \in Calls /\ l.user = id
        BY <1>1 DEF Calls, Steps
      <4>2. users + 1 \in Nat
        BY <1>1
      <4>. QED BY <4>1, <4>2, Zenon
    <3>. HIDE DEF local
    <3>3. RowsOK' /\ users' = users + 1 /\ AccountStep /\ VerifiedSessions'
          /\ account'.verified
      BY <2>2, <3>1, CreateStep
    <3>. QED BY <1>1, <3>1, <3>2, <3>3, GotoStep, RequestStep
  <2>. QED BY <2>1, <2>2
<1>7. ASSUME CreateUserWrite(c) PROVE IInv'
  <2>1. CASE account # Nil
    BY <1>7, <2>1, ReplyStep, IdleStep DEF CreateUserWrite, rows
  <2>2. CASE account = Nil
    <3>1. CreateAccount(TRUE, call[c].pw, FALSE) /\ Reply(c)
          /\ UNCHANGED <<codes, sent, sessions, opened>>
      BY <1>7, <2>2 DEF CreateUserWrite
    <3>2. call[c].pw \in Passwords \cup {Nil}
      BY <1>1 DEF Calls
    <3>3. RowsOK' /\ users' = users + 1 /\ AccountStep /\ VerifiedSessions'
      BY <2>2, <3>1, <3>2, CreateStep
    <3>. QED BY <1>1, <3>1, <3>3, ReplyStep, RequestStep
  <2>. QED BY <2>1, <2>2
<1>8. ASSUME DeleteUserWrite(c) PROVE IInv'
  <2>1. CASE ~Mine(call[c].user)
    BY <1>8, <2>1, ReplyStep, IdleStep DEF DeleteUserWrite, rows
  <2>2. CASE Mine(call[c].user)
    <3>1. DeleteAccount /\ Reply(c) /\ UNCHANGED <<users, sent, opened>>
      BY <1>8, <2>2 DEF DeleteUserWrite
    <3>2. RowsOK' /\ users' >= users /\ AccountStep /\ VerifiedSessions'
      BY <3>1 DEF IInv, TypeOK, RowsOK, DeleteAccount, AccountStep, VerifiedSessions
    <3>. QED BY <3>1, <3>2, ReplyStep, RequestStep
  <2>. QED BY <2>1, <2>2
<1>9. ASSUME VerifyWrite(c) PROVE IInv'
  <2>1. CASE ~Found(c)
    BY <1>9, <2>1, ReplyStep, IdleStep DEF VerifyWrite, rows
  <2>2. CASE Found(c)
    <3>1. /\ account # Nil /\ account \in Users /\ Spend(call[c].code) /\ Reply(c)
          /\ account' = [account EXCEPT !.verified = TRUE]
          /\ UNCHANGED <<users, sent, sessions, opened>>
      BY <1>9, <2>2 DEF VerifyWrite, Found, Mine, IInv, TypeOK
    <3>2. account' \in Users /\ account'.id = account.id /\ account'.verified
      BY <3>1 DEF Users
    <3>3. codes' \subseteq [n : Nat, type : Types \cup {Nil}, age : Ages, used : BOOLEAN]
      BY <3>1 DEF Spend, IInv, TypeOK
    <3>4. RowsOK' /\ users' >= users /\ AccountStep /\ VerifiedSessions'
      <4>1. sessions' \subseteq [n : Nat, valid : BOOLEAN, epoch : Nat]
        BY <3>1 DEF IInv, TypeOK
      <4>. QED BY <3>1, <3>2, <3>3, <4>1, UpdateStep
    <3>. QED BY <3>1, <3>4, ReplyStep, RequestStep
  <2>. QED BY <2>1, <2>2
<1>10. ASSUME ResetWrite(c) PROVE IInv'
  <2>1. CASE ~Found(c)
    BY <1>10, <2>1, ReplyStep, IdleStep DEF ResetWrite, rows
  <2>2. CASE Found(c)
    <3>1. /\ account # Nil /\ account \in Users /\ Spend(call[c].code) /\ Reply(c)
          /\ account' = [account EXCEPT !.pw = call[c].pw, !.resets = @ + 1]
          /\ sessions' = {[s EXCEPT !.valid = FALSE] : s \in sessions}
          /\ UNCHANGED <<users, sent, opened>>
      BY <1>10, <2>2 DEF ResetWrite, Found, Mine, IInv, TypeOK
    <3>2. account' \in Users /\ account'.id = account.id
          /\ account'.verified = account.verified
      <4>1. call[c].pw \in Passwords \cup {Nil} /\ account.resets + 1 \in Nat
        BY <1>1, <3>1 DEF Users, Calls
      <4>. QED BY <3>1, <4>1, UserFields
    <3>3. codes' \subseteq [n : Nat, type : Types \cup {Nil}, age : Ages, used : BOOLEAN]
      BY <3>1 DEF Spend, IInv, TypeOK
    <3>4. sessions' \subseteq [n : Nat, valid : BOOLEAN, epoch : Nat]
          /\ \A s \in sessions' : ~s.valid
      BY <3>1 DEF IInv, TypeOK
    <3>5. RowsOK' /\ users' >= users /\ AccountStep /\ VerifiedSessions'
      BY <3>1, <3>2, <3>3, <3>4, UpdateStep
    <3>. QED BY <3>1, <3>5, ReplyStep, RequestStep
  <2>. QED BY <2>1, <2>2
<1>11. ASSUME WritePassword(c) PROVE IInv'
  <2>1. account' = account \/ (/\ account # Nil /\ account \in Users
                               /\ account' = [account EXCEPT !.pw = call[c].pw])
    BY <1>11 DEF WritePassword, Mine, IInv, TypeOK
  <2>2. account' = account \/ (/\ account # Nil /\ account' \in Users
                               /\ account'.id = account.id
                               /\ account'.verified = account.verified)
    BY <1>1, <2>1 DEF Users, Calls
  <2>3. Reply(c) /\ UNCHANGED <<users, codes, sent, sessions, opened>>
    BY <1>11 DEF WritePassword
  <2>4. RowsOK' /\ users' >= users /\ AccountStep /\ VerifiedSessions'
    <3>1. codes' \subseteq [n : Nat, type : Types \cup {Nil}, age : Ages, used : BOOLEAN]
          /\ sessions' \subseteq [n : Nat, valid : BOOLEAN, epoch : Nat]
      BY <2>3 DEF IInv, TypeOK
    <3>2. CASE account' = account
      BY <2>3, <3>2 DEF IInv, TypeOK, RowsOK, AccountStep, VerifiedSessions
    <3>3. CASE account' # account
      BY <2>2, <2>3, <3>1, <3>3, UpdateStep
    <3>. QED BY <3>2, <3>3
  <2>. QED BY <2>3, <2>4, ReplyStep, RequestStep
<1>. QED BY <1>3, <1>4, <1>5, <1>6, <1>7, <1>8, <1>9, <1>10, <1>11

\* The statements that write codes and sessions, and those that only read.
LEMMA RowActions ==
  ASSUME IInv, NEW c \in Clients
  PROVE  /\ NewCode(c) => IInv'
         /\ RequestCodeInvalidate(c) => IInv'
         /\ RequestCodeCooldown(c) => IInv'
         /\ UseCodeFind(c) => IInv'
         /\ OAuthEmail(c) => IInv'
         /\ GenerateTokens(c) => IInv'
         /\ DeleteUserCodes(c) => IInv'
         /\ DeleteUserSessions(c) => IInv'
         /\ Die(c) => IInv'
<1>1. call[c] \in Calls /\ users \in Nat
  BY DEF IInv, TypeOK
<1>2. call[c].user # Nil => call[c].user <= users
  BY DEF IInv, TypeOK
<1>3. ASSUME NEW step \in Steps \ {"openSession"}, Next2(c, step), UNCHANGED users
      PROVE  Local(c, [call[c] EXCEPT !.at = step])
  <2>. DEFINE local == [call[c] EXCEPT !.at = step]
  <2>1. local \in Calls /\ local.at # "openSession" /\ local.user = call[c].user
    BY <1>1 DEF Calls
  <2>2. Goto(c, local) BY <1>3 DEF Next2
  <2>. HIDE DEF local
  <2>3. Local(c, local)
    BY <1>2, <1>3, <2>1, <2>2, GotoStep
  <2>. QED BY <2>3 DEF local
<1>4. ASSUME NEW step \in Steps \ {"openSession"}, Next2(c, step), UNCHANGED rows
      PROVE  IInv'
  BY <1>3, <1>4, IdleStep DEF rows
<1>5. ASSUME Reply(c), UNCHANGED rows PROVE IInv'
  BY <1>5, ReplyStep, IdleStep
<1>6. ASSUME UNCHANGED <<account, users>>,
             sent' \in Nat, opened' \in Nat,
             codes' \subseteq [n : Nat, type : Types \cup {Nil}, age : Ages, used : BOOLEAN],
             sessions' \subseteq [n : Nat, valid : BOOLEAN, epoch : Nat],
             \A s \in sessions' \ sessions : s.valid => account # Nil /\ account.verified
      PROVE  RowsOK' /\ users' >= users /\ AccountStep /\ VerifiedSessions'
  BY <1>6 DEF IInv, TypeOK, RowsOK, AccountStep, VerifiedSessions
<1>7. ASSUME NewCode(c) PROVE IInv'
  <2>1. call[c].type \in Types \cup {Nil}
    BY <1>1 DEF Calls
  <2>2. Reply(c) /\ UNCHANGED <<account, users, sessions, opened>>
    BY <1>7 DEF NewCode
  <2>3. codes' \subseteq [n : Nat, type : Types \cup {Nil}, age : Ages, used : BOOLEAN]
        /\ sent' \in Nat
    <3>1. sent \in Nat /\ sent + 1 \in Nat /\ "new" \in Ages
      BY DEF IInv, TypeOK, Ages
    <3>2. [n |-> sent + 1, type |-> call[c].type, age |-> "new", used |-> FALSE]
            \in [n : Nat, type : Types \cup {Nil}, age : Ages, used : BOOLEAN]
      BY <2>1, <3>1
    <3>. QED BY <1>7, <3>1, <3>2 DEF NewCode, IInv, TypeOK
  <2>4. RowsOK' /\ users' >= users /\ AccountStep /\ VerifiedSessions'
    BY <2>2, <2>3, <1>6 DEF IInv, TypeOK
  <2>. QED BY <2>2, <2>4, ReplyStep, RequestStep
<1>8. ASSUME RequestCodeInvalidate(c) PROVE IInv'
  <2>1. Next2(c, "newCode") /\ UNCHANGED <<account, users, sent, sessions, opened>>
    BY <1>8 DEF RequestCodeInvalidate
  <2>2. codes' \subseteq [n : Nat, type : Types \cup {Nil}, age : Ages, used : BOOLEAN]
    BY <1>8 DEF RequestCodeInvalidate, IInv, TypeOK
  <2>3. RowsOK' /\ users' >= users /\ AccountStep /\ VerifiedSessions'
    BY <2>1, <2>2, <1>6 DEF IInv, TypeOK
  <2>. QED BY <1>3, <2>1, <2>3, RequestStep DEF Steps
<1>9. ASSUME RequestCodeCooldown(c) PROVE IInv'
  BY <1>4, <1>5, <1>9 DEF RequestCodeCooldown, Steps
<1>10. ASSUME UseCodeFind(c) PROVE IInv'
  BY <1>4, <1>5, <1>10 DEF UseCodeFind, Steps
<1>11. ASSUME OAuthEmail(c) PROVE IInv'
  <2>. DEFINE local == [call[c] EXCEPT
                 !.at = IF account = Nil THEN "oauthCreate" ELSE "oauthUpdate",
                 !.user = IF account = Nil THEN Nil ELSE account.id]
  <2>1. account # Nil => account.id \in Nat /\ account.id <= users
    BY DEF IInv, TypeOK, Users
  <2>2. local \in Calls /\ local.at # "openSession"
        /\ local.user = IF account = Nil THEN Nil ELSE account.id
    BY <1>1, <2>1 DEF Calls, Steps
  <2>3. Goto(c, local) /\ UNCHANGED rows BY <1>11 DEF OAuthEmail
  <2>. HIDE DEF local
  <2>. QED BY <2>1, <2>2, <2>3, GotoStep, IdleStep DEF rows
<1>12. ASSUME GenerateTokens(c) PROVE IInv'
  <2>1. Reply(c) /\ UNCHANGED <<account, users, codes, sent>>
    BY <1>12 DEF GenerateTokens
  <2>2. call[c].epoch \in Nat
    BY <1>1 DEF Calls
  <2>3. Mine(call[c].user) => account # Nil /\ account.verified
    BY <1>12 DEF GenerateTokens, IInv, OpensForVerified, Mine
  <2>4. sessions' \subseteq [n : Nat, valid : BOOLEAN, epoch : Nat] /\ opened' \in Nat
    <3>1. opened \in Nat /\ opened + 1 \in Nat
      BY DEF IInv, TypeOK
    <3>2. [n |-> opened + 1, valid |-> TRUE, epoch |-> call[c].epoch]
            \in [n : Nat, valid : BOOLEAN, epoch : Nat]
      BY <2>2, <3>1
    <3>. QED BY <1>12, <3>1, <3>2 DEF GenerateTokens, IInv, TypeOK
  <2>5. \A s \in sessions' \ sessions : account # Nil /\ account.verified
    BY <1>12, <2>3 DEF GenerateTokens
  <2>6. RowsOK' /\ users' >= users /\ AccountStep /\ VerifiedSessions'
    BY <2>1, <2>4, <2>5, <1>6 DEF IInv, TypeOK
  <2>. QED BY <2>1, <2>6, ReplyStep, RequestStep
<1>13. ASSUME DeleteUserCodes(c) PROVE IInv'
  <2>1. Next2(c, "deleteSessions") /\ UNCHANGED <<account, users, sent, sessions, opened>>
        /\ codes' \subseteq codes
    BY <1>13 DEF DeleteUserCodes
  <2>2. RowsOK' /\ users' >= users /\ AccountStep /\ VerifiedSessions'
    BY <2>1, <1>6 DEF IInv, TypeOK
  <2>. QED BY <1>3, <2>1, <2>2, RequestStep DEF Steps
<1>14. ASSUME DeleteUserSessions(c) PROVE IInv'
  <2>1. Next2(c, "deleteUser") /\ UNCHANGED <<account, users, codes, sent, opened>>
        /\ sessions' \subseteq sessions
    BY <1>14 DEF DeleteUserSessions
  <2>2. RowsOK' /\ users' >= users /\ AccountStep /\ VerifiedSessions'
    BY <2>1, <1>6 DEF IInv, TypeOK
  <2>. QED BY <1>3, <2>1, <2>2, RequestStep DEF Steps
<1>15. ASSUME Die(c) PROVE IInv'
  BY <1>5, <1>15 DEF Die
<1>. QED BY <1>7, <1>8, <1>9, <1>10, <1>11, <1>12, <1>13, <1>14, <1>15

\* The steps of no request: sessions revoked at once, and the passing of time.
LEMMA WorldActions ==
  ASSUME IInv
  PROVE  /\ \A n \in Nat : RevokeSession(n) => IInv'
         /\ LogoutAll => IInv'
         /\ Tick => IInv'
<1>1. ASSUME UNCHANGED <<account, users, sent, opened, call, overlap>>,
             codes' \subseteq [n : Nat, type : Types \cup {Nil}, age : Ages, used : BOOLEAN],
             sessions' \subseteq [n : Nat, valid : BOOLEAN, epoch : Nat],
             \A s \in sessions' : s.valid => s \in sessions
      PROVE  IInv'
  <2>1. TypeOK' BY <1>1 DEF IInv, TypeOK
  <2>2. OpensForVerified' BY <1>1 DEF IInv, OpensForVerified, At, Mine
  <2>3. VerifiedSessions' BY <1>1 DEF IInv, VerifiedSessions
  <2>. QED BY <2>1, <2>2, <2>3 DEF IInv
<1>2. ASSUME NEW n \in Nat, RevokeSession(n) PROVE IInv'
  <2>1. sessions' \subseteq [n : Nat, valid : BOOLEAN, epoch : Nat]
        /\ \A s \in sessions' : s.valid => s \in sessions
    BY <1>2 DEF RevokeSession, IInv, TypeOK
  <2>. QED BY <1>1, <1>2, <2>1 DEF RevokeSession, IInv, TypeOK
<1>3. ASSUME LogoutAll PROVE IInv'
  <2>1. sessions' \subseteq [n : Nat, valid : BOOLEAN, epoch : Nat]
        /\ \A s \in sessions' : s.valid => s \in sessions
    BY <1>3 DEF LogoutAll, IInv, TypeOK
  <2>. QED BY <1>1, <1>3, <2>1 DEF LogoutAll, IInv, TypeOK
<1>4. ASSUME Tick PROVE IInv'
  <2>1. codes' \subseteq [n : Nat, type : Types \cup {Nil}, age : Ages, used : BOOLEAN]
    BY <1>4 DEF Tick, Older, Ages, IInv, TypeOK
  <2>. QED BY <1>1, <1>4, <2>1 DEF Tick, IInv, TypeOK
<1>. QED BY <1>2, <1>3, <1>4

\* The invariant holds at the start and every step keeps it.
LEMMA Inductive == Init => IInv
<1>. SUFFICES ASSUME Init PROVE IInv
  OBVIOUS
<1>1. \A c \in Clients : call[c] = NoCall
  BY DEF Init
<1>2. TypeOK
  BY <1>1, NoCallType DEF Init, TypeOK
<1>. QED BY <1>1, <1>2, NoCallType DEF Init, IInv, OpensForVerified, VerifiedSessions, At

LEMMA StepKeeps == IInv /\ [Next]_vars => IInv'
<1>. SUFFICES ASSUME IInv, [Next]_vars PROVE IInv'
  OBVIOUS
<1>1. CASE UNCHANGED vars
  BY <1>1 DEF vars, rows, IInv, TypeOK, OpensForVerified, VerifiedSessions, At, Mine
<1>2. ASSUME NEW c \in Clients,
             \/ RegisterDelete(c) \/ RegisterCreate(c) \/ OAuthUpdate(c) \/ OAuthCreate(c)
             \/ CreateUserWrite(c) \/ DeleteUserWrite(c) \/ VerifyWrite(c) \/ ResetWrite(c)
             \/ WritePassword(c)
      PROVE  IInv'
  BY <1>2, AccountActions
<1>3. ASSUME NEW c \in Clients,
             \/ NewCode(c) \/ RequestCodeInvalidate(c) \/ RequestCodeCooldown(c)
             \/ UseCodeFind(c) \/ OAuthEmail(c) \/ GenerateTokens(c)
             \/ DeleteUserCodes(c) \/ DeleteUserSessions(c) \/ Die(c)
      PROVE  IInv'
  BY <1>3, RowActions
<1>4. ASSUME NEW c \in Clients,
             \/ \E t \in Types : RequestCodeBegin(c, t)
             \/ \E n \in 1..sent : UseCodeBegin(c, "EMAIL_VERIFICATION", n, Nil)
             \/ \E n \in 1..sent, pw \in Passwords : UseCodeBegin(c, "PASSWORD_RESET", n, pw)
             \/ OAuthBegin(c) \/ DeleteUserBegin(c)
             \/ \E pw \in Passwords : \/ RegisterBegin(c, pw) \/ LoginBegin(c, pw)
                                      \/ SetPasswordBegin(c, pw) \/ CreateUserBegin(c, pw)
             \/ \E old, new \in Passwords : ChangePasswordBegin(c, old, new)
      PROVE  IInv'
  <2>1. 1..sent \subseteq Nat /\ {"EMAIL_VERIFICATION", "PASSWORD_RESET"} \subseteq Types
    BY DEF IInv, TypeOK, Types
  <2>. QED BY <1>4, <2>1, BeginActions DEF SetPasswordBegin
<1>5. ASSUME (\E n \in 1..opened : RevokeSession(n)) \/ LogoutAll \/ Tick PROVE IInv'
  <2>1. 1..opened \subseteq Nat
    BY DEF IInv, TypeOK
  <2>. QED BY <1>5, <2>1, WorldActions
<1>. QED BY <1>1, <1>2, <1>3, <1>4, <1>5 DEF Next

LEMMA InvariantHolds == Spec => []IInv
BY Inductive, StepKeeps, PTL DEF Spec

\* The tables and the requests always have their types.
THEOREM AccountsTypeCorrect == Spec => []TypeOK
<1>1. IInv => TypeOK BY DEF IInv
<1>. QED BY <1>1, InvariantHolds, PTL

\* However many requests for one address race and wherever they die, a session
\* the API honours belongs to an account with a verified address.
THEOREM SessionsAreVerified == Spec => []VerifiedSessions
<1>1. IInv => VerifiedSessions BY DEF IInv
<1>. QED BY <1>1, InvariantHolds, PTL

----------------------------------------------------------------------------
(* One request at a time.                                                  *)

\* onDelete: Cascade, and the foreign keys: no rows of an account that is gone.
NoOrphans == account = Nil => codes = {} /\ sessions = {}

NoneUsable(type) == \A k \in codes : k.type = type => ~Usable(k)
OneUsable == \A k, m \in codes : k.type = m.type /\ Usable(k) /\ Usable(m) => k = m
CurrentSessions == \A s \in sessions : s.valid => s.epoch = account.resets

\* What the one request in flight has written or read still holds: the codes
\* it has used up when it is about to send one, the password it has checked
\* when it is about to open a session.
Alone ==
  /\ \A c, d \in Clients : Busy(c) /\ Busy(d) => c = d
  /\ \A c \in Clients : At(c, "newCode") /\ Mine(call[c].user) => NoneUsable(call[c].type)
  /\ \A c \in Clients :
       At(c, "openSession") /\ Mine(call[c].user) => call[c].epoch = account.resets
  /\ OneUsable /\ CurrentSessions

SoloInv == IInv /\ NoOrphans /\ (~overlap => Alone)

LEMMA SoloInit == Init => SoloInv
<1>1. Init => \A c \in Clients : call[c].at = "none"
  BY NoCallType DEF Init
<1>. QED BY <1>1, Inductive
       DEF Init, SoloInv, NoOrphans, Alone, OneUsable, CurrentSessions, Busy, At

\* A step of the only request keeps Alone if it keeps its parts.
LEMMA SoloStep ==
  ASSUME IInv, NEW c \in Clients, NEW local,
         call' = [call EXCEPT ![c] = local], \A d \in Clients \ {c} : ~Busy(d),
         local.at = "newCode" /\ Mine(local.user)' => NoneUsable(local.type)',
         local.at = "openSession" /\ Mine(local.user)' => local.epoch = account'.resets,
         OneUsable', CurrentSessions'
  PROVE  Alone'
<1>1. \A d \in Clients : call'[d] = IF d = c THEN local ELSE call[d]
  BY DEF IInv, TypeOK
<1>2. \A d \in Clients : d # c => call'[d].at = "none"
  BY <1>1 DEF Busy
<1>. QED BY <1>1, <1>2 DEF Alone, Busy, At, Mine, NoneUsable

\* A request that ends.
LEMMA SoloReply ==
  ASSUME IInv, Alone, NEW c \in Clients, Busy(c), Reply(c), OneUsable', CurrentSessions'
  PROVE  Alone'
<1>1. call' = [call EXCEPT ![c] = NoCall] /\ \A d \in Clients \ {c} : ~Busy(d)
  BY DEF Reply, Goto, Alone
<1>. QED BY <1>1, NoCallType, SoloStep

\* A request that goes on, and neither sends a code nor opens a session next.
LEMMA SoloGoto ==
  ASSUME IInv, Alone, NEW c \in Clients, NEW local, Busy(c), Goto(c, local),
         local.at \notin {"newCode", "openSession"}, OneUsable', CurrentSessions'
  PROVE  Alone'
<1>1. call' = [call EXCEPT ![c] = local] /\ \A d \in Clients \ {c} : ~Busy(d)
  BY DEF Goto, Alone
<1>. QED BY <1>1, SoloStep

LEMMA SoloNext ==
  ASSUME IInv, Alone, NEW c \in Clients, NEW step \in Steps \ {"newCode", "openSession"},
         Busy(c), Next2(c, step), OneUsable', CurrentSessions'
  PROVE  Alone'
<1>1. [call[c] EXCEPT !.at = step].at = step
  BY DEF IInv, TypeOK, Calls
<1>. QED BY <1>1, SoloGoto DEF Next2

\* A request that begins.
LEMMA SoloBegin ==
  ASSUME SoloInv, NEW c \in Clients, NEW local, Begin(c, local), ~overlap',
         local.at # "newCode",
         local.at = "openSession" => local.epoch = account.resets
  PROVE  Alone'
<1>1. ~overlap /\ \A d \in Clients \ {c} : ~Busy(d)
  BY Zenon DEF Begin
<1>2. /\ call' = [call EXCEPT ![c] = local]
      /\ OneUsable' /\ CurrentSessions' /\ account' = account
  BY <1>1 DEF Begin, rows, SoloInv, Alone, OneUsable, CurrentSessions, Usable
<1>. QED BY <1>1, <1>2, SoloStep DEF SoloInv

\* Rows of codes and sessions that a step leaves, uses up or deletes.
LEMMA CodesUsedUp ==
  ASSUME OneUsable, \A k \in codes' : Usable(k) => k \in codes
  PROVE  OneUsable'
BY DEF OneUsable, Usable

LEMMA SessionsRevoked ==
  ASSUME CurrentSessions, \A s \in sessions' : s.valid => s \in sessions,
         account' = account \/ account'.resets = account.resets
  PROVE  CurrentSessions'
BY DEF CurrentSessions

LEMMA CodesUntouched ==
  ASSUME OneUsable, codes' = codes PROVE OneUsable'
BY DEF OneUsable, Usable

LEMMA SpendUsesUp ==
  ASSUME NEW n, Spend(n), IInv PROVE \A k \in codes' : Usable(k) => k \in codes
<1>1. \A k \in codes : [k EXCEPT !.used = TRUE].used
  BY DEF IInv, TypeOK
<1>. QED BY <1>1 DEF Spend, Usable

----------------------------------------------------------------------------

LEMMA SoloBeginActions ==
  ASSUME SoloInv, NEW c \in Clients, ~overlap'
  PROVE  /\ \A pw : RegisterBegin(c, pw) => Alone'
         /\ \A t : RequestCodeBegin(c, t) => Alone'
         /\ \A t, n, pw : UseCodeBegin(c, t, n, pw) => Alone'
         /\ \A pw : LoginBegin(c, pw) => Alone'
         /\ OAuthBegin(c) => Alone'
         /\ \A old, pw : ChangePasswordBegin(c, old, pw) => Alone'
         /\ \A pw : CreateUserBegin(c, pw) => Alone'
         /\ DeleteUserBegin(c) => Alone'
<1>1. ASSUME NEW pw, RegisterBegin(c, pw) PROVE Alone'
  <2>. DEFINE local == [NoCall EXCEPT !.pw = pw, !.type = "EMAIL_VERIFICATION",
                 !.at = IF account = Nil THEN "registerCreate" ELSE "registerDelete",
                 !.user = IF account = Nil THEN Nil ELSE account.id]
  <2>1. local.at \notin {"newCode", "openSession"} BY DEF NoCall
  <2>2. Begin(c, local) BY <1>1 DEF RegisterBegin
  <2>. HIDE DEF local
  <2>. QED BY <2>1, <2>2, SoloBegin
<1>2. ASSUME NEW t, RequestCodeBegin(c, t) PROVE Alone'
  <2>. DEFINE local == [NoCall EXCEPT !.at = "cooldown", !.type = t, !.user = account.id]
  <2>1. local.at \notin {"newCode", "openSession"} BY DEF NoCall
  <2>2. Begin(c, local) BY <1>2 DEF RequestCodeBegin
  <2>. HIDE DEF local
  <2>. QED BY <2>1, <2>2, SoloBegin
<1>3. ASSUME NEW t, NEW n, NEW pw, UseCodeBegin(c, t, n, pw) PROVE Alone'
  <2>. DEFINE local == [NoCall EXCEPT !.at = "findCode", !.type = t, !.code = n,
                                      !.pw = pw, !.user = account.id]
  <2>1. local.at \notin {"newCode", "openSession"} BY DEF NoCall
  <2>2. Begin(c, local) BY <1>3 DEF UseCodeBegin
  <2>. HIDE DEF local
  <2>. QED BY <2>1, <2>2, SoloBegin
<1>4. ASSUME NEW pw, LoginBegin(c, pw) PROVE Alone'
  <2>. DEFINE local == [NoCall EXCEPT !.at = "openSession", !.user = account.id,
                                      !.epoch = account.resets]
  <2>1. local.at = "openSession" /\ local.epoch = account.resets BY DEF NoCall
  <2>2. Begin(c, local) BY <1>4 DEF LoginBegin
  <2>. HIDE DEF local
  <2>. QED BY <2>1, <2>2, SoloBegin
<1>5. ASSUME OAuthBegin(c) PROVE Alone'
  <2>. DEFINE linked == account # Nil /\ account.linked
              local == [NoCall EXCEPT !.at = IF linked THEN "oauthUpdate" ELSE "oauthEmail",
                                      !.user = IF linked THEN account.id ELSE Nil]
  <2>1. local.at \notin {"newCode", "openSession"} BY DEF NoCall
  <2>2. Begin(c, local) BY <1>5 DEF OAuthBegin
  <2>. HIDE DEF local
  <2>. QED BY <2>1, <2>2, SoloBegin
<1>6. ASSUME NEW old, NEW pw, ChangePasswordBegin(c, old, pw) PROVE Alone'
  <2>. DEFINE local == [NoCall EXCEPT !.at = "writePassword", !.user = account.id, !.pw = pw]
  <2>1. local.at \notin {"newCode", "openSession"} BY DEF NoCall
  <2>2. Begin(c, local) BY <1>6 DEF ChangePasswordBegin
  <2>. HIDE DEF local
  <2>. QED BY <2>1, <2>2, SoloBegin
<1>7. ASSUME NEW pw, CreateUserBegin(c, pw) PROVE Alone'
  <2>. DEFINE local == [NoCall EXCEPT !.at = "createUser", !.pw = pw]
  <2>1. local.at \notin {"newCode", "openSession"} BY DEF NoCall
  <2>2. Begin(c, local) BY <1>7 DEF CreateUserBegin
  <2>. HIDE DEF local
  <2>. QED BY <2>1, <2>2, SoloBegin
<1>8. ASSUME DeleteUserBegin(c) PROVE Alone'
  <2>. DEFINE local == [NoCall EXCEPT !.at = "deleteCodes", !.user = account.id]
  <2>1. local.at \notin {"newCode", "openSession"} BY DEF NoCall
  <2>2. Begin(c, local) BY <1>8 DEF DeleteUserBegin
  <2>. HIDE DEF local
  <2>. QED BY <2>1, <2>2, SoloBegin
<1>. QED BY <1>1, <1>2, <1>3, <1>4, <1>5, <1>6, <1>7, <1>8

\* An account that is new has no codes and no sessions.
LEMMA FreshAccount ==
  ASSUME SoloInv, account = Nil, NEW verified \in BOOLEAN, NEW pw, NEW linked,
         CreateAccount(verified, pw, linked), UNCHANGED <<codes, sessions>>
  PROVE  /\ account'.resets = 0 /\ codes' = {}
         /\ OneUsable' /\ CurrentSessions'
BY DEF SoloInv, NoOrphans, CreateAccount, OneUsable, CurrentSessions

\* The statements that write codes.
LEMMA SoloCodes ==
  ASSUME IInv, Alone, NEW c \in Clients
  PROVE  /\ NewCode(c) => Alone'
         /\ RequestCodeCooldown(c) => Alone'
         /\ RequestCodeInvalidate(c) => Alone'
         /\ UseCodeFind(c) => Alone'
         /\ VerifyWrite(c) => Alone'
         /\ ResetWrite(c) => Alone'
         /\ DeleteUserCodes(c) => Alone'
<1>. USE DEF Alone
<1>1. ASSUME UNCHANGED rows PROVE OneUsable' /\ CurrentSessions'
  BY <1>1, CodesUntouched, SessionsRevoked DEF rows
<1>2. ASSUME NewCode(c) PROVE Alone'
  <2>1. CurrentSessions' /\ Busy(c) /\ Reply(c)
    BY <1>2, SessionsRevoked DEF NewCode, At, Busy
  <2>2. CASE ~Mine(call[c].user)
    BY <1>2, <2>1, <2>2, CodesUntouched, SoloReply DEF NewCode
  <2>3. CASE Mine(call[c].user)
    <3>. DEFINE new == [n |-> sent + 1, type |-> call[c].type, age |-> "new", used |-> FALSE]
    <3>1. codes' = codes \cup {new} /\ NoneUsable(call[c].type)
      BY <1>2, <2>3 DEF NewCode
    <3>2. OneUsable'
      <4>1. \A k \in codes : Usable(k) => k.type # new.type
        BY <3>1 DEF NoneUsable
      <4>. HIDE DEF new
      <4>. QED BY <3>1, <4>1 DEF OneUsable, Usable
    <3>. QED BY <2>1, <3>2, SoloReply
  <2>. QED BY <2>2, <2>3
<1>3. ASSUME RequestCodeCooldown(c) PROVE Alone'
  BY <1>1, <1>3, SoloReply, SoloNext DEF RequestCodeCooldown, At, Busy, Steps
<1>4. ASSUME RequestCodeInvalidate(c) PROVE Alone'
  <2>1. /\ codes' = {IF k \in CodesOf(call[c].user, call[c].type)
                     THEN [k EXCEPT !.used = TRUE] ELSE k : k \in codes}
        /\ account' = account /\ sessions' = sessions
        /\ Busy(c) /\ call' = [call EXCEPT ![c] = [call[c] EXCEPT !.at = "newCode"]]
    BY <1>4 DEF RequestCodeInvalidate, At, Busy, Next2, Goto
  <2>2. \A k \in codes : [k EXCEPT !.used = TRUE].used
    BY DEF IInv, TypeOK
  <2>3. \A k \in codes' : Usable(k) => k \in codes /\ k \notin CodesOf(call[c].user, call[c].type)
    BY <2>1, <2>2 DEF Usable
  <2>4. OneUsable' /\ CurrentSessions'
    BY <2>1, <2>3, CodesUsedUp, SessionsRevoked
  <2>5. PICK local : local = [call[c] EXCEPT !.at = "newCode"]
    OBVIOUS
  <2>6. local.at = "newCode" /\ local.user = call[c].user /\ local.type = call[c].type
    BY <2>5 DEF IInv, TypeOK, Calls
  <2>7. call' = [call EXCEPT ![c] = local] /\ \A d \in Clients \ {c} : ~Busy(d)
    BY <2>1, <2>5
  <2>8. Mine(local.user)' => NoneUsable(local.type)'
    BY <2>1, <2>3, <2>6 DEF Mine, CodesOf, NoneUsable, Usable
  <2>. QED BY <2>4, <2>6, <2>7, <2>8, SoloStep
<1>5. ASSUME UseCodeFind(c) PROVE Alone'
  BY <1>1, <1>5, SoloReply, SoloNext DEF UseCodeFind, At, Busy, Steps
<1>6. ASSUME VerifyWrite(c) PROVE Alone'
  <2>1. Busy(c) /\ Reply(c) /\ sessions' = sessions
    BY <1>6 DEF VerifyWrite, At, Busy
  <2>2. OneUsable'
    BY <1>6, CodesUntouched, CodesUsedUp, SpendUsesUp DEF VerifyWrite
  <2>3. account' = account \/ account'.resets = account.resets
    BY <1>6 DEF VerifyWrite, IInv, TypeOK, Users, Found, Mine
  <2>. QED BY <2>1, <2>2, <2>3, SessionsRevoked, SoloReply
<1>7. ASSUME ResetWrite(c) PROVE Alone'
  <2>1. Busy(c) /\ Reply(c)
    BY <1>7 DEF ResetWrite, At, Busy
  <2>2. OneUsable'
    BY <1>7, CodesUntouched, CodesUsedUp, SpendUsesUp DEF ResetWrite
  <2>3. CurrentSessions'
    <3>1. CASE ~Found(c)
      BY <1>7, <3>1, SessionsRevoked DEF ResetWrite
    <3>2. CASE Found(c)
      <4>1. \A s \in sessions : ~[s EXCEPT !.valid = FALSE].valid
        BY DEF IInv, TypeOK
      <4>2. sessions' = {[s EXCEPT !.valid = FALSE] : s \in sessions}
        BY <1>7, <3>2 DEF ResetWrite
      <4>3. \A s \in sessions' : ~s.valid
        BY <4>1, <4>2
      <4>. QED BY <4>3 DEF CurrentSessions
    <3>. QED BY <3>1, <3>2
  <2>. QED BY <2>1, <2>2, <2>3, SoloReply
<1>8. ASSUME DeleteUserCodes(c) PROVE Alone'
  <2>1. Busy(c) /\ Next2(c, "deleteSessions") /\ OneUsable' /\ CurrentSessions'
    BY <1>8, CodesUsedUp, SessionsRevoked DEF DeleteUserCodes, At, Busy
  <2>. QED BY <2>1, SoloNext DEF Steps
<1>. QED BY <1>2, <1>3, <1>4, <1>5, <1>6, <1>7, <1>8

\* The statements that write accounts and sessions.
LEMMA SoloAccounts ==
  ASSUME SoloInv, Alone, NEW c \in Clients
  PROVE  /\ RegisterDelete(c) => Alone'
         /\ RegisterCreate(c) => Alone'
         /\ OAuthEmail(c) => Alone'
         /\ OAuthUpdate(c) => Alone'
         /\ OAuthCreate(c) => Alone'
         /\ GenerateTokens(c) => Alone'
         /\ WritePassword(c) => Alone'
         /\ CreateUserWrite(c) => Alone'
         /\ DeleteUserSessions(c) => Alone'
         /\ DeleteUserWrite(c) => Alone'
         /\ Die(c) => Alone'
<1>. USE DEF Alone
<1>0. IInv
  BY DEF SoloInv
<1>1. ASSUME UNCHANGED <<account, codes, sessions>> PROVE OneUsable' /\ CurrentSessions'
  BY <1>1, CodesUntouched, SessionsRevoked
<1>2. ASSUME DeleteAccount PROVE OneUsable' /\ CurrentSessions'
  BY <1>2 DEF DeleteAccount, OneUsable, CurrentSessions
<1>3. \A d \in Clients \ {c} : Busy(c) => ~Busy(d)
  OBVIOUS
<1>4. ASSUME RegisterDelete(c) PROVE Alone'
  <2>1. OneUsable' /\ CurrentSessions' /\ Busy(c)
    BY <1>1, <1>2, <1>4 DEF RegisterDelete, rows, At, Busy
  <2>. QED BY <1>0, <1>4, <2>1, SoloReply, SoloNext DEF RegisterDelete, Steps
<1>5. ASSUME RegisterCreate(c) PROVE Alone'
  <2>1. CASE account # Nil
    BY <1>0, <1>1, <1>5, <2>1, SoloReply DEF RegisterCreate, rows, At, Busy
  <2>2. CASE account = Nil
    <3>0. PICK local : local = [call[c] EXCEPT !.at = "newCode", !.user = users + 1]
      OBVIOUS
    <3>1. /\ Busy(c) /\ call' = [call EXCEPT ![c] = local]
          /\ CreateAccount(FALSE, call[c].pw, FALSE) /\ UNCHANGED <<codes, sessions>>
      BY <1>5, <2>2, <3>0 DEF RegisterCreate, Goto, At, Busy
    <3>2. local.at = "newCode"
      BY <1>0, <3>0 DEF IInv, TypeOK, Calls
    <3>3. codes' = {} /\ OneUsable' /\ CurrentSessions'
      BY <2>2, <3>1, FreshAccount
    <3>4. NoneUsable(local.type)'
      BY <3>3 DEF NoneUsable
    <3>. QED BY <1>0, <1>3, <3>1, <3>2, <3>3, <3>4, SoloStep
  <2>. QED BY <2>1, <2>2
<1>6. ASSUME OAuthEmail(c) PROVE Alone'
  <2>. DEFINE local == [call[c] EXCEPT
                 !.at = IF account = Nil THEN "oauthCreate" ELSE "oauthUpdate",
                 !.user = IF account = Nil THEN Nil ELSE account.id]
  <2>1. Busy(c) /\ Goto(c, local) /\ OneUsable' /\ CurrentSessions'
    BY <1>1, <1>6 DEF OAuthEmail, rows, At, Busy
  <2>2. local.at \notin {"newCode", "openSession"}
    BY <1>0 DEF IInv, TypeOK, Calls
  <2>. HIDE DEF local
  <2>. QED BY <1>0, <2>1, <2>2, SoloGoto
<1>7. ASSUME OAuthUpdate(c) PROVE Alone'
  <2>1. CASE ~Mine(call[c].user)
    BY <1>0, <1>1, <1>7, <2>1, SoloReply DEF OAuthUpdate, At, Busy
  <2>2. CASE Mine(call[c].user)
    <3>. DEFINE local == [call[c] EXCEPT !.at = "openSession", !.user = account.id,
                                         !.epoch = account.resets]
    <3>1. /\ Busy(c) /\ call' = [call EXCEPT ![c] = local] /\ account \in Users
          /\ account' = [account EXCEPT !.linked = TRUE, !.verified = TRUE]
          /\ UNCHANGED <<codes, sessions>>
      BY <1>0, <1>7, <2>2 DEF OAuthUpdate, OpenSession, Goto, At, Busy, Mine, IInv, TypeOK
    <3>2. local.at = "openSession" /\ local.epoch = account.resets
      BY <1>0 DEF IInv, TypeOK, Calls
    <3>3. account'.resets = account.resets
      BY <3>1 DEF Users
    <3>. HIDE DEF local
    <3>4. OneUsable' /\ CurrentSessions'
      BY <3>1, <3>3, CodesUntouched, SessionsRevoked
    <3>. QED BY <1>0, <1>3, <3>1, <3>2, <3>3, <3>4, SoloStep
  <2>. QED BY <2>1, <2>2
<1>8. ASSUME OAuthCreate(c) PROVE Alone'
  <2>1. CASE account # Nil
    BY <1>0, <1>1, <1>8, <2>1, SoloReply DEF OAuthCreate, At, Busy
  <2>2. CASE account = Nil
    <3>. DEFINE local == [call[c] EXCEPT !.at = "openSession", !.user = users + 1, !.epoch = 0]
    <3>1. /\ Busy(c) /\ call' = [call EXCEPT ![c] = local]
          /\ CreateAccount(TRUE, Nil, TRUE) /\ UNCHANGED <<codes, sessions>>
      BY <1>8, <2>2 DEF OAuthCreate, OpenSession, Goto, At, Busy
    <3>2. local.at = "openSession" /\ local.epoch = 0
      BY <1>0 DEF IInv, TypeOK, Calls
    <3>. HIDE DEF local
    <3>3. account'.resets = 0 /\ OneUsable' /\ CurrentSessions'
      BY <2>2, <3>1, FreshAccount
    <3>. QED BY <1>0, <1>3, <3>1, <3>2, <3>3, SoloStep
  <2>. QED BY <2>1, <2>2
<1>9. ASSUME GenerateTokens(c) PROVE Alone'
  <2>1. Busy(c) /\ Reply(c) /\ OneUsable'
    BY <1>9, CodesUntouched DEF GenerateTokens, At, Busy
  <2>2. \A s \in sessions' : s \in sessions \/ s.epoch = account.resets
    BY <1>9 DEF GenerateTokens
  <2>3. CurrentSessions'
    BY <1>9, <2>2 DEF GenerateTokens, CurrentSessions
  <2>. QED BY <1>0, <2>1, <2>3, SoloReply
<1>10. ASSUME WritePassword(c) PROVE Alone'
  <2>1. account' = account \/ account'.resets = account.resets
    BY <1>0, <1>10 DEF WritePassword, IInv, TypeOK, Users, Mine
  <2>2. Busy(c) /\ Reply(c) /\ OneUsable' /\ CurrentSessions'
    BY <1>10, <2>1, CodesUntouched, SessionsRevoked DEF WritePassword, At, Busy
  <2>. QED BY <1>0, <2>2, SoloReply
<1>11. ASSUME CreateUserWrite(c) PROVE Alone'
  <2>1. Busy(c) /\ Reply(c) /\ UNCHANGED <<codes, sessions>>
    BY <1>11 DEF CreateUserWrite, At, Busy
  <2>2. OneUsable' /\ CurrentSessions'
    BY <1>1, <1>11, <2>1, FreshAccount DEF CreateUserWrite
  <2>. QED BY <1>0, <2>1, <2>2, SoloReply
<1>12. ASSUME DeleteUserSessions(c) PROVE Alone'
  <2>1. Busy(c) /\ Next2(c, "deleteUser") /\ OneUsable' /\ CurrentSessions'
    BY <1>12, CodesUntouched, SessionsRevoked DEF DeleteUserSessions, At, Busy
  <2>. QED BY <1>0, <2>1, SoloNext DEF Steps
<1>13. ASSUME DeleteUserWrite(c) PROVE Alone'
  <2>1. OneUsable' /\ CurrentSessions' /\ Busy(c) /\ Reply(c)
    BY <1>1, <1>2, <1>13 DEF DeleteUserWrite, At, Busy
  <2>. QED BY <1>0, <2>1, SoloReply
<1>14. ASSUME Die(c) PROVE Alone'
  BY <1>0, <1>1, <1>14, SoloReply DEF Die, rows
<1>. QED BY <1>4, <1>5, <1>6, <1>7, <1>8, <1>9, <1>10, <1>11, <1>12, <1>13, <1>14

\* Sessions revoked at once, and the passing of time.
LEMMA SoloWorld ==
  ASSUME IInv, Alone
  PROVE  /\ \A n : RevokeSession(n) => Alone'
         /\ LogoutAll => Alone'
         /\ Tick => Alone'
<1>1. ASSUME UNCHANGED <<account, call>>, OneUsable', CurrentSessions',
             \A type : NoneUsable(type) => NoneUsable(type)'
      PROVE  Alone'
  BY <1>1 DEF Alone, Busy, At, Mine
<1>2. ASSUME codes' = codes PROVE OneUsable' /\ \A type : NoneUsable(type) => NoneUsable(type)'
  BY <1>2, CodesUntouched DEF Alone, NoneUsable, Usable
<1>3. ASSUME account' = account, \A s \in sessions' : s.valid => s \in sessions
      PROVE  CurrentSessions'
  BY <1>3, SessionsRevoked DEF Alone
<1>4. \A s \in sessions : ~[s EXCEPT !.valid = FALSE].valid
  BY DEF IInv, TypeOK
<1>5. ASSUME NEW n, RevokeSession(n) PROVE Alone'
  <2>1. \A s \in sessions' : s.valid => s \in sessions
    BY <1>4, <1>5 DEF RevokeSession
  <2>. QED BY <1>1, <1>2, <1>3, <1>5, <2>1 DEF RevokeSession
<1>6. ASSUME LogoutAll PROVE Alone'
  <2>1. \A s \in sessions' : s.valid => s \in sessions
    BY <1>4, <1>6 DEF LogoutAll
  <2>. QED BY <1>1, <1>2, <1>3, <1>6, <2>1 DEF LogoutAll
<1>7. ASSUME Tick PROVE Alone'
  <2>1. PICK k \in codes : /\ k.age # "dead"
                           /\ codes' = (codes \ {k}) \cup {[k EXCEPT !.age = Older(@)]}
    BY <1>7 DEF Tick
  <2>. DEFINE old == [k EXCEPT !.age = Older(@)]
  <2>2. old.type = k.type /\ (Usable(old) => Usable(k))
    BY <2>1 DEF IInv, TypeOK, Usable
  <2>3. codes' = (codes \ {k}) \cup {old}
    BY <2>1
  <2>. HIDE DEF old
  <2>4. OneUsable'
    BY <2>2, <2>3 DEF Alone, OneUsable, Usable
  <2>5. \A type : NoneUsable(type) => NoneUsable(type)'
    BY <2>2, <2>3 DEF NoneUsable, Usable
  <2>6. UNCHANGED <<account, sessions, call>>
    BY <1>7 DEF Tick
  <2>. QED BY <1>1, <1>3, <2>4, <2>5, <2>6
<1>. QED BY <1>5, <1>6, <1>7

----------------------------------------------------------------------------

\* The rows of codes and sessions go with their account: it is Nil after a step
\* only if it was, or by DeleteAccount.
LEMMA OrphansRequest ==
  ASSUME IInv, NoOrphans, NEW c \in Clients,
         \/ RegisterDelete(c) \/ RegisterCreate(c) \/ OAuthUpdate(c) \/ OAuthCreate(c)
         \/ CreateUserWrite(c) \/ DeleteUserWrite(c) \/ VerifyWrite(c) \/ ResetWrite(c)
         \/ WritePassword(c)
  PROVE  NoOrphans'
<1>1. call[c].pw \in Passwords \cup {Nil} /\ users \in Nat
  BY DEF IInv, TypeOK, Calls
<1>2. \A a \in Users : a # Nil
  BY NilIsNull
<1>3. CASE UNCHANGED <<account, codes, sessions>>
  BY <1>3 DEF NoOrphans
<1>4. CASE DeleteAccount
  BY <1>4 DEF NoOrphans, DeleteAccount
<1>5. CASE account' \in Users
  BY <1>2, <1>5 DEF NoOrphans
<1>6. ASSUME NEW verified \in BOOLEAN, NEW pw \in Passwords \cup {Nil},
             NEW linked \in BOOLEAN, CreateAccount(verified, pw, linked)
      PROVE  account' \in Users
  BY <1>1, <1>6 DEF CreateAccount, Users
<1>7. ASSUME Mine(call[c].user) PROVE account \in Users
  BY <1>7 DEF Mine, IInv, TypeOK
<1>8. ASSUME RegisterCreate(c) \/ OAuthCreate(c) \/ CreateUserWrite(c) PROVE NoOrphans'
  BY <1>1, <1>3, <1>5, <1>6, <1>8 DEF RegisterCreate, OAuthCreate, CreateUserWrite, rows
<1>9. ASSUME RegisterDelete(c) \/ DeleteUserWrite(c) PROVE NoOrphans'
  BY <1>3, <1>4, <1>9 DEF RegisterDelete, DeleteUserWrite, rows
<1>10. ASSUME OAuthUpdate(c) \/ VerifyWrite(c) PROVE NoOrphans'
  <2>1. account \in Users => [account EXCEPT !.linked = TRUE, !.verified = TRUE] \in Users
                             /\ [account EXCEPT !.verified = TRUE] \in Users
    BY DEF Users
  <2>. QED BY <1>3, <1>5, <1>7, <1>10, <2>1 DEF OAuthUpdate, VerifyWrite, Found
<1>11. ASSUME ResetWrite(c) PROVE NoOrphans'
  <2>1. ASSUME account \in Users
        PROVE  [account EXCEPT !.pw = call[c].pw, !.resets = @ + 1] \in Users
    <3>1. account.resets + 1 \in Nat
      BY <2>1 DEF Users
    <3>. QED BY <1>1, <2>1, <3>1, UserFields
  <2>. QED BY <1>3, <1>5, <1>7, <1>11, <2>1 DEF ResetWrite, Found
<1>12. ASSUME WritePassword(c) PROVE NoOrphans'
  <2>1. account \in Users => [account EXCEPT !.pw = call[c].pw] \in Users
    BY <1>1 DEF Users
  <2>. QED BY <1>3, <1>5, <1>7, <1>12, <2>1 DEF WritePassword
<1>. QED BY <1>8, <1>9, <1>10, <1>11, <1>12

LEMMA OrphansRest ==
  ASSUME IInv, NoOrphans, account' = account,
         account = Nil => codes' \subseteq codes /\ sessions' \subseteq sessions
  PROVE  NoOrphans'
BY DEF NoOrphans

LEMMA OrphansRows ==
  ASSUME IInv, NoOrphans, NEW c \in Clients,
         \/ NewCode(c) \/ RequestCodeInvalidate(c) \/ RequestCodeCooldown(c)
         \/ UseCodeFind(c) \/ OAuthEmail(c) \/ GenerateTokens(c)
         \/ DeleteUserCodes(c) \/ DeleteUserSessions(c) \/ Die(c)
  PROVE  NoOrphans'
BY OrphansRest
   DEF NewCode, RequestCodeInvalidate, RequestCodeCooldown, UseCodeFind, OAuthEmail,
       GenerateTokens, DeleteUserCodes, DeleteUserSessions, Die, rows, Mine, NoOrphans

LEMMA SoloKeeps == SoloInv /\ [Next]_vars => SoloInv'
<1>. SUFFICES ASSUME SoloInv, [Next]_vars PROVE SoloInv'
  OBVIOUS
<1>0. IInv /\ NoOrphans
  BY DEF SoloInv
<1>1. IInv'
  BY <1>0, StepKeeps
<1>2. CASE UNCHANGED vars
  <2>1. UNCHANGED <<account, codes, sessions, call, overlap>>
    BY <1>2 DEF vars, rows
  <2>. QED BY <1>1, <2>1
         DEF SoloInv, NoOrphans, Alone, Busy, At, Mine, NoneUsable, OneUsable, Usable,
             CurrentSessions
<1>3. ASSUME NEW c \in Clients,
             \/ RegisterDelete(c) \/ RegisterCreate(c) \/ OAuthUpdate(c) \/ OAuthCreate(c)
             \/ CreateUserWrite(c) \/ DeleteUserWrite(c) \/ VerifyWrite(c) \/ ResetWrite(c)
             \/ WritePassword(c)
      PROVE  SoloInv'
  <2>1. overlap' = overlap
    BY <1>3 DEF RegisterDelete, RegisterCreate, OAuthUpdate, OAuthCreate, CreateUserWrite,
         DeleteUserWrite, VerifyWrite, ResetWrite, WritePassword, Reply, Next2, OpenSession,
         Goto
  <2>2. Alone => Alone'
    BY <1>0, <1>3, SoloCodes, SoloAccounts
  <2>3. NoOrphans'
    BY <1>0, <1>3, OrphansRequest
  <2>. QED BY <1>1, <2>1, <2>2, <2>3 DEF SoloInv
<1>4. ASSUME NEW c \in Clients,
             \/ NewCode(c) \/ RequestCodeInvalidate(c) \/ RequestCodeCooldown(c)
             \/ UseCodeFind(c) \/ OAuthEmail(c) \/ GenerateTokens(c)
             \/ DeleteUserCodes(c) \/ DeleteUserSessions(c) \/ Die(c)
      PROVE  SoloInv'
  <2>1. overlap' = overlap
    BY <1>4 DEF NewCode, RequestCodeInvalidate, RequestCodeCooldown, UseCodeFind, OAuthEmail,
         GenerateTokens, DeleteUserCodes, DeleteUserSessions, Die, Reply, Next2, Goto
  <2>2. Alone => Alone'
    BY <1>0, <1>4, SoloCodes, SoloAccounts
  <2>3. NoOrphans'
    BY <1>0, <1>4, OrphansRows
  <2>. QED BY <1>1, <2>1, <2>2, <2>3 DEF SoloInv
<1>5. ASSUME NEW c \in Clients,
             \/ \E t \in Types : RequestCodeBegin(c, t)
             \/ \E n \in 1..sent : UseCodeBegin(c, "EMAIL_VERIFICATION", n, Nil)
             \/ \E n \in 1..sent, pw \in Passwords : UseCodeBegin(c, "PASSWORD_RESET", n, pw)
             \/ OAuthBegin(c) \/ DeleteUserBegin(c)
             \/ \E pw \in Passwords : \/ RegisterBegin(c, pw) \/ LoginBegin(c, pw)
                                      \/ SetPasswordBegin(c, pw) \/ CreateUserBegin(c, pw)
             \/ \E old, new \in Passwords : ChangePasswordBegin(c, old, new)
      PROVE  SoloInv'
  <2>1. UNCHANGED rows
    BY <1>5 DEF RequestCodeBegin, UseCodeBegin, OAuthBegin, DeleteUserBegin, RegisterBegin,
         LoginBegin, SetPasswordBegin, CreateUserBegin, ChangePasswordBegin, Begin
  <2>2. ~overlap' => Alone'
    BY <1>5, SoloBeginActions DEF SetPasswordBegin
  <2>3. NoOrphans'
    BY <1>0, <2>1 DEF NoOrphans, rows
  <2>. QED BY <1>1, <2>2, <2>3 DEF SoloInv
<1>6. ASSUME (\E n \in 1..opened : RevokeSession(n)) \/ LogoutAll \/ Tick PROVE SoloInv'
  <2>1. UNCHANGED <<account, overlap>>
    BY <1>6 DEF RevokeSession, LogoutAll, Tick
  <2>2. Alone => Alone'
    BY <1>0, <1>6, SoloWorld
  <2>3. NoOrphans'
    <3>1. account = Nil => codes' = {} /\ sessions' = {}
      BY <1>0, <1>6 DEF RevokeSession, LogoutAll, Tick, NoOrphans
    <3>. QED BY <2>1, <3>1 DEF NoOrphans
  <2>. QED BY <1>1, <2>1, <2>2, <2>3 DEF SoloInv
<1>. QED BY <1>2, <1>3, <1>4, <1>5, <1>6 DEF Next

LEMMA SoloInvHolds == Spec => []SoloInv
BY SoloInit, SoloKeeps, PTL DEF Spec

\* While requests for an address do not overlap, and wherever one dies, only the
\* latest code of a kind opens anything: the codes before it were used up first.
THEOREM OneCodeOpens == Spec => []OneUsableCode
<1>1. SoloInv => OneUsableCode
  BY DEF SoloInv, Alone, OneUsable, OneUsableCode
<1>. QED BY <1>1, SoloInvHolds, PTL

\* While requests for an address do not overlap, a session that was opened
\* before a password reset does not outlive it.
THEOREM ResetsEndSessions == Spec => []ResetEndsSessions
<1>1. SoloInv => ResetEndsSessions
  BY DEF SoloInv, Alone, CurrentSessions, ResetEndsSessions
<1>. QED BY <1>1, SoloInvHolds, PTL

-----------------------------------------------------------------------------
(* The session of a browser tab.                                           *)

RequestRows == [st : {"idle", "sent", "401", "queued", "waiting"},
                auth : OrNone(AccessTokens), retry : BOOLEAN]
RefreshRows == [st : {"none", "sent", "ok", "refused", "lost"},
                rt : OrNone(Sessions), got : OrNone(AccessTokens)]
EntryRows   == [kind : {"none", "login", "bootstrap"},
                st : {"none", "sent", "ok", "refused", "lost"},
                rt : OrNone(Sessions), got : OrNone(AccessTokens)]
LogoutRows  == [st : {"none", "sent", "done"}, rt : OrNone(Sessions), got : {None}]

\* TabTypeOK, in the parts that a step may touch one by one.
ServerOK  == /\ token \in [Sessions -> {"none", "valid", "revoked"}]
             /\ issued \in 0..MaxIssued /\ expired \in 0..issued
TabOK     == /\ storage \in OrNone(Sessions) /\ user \in OrNone(Sessions)
             /\ mem \in OrNone(AccessTokens)
RequestOK == req \in [Requests -> RequestRows] /\ queue \subseteq Requests
RefreshOK == refreshing \in RefreshRows /\ (refreshing.st # "none" => refreshing.rt \in Sessions)
EntryOK   == entry \in EntryRows /\ (entry.kind = "bootstrap" => entry.rt \in Sessions)
LogoutOK  == logout \in LogoutRows /\ (logout.st # "none" => logout.rt \in Sessions)

LEMMA TypeParts ==
  /\ TabTypeOK => ServerOK /\ TabOK /\ RequestOK /\ RefreshOK /\ EntryOK /\ LogoutOK
  /\ ServerOK' /\ TabOK' /\ RequestOK' /\ RefreshOK' /\ EntryOK' /\ LogoutOK' => TabTypeOK'
BY DEF TabTypeOK, ServerOK, TabOK, RequestOK, RefreshOK, EntryOK, LogoutOK,
       RequestRows, RefreshRows, EntryRows, LogoutRows

\* What an answer of the server to a refresh carries.
LEMMA AnswerType ==
  ASSUME ServerOK, NEW rt \in Sessions, NEW got \in Answers, RefreshAnswer(rt, got),
         UNCHANGED <<token, expired>>
  PROVE  ServerOK' /\ got.st \in {"ok", "refused", "lost"} /\ got.token \in OrNone(AccessTokens)
<1>1. got.st \in {"ok", "refused", "lost"} /\ got.token \in OrNone(AccessTokens)
  BY DEF Answers
<1>2. issued \in 0..MaxIssued /\ expired \in 0..issued /\ MaxIssued \in Nat
  BY BoundIsNatural DEF ServerOK
<1>3. issued' \in 0..MaxIssued /\ expired' \in 0..issued'
  BY <1>2 DEF RefreshAnswer
<1>. QED BY <1>1, <1>3 DEF ServerOK

LEMMA MintedType ==
  ASSUME ServerOK, NEW s \in Sessions, issued < MaxIssued
  PROVE  Minted(s) \in OrNone(AccessTokens)
BY BoundIsNatural DEF ServerOK, Minted, AccessTokens, OrNone

LEMMA ConstantRows ==
  Idle \in RequestRows /\ NoFetch \in RefreshRows /\ NoFetch \in LogoutRows /\ NoEntry \in EntryRows
  /\ None \in OrNone(Sessions) /\ None \in OrNone(AccessTokens) /\ NoFetch.st = "none"
  /\ NoEntry.kind = "none" /\ Idle.st = "idle"
BY DEF Idle, NoFetch, NoEntry, RequestRows, RefreshRows, LogoutRows, EntryRows, OrNone

\* Types are kept by the steps of the protected requests.
LEMMA RequestTypes ==
  ASSUME TabTypeOK, NEW q \in Requests,
         Send(q) \/ Respond(q) \/ Expire(q) \/ Enqueue(q) \/ StartRefresh(q)
  PROVE  TabTypeOK'
<1>. USE TypeParts, ConstantRows
<1>0. ServerOK /\ TabOK /\ RequestOK /\ RefreshOK /\ EntryOK /\ LogoutOK
  OBVIOUS
<1>1. ASSUME Send(q) PROVE TabTypeOK'
  <2>1. RequestOK' BY <1>0, <1>1 DEF Send, RequestOK, RequestRows, TabOK
  <2>2. UNCHANGED <<server, tab, refreshing, entry, logout>> BY <1>1 DEF Send
  <2>. QED BY <1>0, <2>1, <2>2 DEF server, tab, ServerOK, TabOK, RefreshOK, EntryOK, LogoutOK
<1>2. ASSUME Respond(q) PROVE TabTypeOK'
  <2>1. [Idle EXCEPT !.st = "401"] \in RequestRows BY DEF Idle, RequestRows, OrNone
  <2>2. RequestOK' BY <1>0, <1>2, <2>1 DEF Respond, RequestOK
  <2>3. UNCHANGED <<server, tab, refreshing, entry, logout>> BY <1>2 DEF Respond
  <2>. QED BY <1>0, <2>2, <2>3 DEF server, tab, ServerOK, TabOK, RefreshOK, EntryOK, LogoutOK
<1>3. ASSUME Expire(q) PROVE TabTypeOK'
  <2>1. RequestOK' BY <1>0, <1>3 DEF Expire, RequestOK
  <2>2. TabOK' BY <1>3 DEF Expire, ClearSession, ApplySession, TabOK
  <2>3. UNCHANGED <<server, refreshing, entry, logout>> BY <1>3 DEF Expire
  <2>. QED BY <1>0, <2>1, <2>2, <2>3 DEF server, ServerOK, RefreshOK, EntryOK, LogoutOK
<1>4. ASSUME Enqueue(q) PROVE TabTypeOK'
  <2>1. RequestOK' BY <1>0, <1>4 DEF Enqueue, RequestOK, RequestRows
  <2>2. UNCHANGED <<server, tab, refreshing, entry, logout>> BY <1>4 DEF Enqueue
  <2>. QED BY <1>0, <2>1, <2>2 DEF server, tab, ServerOK, TabOK, RefreshOK, EntryOK, LogoutOK
<1>5. ASSUME StartRefresh(q) PROVE TabTypeOK'
  <2>1. RequestOK' BY <1>0, <1>5 DEF StartRefresh, RequestOK, RequestRows
  <2>2. RefreshOK' BY <1>0, <1>5 DEF StartRefresh, RefreshOK, RefreshRows, TabOK, OrNone
  <2>3. UNCHANGED <<server, tab, entry, logout>> BY <1>5 DEF StartRefresh
  <2>. QED BY <1>0, <2>1, <2>2, <2>3 DEF server, tab, ServerOK, TabOK, EntryOK, LogoutOK
<1>. QED BY <1>1, <1>2, <1>3, <1>4, <1>5

\* Types are kept by the refresh of the interceptor.
LEMMA RefreshTypes ==
  ASSUME TabTypeOK, RespondRefresh \/ RefreshDone \/ RefreshFailed
  PROVE  TabTypeOK'
<1>. USE TypeParts, ConstantRows
<1>0. ServerOK /\ TabOK /\ RequestOK /\ RefreshOK /\ EntryOK /\ LogoutOK
  OBVIOUS
<1>1. ASSUME RespondRefresh PROVE TabTypeOK'
  <2>1. PICK got \in Answers :
          /\ RefreshAnswer(refreshing.rt, got)
          /\ refreshing' = [refreshing EXCEPT !.st = got.st, !.got = got.token]
    BY <1>1 DEF RespondRefresh
  <2>2. refreshing.rt \in Sessions BY <1>0, <1>1 DEF RespondRefresh, RefreshOK
  <2>3. UNCHANGED <<token, expired, tab, req, queue, entry, logout>>
    BY <1>1 DEF RespondRefresh
  <2>4. ServerOK' /\ got.st \in {"ok", "refused", "lost"} /\ got.token \in OrNone(AccessTokens)
    BY <1>0, <2>1, <2>2, <2>3, AnswerType
  <2>5. RefreshOK' BY <1>0, <2>1, <2>2, <2>4 DEF RefreshOK, RefreshRows
  <2>. QED BY <1>0, <2>3, <2>4, <2>5 DEF tab, TabOK, RequestOK, EntryOK, LogoutOK
<1>2. ASSUME RefreshDone PROVE TabTypeOK'
  <2>1. TabOK' BY <1>0, <1>2 DEF RefreshDone, TabOK, RefreshOK, RefreshRows
  <2>2. [st |-> "sent", auth |-> refreshing.got, retry |-> TRUE] \in RequestRows
    BY <1>0 DEF RequestRows, RefreshOK, RefreshRows
  <2>3. RequestOK' BY <1>0, <1>2, <2>2 DEF RefreshDone, RequestOK
  <2>4. RefreshOK' BY <1>2 DEF RefreshDone, RefreshOK
  <2>5. UNCHANGED <<server, entry, logout>> BY <1>2 DEF RefreshDone
  <2>. QED BY <1>0, <2>1, <2>3, <2>4, <2>5 DEF server, ServerOK, EntryOK, LogoutOK
<1>3. ASSUME RefreshFailed PROVE TabTypeOK'
  <2>1. TabOK' BY <1>3 DEF RefreshFailed, ClearSession, ApplySession, TabOK
  <2>2. RequestOK' BY <1>0, <1>3 DEF RefreshFailed, RequestOK
  <2>3. RefreshOK' BY <1>3 DEF RefreshFailed, RefreshOK
  <2>4. UNCHANGED <<server, entry, logout>> BY <1>3 DEF RefreshFailed
  <2>. QED BY <1>0, <2>1, <2>2, <2>3, <2>4 DEF server, ServerOK, EntryOK, LogoutOK
<1>. QED BY <1>1, <1>2, <1>3

\* Types are kept by login, the bootstrap and logout.
LEMMA EntryTypes ==
  ASSUME TabTypeOK,
         \/ Login \/ RespondLogin \/ LoginDone \/ Reload \/ RespondBootstrap \/ BootstrapDone
         \/ Logout \/ RespondLogout \/ LogoutDone
  PROVE  TabTypeOK'
<1>. USE TypeParts, ConstantRows
<1>0. ServerOK /\ TabOK /\ RequestOK /\ RefreshOK /\ EntryOK /\ LogoutOK
  OBVIOUS
<1>1. ASSUME Login PROVE TabTypeOK'
  <2>1. EntryOK' BY <1>1 DEF Login, NoEntry, EntryOK, EntryRows, OrNone
  <2>2. UNCHANGED <<server, tab, req, refreshing, queue, logout>> BY <1>1 DEF Login
  <2>. QED BY <1>0, <2>1, <2>2 DEF server, tab, ServerOK, TabOK, RequestOK, RefreshOK, LogoutOK
<1>2. ASSUME RespondLogin PROVE TabTypeOK'
  <2>1. entry.kind = "login" /\ UNCHANGED <<expired, tab, req, refreshing, queue, logout>>
    BY <1>2 DEF RespondLogin
  <2>2. CASE entry' = [entry EXCEPT !.st = "lost"] /\ UNCHANGED <<token, issued>>
    <3>1. EntryOK' BY <1>0, <2>1, <2>2 DEF EntryOK, EntryRows
    <3>. QED BY <1>0, <2>1, <2>2, <3>1
         DEF tab, ServerOK, TabOK, RequestOK, RefreshOK, LogoutOK
  <2>3. ASSUME NEW s \in Sessions, token[s] = "none", issued < MaxIssued,
               token' = [token EXCEPT ![s] = "valid"], issued' = issued + 1,
               entry' = [entry EXCEPT !.st = "ok", !.rt = s, !.got = Minted(s)]
        PROVE  TabTypeOK'
    <3>1. Minted(s) \in OrNone(AccessTokens) /\ s \in OrNone(Sessions)
      BY <1>0, <2>3, MintedType DEF OrNone
    <3>2. EntryOK' BY <1>0, <2>1, <2>3, <3>1 DEF EntryOK, EntryRows
    <3>3. ServerOK' BY <1>0, <2>1, <2>3, BoundIsNatural DEF ServerOK
    <3>. QED BY <1>0, <2>1, <3>2, <3>3 DEF tab, TabOK, RequestOK, RefreshOK, LogoutOK
  <2>. QED BY <1>2, <2>2, <2>3 DEF RespondLogin
<1>3. ASSUME LoginDone PROVE TabTypeOK'
  <2>1. TabOK' BY <1>0, <1>3 DEF LoginDone, ApplySession, tab, TabOK, EntryOK, EntryRows
  <2>2. EntryOK' BY <1>3 DEF LoginDone, EntryOK
  <2>3. UNCHANGED <<server, req, refreshing, queue, logout>> BY <1>3 DEF LoginDone
  <2>. QED BY <1>0, <2>1, <2>2, <2>3 DEF server, ServerOK, RequestOK, RefreshOK, LogoutOK
<1>4. ASSUME Reload PROVE TabTypeOK'
  <2>1. TabOK' BY <1>0, <1>4 DEF Reload, TabOK
  <2>2. RequestOK' BY <1>4 DEF Reload, RequestOK
  <2>3. RefreshOK' /\ LogoutOK' BY <1>4 DEF Reload, RefreshOK, LogoutOK
  <2>4. EntryOK' BY <1>0, <1>4 DEF Reload, EntryOK, EntryRows, TabOK, OrNone
  <2>5. UNCHANGED server BY <1>4 DEF Reload
  <2>. QED BY <1>0, <2>1, <2>2, <2>3, <2>4, <2>5 DEF server, ServerOK
<1>5. ASSUME RespondBootstrap PROVE TabTypeOK'
  <2>1. PICK got \in Answers :
          /\ RefreshAnswer(entry.rt, got)
          /\ entry' = [entry EXCEPT !.st = got.st, !.got = got.token]
    BY <1>5 DEF RespondBootstrap
  <2>2. entry.rt \in Sessions BY <1>0, <1>5 DEF RespondBootstrap, EntryOK
  <2>3. UNCHANGED <<token, expired, tab, req, refreshing, queue, logout>>
    BY <1>5 DEF RespondBootstrap
  <2>4. ServerOK' /\ got.st \in {"ok", "refused", "lost"} /\ got.token \in OrNone(AccessTokens)
    BY <1>0, <2>1, <2>2, <2>3, AnswerType
  <2>5. EntryOK' BY <1>0, <2>1, <2>2, <2>4 DEF EntryOK, EntryRows
  <2>. QED BY <1>0, <2>3, <2>4, <2>5 DEF tab, TabOK, RequestOK, RefreshOK, LogoutOK
<1>6. ASSUME BootstrapDone PROVE TabTypeOK'
  <2>1. TabOK'
    BY <1>0, <1>6 DEF BootstrapDone, ClearSession, ApplySession, TabOK, EntryOK, EntryRows
  <2>2. EntryOK' BY <1>6 DEF BootstrapDone, EntryOK
  <2>3. UNCHANGED <<server, req, refreshing, queue, logout>> BY <1>6 DEF BootstrapDone
  <2>. QED BY <1>0, <2>1, <2>2, <2>3 DEF server, ServerOK, RequestOK, RefreshOK, LogoutOK
<1>7. ASSUME Logout PROVE TabTypeOK'
  <2>1. UNCHANGED <<server, req, refreshing, queue, entry>> BY <1>7 DEF Logout
  <2>2. TabOK' BY <1>0, <1>7 DEF Logout, ClearSession, ApplySession, tab, TabOK
  <2>3. LogoutOK'
    BY <1>0, <1>7 DEF Logout, NoFetch, LogoutOK, LogoutRows, TabOK, OrNone
  <2>. QED BY <1>0, <2>1, <2>2, <2>3 DEF server, ServerOK, RequestOK, RefreshOK, EntryOK
<1>8. ASSUME RespondLogout PROVE TabTypeOK'
  <2>1. UNCHANGED <<issued, expired, tab, req, refreshing, queue, entry>>
    BY <1>8 DEF RespondLogout
  <2>2. ServerOK' BY <1>0, <1>8, <2>1 DEF RespondLogout, Revoked, ServerOK
  <2>3. LogoutOK' BY <1>0, <1>8 DEF RespondLogout, LogoutOK, LogoutRows
  <2>. QED BY <1>0, <2>1, <2>2, <2>3 DEF tab, TabOK, RequestOK, RefreshOK, EntryOK
<1>9. ASSUME LogoutDone PROVE TabTypeOK'
  <2>1. TabOK' BY <1>9 DEF LogoutDone, ClearSession, ApplySession, TabOK
  <2>2. LogoutOK' BY <1>9 DEF LogoutDone, LogoutOK
  <2>3. UNCHANGED <<server, req, refreshing, queue, entry>> BY <1>9 DEF LogoutDone
  <2>. QED BY <1>0, <2>1, <2>2, <2>3 DEF server, ServerOK, RequestOK, RefreshOK, EntryOK
<1>. QED BY <1>1, <1>2, <1>3, <1>4, <1>5, <1>6, <1>7, <1>8, <1>9

\* Types are kept by the clock, the other devices and the other tab.
LEMMA WorldTypes ==
  ASSUME TabTypeOK,
         \/ AccessTokenExpires \/ OtherTabLogout
         \/ \E s \in Sessions : RevokeElsewhere(s) \/ OtherTabLogin(s)
  PROVE  TabTypeOK'
<1>. USE TypeParts, ConstantRows
<1>0. ServerOK /\ TabOK /\ RequestOK /\ RefreshOK /\ EntryOK /\ LogoutOK
  OBVIOUS
<1>1. UNCHANGED calls
  BY DEF AccessTokenExpires, OtherTabLogout, RevokeElsewhere, OtherTabLogin
<1>2. RequestOK' /\ RefreshOK' /\ EntryOK' /\ LogoutOK'
  BY <1>0, <1>1 DEF calls, RequestOK, RefreshOK, EntryOK, LogoutOK
<1>3. ASSUME AccessTokenExpires PROVE TabTypeOK'
  <2>1. ServerOK' BY <1>0, <1>3, BoundIsNatural DEF AccessTokenExpires, ServerOK
  <2>2. TabOK' BY <1>0, <1>3 DEF AccessTokenExpires, tab, TabOK
  <2>. QED BY <1>2, <2>1, <2>2
<1>4. ASSUME OtherTabLogout PROVE TabTypeOK'
  <2>1. ServerOK' BY <1>0, <1>4 DEF OtherTabLogout, Revoked, ServerOK
  <2>2. TabOK' BY <1>0, <1>4 DEF OtherTabLogout, TabOK
  <2>. QED BY <1>2, <2>1, <2>2
<1>5. ASSUME NEW s \in Sessions, RevokeElsewhere(s) PROVE TabTypeOK'
  <2>1. ServerOK' BY <1>0, <1>5 DEF RevokeElsewhere, Revoked, ServerOK
  <2>2. TabOK' BY <1>0, <1>5 DEF RevokeElsewhere, tab, TabOK
  <2>. QED BY <1>2, <2>1, <2>2
<1>6. ASSUME NEW s \in Sessions, OtherTabLogin(s) PROVE TabTypeOK'
  <2>1. ServerOK' BY <1>0, <1>6 DEF OtherTabLogin, ServerOK
  <2>2. TabOK' BY <1>0, <1>6 DEF OtherTabLogin, TabOK, OrNone
  <2>. QED BY <1>2, <2>1, <2>2
<1>. QED BY <1>3, <1>4, <1>5, <1>6

LEMMA TypesKept == TabTypeOK /\ [TabNext]_tabVars => TabTypeOK'
<1>. SUFFICES ASSUME TabTypeOK, [TabNext]_tabVars PROVE TabTypeOK'
  OBVIOUS
<1>1. CASE UNCHANGED tabVars
  BY <1>1 DEF tabVars, server, tab, calls, TabTypeOK
<1>2. CASE TabNext
  BY <1>2, RequestTypes, RefreshTypes, EntryTypes, WorldTypes DEF TabNext
<1>. QED BY <1>1, <1>2

LEMMA TypesAtStart == TabInit => TabTypeOK
BY ConstantRows, BoundIsNatural
DEF TabInit, TabTypeOK, RequestRows, RefreshRows, EntryRows, LogoutRows

\* The types of everything the tab, the server and the calls remember.
THEOREM SessionTypeCorrect == TabSpec => []TabTypeOK
BY TypesAtStart, TypesKept, PTL DEF TabSpec

----------------------------------------------------------------------------
(* Who waits for whom                                                      *)

Waiting == {q \in Requests : req[q].st = "waiting"}
Queued  == {q \in Requests : req[q].st = "queued"}

\* Besides WaitsForRefresh: without a refresh nobody waits, so that the request
\* that starts one is the only one that has.
WaitInv == /\ TabTypeOK
           /\ queue = Queued
           /\ refreshing.st = "none" => queue = {} /\ Waiting = {}
           /\ refreshing.st # "none" => \E q \in Requests : Waiting = {q}

LEMMA WaitInvSuffices == WaitInv => WaitsForRefresh
BY DEF WaitInv, WaitsForRefresh, Waiting, Queued

\* A step that leaves alone who waits and whether a refresh is in flight.
LEMMA SameWaiters ==
  ASSUME WaitInv, TabTypeOK', Waiting' = Waiting, Queued' = Queued, queue' = queue,
         refreshing'.st = "none" <=> refreshing.st = "none"
  PROVE  WaitInv'
BY DEF WaitInv

\* A step after which nobody waits.
LEMMA NoWaiters ==
  ASSUME TabTypeOK', Waiting' = {}, Queued' = {}, queue' = {}, refreshing'.st = "none"
  PROVE  WaitInv'
BY DEF WaitInv

LEMMA RequestsWait ==
  ASSUME WaitInv, TabTypeOK', NEW q \in Requests,
         Send(q) \/ Respond(q) \/ Expire(q) \/ Enqueue(q) \/ StartRefresh(q)
  PROVE  WaitInv'
<1>1. req \in [Requests -> RequestRows]
  BY DEF WaitInv, TabTypeOK, RequestRows
<1>2. ASSUME NEW row, row.st \notin {"waiting", "queued"},
             req[q].st \notin {"waiting", "queued"}, req' = [req EXCEPT ![q] = row]
      PROVE  Waiting' = Waiting /\ Queued' = Queued
  BY <1>1, <1>2 DEF Waiting, Queued
<1>3. ASSUME Send(q) PROVE WaitInv'
  <2>1. Waiting' = Waiting /\ Queued' = Queued
    BY <1>1, <1>2, <1>3 DEF Send
  <2>. QED BY <1>3, <2>1, SameWaiters DEF Send
<1>4. ASSUME Respond(q) PROVE WaitInv'
  <2>1. Idle.st = "idle" /\ [Idle EXCEPT !.st = "401"].st = "401" BY DEF Idle
  <2>2. Waiting' = Waiting /\ Queued' = Queued
    BY <1>1, <1>2, <1>4, <2>1 DEF Respond
  <2>. QED BY <1>4, <2>2, SameWaiters DEF Respond
<1>5. ASSUME Expire(q) PROVE WaitInv'
  <2>1. Waiting' = Waiting /\ Queued' = Queued
    BY <1>1, <1>2, <1>5 DEF Expire, Idle
  <2>. QED BY <1>5, <2>1, SameWaiters DEF Expire
<1>6. ASSUME Enqueue(q) PROVE WaitInv'
  <2>1. req'[q].st = "queued" /\ \A p \in Requests \ {q} : req'[p] = req[p]
    BY <1>1, <1>6 DEF Enqueue, RequestRows
  <2>2. req[q].st = "401" /\ queue' = queue \cup {q} /\ refreshing.st # "none"
        /\ UNCHANGED refreshing
    BY <1>6 DEF Enqueue
  <2>3. Waiting' = Waiting /\ Queued' = Queued \cup {q}
    BY <2>1, <2>2 DEF Waiting, Queued
  <2>. QED BY <2>2, <2>3 DEF WaitInv
<1>7. ASSUME StartRefresh(q) PROVE WaitInv'
  <2>1. req'[q].st = "waiting" /\ \A p \in Requests \ {q} : req'[p] = req[p]
    BY <1>1, <1>7 DEF StartRefresh, RequestRows
  <2>2. req[q].st = "401" /\ refreshing.st = "none" /\ refreshing'.st # "none"
        /\ UNCHANGED queue
    BY <1>7 DEF StartRefresh
  <2>3. Waiting' = {q} /\ Queued' = Queued
    BY <2>1, <2>2 DEF Waiting, Queued, WaitInv
  <2>. QED BY <2>2, <2>3 DEF WaitInv
<1>. QED BY <1>3, <1>4, <1>5, <1>6, <1>7

LEMMA WaitKept == WaitInv /\ [TabNext]_tabVars => WaitInv'
<1>. SUFFICES ASSUME WaitInv, [TabNext]_tabVars PROVE WaitInv'
  OBVIOUS
<1>1. TabTypeOK'
  BY TypesKept DEF WaitInv
<1>2. req \in [Requests -> RequestRows]
  BY DEF WaitInv, TabTypeOK, RequestRows
<1>3. ASSUME UNCHANGED <<req, queue>>, refreshing'.st = "none" <=> refreshing.st = "none"
      PROVE  WaitInv'
  <2>1. Waiting' = Waiting /\ Queued' = Queued BY <1>3 DEF Waiting, Queued
  <2>. QED BY <1>1, <1>3, <2>1, SameWaiters
<1>4. CASE UNCHANGED tabVars
  BY <1>3, <1>4 DEF tabVars, calls
<1>5. ASSUME NEW q \in Requests,
             Send(q) \/ Respond(q) \/ Expire(q) \/ Enqueue(q) \/ StartRefresh(q)
      PROVE  WaitInv'
  BY <1>1, <1>5, RequestsWait
<1>6. CASE RespondRefresh
  <2>1. PICK got \in Answers : refreshing' = [refreshing EXCEPT !.st = got.st, !.got = got.token]
    BY <1>6 DEF RespondRefresh
  <2>2. got.st \in {"ok", "refused", "lost"} BY DEF Answers
  <2>3. refreshing.st = "sent" /\ refreshing'.st = got.st
    BY <1>6, <2>1 DEF RespondRefresh, WaitInv, TabTypeOK
  <2>. QED BY <1>3, <1>6, <2>2, <2>3 DEF RespondRefresh
<1>7. CASE RefreshDone \/ RefreshFailed
  <2>1. PICK row : /\ row.st \in {"sent", "idle"}
                   /\ req' = [q \in Requests |-> IF q \in Woken THEN row ELSE req[q]]
                   /\ queue' = {} /\ refreshing' = NoFetch
    <3>1. CASE RefreshDone BY <3>1 DEF RefreshDone
    <3>2. CASE RefreshFailed BY <3>2 DEF RefreshFailed, Idle
    <3>. QED BY <1>7, <3>1, <3>2
  <2>2. Woken = Waiting \cup Queued BY DEF Woken, WaitInv, Waiting
  <2>3. Waiting' = {} /\ Queued' = {} BY <2>1, <2>2 DEF Waiting, Queued
  <2>. QED BY <1>1, <2>1, <2>3, NoWaiters DEF NoFetch
<1>8. CASE Reload
  <2>1. Waiting' = {} /\ Queued' = {} BY <1>8 DEF Reload, Idle, Waiting, Queued
  <2>. QED BY <1>1, <1>8, <2>1, NoWaiters DEF Reload, NoFetch
<1>9. CASE \/ Login \/ RespondLogin \/ LoginDone \/ RespondBootstrap \/ BootstrapDone
           \/ Logout \/ RespondLogout \/ LogoutDone
  BY <1>3, <1>9 DEF Login, RespondLogin, LoginDone, RespondBootstrap, BootstrapDone,
                    Logout, RespondLogout, LogoutDone
<1>10. CASE \/ AccessTokenExpires \/ OtherTabLogout
            \/ \E s \in Sessions : RevokeElsewhere(s) \/ OtherTabLogin(s)
  BY <1>3, <1>10 DEF AccessTokenExpires, OtherTabLogout, RevokeElsewhere, OtherTabLogin, calls
<1>. QED BY <1>4, <1>5, <1>6, <1>7, <1>8, <1>9, <1>10 DEF TabNext

\* Whatever number of calls fail at once, they wait for one refresh, every one
\* of them is in pendingQueue or has started it, and nobody waits without it.
THEOREM RequestsWaitForOneRefresh == TabSpec => []WaitsForRefresh
<1>1. TabInit => WaitInv
  BY TypesAtStart DEF TabInit, WaitInv, Waiting, Queued, Idle, NoFetch
<1>. QED BY <1>1, WaitKept, WaitInvSuffices, PTL DEF TabSpec

----------------------------------------------------------------------------
(* Which session a token, a user and a stored token belong to              *)

\* What an answer that has arrived says of the session it was asked for: an
\* access token is of that session, and a refusal is final, as a refresh token
\* that has been issued is revoked for good.
Answered(fetch) ==
  /\ fetch.st = "ok" => fetch.got.session = fetch.rt
  /\ fetch.rt # None => token[fetch.rt] # "none"
  /\ fetch.st = "refused" => token[fetch.rt] = "revoked"

AnswerInv == /\ TabTypeOK
             /\ storage # None => token[storage] # "none"
             /\ Answered(refreshing) /\ Answered(entry)
             /\ entry.st = "refused" => entry.kind = "bootstrap"
             /\ entry.kind = "bootstrap" => entry.st # "none"
             /\ entry.kind = "login" /\ entry.st = "ok" => entry.rt # None

\* A session is opened once and revoked for good.
LEMMA TokensAge ==
  ASSUME TabTypeOK, [TabNext]_tabVars
  PROVE  /\ \A s \in Sessions : token[s] # "none" => token'[s] # "none"
         /\ \A s \in Sessions : token[s] = "revoked" => token'[s] = "revoked"
<1>1. token \in [Sessions -> {"none", "valid", "revoked"}]
  BY DEF TabTypeOK
<1>2. CASE UNCHANGED token
  BY <1>2
<1>3. ASSUME NEW s \in Sessions, token' = Revoked(s)
      PROVE  \A r \in Sessions : /\ token[r] # "none" => token'[r] # "none"
                                 /\ token[r] = "revoked" => token'[r] = "revoked"
  BY <1>1, <1>3 DEF Revoked
<1>4. ASSUME NEW s \in Sessions, token[s] = "none", token' = [token EXCEPT ![s] = "valid"]
      PROVE  \A r \in Sessions : /\ token[r] # "none" => token'[r] # "none"
                                 /\ token[r] = "revoked" => token'[r] = "revoked"
  BY <1>1, <1>4
<1>5. CASE RespondLogin
  BY <1>2, <1>4, <1>5 DEF RespondLogin
<1>6. CASE RespondLogout
  BY <1>2, <1>3, <1>6 DEF RespondLogout, TabTypeOK
<1>7. CASE OtherTabLogout
  BY <1>3, <1>7 DEF OtherTabLogout, TabTypeOK, OrNone
<1>8. CASE \E s \in Sessions : RevokeElsewhere(s) \/ OtherTabLogin(s)
  BY <1>3, <1>4, <1>8 DEF RevokeElsewhere, OtherTabLogin
<1>9. CASE \/ \E q \in Requests : Send(q) \/ Respond(q) \/ Expire(q) \/ Enqueue(q) \/ StartRefresh(q)
           \/ RespondRefresh \/ RefreshDone \/ RefreshFailed \/ Login \/ LoginDone \/ Reload
           \/ RespondBootstrap \/ BootstrapDone \/ Logout \/ LogoutDone \/ AccessTokenExpires
           \/ UNCHANGED tabVars
  <2>1. UNCHANGED token
    BY <1>9 DEF Send, Respond, Expire, Enqueue, StartRefresh, RespondRefresh, RefreshDone,
       RefreshFailed, Login, LoginDone, Reload, RespondBootstrap, BootstrapDone, Logout,
       LogoutDone, AccessTokenExpires, server, tabVars
  <2>. QED BY <1>2, <2>1
<1>. QED BY <1>5, <1>6, <1>7, <1>8, <1>9 DEF TabNext

\* An answer that is there stays true, and one that arrives is.
LEMMA AnsweredKept ==
  ASSUME TabTypeOK, [TabNext]_tabVars, NEW fetch, Answered(fetch), fetch.rt \in OrNone(Sessions),
         fetch.st = "refused" => fetch.rt \in Sessions, NoneIsNoSession
  PROVE  /\ fetch.st = "ok" => fetch.got.session = fetch.rt
         /\ fetch.rt # None => token'[fetch.rt] # "none"
         /\ fetch.st = "refused" => token'[fetch.rt] = "revoked"
BY TokensAge DEF Answered, OrNone

LEMMA AnswerArrives ==
  ASSUME TabTypeOK, NEW rt \in Sessions, token[rt] # "none", NEW got \in Answers,
         RefreshAnswer(rt, got), UNCHANGED token
  PROVE  /\ got.st = "ok" => got.token.session = rt
         /\ got.st = "refused" => token'[rt] = "revoked"
BY DEF RefreshAnswer, Minted, TabTypeOK

\* A step that leaves both calls and the stored token alone, or drops a token.
LEMMA CallsKept ==
  ASSUME AnswerInv, [TabNext]_tabVars, TabTypeOK', UNCHANGED <<refreshing, entry>>,
         storage' \in {storage, None}
  PROVE  AnswerInv'
<1>1. /\ refreshing.rt \in OrNone(Sessions) /\ entry.rt \in OrNone(Sessions)
      /\ refreshing.st = "refused" => refreshing.rt \in Sessions
      /\ entry.st = "refused" => entry.rt \in Sessions
  BY DEF AnswerInv, TabTypeOK, Answered, OrNone
<1>2. Answered(refreshing)'
  BY <1>1, AnsweredKept, NoneIsNoSession DEF AnswerInv, Answered
<1>3. Answered(entry)'
  BY <1>1, AnsweredKept, NoneIsNoSession DEF AnswerInv, Answered
<1>4. storage' # None => token'[storage'] # "none"
  BY TokensAge, NoneIsNoSession DEF AnswerInv, TabTypeOK, OrNone
<1>. QED BY <1>2, <1>3, <1>4 DEF AnswerInv

\* The steps of the protected requests.
LEMMA RequestAnswers ==
  ASSUME AnswerInv, [TabNext]_tabVars, TabTypeOK', NEW q \in Requests,
         Send(q) \/ Respond(q) \/ Expire(q) \/ Enqueue(q) \/ StartRefresh(q)
  PROVE  AnswerInv'
<1>1. CASE Send(q) \/ Respond(q) \/ Expire(q) \/ Enqueue(q)
  <2>1. UNCHANGED <<refreshing, entry>> /\ storage' \in {storage, None}
    BY <1>1 DEF Send, Respond, Expire, Enqueue, tab, ClearSession, ApplySession
  <2>. QED BY <2>1, CallsKept
<1>2. CASE StartRefresh(q)
  <2>1. /\ storage # None /\ UNCHANGED <<token, storage, entry>>
        /\ refreshing' = [st |-> "sent", rt |-> storage, got |-> None]
    BY <1>2 DEF StartRefresh, server, tab
  <2>2. Answered(refreshing)' BY <2>1 DEF Answered, AnswerInv
  <2>3. Answered(entry)' BY <2>1 DEF Answered, AnswerInv
  <2>. QED BY <2>1, <2>2, <2>3 DEF AnswerInv
<1>. QED BY <1>1, <1>2

\* The steps of the refresh, of the login and of the bootstrap.
LEMMA EntryAnswers ==
  ASSUME AnswerInv, [TabNext]_tabVars, TabTypeOK',
         \/ RespondRefresh \/ RefreshDone \/ RefreshFailed
         \/ Login \/ RespondLogin \/ LoginDone
         \/ Reload \/ RespondBootstrap \/ BootstrapDone
  PROVE  AnswerInv'
<1>0. TabTypeOK /\ Answered(refreshing) /\ Answered(entry)
  BY DEF AnswerInv
<1>1. /\ refreshing \in RefreshRows /\ entry \in EntryRows
      /\ refreshing.st # "none" => refreshing.rt \in Sessions
      /\ entry.kind = "bootstrap" => entry.rt \in Sessions
      /\ refreshing.rt \in OrNone(Sessions) /\ entry.rt \in OrNone(Sessions)
  BY <1>0 DEF TabTypeOK, RefreshRows, EntryRows
<1>2. Answered(NoFetch) /\ NoFetch.rt = None /\ NoFetch.st = "none"
      /\ NoEntry.rt = None /\ NoEntry.st = "none" /\ NoEntry.kind = "none"
  BY DEF Answered, NoFetch, NoEntry
<1>3. ASSUME UNCHANGED refreshing PROVE Answered(refreshing)'
  BY <1>0, <1>1, <1>3, AnsweredKept, NoneIsNoSession DEF Answered
<1>4. ASSUME UNCHANGED entry PROVE Answered(entry)'
  <2>1. entry.st = "refused" => entry.rt \in Sessions BY <1>1 DEF AnswerInv
  <2>. QED BY <1>0, <1>1, <1>4, <2>1, AnsweredKept, NoneIsNoSession DEF Answered
<1>5. ASSUME UNCHANGED storage PROVE storage' # None => token'[storage'] # "none"
  BY <1>5, TokensAge, NoneIsNoSession DEF AnswerInv, TabTypeOK, OrNone
<1>6. ASSUME refreshing' = NoFetch PROVE Answered(refreshing)'
  BY <1>2, <1>6 DEF Answered
<1>7. ASSUME entry' = NoEntry PROVE Answered(entry)'
  BY <1>2, <1>7 DEF Answered
<1>8. CASE RespondRefresh
  <2>1. PICK got \in Answers :
          /\ RefreshAnswer(refreshing.rt, got)
          /\ refreshing' = [refreshing EXCEPT !.st = got.st, !.got = got.token]
    BY <1>8 DEF RespondRefresh
  <2>2. UNCHANGED <<token, storage, entry>> /\ refreshing.rt \in Sessions
    BY <1>1, <1>8 DEF RespondRefresh, tab
  <2>3. token[refreshing.rt] # "none"
    BY <1>0, <2>2, NoneIsNoSession DEF Answered
  <2>4. /\ got.st = "ok" => got.token.session = refreshing.rt
        /\ got.st = "refused" => token'[refreshing.rt] = "revoked"
    BY <1>0, <2>1, <2>2, <2>3, AnswerArrives
  <2>5. refreshing'.st = got.st /\ refreshing'.got = got.token /\ refreshing'.rt = refreshing.rt
    BY <1>1, <2>1 DEF RefreshRows
  <2>6. Answered(refreshing)' BY <2>2, <2>3, <2>4, <2>5 DEF Answered
  <2>. QED BY <1>4, <1>5, <2>2, <2>6 DEF AnswerInv
<1>9. CASE RefreshDone \/ RefreshFailed
  <2>1. refreshing' = NoFetch /\ UNCHANGED <<entry, token>> /\ storage' \in {storage, None}
    BY <1>9 DEF RefreshDone, RefreshFailed, ClearSession, ApplySession, server
  <2>2. storage' # None => token'[storage'] # "none" BY <2>1 DEF AnswerInv
  <2>. QED BY <1>4, <1>6, <2>1, <2>2 DEF AnswerInv
<1>10. CASE Login
  <2>1. entry' = [NoEntry EXCEPT !.kind = "login", !.st = "sent"]
        /\ UNCHANGED <<refreshing, storage>>
    BY <1>10 DEF Login, tab
  <2>2. entry'.st = "sent" /\ entry'.rt = None BY <2>1 DEF NoEntry
  <2>3. Answered(entry)' BY <2>2 DEF Answered
  <2>. QED BY <1>3, <1>5, <2>1, <2>2, <2>3 DEF AnswerInv
<1>11. CASE RespondLogin
  <2>1. entry.kind = "login" /\ UNCHANGED <<refreshing, storage>>
    BY <1>11 DEF RespondLogin, tab
  <2>2. CASE entry' = [entry EXCEPT !.st = "lost"] /\ UNCHANGED <<token, issued>>
    <3>1. entry'.st = "lost" /\ entry'.rt = entry.rt BY <1>1, <2>2 DEF EntryRows
    <3>2. Answered(entry)' BY <1>0, <2>2, <3>1 DEF Answered
    <3>. QED BY <1>3, <1>5, <2>1, <3>1, <3>2 DEF AnswerInv
  <2>3. ASSUME NEW s \in Sessions, token' = [token EXCEPT ![s] = "valid"],
               entry' = [entry EXCEPT !.st = "ok", !.rt = s, !.got = Minted(s)]
        PROVE  AnswerInv'
    <3>1. entry'.st = "ok" /\ entry'.rt = s /\ entry'.got = Minted(s)
      BY <1>1, <2>3 DEF EntryRows
    <3>2. token'[s] = "valid" BY <1>0, <2>3 DEF TabTypeOK
    <3>3. Minted(s).session = s BY DEF Minted
    <3>4. Answered(entry)' BY <3>1, <3>2, <3>3 DEF Answered
    <3>. QED BY <1>3, <1>5, <2>1, <3>1, <3>4, NoneIsNoSession DEF AnswerInv
  <2>. QED BY <1>11, <2>2, <2>3 DEF RespondLogin
<1>12. CASE LoginDone
  <2>1. entry' = NoEntry /\ UNCHANGED <<refreshing, token>>
    BY <1>12 DEF LoginDone, server
  <2>2. storage' = storage \/ storage' = entry.rt
    BY <1>12 DEF LoginDone, ApplySession, tab
  <2>3. storage' # None => token'[storage'] # "none"
    BY <1>0, <2>1, <2>2 DEF AnswerInv, Answered
  <2>. QED BY <1>2, <1>3, <1>7, <2>1, <2>3 DEF AnswerInv
<1>13. CASE Reload
  <2>1. refreshing' = NoFetch /\ UNCHANGED <<token, storage>>
        /\ entry' = IF storage = None THEN NoEntry
              ELSE [kind |-> "bootstrap", st |-> "sent", rt |-> storage, got |-> None]
    BY <1>13 DEF Reload, server
  <2>2. Answered(entry)' BY <1>2, <2>1 DEF Answered, AnswerInv
  <2>. QED BY <1>2, <1>5, <1>6, <2>1, <2>2 DEF AnswerInv
<1>14. CASE RespondBootstrap
  <2>1. PICK got \in Answers :
          /\ RefreshAnswer(entry.rt, got)
          /\ entry' = [entry EXCEPT !.st = got.st, !.got = got.token]
    BY <1>14 DEF RespondBootstrap
  <2>2. /\ UNCHANGED <<token, storage, refreshing>>
        /\ entry.kind = "bootstrap" /\ entry.rt \in Sessions
    BY <1>1, <1>14 DEF RespondBootstrap, tab
  <2>3. token[entry.rt] # "none"
    BY <1>0, <2>2, NoneIsNoSession DEF Answered
  <2>4. /\ got.st = "ok" => got.token.session = entry.rt
        /\ got.st = "refused" => token'[entry.rt] = "revoked"
    BY <1>0, <2>1, <2>2, <2>3, AnswerArrives
  <2>5. /\ entry'.st = got.st /\ entry'.got = got.token /\ entry'.rt = entry.rt
        /\ entry'.kind = entry.kind
    BY <1>1, <2>1 DEF EntryRows
  <2>6. Answered(entry)' BY <2>2, <2>3, <2>4, <2>5 DEF Answered
  <2>7. got.st # "none" BY DEF Answers
  <2>. QED BY <1>3, <1>5, <2>2, <2>5, <2>6, <2>7 DEF AnswerInv
<1>15. CASE BootstrapDone
  <2>1. entry' = NoEntry /\ UNCHANGED <<refreshing, token>> /\ storage' \in {storage, None}
    BY <1>15 DEF BootstrapDone, ClearSession, ApplySession, server
  <2>2. storage' # None => token'[storage'] # "none" BY <2>1 DEF AnswerInv
  <2>. QED BY <1>2, <1>3, <1>7, <2>1, <2>2 DEF AnswerInv
<1>. QED BY <1>8, <1>9, <1>10, <1>11, <1>12, <1>13, <1>14, <1>15

LEMMA AnswersKept == AnswerInv /\ [TabNext]_tabVars => AnswerInv'
<1>. SUFFICES ASSUME AnswerInv, [TabNext]_tabVars PROVE AnswerInv'
  OBVIOUS
<1>1. TabTypeOK'
  BY TypesKept DEF AnswerInv
<1>2. CASE UNCHANGED tabVars
  BY <1>1, <1>2, CallsKept DEF tabVars, tab, calls
<1>3. CASE \/ Logout \/ RespondLogout \/ LogoutDone
           \/ AccessTokenExpires \/ OtherTabLogout \/ \E s \in Sessions : RevokeElsewhere(s)
  <2>1. UNCHANGED <<refreshing, entry>> /\ storage' \in {storage, None}
    BY <1>3 DEF Logout, RespondLogout, LogoutDone, AccessTokenExpires, OtherTabLogout,
       RevokeElsewhere, tab, calls, ClearSession, ApplySession
  <2>. QED BY <1>1, <2>1, CallsKept
<1>4. ASSUME NEW s \in Sessions, OtherTabLogin(s)
      PROVE  AnswerInv'
  <2>1. UNCHANGED <<refreshing, entry>> /\ storage' = s
        /\ token' = [token EXCEPT ![s] = "valid"]
    BY <1>4 DEF OtherTabLogin, calls
  <2>2. token'[s] = "valid" BY <2>1 DEF AnswerInv, TabTypeOK
  <2>3. /\ refreshing.rt \in OrNone(Sessions) /\ entry.rt \in OrNone(Sessions)
        /\ refreshing.st = "refused" => refreshing.rt \in Sessions
        /\ entry.st = "refused" => entry.rt \in Sessions
    BY DEF AnswerInv, TabTypeOK
  <2>4. Answered(refreshing)'
    BY <2>1, <2>3, AnsweredKept, NoneIsNoSession DEF AnswerInv, Answered
  <2>5. Answered(entry)'
    BY <2>1, <2>3, AnsweredKept, NoneIsNoSession DEF AnswerInv, Answered
  <2>. QED BY <1>1, <2>1, <2>2, <2>4, <2>5 DEF AnswerInv
<1>. QED BY <1>1, <1>2, <1>3, <1>4, RequestAnswers, EntryAnswers DEF TabNext

LEMMA AnswersAtStart == TabInit => AnswerInv
BY TypesAtStart DEF TabInit, AnswerInv, Answered, NoFetch, NoEntry

LEMMA DropsHaveReasons ==
  ASSUME AnswerInv, [TabNext]_tabVars, storage # None, storage' = None, token[storage] = "valid"
  PROVE  \/ logout.st = "done" \/ OtherTabLogout
         \/ refreshing.st = "lost" \/ entry.st = "lost"
         \/ (refreshing.st = "refused" /\ refreshing.rt # storage)
         \/ (entry.st = "refused" /\ entry.rt # storage)
<1>1. storage' # storage
  OBVIOUS
<1>2. ASSUME NEW fetch, Answered(fetch), fetch.st = "refused"
      PROVE  fetch.rt # storage
  BY <1>2 DEF Answered
<1>3. CASE RefreshFailed
  BY <1>2, <1>3 DEF RefreshFailed, AnswerInv
<1>4. CASE BootstrapDone
  <2>1. entry.st # "sent" /\ entry.st # "ok"
    BY <1>1, <1>4 DEF BootstrapDone, ApplySession
  <2>2. entry.st \in {"none", "lost", "refused"}
    BY <2>1 DEF AnswerInv, TabTypeOK
  <2>3. entry.kind = "bootstrap" /\ entry.st # "none"
    BY <1>4 DEF BootstrapDone, AnswerInv
  <2>. QED BY <1>2, <2>2, <2>3 DEF AnswerInv
<1>5. CASE LoginDone
  BY <1>1, <1>5 DEF LoginDone, ApplySession, AnswerInv, tab
<1>6. CASE Logout
  BY <1>1, <1>6 DEF Logout, tab
<1>7. CASE LogoutDone
  BY <1>7 DEF LogoutDone
<1>8. ASSUME NEW q \in Requests, Expire(q) PROVE FALSE
  BY <1>8 DEF Expire
<1>9. ASSUME \E s \in Sessions : RevokeElsewhere(s) \/ OtherTabLogin(s) PROVE FALSE
  BY <1>1, <1>9, NoneIsNoSession DEF RevokeElsewhere, OtherTabLogin, tab
<1>10. ASSUME \/ \E q \in Requests : Send(q) \/ Respond(q) \/ Enqueue(q) \/ StartRefresh(q)
              \/ RespondRefresh \/ RefreshDone \/ Login \/ RespondLogin \/ Reload
              \/ RespondBootstrap \/ RespondLogout \/ AccessTokenExpires \/ UNCHANGED tabVars
       PROVE  FALSE
  BY <1>1, <1>10 DEF Send, Respond, Enqueue, StartRefresh, RespondRefresh, RefreshDone, Login,
     RespondLogin, Reload, RespondBootstrap, RespondLogout, AccessTokenExpires, tabVars, tab
<1>. QED BY <1>3, <1>4, <1>5, <1>6, <1>7, <1>8, <1>9, <1>10 DEF TabNext

\* A tab gives up a session that the API still honours for one of the reasons
\* listed with SessionKept and for no other: in particular, a refresh that was
\* refused for the stored token proves that the API had revoked it.
THEOREM SessionIsKept == TabSpec => SessionKept
<1>1. AnswerInv /\ [TabNext]_tabVars =>
        (storage # None /\ storage' = None /\ token[storage] = "valid" =>
           \/ logout.st = "done" \/ OtherTabLogout
           \/ refreshing.st = "lost" \/ entry.st = "lost"
           \/ (refreshing.st = "refused" /\ refreshing.rt # storage)
           \/ (entry.st = "refused" /\ entry.rt # storage))
  BY DropsHaveReasons
<1>. QED BY <1>1, AnswersAtStart, AnswersKept, PTL DEF TabSpec, SessionKept

LEMMA StrangersHaveReasons ==
  ASSUME AnswerInv, [TabNext]_tabVars, Strange(mem', user'), ~Strange(mem, user)
  PROVE  refreshing.st = "ok" /\ refreshing'.st = "none" /\ refreshing.rt # user
<1>1. ~(UNCHANGED <<mem, user>>)
  BY DEF Strange
<1>2. mem' # None /\ user' # None /\ mem'.session # user'
  BY DEF Strange
<1>3. CASE RefreshDone
  <2>1. /\ refreshing.st = "ok" /\ refreshing' = NoFetch
        /\ mem' = refreshing.got /\ user' = user
    BY <1>3 DEF RefreshDone
  <2>2. refreshing.got.session = refreshing.rt
    BY <2>1 DEF AnswerInv, Answered
  <2>. QED BY <1>2, <2>1, <2>2 DEF NoFetch
<1>4. ASSUME LoginDone \/ BootstrapDone PROVE FALSE
  <2>1. entry.st = "ok" /\ mem' = entry.got /\ user' = entry.rt
    BY <1>1, <1>2, <1>4 DEF LoginDone, BootstrapDone, ClearSession, ApplySession, tab
  <2>. QED BY <1>2, <2>1 DEF AnswerInv, Answered
<1>5. ASSUME \/ RefreshFailed \/ Reload \/ Logout \/ LogoutDone \/ \E q \in Requests : Expire(q)
      PROVE  FALSE
  BY <1>1, <1>2, <1>5
     DEF RefreshFailed, Reload, Logout, LogoutDone, Expire, ClearSession, ApplySession, tab
<1>6. ASSUME \/ \E q \in Requests : Send(q) \/ Respond(q) \/ Enqueue(q) \/ StartRefresh(q)
             \/ RespondRefresh \/ Login \/ RespondLogin \/ RespondBootstrap \/ RespondLogout
             \/ AccessTokenExpires \/ OtherTabLogout
             \/ (\E s \in Sessions : RevokeElsewhere(s) \/ OtherTabLogin(s))
             \/ UNCHANGED tabVars
      PROVE  FALSE
  BY <1>1, <1>6 DEF Send, Respond, Enqueue, StartRefresh, RespondRefresh, Login, RespondLogin,
     RespondBootstrap, RespondLogout, AccessTokenExpires, OtherTabLogout, RevokeElsewhere,
     OtherTabLogin, tabVars, tab
<1>. QED BY <1>3, <1>4, <1>5, <1>6 DEF TabNext

\* The token in memory never comes to belong to another session than the user
\* on screen, but by a refresh with a token that was not that user's.
THEOREM TokensOfTheUser == TabSpec => TokenOfTheUser
<1>1. AnswerInv /\ [TabNext]_tabVars =>
        (Strange(mem', user') /\ ~Strange(mem, user)
           => refreshing.st = "ok" /\ refreshing'.st = "none" /\ refreshing.rt # user)
  BY StrangersHaveReasons
<1>. QED BY <1>1, AnswersAtStart, AnswersKept, PTL DEF TabSpec, TokenOfTheUser
=============================================================================
