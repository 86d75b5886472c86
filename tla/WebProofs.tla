------------------------------ MODULE WebProofs ------------------------------
(***************************************************************************)
(* Theorems about what browsers see of the server: Login, for every set of  *)
(* browsers, accounts, states, session tokens and concurrent requests,      *)
(* RunPages, for every set of users, projects, repositories and runs, every *)
(* membership and every max-age, and RateLimiter, for every limit, window,  *)
(* stall and number of callers.                                             *)
(***************************************************************************)
EXTENDS Login, RunPages, RateLimiter, FiniteSetTheorems, WellFoundedInduction, TLAPS

-----------------------------------------------------------------------------
(* Login: the inductive invariant *)

\* A callback whose state cookie matched, up to its answer.
Accepted == {"exchange", "lookup", "identity", "inserted", "profile", "save", "session", "answer"}
\* It holds the id of a users row that is not committed.
Inserting == {"identity", "inserted"}
\* It holds the id of its account's user.
Identified == {"profile", "save", "session", "answer"}

LoginPhases == Accepted \cup {"free", "refuse", "clear"}
LoginRequest ==
    [phase : LoginPhases, browser : Browsers \cup {None}, state : States \cup {None},
     user : Nat, token : Tokens \cup {None}]

LoginTypeOK ==
    /\ cookie \in [Browsers -> [state : States \cup {None}, session : Tokens \cup {None}]]
    /\ flow \in [States -> [browser : Browsers \cup {None}, account : Accounts \cup {None},
                            redeemed : BOOLEAN]]
    /\ request \in [Requests -> LoginRequest]
    /\ identity \in [Accounts -> Nat]
    /\ lastUser \in Nat
    /\ session \in [Tokens -> [user : Nat, live : BOOLEAN]]
    /\ authorised \in [Browsers -> SUBSET Accounts]

\* A code belongs to an account that was authorised from the browser the state
\* was issued to.
FlowsAreAuthorised ==
    \A s \in States : flow[s].account # None =>
       flow[s].browser \in Browsers /\ flow[s].account \in authorised[flow[s].browser]

\* Ids of users come from the sequence, one for each account.
IdentitiesAreDistinct ==
    /\ \A a \in Accounts : identity[a] <= lastUser
    /\ \A a, c \in Accounts : identity[a] = identity[c] /\ identity[a] # 0 => a = c
    /\ users = {identity[a] : a \in Accounts} \ {0}

\* A browser's cookies name a state issued to it, and a session of an account
\* authorised from it.
CookieOK(b) ==
    /\ cookie[b].state # None => flow[cookie[b].state].browser = b
    /\ cookie[b].session # None =>
          /\ session[cookie[b].session].user # 0
          /\ \E a \in authorised[b] : identity[a] = session[cookie[b].session].user

\* An accepted callback arrived at the browser its state was issued to.
OwnFlow(x) ==
    x.phase \in Accepted => /\ x.state \in States
                            /\ flow[x.state].account \in Accounts
                            /\ flow[x.state].browser = x.browser

\* The id of a row not committed is nobody's yet, and while the identity's key is
\* held the account has no user.
NewUser(x) ==
    /\ x.phase \in Inserting => /\ 0 < x.user /\ x.user <= lastUser
                                /\ \A a \in Accounts : identity[a] # x.user
    /\ x.phase = "inserted" => identity[flow[x.state].account] = 0

\* From the commit on, the account's user is known and the session is its.
KnownUser(x) ==
    /\ x.phase \in Identified => x.user # 0 /\ identity[flow[x.state].account] = x.user
    /\ x.phase = "answer" => x.token \in Tokens /\ session[x.token].user = x.user

LoginOK(x) == OwnFlow(x) /\ NewUser(x) /\ KnownUser(x)

\* Two callbacks never hold one id, nor one key.
InsertsAreApart ==
    \A r, q \in Requests : r # q =>
       /\ At(r, "inserted") /\ At(q, "inserted") => AccountOf(r) # AccountOf(q)
       /\ request[r].phase \in Inserting /\ request[q].phase \in Inserting
             => request[r].user # request[q].user

LoginInv ==
    /\ LoginTypeOK
    /\ FlowsAreAuthorised
    /\ IdentitiesAreDistinct
    /\ \A b \in Browsers : CookieOK(b)
    /\ \A r \in Requests : LoginOK(request[r])
    /\ InsertsAreApart

-----------------------------------------------------------------------------
(* Login: the invariant is inductive *)

\* A step of one request that leaves accounts and sessions alone.
LEMMA OneLogsIn ==
    ASSUME LoginInv, NEW r \in Requests, NEW next \in LoginRequest, LoginOK(next),
           request' = [request EXCEPT ![r] = next],
           UNCHANGED <<flow, authorised, identity, users, lastUser, session>>,
           cookie' \in [Browsers -> [state : States \cup {None}, session : Tokens \cup {None}]],
           \A b \in Browsers : CookieOK(b)',
           next.phase \in Inserting =>
              /\ request[r].phase \in Inserting
              /\ next.user = request[r].user /\ next.state = request[r].state,
           next.phase = "inserted" => ~IdentityLocked(r)
    PROVE  LoginInv'
<1>0. /\ LoginTypeOK /\ FlowsAreAuthorised /\ IdentitiesAreDistinct /\ InsertsAreApart
      /\ \A q \in Requests : LoginOK(request[q])
  BY DEF LoginInv
<1>1. request'[r] = next /\ \A q \in Requests : q # r => request'[q] = request[q]
  BY <1>0 DEF LoginTypeOK
<1>2. LoginTypeOK' /\ FlowsAreAuthorised' /\ IdentitiesAreDistinct'
  BY <1>0 DEF LoginTypeOK, FlowsAreAuthorised, IdentitiesAreDistinct
<1>3. \A q \in Requests : LoginOK(request[q])'
  <2>1. ASSUME NEW q \in Requests
        PROVE  LoginOK(request'[q])
    BY <1>0, <1>1
  <2>2. QED
    BY <2>1 DEF LoginOK, OwnFlow, NewUser, KnownUser
<1>4. ASSUME NEW q \in Requests, q # r
      PROVE  /\ At(r, "inserted")' /\ At(q, "inserted")' => AccountOf(r)' # AccountOf(q)'
             /\ request'[r].phase \in Inserting /\ request'[q].phase \in Inserting
                   => request'[r].user # request'[q].user
  <2>1. next.phase = "inserted" /\ At(q, "inserted") => AccountOf(q) # AccountOf(r)
    BY <1>4 DEF IdentityLocked
  <2>2. next.phase = "inserted" => AccountOf(r)' = AccountOf(r)
    BY <1>1 DEF AccountOf, Inserting
  <2>3. request'[q] = request[q] /\ AccountOf(q)' = AccountOf(q)
    BY <1>1, <1>4 DEF AccountOf
  <2>4. next.phase \in Inserting /\ request[q].phase \in Inserting => next.user # request[q].user
    BY <1>0, <1>4 DEF InsertsAreApart
  <2>5. QED
    BY <1>1, <2>1, <2>2, <2>3, <2>4 DEF At
<1>5. InsertsAreApart'
  <2>1. ASSUME NEW p \in Requests, NEW q \in Requests, p # q
        PROVE  /\ At(p, "inserted")' /\ At(q, "inserted")' => AccountOf(p)' # AccountOf(q)'
               /\ request'[p].phase \in Inserting /\ request'[q].phase \in Inserting
                     => request'[p].user # request'[q].user
    <3>1. CASE p = r \/ q = r
      BY <1>4, <2>1, <3>1
    <3>2. CASE p # r /\ q # r
      BY <1>0, <1>1, <2>1, <3>2 DEF InsertsAreApart, At, AccountOf
    <3>3. QED
      BY <3>1, <3>2
  <2>2. QED
    BY <2>1 DEF InsertsAreApart
<1>6. QED
  BY <1>2, <1>3, <1>5 DEF LoginInv

\* Cookies that do not change stay right, as long as identities only grow.
LEMMA CookiesStay ==
    ASSUME LoginInv, UNCHANGED cookie,
           \A b \in Browsers : authorised[b] \subseteq authorised'[b],
           \A s \in States : flow[s].browser # None => flow'[s].browser = flow[s].browser,
           \A a \in Accounts : identity[a] # 0 => identity'[a] = identity[a],
           \A t \in Tokens : session[t].user # 0 => session'[t].user = session[t].user
    PROVE  \A b \in Browsers : CookieOK(b)'
<1> SUFFICES ASSUME NEW b \in Browsers
             PROVE  CookieOK(b)'
  OBVIOUS
<1>1. /\ cookie[b].state \in States \cup {None} /\ cookie[b].session \in Tokens \cup {None}
      /\ authorised[b] \subseteq Accounts /\ CookieOK(b) /\ None \notin Browsers
  BY LoginAssumption DEF LoginInv, LoginTypeOK
<1>2. cookie[b].state # None => flow'[cookie[b].state].browser = b
  BY <1>1 DEF CookieOK
<1>3. cookie[b].session # None =>
         /\ session'[cookie[b].session].user # 0
         /\ \E a \in authorised'[b] : identity'[a] = session'[cookie[b].session].user
  <2> SUFFICES ASSUME cookie[b].session # None
               PROVE  /\ session'[cookie[b].session].user # 0
                      /\ \E a \in authorised'[b] : identity'[a] = session'[cookie[b].session].user
    OBVIOUS
  <2>1. PICK a \in authorised[b] : identity[a] = session[cookie[b].session].user
    BY <1>1 DEF CookieOK
  <2>2. session[cookie[b].session].user # 0
    BY <1>1 DEF CookieOK
  <2>3. session'[cookie[b].session].user = session[cookie[b].session].user
    BY <1>1, <2>2
  <2>4. a \in authorised'[b] /\ identity'[a] = identity[a]
    BY <1>1, <2>1, <2>2
  <2>5. QED
    BY <2>1, <2>2, <2>3, <2>4
<1>4. QED
  BY <1>2, <1>3 DEF CookieOK

\* Goto changes the phase only.
LEMMA GotoEffect ==
    ASSUME LoginTypeOK, NEW r \in Requests, NEW phase \in LoginPhases, Goto(r, phase)
    PROVE  \E next \in LoginRequest :
              /\ request' = [request EXCEPT ![r] = next] /\ next.phase = phase
              /\ next.browser = request[r].browser /\ next.state = request[r].state
              /\ next.user = request[r].user /\ next.token = request[r].token
<1> DEFINE next == [request[r] EXCEPT !.phase = phase]
<1>1. /\ next \in LoginRequest /\ next.phase = phase
      /\ next.browser = request[r].browser /\ next.state = request[r].state
      /\ next.user = request[r].user /\ next.token = request[r].token
  BY DEF LoginTypeOK, LoginRequest
<1>2. request' = [request EXCEPT ![r] = next]
  BY DEF Goto
<1> HIDE DEF next
<1>3. QED
  BY <1>1, <1>2

\* Nothing is claimed of a request that is not an accepted callback.
LEMMA UnclaimedIsOK ==
    ASSUME NEW x, x.phase \in {"free", "refuse", "clear"}
    PROVE  LoginOK(x) /\ x.phase \notin Inserting
BY DEF LoginOK, OwnFlow, NewUser, KnownUser, Accepted, Inserting, Identified

\* The steps of a request that touch neither the database nor a flow.
LEMMA AnswerStep ==
    ASSUME LoginInv, NEW r \in Requests,
           \/ \E b \in Browsers, s \in States : HandleGitHubCallback(r, b, s)
           \/ \E b \in Browsers : LoadCurrentUser(r, b)
           \/ InsertIdentity(r) \/ StepFails(r) \/ AnswerCallback(r) \/ AnswerClear(r) \/ AnswerLost(r)
    PROVE  LoginInv'
<1> USE LoginAssumption
<1>0. /\ LoginTypeOK /\ LoginOK(request[r]) /\ request[r] \in LoginRequest
      /\ \A b \in Browsers : CookieOK(b)
  BY DEF LoginInv, LoginTypeOK
<1>a. Free \in LoginRequest /\ Free.phase = "free" /\ LoginOK(Free) /\ Free.phase \notin Inserting
  <2>1. Free \in LoginRequest /\ Free.phase = "free"
    BY DEF Free, LoginRequest, LoginPhases
  <2>2. QED
    BY <2>1, UnclaimedIsOK
<1>b. Free.phase # "inserted"
  BY <1>a
<1>c. UNCHANGED <<cookie, flow, authorised, identity, session>> =>
         /\ cookie' \in [Browsers -> [state : States \cup {None}, session : Tokens \cup {None}]]
         /\ \A b \in Browsers : CookieOK(b)'
  BY <1>0 DEF LoginTypeOK, CookieOK
<1>1. ASSUME NEW b \in Browsers, NEW s \in States, HandleGitHubCallback(r, b, s)
      PROVE  LoginInv'
  <2> DEFINE next == [Free EXCEPT !.phase = IF StateMatches(b, s) THEN "exchange" ELSE "refuse",
                                  !.browser = b, !.state = s]
  <2>1. /\ request' = [request EXCEPT ![r] = next] /\ flow[s].account # None
        /\ UNCHANGED <<flow, authorised, identity, users, lastUser, session>>
        /\ UNCHANGED cookie
    BY <1>1 DEF HandleGitHubCallback, database
  <2>2. /\ next \in LoginRequest /\ next.browser = b /\ next.state = s
        /\ next.phase = IF StateMatches(b, s) THEN "exchange" ELSE "refuse"
    BY DEF Free, LoginRequest, LoginPhases, Accepted
  <2> HIDE DEF next
  <2>3. LoginOK(next)
    <3>1. CASE StateMatches(b, s)
      <4>1. flow[s].browser = b /\ flow[s].account \in Accounts
        BY <1>0, <2>1, <3>1 DEF StateMatches, CookieOK, LoginTypeOK
      <4>2. QED
        BY <2>2, <3>1, <4>1 DEF LoginOK, OwnFlow, NewUser, KnownUser, Inserting, Identified
    <3>2. CASE ~StateMatches(b, s)
      BY <2>2, <3>2, UnclaimedIsOK
    <3>3. QED
      BY <3>1, <3>2
  <2>4. next.phase \notin Inserting /\ next.phase # "inserted"
    BY <2>2 DEF Inserting
  <2>5. QED
    BY <1>c, <2>1, <2>2, <2>3, <2>4, OneLogsIn
<1>2. ASSUME NEW b \in Browsers, LoadCurrentUser(r, b)
      PROVE  LoginInv'
  <2> DEFINE next == [Free EXCEPT !.phase = "clear", !.browser = b]
  <2>1. /\ request' = [request EXCEPT ![r] = next] /\ UNCHANGED cookie
        /\ UNCHANGED <<flow, authorised, identity, users, lastUser, session>>
    BY <1>2 DEF LoadCurrentUser, database
  <2>2. next \in LoginRequest /\ next.phase = "clear"
    BY DEF Free, LoginRequest, LoginPhases
  <2> HIDE DEF next
  <2>3. LoginOK(next) /\ next.phase \notin Inserting /\ next.phase # "inserted"
    BY <2>2, UnclaimedIsOK
  <2>4. QED
    BY <1>c, <2>1, <2>2, <2>3, OneLogsIn
<1>3. CASE InsertIdentity(r)
  <2> DEFINE a == AccountOf(r)
             phase == IF identity[a] = 0 THEN "inserted" ELSE "refuse"
  <2>1. /\ At(r, "identity") /\ ~IdentityLocked(r) /\ Goto(r, phase) /\ UNCHANGED cookie
        /\ UNCHANGED <<flow, authorised, identity, users, lastUser, session>>
    BY <1>3 DEF InsertIdentity, database
  <2>2. phase \in LoginPhases
    BY DEF LoginPhases, Accepted
  <2> HIDE DEF phase
  <2>3. PICK next \in LoginRequest :
           /\ request' = [request EXCEPT ![r] = next] /\ next.phase = phase
           /\ next.browser = request[r].browser /\ next.state = request[r].state
           /\ next.user = request[r].user
    BY <1>0, <2>1, <2>2, GotoEffect
  <2>4. LoginOK(next)
    <3>1. CASE identity[a] = 0
      BY <1>0, <2>1, <2>3, <3>1 DEF phase, LoginOK, OwnFlow, NewUser, KnownUser, Inserting, Identified,
         Accepted, At, AccountOf
    <3>2. CASE identity[a] # 0
      BY <2>3, <3>2, UnclaimedIsOK DEF phase
    <3>3. QED
      BY <3>1, <3>2
  <2>5. request[r].phase \in Inserting
    BY <2>1 DEF At, Inserting
  <2>6. QED
    BY <1>c, <2>1, <2>3, <2>4, <2>5, OneLogsIn
<1>4. CASE StepFails(r)
  <2>1. /\ Goto(r, "refuse") /\ UNCHANGED cookie
        /\ UNCHANGED <<flow, authorised, identity, users, lastUser, session>>
    BY <1>4 DEF StepFails, database
  <2>2. PICK next \in LoginRequest :
           request' = [request EXCEPT ![r] = next] /\ next.phase = "refuse"
    BY <1>0, <2>1, GotoEffect DEF LoginPhases
  <2>3. LoginOK(next) /\ next.phase \notin Inserting /\ next.phase # "inserted"
    BY <2>2, UnclaimedIsOK
  <2>4. QED
    BY <1>c, <2>1, <2>2, <2>3, OneLogsIn
<1>5. CASE AnswerCallback(r)
  <2> DEFINE b == request[r].browser
  <2>1. /\ At(r, "refuse") \/ At(r, "answer")
        /\ cookie' = [cookie EXCEPT ![b].state = None,
              ![b].session = IF At(r, "answer") THEN request[r].token ELSE @]
        /\ request' = [request EXCEPT ![r] = Free]
        /\ UNCHANGED <<flow, authorised, identity, users, lastUser, session>>
    BY <1>5 DEF AnswerCallback, database
  <2>2. cookie' \in [Browsers -> [state : States \cup {None}, session : Tokens \cup {None}]]
    <3>1. cookie \in [Browsers -> [state : States \cup {None}, session : Tokens \cup {None}]]
      BY <1>0 DEF LoginTypeOK
    <3>2. request[r].token \in Tokens \cup {None}
      BY <1>0 DEF LoginRequest
    <3>3. CASE At(r, "answer")
      <4>1. cookie' = [cookie EXCEPT ![b].state = None, ![b].session = request[r].token]
        BY <2>1, <3>3
      <4>2. QED
        BY <3>1, <3>2, <4>1
    <3>4. CASE ~At(r, "answer")
      <4>1. cookie' = [cookie EXCEPT ![b].state = None, ![b].session = @]
        BY <2>1, <3>4
      <4>2. QED
        BY <3>1, <4>1
    <3>5. QED
      BY <3>3, <3>4
  <2>3. /\ \A c \in Browsers : c # b => cookie'[c] = cookie[c]
        /\ b \in Browsers => /\ cookie'[b].state = None
                            /\ cookie'[b].session = IF At(r, "answer") THEN request[r].token
                                                                      ELSE cookie[b].session
    BY <1>0, <2>1 DEF LoginTypeOK
  <2>4. ASSUME NEW c \in Browsers
        PROVE  CookieOK(c)'
    <3>1. CASE c # b \/ ~At(r, "answer")
      <4>1. /\ cookie'[c].state \in {cookie[c].state, None}
            /\ cookie'[c].session = cookie[c].session
        BY <2>3, <3>1
      <4>2. QED
        BY <1>0, <2>1, <4>1 DEF CookieOK
    <3>2. CASE c = b /\ At(r, "answer")
      <4>1. /\ request[r].state \in States /\ flow[request[r].state].account \in Accounts
            /\ flow[request[r].state].browser = b
        BY <1>0, <3>2 DEF LoginOK, OwnFlow, At, Accepted
      <4>2. flow[request[r].state].account \in authorised[b]
        BY <4>1 DEF LoginInv, FlowsAreAuthorised
      <4>3. /\ request[r].token \in Tokens
            /\ request[r].user # 0 /\ session[request[r].token].user = request[r].user
            /\ identity[flow[request[r].state].account] = request[r].user
        BY <1>0, <3>2 DEF LoginOK, KnownUser, At, Identified
      <4>4. cookie'[c].state = None /\ cookie'[c].session = request[r].token
        BY <2>3, <3>2
      <4>5. QED
        BY <2>1, <3>2, <4>2, <4>3, <4>4 DEF CookieOK
    <3>3. QED
      BY <3>1, <3>2
  <2>5. QED
    BY <1>a, <1>b, <2>1, <2>2, <2>4, OneLogsIn
<1>6. CASE AnswerClear(r)
  <2> DEFINE b == request[r].browser
  <2>1. /\ cookie' = [cookie EXCEPT ![b].session = None]
        /\ request' = [request EXCEPT ![r] = Free]
        /\ UNCHANGED <<flow, authorised, identity, users, lastUser, session>>
    BY <1>6 DEF AnswerClear, database
  <2>2. cookie' \in [Browsers -> [state : States \cup {None}, session : Tokens \cup {None}]]
    <3>1. cookie \in [Browsers -> [state : States \cup {None}, session : Tokens \cup {None}]]
      BY <1>0 DEF LoginTypeOK
    <3>2. \A c \in Browsers : [cookie[c] EXCEPT !.session = None]
                                \in [state : States \cup {None}, session : Tokens \cup {None}]
      BY <3>1
    <3>3. QED
      BY <2>1, <3>1, <3>2
  <2>3. \A c \in Browsers : /\ cookie'[c].state = cookie[c].state
                            /\ cookie'[c].session \in {cookie[c].session, None}
    BY <1>0, <2>1 DEF LoginTypeOK
  <2>4. \A c \in Browsers : CookieOK(c)'
    BY <1>0, <2>1, <2>3 DEF CookieOK
  <2>5. QED
    BY <1>a, <1>b, <2>1, <2>2, <2>4, OneLogsIn
<1>7. CASE AnswerLost(r)
  <2>1. /\ request' = [request EXCEPT ![r] = Free] /\ UNCHANGED cookie
        /\ UNCHANGED <<flow, authorised, identity, users, lastUser, session>>
    BY <1>7 DEF AnswerLost, database
  <2>2. QED
    BY <1>a, <1>b, <1>c, <2>1, OneLogsIn
<1>8. QED
  BY <1>1, <1>2, <1>3, <1>4, <1>5, <1>6, <1>7

\* What is known of a request stays true while codes keep their account, accounts
\* their user and sessions theirs, and nobody is given its user or its key.
LEMMA LoginStays ==
    ASSUME LoginTypeOK, NEW x \in LoginRequest, LoginOK(x),
           \A s \in States : flow[s].account \in Accounts =>
              flow'[s].account = flow[s].account /\ flow'[s].browser = flow[s].browser,
           \A a \in Accounts : identity[a] # 0 => identity'[a] = identity[a],
           x.phase \in Inserting => \A a \in Accounts : identity'[a] # x.user,
           x.phase = "inserted" => identity'[flow[x.state].account] = 0,
           lastUser' \in Nat, lastUser <= lastUser',
           \A t \in Tokens : session[t].user # 0 => session'[t].user = session[t].user
    PROVE  LoginOK(x)'
<1>0. x.user \in Nat /\ lastUser \in Nat
  BY DEF LoginTypeOK, LoginRequest
<1>1. OwnFlow(x)'
  BY DEF LoginOK, OwnFlow
<1>2. x.phase \in Accepted => flow'[x.state].account = flow[x.state].account
  BY DEF LoginOK, OwnFlow
<1>3. NewUser(x)'
  <2>1. x.phase \in Inserting => 0 < x.user /\ x.user <= lastUser'
    BY <1>0 DEF LoginOK, NewUser
  <2>2. x.phase = "inserted" => identity'[flow'[x.state].account] = 0
    BY <1>2 DEF Accepted
  <2>3. QED
    BY <2>1, <2>2 DEF NewUser
<1>4. KnownUser(x)'
  <2>1. SUFFICES ASSUME x.phase \in Identified
                 PROVE  /\ x.user # 0 /\ identity'[flow'[x.state].account] = x.user
                        /\ x.phase = "answer" => x.token \in Tokens /\ session'[x.token].user = x.user
    BY DEF KnownUser, Identified
  <2>2. /\ x.phase \in Accepted /\ flow[x.state].account \in Accounts
        /\ x.user # 0 /\ identity[flow[x.state].account] = x.user
    BY <2>1 DEF LoginOK, OwnFlow, KnownUser, Accepted, Identified
  <2>3. x.phase = "answer" => x.token \in Tokens /\ session[x.token].user = x.user
    BY DEF LoginOK, KnownUser
  <2>4. QED
    BY <1>2, <2>2, <2>3
<1>5. QED
  BY <1>1, <1>3, <1>4 DEF LoginOK

\* handleGitHubLogin and what happens at GitHub, and expiry.
LEMMA BrowserStep ==
    ASSUME LoginInv,
           \/ \E b \in Browsers, s \in States : HandleGitHubLogin(b, s)
           \/ \E s \in States, a \in Accounts : Authorise(s, a)
           \/ \E t \in Tokens : SessionExpires(t)
           \/ \E b \in Browsers : StateExpires(b)
    PROVE  LoginInv'
<1> USE LoginAssumption
<1>0. /\ LoginTypeOK /\ FlowsAreAuthorised /\ IdentitiesAreDistinct /\ InsertsAreApart
      /\ \A b \in Browsers : CookieOK(b)
      /\ \A r \in Requests : request[r] \in LoginRequest /\ LoginOK(request[r])
      /\ lastUser \in Nat /\ lastUser <= lastUser
  BY DEF LoginInv, LoginTypeOK
<1>a. ASSUME UNCHANGED <<request, identity, lastUser>>,
             \A s \in States : flow[s].account \in Accounts =>
                flow'[s].account = flow[s].account /\ flow'[s].browser = flow[s].browser,
             \A t \in Tokens : session'[t].user = session[t].user
      PROVE  (\A r \in Requests : LoginOK(request[r])') /\ InsertsAreApart'
  <2>1. ASSUME NEW r \in Requests
        PROVE  LoginOK(request[r])'
    <3>1. LoginOK(request[r]) /\ request[r] \in LoginRequest
      BY <1>0
    <3>2. /\ request[r].phase \in Inserting => \A a \in Accounts : identity'[a] # request[r].user
          /\ request[r].phase = "inserted" => identity'[flow[request[r].state].account] = 0
      BY <1>a, <3>1 DEF LoginOK, NewUser
    <3> DEFINE x == request[r]
    <3>3. x' = x
      BY <1>a
    <3>4. \A y \in LoginRequest : y = x => LoginOK(y)'
      BY <1>0, <1>a, <3>1, <3>2, LoginStays
    <3>5. QED
      BY <3>1, <3>3, <3>4 DEF LoginOK, OwnFlow, NewUser, KnownUser
  <2>2. \A r \in Requests : At(r, "inserted") => AccountOf(r)' = AccountOf(r)
    BY <1>0, <1>a DEF LoginOK, OwnFlow, At, Accepted, AccountOf
  <2>3. InsertsAreApart'
    BY <1>0, <1>a, <2>2 DEF InsertsAreApart, At
  <2>4. QED
    BY <2>1, <2>3
<1>1. ASSUME NEW b \in Browsers, NEW s \in States, HandleGitHubLogin(b, s)
      PROVE  LoginInv'
  <2>1. /\ flow[s] = Unused /\ flow' = [flow EXCEPT ![s].browser = b]
        /\ cookie' = [cookie EXCEPT ![b].state = s]
        /\ UNCHANGED <<request, authorised, identity, users, lastUser, session>>
    BY <1>1 DEF HandleGitHubLogin, database
  <2>2. flow[s].browser = None /\ flow[s].account = None
    BY <2>1 DEF Unused
  <2>3. /\ \A p \in States : p # s => flow'[p] = flow[p]
        /\ flow'[s].browser = b /\ flow'[s].account = None
        /\ flow' \in [States -> [browser : Browsers \cup {None}, account : Accounts \cup {None},
                                 redeemed : BOOLEAN]]
    BY <1>0, <2>1, <2>2 DEF LoginTypeOK
  <2>4. /\ \A c \in Browsers : c # b => cookie'[c] = cookie[c]
        /\ cookie'[b].state = s /\ cookie'[b].session = cookie[b].session
        /\ cookie' \in [Browsers -> [state : States \cup {None}, session : Tokens \cup {None}]]
    BY <1>0, <2>1 DEF LoginTypeOK
  <2>5. LoginTypeOK' /\ FlowsAreAuthorised' /\ IdentitiesAreDistinct'
    BY <1>0, <2>1, <2>3, <2>4 DEF LoginTypeOK, FlowsAreAuthorised, IdentitiesAreDistinct
  <2>6. ASSUME NEW c \in Browsers
        PROVE  CookieOK(c)'
    <3>1. cookie'[c].state # None => flow'[cookie'[c].state].browser = c
      <4>1. CASE c = b
        BY <2>3, <2>4, <4>1
      <4>2. CASE c # b
        <5>1. cookie'[c] = cookie[c] /\ cookie[c].state \in States \cup {None}
          BY <1>0, <2>4, <4>2 DEF LoginTypeOK
        <5>2. cookie[c].state # None => flow[cookie[c].state].browser = c
          BY <1>0 DEF CookieOK
        <5>3. QED
          BY <2>2, <2>3, <5>1, <5>2
      <4>3. QED
        BY <4>1, <4>2
    <3>2. cookie'[c].session = cookie[c].session
      BY <2>4
    <3>3. QED
      BY <1>0, <2>1, <3>1, <3>2 DEF CookieOK
  <2>7. (\A r \in Requests : LoginOK(request[r])') /\ InsertsAreApart'
    BY <1>a, <2>1, <2>2, <2>3
  <2>8. QED
    BY <2>5, <2>6, <2>7 DEF LoginInv
<1>2. ASSUME NEW s \in States, NEW a \in Accounts, Authorise(s, a)
      PROVE  LoginInv'
  <2> DEFINE b == flow[s].browser
  <2>1. /\ b # None /\ flow[s].account = None
        /\ flow' = [flow EXCEPT ![s].account = a]
        /\ authorised' = [authorised EXCEPT ![b] = @ \cup {a}]
        /\ UNCHANGED <<request, identity, users, lastUser, session>> /\ UNCHANGED cookie
    BY <1>2 DEF Authorise, database
  <2>2. b \in Browsers
    BY <1>0, <2>1 DEF LoginTypeOK
  <2>3. /\ \A p \in States : p # s => flow'[p] = flow[p]
        /\ flow'[s].browser = b /\ flow'[s].account = a
        /\ flow' \in [States -> [browser : Browsers \cup {None}, account : Accounts \cup {None},
                                 redeemed : BOOLEAN]]
    BY <1>0, <2>1 DEF LoginTypeOK
  <2>4. /\ \A c \in Browsers : authorised[c] \subseteq authorised'[c]
        /\ a \in authorised'[b] /\ authorised' \in [Browsers -> SUBSET Accounts]
    BY <1>0, <2>1, <2>2 DEF LoginTypeOK
  <2>5. LoginTypeOK' /\ IdentitiesAreDistinct'
    BY <1>0, <2>1, <2>3, <2>4 DEF LoginTypeOK, IdentitiesAreDistinct
  <2>6. FlowsAreAuthorised'
    BY <1>0, <2>2, <2>3, <2>4 DEF FlowsAreAuthorised
  <2>7. \A c \in Browsers : CookieOK(c)'
    BY <2>1, <2>3, <2>4, CookiesStay
  <2>8. (\A r \in Requests : LoginOK(request[r])') /\ InsertsAreApart'
    BY <1>a, <2>1, <2>3
  <2>9. QED
    BY <2>5, <2>6, <2>7, <2>8 DEF LoginInv
<1>3. ASSUME NEW t \in Tokens, SessionExpires(t)
      PROVE  LoginInv'
  <2>1. /\ session' = [session EXCEPT ![t].live = FALSE] /\ UNCHANGED <<request, identity, lastUser>>
        /\ UNCHANGED cookie /\ UNCHANGED flow /\ UNCHANGED authorised /\ UNCHANGED users
    BY <1>3 DEF SessionExpires
  <2>2. /\ session' \in [Tokens -> [user : Nat, live : BOOLEAN]]
        /\ \A u \in Tokens : session'[u].user = session[u].user
    <3>1. session \in [Tokens -> [user : Nat, live : BOOLEAN]]
      BY <1>0 DEF LoginTypeOK
    <3>2. \A u \in Tokens : /\ [session[u] EXCEPT !.live = FALSE] \in [user : Nat, live : BOOLEAN]
                             /\ [session[u] EXCEPT !.live = FALSE].user = session[u].user
      BY <3>1
    <3>3. QED
      BY <2>1, <3>1, <3>2
  <2>3. LoginTypeOK' /\ FlowsAreAuthorised' /\ IdentitiesAreDistinct'
    BY <1>0, <2>1, <2>2 DEF LoginTypeOK, FlowsAreAuthorised, IdentitiesAreDistinct
  <2>4. \A c \in Browsers : CookieOK(c)'
    BY <2>1, <2>2, CookiesStay
  <2>5. (\A r \in Requests : LoginOK(request[r])') /\ InsertsAreApart'
    BY <1>a, <2>1, <2>2
  <2>6. QED
    BY <2>3, <2>4, <2>5 DEF LoginInv
<1>4. ASSUME NEW b \in Browsers, StateExpires(b)
      PROVE  LoginInv'
  <2>1. /\ cookie' = [cookie EXCEPT ![b].state = None] /\ UNCHANGED <<request, identity, lastUser>>
        /\ UNCHANGED <<flow, authorised, users, session>>
    BY <1>4 DEF StateExpires, database
  <2>2. /\ cookie' \in [Browsers -> [state : States \cup {None}, session : Tokens \cup {None}]]
        /\ \A c \in Browsers : /\ cookie'[c].session = cookie[c].session
                               /\ cookie'[c].state \in {cookie[c].state, None}
    BY <1>0, <2>1 DEF LoginTypeOK
  <2>3. LoginTypeOK' /\ FlowsAreAuthorised' /\ IdentitiesAreDistinct'
    BY <1>0, <2>1, <2>2 DEF LoginTypeOK, FlowsAreAuthorised, IdentitiesAreDistinct
  <2>4. \A c \in Browsers : CookieOK(c)'
    BY <1>0, <2>1, <2>2 DEF CookieOK
  <2>5. (\A r \in Requests : LoginOK(request[r])') /\ InsertsAreApart'
    BY <1>a, <2>1
  <2>6. QED
    BY <2>3, <2>4, <2>5 DEF LoginInv
<1>5. QED
  BY <1>1, <1>2, <1>3, <1>4

\* A step of one request that adds to the database: everybody else still holds
\* what they held.
LEMMA OneAdvances ==
    ASSUME LoginInv, NEW r \in Requests, NEW next \in LoginRequest,
           request' = [request EXCEPT ![r] = next], LoginOK(next)', next.phase # "inserted",
           UNCHANGED <<cookie, authorised>>,
           flow' \in [States -> [browser : Browsers \cup {None}, account : Accounts \cup {None},
                                redeemed : BOOLEAN]],
           \A s \in States : flow'[s].account = flow[s].account /\ flow'[s].browser = flow[s].browser,
           identity' \in [Accounts -> Nat], IdentitiesAreDistinct',
           \A a \in Accounts : identity[a] # 0 => identity'[a] = identity[a],
           lastUser' \in Nat, lastUser <= lastUser',
           session' \in [Tokens -> [user : Nat, live : BOOLEAN]],
           \A t \in Tokens : session[t].user # 0 => session'[t].user = session[t].user,
           \A q \in Requests : q # r /\ request[q].phase \in Inserting =>
              /\ \A a \in Accounts : identity'[a] # request[q].user
              /\ next.phase \in Inserting => next.user # request[q].user,
           \A q \in Requests : q # r /\ At(q, "inserted") => identity'[AccountOf(q)] = 0
    PROVE  LoginInv'
<1>0. /\ LoginTypeOK /\ FlowsAreAuthorised /\ InsertsAreApart
      /\ \A q \in Requests : request[q] \in LoginRequest /\ LoginOK(request[q])
  BY DEF LoginInv, LoginTypeOK
<1>1. request'[r] = next /\ \A q \in Requests : q # r => request'[q] = request[q]
  BY <1>0 DEF LoginTypeOK
<1>2. LoginTypeOK' /\ FlowsAreAuthorised'
  BY <1>0 DEF LoginTypeOK, FlowsAreAuthorised
<1>3. \A b \in Browsers : CookieOK(b)'
  BY CookiesStay
<1>4. ASSUME NEW q \in Requests
      PROVE  LoginOK(request[q])'
  <2>1. CASE q = r
    BY <1>1, <2>1 DEF LoginOK, OwnFlow, NewUser, KnownUser
  <2>2. CASE q # r
    <3>1. LoginOK(request[q]) /\ request[q] \in LoginRequest /\ request'[q] = request[q]
      BY <1>0, <1>1, <2>2
    <3>2. /\ request[q].phase \in Inserting => \A a \in Accounts : identity'[a] # request[q].user
          /\ request[q].phase = "inserted" => identity'[flow[request[q].state].account] = 0
      BY <2>2 DEF At, AccountOf
    <3>3. \A y \in LoginRequest : y = request[q] => LoginOK(y)'
      BY <1>0, <3>1, <3>2, LoginStays
    <3>4. QED
      BY <3>1, <3>3 DEF LoginOK, OwnFlow, NewUser, KnownUser
  <2>3. QED
    BY <2>1, <2>2
<1>5. InsertsAreApart'
  <2>1. \A q \in Requests : q # r /\ At(q, "inserted") => AccountOf(q)' = AccountOf(q)
    BY <1>0, <1>1 DEF LoginOK, OwnFlow, At, Accepted, AccountOf
  <2>2. ASSUME NEW q \in Requests, NEW s \in Requests, q # s
        PROVE  At(q, "inserted")' /\ At(s, "inserted")' => AccountOf(q)' # AccountOf(s)'
    BY <1>0, <1>1, <2>1, <2>2 DEF InsertsAreApart, At
  <2>3. ASSUME NEW q \in Requests, NEW s \in Requests, q # s
        PROVE  request'[q].phase \in Inserting /\ request'[s].phase \in Inserting
                  => request'[q].user # request'[s].user
    <3>1. CASE q # r /\ s # r
      BY <1>0, <1>1, <2>3, <3>1 DEF InsertsAreApart
    <3>2. CASE q = r \/ s = r
      BY <1>1, <2>3, <3>2
    <3>3. QED
      BY <3>1, <3>2
  <2>4. QED
    BY <2>2, <2>3 DEF InsertsAreApart
<1>6. QED
  BY <1>2, <1>3, <1>4, <1>5 DEF LoginInv

\* The steps of a callback, and of a log-out, on GitHub's and our database.
LEMMA DatabaseStep ==
    ASSUME LoginInv, NEW r \in Requests,
           \/ ExchangeUserCode(r) \/ LookupIdentity(r) \/ CommitUser(r)
           \/ UpsertUserGitHubTokens(r) \/ (\E t \in Tokens : CreateSession(r, t))
           \/ (\E b \in Browsers : HandleLogout(r, b))
    PROVE  LoginInv'
<1> USE LoginAssumption
<1>0. /\ LoginTypeOK /\ IdentitiesAreDistinct /\ InsertsAreApart
      /\ \A q \in Requests : request[q] \in LoginRequest /\ LoginOK(request[q])
      /\ request[r] \in LoginRequest /\ LoginOK(request[r])
  BY DEF LoginInv, LoginTypeOK
<1>a. /\ flow \in [States -> [browser : Browsers \cup {None}, account : Accounts \cup {None},
                              redeemed : BOOLEAN]]
      /\ identity \in [Accounts -> Nat] /\ lastUser \in Nat /\ lastUser <= lastUser
      /\ session \in [Tokens -> [user : Nat, live : BOOLEAN]]
  BY <1>0 DEF LoginTypeOK
<1>b. \A q \in Requests : /\ request[q].phase \in Inserting => \A a \in Accounts : identity[a] # request[q].user
                          /\ At(q, "inserted") => identity[AccountOf(q)] = 0
  BY <1>0 DEF LoginOK, NewUser, At, AccountOf
<1>c. UNCHANGED <<identity, users, lastUser>> => IdentitiesAreDistinct'
  BY <1>0 DEF IdentitiesAreDistinct
<1>d. request[r].phase \in Accepted => /\ request[r].state \in States /\ AccountOf(r) \in Accounts
                                      /\ flow[request[r].state].browser = request[r].browser
  BY <1>0 DEF LoginOK, OwnFlow, AccountOf
<1>1. CASE ExchangeUserCode(r)
  <2> DEFINE phase == IF flow[request[r].state].redeemed THEN "refuse" ELSE "lookup"
  <2>1. /\ request[r].phase = "exchange" /\ Goto(r, phase)
        /\ flow' = [flow EXCEPT ![request[r].state].redeemed = TRUE]
        /\ UNCHANGED <<cookie, authorised>> /\ UNCHANGED <<identity, users, lastUser>>
        /\ UNCHANGED session
    BY <1>1 DEF ExchangeUserCode, At, database
  <2>2. phase \in LoginPhases /\ phase \in {"refuse", "lookup"}
    BY DEF LoginPhases, Accepted
  <2> HIDE DEF phase
  <2>3. PICK next \in LoginRequest :
           /\ request' = [request EXCEPT ![r] = next] /\ next.phase = phase
           /\ next.browser = request[r].browser /\ next.state = request[r].state
    BY <1>0, <2>1, <2>2, GotoEffect
  <2>4. /\ flow' \in [States -> [browser : Browsers \cup {None}, account : Accounts \cup {None},
                                 redeemed : BOOLEAN]]
        /\ \A s \in States : flow'[s].account = flow[s].account /\ flow'[s].browser = flow[s].browser
    <3>1. \A s \in States : flow'[s] \in {flow[s], [flow[s] EXCEPT !.redeemed = TRUE]}
      BY <1>a, <2>1
    <3>2. ASSUME NEW s \in States
          PROVE  /\ [flow[s] EXCEPT !.redeemed = TRUE]
                       \in [browser : Browsers \cup {None}, account : Accounts \cup {None},
                           redeemed : BOOLEAN]
                 /\ [flow[s] EXCEPT !.redeemed = TRUE].account = flow[s].account
                 /\ [flow[s] EXCEPT !.redeemed = TRUE].browser = flow[s].browser
      <4>1. flow[s] \in [browser : Browsers \cup {None}, account : Accounts \cup {None},
                         redeemed : BOOLEAN]
        BY <1>a
      <4>2. QED
        BY <4>1
    <3>3. \A s \in States : /\ flow'[s].account = flow[s].account
                            /\ flow'[s].browser = flow[s].browser
                            /\ flow'[s] \in [browser : Browsers \cup {None}, redeemed : BOOLEAN,
                                             account : Accounts \cup {None}]
      BY <1>a, <3>1, <3>2
    <3>4. QED
      BY <1>a, <2>1, <3>3
  <2>5. LoginOK(next)'
    <3>1. OwnFlow(next)'
      BY <1>d, <2>1, <2>3, <2>4 DEF OwnFlow, Accepted, AccountOf
    <3>2. NewUser(next)' /\ KnownUser(next)'
      BY <2>2, <2>3 DEF NewUser, KnownUser, Inserting, Identified
    <3>3. QED
      BY <3>1, <3>2 DEF LoginOK
  <2>6. next.phase \notin Inserting /\ next.phase # "inserted"
    BY <2>2, <2>3 DEF Inserting
  <2>7. /\ identity' \in [Accounts -> Nat] /\ IdentitiesAreDistinct'
        /\ \A a \in Accounts : identity[a] # 0 => identity'[a] = identity[a]
        /\ lastUser' \in Nat /\ lastUser <= lastUser'
        /\ session' \in [Tokens -> [user : Nat, live : BOOLEAN]]
        /\ \A t \in Tokens : session[t].user # 0 => session'[t].user = session[t].user
    BY <1>a, <1>c, <2>1
  <2>8. /\ \A q \in Requests : q # r /\ request[q].phase \in Inserting =>
           /\ \A a \in Accounts : identity'[a] # request[q].user
           /\ next.phase \in Inserting => next.user # request[q].user
        /\ \A q \in Requests : q # r /\ At(q, "inserted") => identity'[AccountOf(q)] = 0
    BY <1>b, <2>1, <2>6
  <2>9. UNCHANGED <<cookie, authorised>> /\ request' = [request EXCEPT ![r] = next]
    BY <2>1, <2>3
  <2>10. QED
    BY <2>4, <2>5, <2>6, <2>7, <2>8, <2>9, OneAdvances
<1>2. CASE LookupIdentity(r)
  <2> DEFINE known == identity[AccountOf(r)]
             user == IF known # 0 THEN known ELSE lastUser + 1
             phase == IF known # 0 THEN "profile" ELSE "identity"
             new == [request[r] EXCEPT !.user = user, !.phase = phase]
  <2>1. /\ request[r].phase = "lookup"
        /\ lastUser' = IF known # 0 THEN lastUser ELSE lastUser + 1
        /\ request' = [request EXCEPT ![r].user = user, ![r].phase = phase]
        /\ UNCHANGED <<cookie, authorised>> /\ UNCHANGED <<flow, identity, users, session>>
    BY <1>2 DEF LookupIdentity, At
  <2>2. known \in Nat /\ AccountOf(r) \in Accounts
    BY <1>a, <1>d, <2>1 DEF Accepted
  <2>3. lastUser' \in Nat /\ lastUser <= lastUser' /\ user \in Nat
    BY <1>a, <2>1, <2>2
  <2>4. phase \in LoginPhases /\ phase \in {"profile", "identity"}
    BY DEF LoginPhases, Accepted
  <2>5. IdentitiesAreDistinct'
    BY <1>0, <1>a, <2>1, <2>3 DEF IdentitiesAreDistinct
  <2>6. known = 0 => 0 < user /\ user <= lastUser' /\ \A a \in Accounts : identity[a] # user
    BY <1>0, <1>a, <2>1 DEF IdentitiesAreDistinct
  <2>7. known # 0 => phase = "profile" /\ user = known
    OBVIOUS
  <2>8. known = 0 => phase = "identity"
    OBVIOUS
  <2>9. known = 0 => \A q \in Requests : request[q].phase \in Inserting => request[q].user # user
    <3>1. \A q \in Requests : request[q].phase \in Inserting =>
             request[q].user \in Nat /\ request[q].user <= lastUser
      BY <1>0 DEF LoginOK, NewUser, LoginRequest
    <3>2. QED
      BY <1>a, <3>1
  <2>10. \A q \in Requests : request[q].phase \in Inserting /\ phase \in Inserting => user # request[q].user
    BY <2>7, <2>9 DEF Inserting
  <2> HIDE DEF user, phase
  <2>11. PICK next \in LoginRequest :
            /\ request' = [request EXCEPT ![r] = next]
            /\ next.phase = phase /\ next.user = user /\ next.state = request[r].state
            /\ next.browser = request[r].browser
    <3>1. /\ request' = [request EXCEPT ![r] = new] /\ new \in LoginRequest
          /\ new.phase = phase /\ new.user = user /\ new.state = request[r].state
          /\ new.browser = request[r].browser
      BY <1>0, <2>1, <2>3, <2>4 DEF LoginTypeOK, LoginRequest
    <3> HIDE DEF new
    <3>2. QED
      BY <3>1
  <2>12. LoginOK(next)'
    <3>1. OwnFlow(next)'
      BY <1>d, <2>1, <2>11 DEF OwnFlow, Accepted, AccountOf
    <3>2. NewUser(next)'
      BY <2>1, <2>4, <2>6, <2>7, <2>11 DEF NewUser, Inserting
    <3>3. KnownUser(next)'
      BY <2>1, <2>4, <2>7, <2>8, <2>11 DEF KnownUser, Identified, AccountOf
    <3>4. QED
      BY <3>1, <3>2, <3>3 DEF LoginOK
  <2>13. next.phase # "inserted"
    BY <2>4, <2>11
  <2>14. /\ \A q \in Requests : q # r /\ request[q].phase \in Inserting =>
           /\ \A c \in Accounts : identity'[c] # request[q].user
           /\ next.phase \in Inserting => next.user # request[q].user
        /\ \A q \in Requests : q # r /\ At(q, "inserted") => identity'[AccountOf(q)] = 0
    BY <1>b, <2>1, <2>10, <2>11
  <2>15. QED
    BY <1>a, <2>1, <2>3, <2>5, <2>11, <2>12, <2>13, <2>14, OneAdvances
<1>3. CASE CommitUser(r)
  <2> DEFINE a == AccountOf(r)
             u == request[r].user
  <2>1. /\ request[r].phase \in {"inserted", "profile"} /\ Goto(r, "save")
        /\ identity' = [identity EXCEPT ![a] = u] /\ users' = users \cup {u}
        /\ UNCHANGED <<cookie, authorised>> /\ UNCHANGED <<flow, lastUser, session>>
    BY <1>3 DEF CommitUser, At
  <2>2. a \in Accounts /\ u \in Nat
    BY <1>0, <1>d, <2>1 DEF Accepted, LoginRequest
  <2>3. /\ identity' \in [Accounts -> Nat] /\ identity'[a] = u
        /\ \A c \in Accounts : c # a => identity'[c] = identity[c]
    BY <1>a, <2>1, <2>2
  <2>4. CASE request[r].phase = "profile"
    <3>1. u # 0 /\ identity[a] = u
      BY <1>0, <2>4 DEF LoginOK, KnownUser, Identified, AccountOf
    <3>2. identity' = identity /\ users' = users
      BY <1>0, <1>a, <2>1, <2>2, <3>1 DEF IdentitiesAreDistinct
    <3>3. PICK next \in LoginRequest :
             /\ request' = [request EXCEPT ![r] = next] /\ next.phase = "save"
             /\ next.browser = request[r].browser /\ next.state = request[r].state
             /\ next.user = u
      BY <1>0, <2>1, GotoEffect DEF LoginPhases, Accepted
    <3>4. LoginOK(next)'
      BY <1>d, <2>1, <2>4, <3>1, <3>2, <3>3 DEF LoginOK, OwnFlow, NewUser, KnownUser, Accepted, Inserting,
         Identified, AccountOf
    <3>5. next.phase \notin Inserting /\ next.phase # "inserted"
      BY <3>3 DEF Inserting
    <3>6. UNCHANGED <<identity, users, lastUser>> /\ UNCHANGED <<flow, session>>
      BY <2>1, <3>2
    <3>7. IdentitiesAreDistinct'
      BY <1>c, <3>6
    <3>8. /\ \A q \in Requests : q # r /\ request[q].phase \in Inserting =>
             /\ \A c \in Accounts : identity'[c] # request[q].user
             /\ next.phase \in Inserting => next.user # request[q].user
          /\ \A q \in Requests : q # r /\ At(q, "inserted") => identity'[AccountOf(q)] = 0
      BY <1>b, <3>5, <3>6
    <3>9. QED
      BY <1>a, <2>1, <3>3, <3>4, <3>5, <3>6, <3>7, <3>8, OneAdvances
  <2>5. CASE request[r].phase = "inserted"
    <3>1. /\ 0 < u /\ u <= lastUser /\ identity[a] = 0
          /\ \A c \in Accounts : identity[c] # u
      BY <1>0, <2>5 DEF LoginOK, NewUser, Inserting, AccountOf
    <3>2. IdentitiesAreDistinct'
      <4>1. \A c \in Accounts : identity'[c] <= lastUser'
        BY <1>0, <2>1, <2>3, <3>1 DEF IdentitiesAreDistinct
      <4>2. \A c, d \in Accounts : identity'[c] = identity'[d] /\ identity'[c] # 0 => c = d
        BY <1>0, <2>3, <3>1 DEF IdentitiesAreDistinct
      <4>3. users' = {identity'[c] : c \in Accounts} \ {0}
        <5>1. users = {identity[c] : c \in Accounts} \ {0}
          BY <1>0 DEF IdentitiesAreDistinct
        <5>2. u # 0
          BY <2>2, <3>1
        <5>3. QED
          BY <2>1, <2>2, <2>3, <3>1, <5>1, <5>2
      <4>4. QED
        BY <4>1, <4>2, <4>3 DEF IdentitiesAreDistinct
    <3>3. PICK next \in LoginRequest :
             /\ request' = [request EXCEPT ![r] = next] /\ next.phase = "save"
             /\ next.browser = request[r].browser /\ next.state = request[r].state
             /\ next.user = u
      BY <1>0, <2>1, GotoEffect DEF LoginPhases, Accepted
    <3>4. LoginOK(next)'
      <4>1. OwnFlow(next)'
        BY <1>d, <2>1, <2>5, <3>3 DEF OwnFlow, Accepted, AccountOf
      <4>2. u # 0 /\ identity'[flow'[next.state].account] = u
        BY <2>1, <2>2, <2>3, <3>1, <3>3 DEF AccountOf
      <4>3. QED
        BY <3>3, <4>1, <4>2 DEF LoginOK, NewUser, KnownUser, Inserting, Identified
    <3>5. next.phase \notin Inserting /\ next.phase # "inserted"
      BY <3>3 DEF Inserting
    <3>6. ASSUME NEW q \in Requests, q # r, request[q].phase \in Inserting
          PROVE  \A c \in Accounts : identity'[c] # request[q].user
      <4>1. request[q].user # u
        BY <1>0, <2>5, <3>6 DEF InsertsAreApart, Inserting
      <4>2. QED
        BY <1>b, <2>3, <3>6, <4>1
    <3>7. ASSUME NEW q \in Requests, q # r, At(q, "inserted")
          PROVE  identity'[AccountOf(q)] = 0
      <4>1. AccountOf(q) # a
        BY <1>0, <2>5, <3>7 DEF InsertsAreApart, At
      <4>2. AccountOf(q) \in Accounts
        BY <1>0, <3>7 DEF LoginOK, OwnFlow, At, Accepted, AccountOf
      <4>3. QED
        BY <1>b, <2>3, <3>7, <4>1, <4>2
    <3>8. \A c \in Accounts : identity[c] # 0 => identity'[c] = identity[c]
      BY <2>3, <3>1
    <3>9. QED
      BY <1>a, <2>1, <2>3, <3>2, <3>3, <3>4, <3>5, <3>6, <3>7, <3>8, OneAdvances
  <2>6. QED
    BY <2>1, <2>4, <2>5
<1>4. CASE UpsertUserGitHubTokens(r)
  <2>1. /\ request[r].phase = "save" /\ Goto(r, "session") /\ UNCHANGED <<cookie, authorised>>
        /\ UNCHANGED <<flow, session>> /\ UNCHANGED <<identity, users, lastUser>>
    BY <1>4 DEF UpsertUserGitHubTokens, At
  <2>2. PICK next \in LoginRequest :
           /\ request' = [request EXCEPT ![r] = next] /\ next.phase = "session"
           /\ next.browser = request[r].browser /\ next.state = request[r].state
           /\ next.user = request[r].user
    BY <1>0, <2>1, GotoEffect DEF LoginPhases, Accepted
  <2>3. LoginOK(next)'
    <3>1. request[r].user # 0 /\ identity[AccountOf(r)] = request[r].user
      BY <1>0, <2>1 DEF LoginOK, KnownUser, Identified, AccountOf
    <3>2. QED
      BY <1>d, <2>1, <2>2, <3>1 DEF LoginOK, OwnFlow, NewUser, KnownUser, Accepted, Inserting,
         Identified, AccountOf
  <2>4. next.phase \notin Inserting /\ next.phase # "inserted"
    BY <2>2 DEF Inserting
  <2>5. QED
    BY <1>a, <1>b, <1>c, <2>1, <2>2, <2>3, <2>4, OneAdvances
<1>5. ASSUME NEW t \in Tokens, CreateSession(r, t)
      PROVE  LoginInv'
  <2> DEFINE u == request[r].user
             new == [request[r] EXCEPT !.token = t, !.phase = "answer"]
  <2>1. /\ request[r].phase = "session" /\ session[t].user = 0
        /\ session' = [session EXCEPT ![t] = [user |-> u, live |-> TRUE]]
        /\ request' = [request EXCEPT ![r].token = t, ![r].phase = "answer"]
        /\ UNCHANGED <<cookie, authorised>> /\ UNCHANGED flow
        /\ UNCHANGED <<identity, users, lastUser>>
    BY <1>5 DEF CreateSession, At
  <2>2. u \in Nat /\ u # 0 /\ identity[AccountOf(r)] = u
    BY <1>0, <2>1 DEF LoginOK, KnownUser, Identified, LoginRequest, AccountOf
  <2>3. /\ session' \in [Tokens -> [user : Nat, live : BOOLEAN]] /\ session'[t].user = u
        /\ \A s \in Tokens : session[s].user # 0 => session'[s].user = session[s].user
    BY <1>a, <2>1, <2>2
  <2>4. PICK next \in LoginRequest :
           /\ request' = [request EXCEPT ![r] = next]
           /\ next.phase = "answer" /\ next.token = t /\ next.user = u
           /\ next.state = request[r].state /\ next.browser = request[r].browser
    <3>1. /\ request' = [request EXCEPT ![r] = new] /\ new \in LoginRequest
          /\ new.phase = "answer" /\ new.token = t /\ new.user = u
          /\ new.state = request[r].state /\ new.browser = request[r].browser
      BY <1>0, <2>1 DEF LoginTypeOK, LoginRequest, LoginPhases, Accepted
    <3> HIDE DEF new
    <3>2. QED
      BY <3>1
  <2>5. LoginOK(next)'
    <3>1. OwnFlow(next)'
      BY <1>d, <2>1, <2>4 DEF OwnFlow, Accepted, AccountOf
    <3>2. NewUser(next)' /\ KnownUser(next)'
      BY <2>1, <2>2, <2>3, <2>4 DEF NewUser, KnownUser, Inserting, Identified, AccountOf
    <3>3. QED
      BY <3>1, <3>2 DEF LoginOK
  <2>6. next.phase \notin Inserting /\ next.phase # "inserted"
    BY <2>4 DEF Inserting
  <2>7. IdentitiesAreDistinct'
    BY <1>c, <2>1
  <2>8. /\ \A q \in Requests : q # r /\ request[q].phase \in Inserting =>
           /\ \A c \in Accounts : identity'[c] # request[q].user
           /\ next.phase \in Inserting => next.user # request[q].user
        /\ \A q \in Requests : q # r /\ At(q, "inserted") => identity'[AccountOf(q)] = 0
    BY <1>b, <2>1, <2>6
  <2>9. QED
    BY <1>a, <2>1, <2>3, <2>4, <2>5, <2>6, <2>7, <2>8, OneAdvances
<1>6. ASSUME NEW b \in Browsers, HandleLogout(r, b)
      PROVE  LoginInv'
  <2> DEFINE next == [Free EXCEPT !.phase = "clear", !.browser = b]
  <2>1. /\ request' = [request EXCEPT ![r] = next]
        /\ UNCHANGED <<cookie, authorised>> /\ UNCHANGED flow
        /\ UNCHANGED <<identity, users, lastUser>>
    BY <1>6 DEF HandleLogout
  <2>2. /\ session' \in [Tokens -> [user : Nat, live : BOOLEAN]]
        /\ \A s \in Tokens : session[s].user # 0 => session'[s].user = session[s].user
    <3>1. CASE UNCHANGED session
      BY <1>a, <3>1
    <3>2. CASE session' = [t \in Tokens |-> IF t = cookie[b].session
                                          THEN [session[t] EXCEPT !.live = FALSE] ELSE session[t]]
      <4>1. ASSUME NEW t \in Tokens
            PROVE  /\ [session[t] EXCEPT !.live = FALSE] \in [user : Nat, live : BOOLEAN]
                   /\ [session[t] EXCEPT !.live = FALSE].user = session[t].user
        BY <1>a
      <4>2. QED
        BY <1>a, <3>2, <4>1
    <3>3. QED
      BY <1>6, <3>1, <3>2 DEF HandleLogout
  <2>3. next \in LoginRequest /\ next.phase = "clear"
    BY DEF Free, LoginRequest, LoginPhases
  <2> HIDE DEF next
  <2>4. LoginOK(next)'
    BY <2>3 DEF LoginOK, OwnFlow, NewUser, KnownUser, Accepted, Inserting, Identified
  <2>5. next.phase \notin Inserting /\ next.phase # "inserted"
    BY <2>3 DEF Inserting
  <2>6. QED
    BY <1>a, <1>b, <1>c, <2>1, <2>2, <2>3, <2>4, <2>5, OneAdvances
<1>7. QED
  BY <1>1, <1>2, <1>3, <1>4, <1>5, <1>6

\* The inductive invariant holds throughout.
THEOREM LoginInvariant == LoginSpec => []LoginInv
<1>1. LoginInit => LoginInv
  <2> SUFFICES ASSUME LoginInit PROVE LoginInv
    OBVIOUS
  <2>1. Free \in LoginRequest /\ Free.phase = "free"
    BY DEF Free, LoginRequest, LoginPhases
  <2>2. LoginTypeOK
    BY <2>1 DEF LoginInit, LoginTypeOK, Unused
  <2>3. FlowsAreAuthorised /\ \A b \in Browsers : CookieOK(b)
    BY DEF LoginInit, FlowsAreAuthorised, CookieOK, Unused
  <2>4. IdentitiesAreDistinct
    BY DEF LoginInit, IdentitiesAreDistinct
  <2>5. \A r \in Requests : request[r] = Free
    BY DEF LoginInit
  <2>6. (\A r \in Requests : LoginOK(request[r])) /\ InsertsAreApart
    BY <2>1, <2>5, UnclaimedIsOK DEF InsertsAreApart, At
  <2>7. QED
    BY <2>2, <2>3, <2>4, <2>6 DEF LoginInv
<1>2. LoginInv /\ [LoginNext]_loginVars => LoginInv'
  <2> SUFFICES ASSUME LoginInv, [LoginNext]_loginVars
               PROVE  LoginInv'
    OBVIOUS
  <2>1. CASE UNCHANGED loginVars
    BY <2>1 DEF loginVars, LoginInv, LoginTypeOK, FlowsAreAuthorised, IdentitiesAreDistinct, CookieOK,
       LoginOK, OwnFlow, NewUser, KnownUser, InsertsAreApart, At, AccountOf
  <2>2. CASE LoginNext
    BY <2>2, BrowserStep, AnswerStep, DatabaseStep DEF LoginNext, CallbackStep
  <2>3. QED
    BY <2>1, <2>2
<1>3. QED
  BY <1>1, <1>2, PTL DEF LoginSpec

\* First logins that race leave every account one user, and no user without an
\* account, for any number of requests and failures.
THEOREM AccountsHaveOneUser == LoginSpec => []UsersAreAccounts
<1>1. LoginInv => UsersAreAccounts
  <2> SUFFICES ASSUME LoginInv
               PROVE  UsersAreAccounts
    OBVIOUS
  <2>1. Range(identity) = {identity[a] : a \in Accounts}
    BY DEF LoginInv, LoginTypeOK, Range
  <2>2. QED
    BY <2>1 DEF LoginInv, IdentitiesAreDistinct, UsersAreAccounts
<1>2. QED
  BY <1>1, LoginInvariant, PTL

\* A browser's session is that of an account authorised from this browser,
\* whichever callbacks, log-outs and answers overtake each other.
THEOREM SessionsAreYourOwn == LoginSpec => []LoggedInAsYourself
<1>1. LoginInv => LoggedInAsYourself
  BY DEF LoginInv, CookieOK, LoggedInAsYourself
<1>2. QED
  BY <1>1, LoginInvariant, PTL

-----------------------------------------------------------------------------
(* RunPages: the inductive invariant *)

Shown == [run : Runs, member : BOOLEAN]
AnyPage == Pages \cup {NoPage}
AnyServing == [phase : {"idle", "query", "runs", "render"}, client : Clients, page : AnyPage,
               user : Clients, shows : SUBSET Shown, age : 0 .. MaxRequest]
AnyAnswer == [client : Clients, page : AnyPage, shows : SUBSET Shown]
AnyEntry == [answer : AnyAnswer, age : 0 .. MaxAge]

PagesTypeOK ==
    /\ public \subseteq Repos
    /\ bound \subseteq Projects \X Repos
    /\ serving \in AnyServing
    /\ cache \in AnyEntry
    /\ hidden \in [Repos -> Nat]
    /\ unbound \in [Projects \X Repos -> Nat]

\* A repository counts as hidden from when it stops being public, a binding as
\* gone from when it is revoked.
GhostsAreCurrent ==
    /\ \A r \in public : hidden[r] = 0
    /\ \A b \in bound : unbound[b] = 0

\* A page is made for the client, or for nobody in particular; the second query
\* of a project's page is made for a member of it; there are rows from the query on.
ServedAsClient ==
    /\ serving.user \in {serving.client, Anonymous}
    /\ serving.phase = "runs" => /\ serving.user = serving.client
                                 /\ serving.user \in MembersOf[serving.page.of]
    /\ serving.phase # "render" => serving.shows = {}

\* What was read was the user's to see, if not now then when it was read.
RowWasDue(x) ==
    /\ \/ hidden[RepoOf[x.run]] <= serving.age
       \/ WasMember(serving.user, RepoOf[x.run], serving.age)
    /\ x.member => WasMember(serving.user, RepoOf[x.run], serving.age)

RowsWereDue == \A x \in serving.shows : RowWasDue(x)

\* What a cache keeps was made for nobody in particular, when its repositories
\* were public.
EntryWasPublic ==
    \A x \in cache.answer.shows :
       ~x.member /\ hidden[RepoOf[x.run]] <= cache.age + MaxRequest

PagesInv ==
    /\ PagesTypeOK
    /\ GhostsAreCurrent
    /\ ServedAsClient
    /\ RowsWereDue
    /\ EntryWasPublic
    /\ PrivateRunsFadeOut
    /\ MemberViewsStayWithMembers

-----------------------------------------------------------------------------
(* RunPages: memberships *)

\* Nobody in particular has ever been a member of anything.
LEMMA AnonymousIsNoMember ==
    ASSUME NEW r, NEW t
    PROVE  ~WasMember(Anonymous, r, t)
BY PagesAssumption DEF WasMember

\* Who is a member now was one within no time.
LEMMA MembersWereMembers ==
    ASSUME PagesTypeOK, GhostsAreCurrent, NEW user, NEW r, IsMember(user, r)
    PROVE  WasMember(user, r, 0)
<1>1. PICK b \in bound : b[2] = r /\ user \in MembersOf[b[1]]
  BY DEF IsMember
<1>2. b[1] \in Projects /\ b = <<b[1], r>>
  BY <1>1 DEF PagesTypeOK
<1>3. unbound[<<b[1], r>>] = 0
  BY <1>2 DEF GhostsAreCurrent
<1>4. QED
  BY <1>1, <1>2, <1>3 DEF WasMember

\* Who was a member within some time was one within any longer time.
LEMMA MembershipLasts ==
    ASSUME PagesTypeOK, NEW user, NEW r \in Repos, NEW s \in Nat, NEW t \in Nat, s <= t,
           WasMember(user, r, s)
    PROVE  WasMember(user, r, t)
<1>1. PICK p \in Projects : user \in MembersOf[p] /\ unbound[<<p, r>>] <= s
  BY DEF WasMember
<1>2. unbound[<<p, r>>] \in Nat
  BY DEF PagesTypeOK
<1>3. unbound[<<p, r>>] <= t
  BY <1>1, <1>2
<1>4. QED
  BY <1>1, <1>3 DEF WasMember

\* If bindings get no older than by d, neither do memberships.
LEMMA MembershipsAge ==
    ASSUME PagesTypeOK, NEW d \in Nat,
           \A b \in Projects \X Repos : unbound'[b] \in Nat /\ unbound'[b] <= unbound[b] + d,
           NEW user, NEW r \in Repos, NEW t \in Nat, WasMember(user, r, t)
    PROVE  WasMember(user, r, t + d)'
<1>1. PICK p \in Projects : user \in MembersOf[p] /\ unbound[<<p, r>>] <= t
  BY DEF WasMember
<1>2. <<p, r>> \in Projects \X Repos /\ unbound[<<p, r>>] \in Nat
  BY DEF PagesTypeOK
<1>3. unbound'[<<p, r>>] <= t + d
  BY <1>1, <1>2
<1>4. QED
  BY <1>1, <1>3 DEF WasMember

-----------------------------------------------------------------------------
(* RunPages: the invariant is inductive *)

\* An answer that shows nothing is right whenever it is received.
LEMMA ShowsNothing ==
    ASSUME NEW client, NEW page, last' = [client |-> client, page |-> page, shows |-> {}]
    PROVE  PrivateRunsFadeOut' /\ MemberViewsStayWithMembers'
BY DEF PrivateRunsFadeOut, MemberViewsStayWithMembers

\* No answer is received in a step that is not one.
LEMMA UnansweredShowsNothing ==
    ASSUME Unanswered
    PROVE  PrivateRunsFadeOut' /\ MemberViewsStayWithMembers'
BY ShowsNothing DEF Unanswered, NoAnswer

\* A row of a run that is visible to its reader is due; x is what is shown of it.
LEMMA VisibleRowIsDue ==
    ASSUME PagesTypeOK, GhostsAreCurrent, NEW user, NEW m \in Runs, NEW member \in BOOLEAN,
           Visible(user, RepoOf[m]), member => IsMember(user, RepoOf[m]),
           NEW age \in Nat
    PROVE  /\ hidden[RepoOf[m]] <= age \/ WasMember(user, RepoOf[m], age)
           /\ member => WasMember(user, RepoOf[m], age)
<1>1. RepoOf[m] \in Repos
  BY PagesAssumption
<1>2. IsMember(user, RepoOf[m]) => WasMember(user, RepoOf[m], age)
  <2>1. ASSUME IsMember(user, RepoOf[m])
        PROVE  WasMember(user, RepoOf[m], age)
    <3>1. WasMember(user, RepoOf[m], 0)
      BY <2>1, MembersWereMembers
    <3>2. QED
      BY <1>1, <3>1, MembershipLasts
  <2>2. QED
    BY <2>1
<1>3. RepoOf[m] \in public => hidden[RepoOf[m]] <= age
  BY DEF GhostsAreCurrent
<1>4. QED
  BY <1>2, <1>3 DEF Visible

\* A step that keeps GitHub's and the users' side and the cache, and after which
\* the request is as it should be, needs only a right answer.
LEMMA OnePageStep ==
    ASSUME PagesInv, UNCHANGED <<cache, world>>,
           serving' \in AnyServing, ServedAsClient', RowsWereDue',
           PrivateRunsFadeOut', MemberViewsStayWithMembers'
    PROVE  PagesInv'
BY DEF PagesInv, world, PagesTypeOK, GhostsAreCurrent, EntryWasPublic

\* The request that is over, or that has no rows yet.
LEMMA NoRowsYet ==
    ASSUME serving'.shows = {}
    PROVE  RowsWereDue'
BY DEF RowsWereDue

LEMMA IdleServes ==
    ASSUME serving' = Idle
    PROVE  ServedAsClient' /\ RowsWereDue' /\ serving' \in AnyServing
<1>1. Anonymous \in Clients /\ NoPage \in AnyPage /\ 0 \in 0 .. MaxRequest
  BY PagesAssumption DEF Clients, AnyPage
<1>2. QED
  BY <1>1 DEF Idle, ServedAsClient, RowsWereDue, AnyServing

\* The rows are read, once each of them is shown to be due.
LEMMA ReadStep ==
    ASSUME PagesInv, NEW shows \in SUBSET Shown, Read(shows), Unanswered,
           UNCHANGED <<cache, world>>,
           \A x \in shows :
              /\ hidden[RepoOf[x.run]] <= serving.age \/ WasMember(serving.user, RepoOf[x.run], serving.age)
              /\ x.member => WasMember(serving.user, RepoOf[x.run], serving.age)
    PROVE  PagesInv'
<1>1. serving \in AnyServing /\ ServedAsClient
  BY DEF PagesInv, PagesTypeOK
<1>2. /\ serving' \in AnyServing
      /\ serving'.phase = "render" /\ serving'.shows = shows
      /\ serving'.user = serving.user /\ serving'.age = serving.age
      /\ serving'.client = serving.client
  BY <1>1 DEF Read, AnyServing
<1>3. ServedAsClient'
  BY <1>1, <1>2 DEF ServedAsClient
<1>4. RowsWereDue'
  BY <1>2 DEF RowsWereDue, RowWasDue, WasMember, world
<1>5. QED
  BY <1>2, <1>3, <1>4, UnansweredShowsNothing, OnePageStep

\* The steps of the handlers keep the inductive invariant.
LEMMA ReadersStep ==
    ASSUME PagesInv,
           \/ \E c \in Clients, p \in Pages : LoadReader(c, p)
           \/ GetProjectBySlug \/ ProjectDenied \/ HandlerFails
    PROVE  PagesInv'
<1> USE PagesAssumption
<1>0. serving \in AnyServing /\ ServedAsClient
  BY DEF PagesInv, PagesTypeOK
<1>1. ASSUME NEW c \in Clients, NEW p \in Pages, LoadReader(c, p)
      PROVE  PagesInv'
  <2>1. PICK user \in {c, Anonymous} :
           serving' = [Idle EXCEPT !.phase = "query", !.client = c, !.page = p, !.user = user]
    BY <1>1 DEF LoadReader
  <2>2. user \in Clients /\ p \in AnyPage /\ 0 \in 0 .. MaxRequest
    BY DEF Clients, AnyPage
  <2>3. serving' = [phase |-> "query", client |-> c, page |-> p, user |-> user,
                    shows |-> {}, age |-> 0]
    BY <2>1 DEF Idle
  <2>4. serving' \in AnyServing
    BY <2>2, <2>3 DEF AnyServing
  <2>5. ServedAsClient' /\ RowsWereDue'
    BY <2>3 DEF ServedAsClient, RowsWereDue
  <2>6. Unanswered /\ UNCHANGED <<cache, world>>
    BY <1>1 DEF LoadReader
  <2>7. QED
    BY <2>4, <2>5, <2>6, UnansweredShowsNothing, OnePageStep
<1>2. CASE GetProjectBySlug
  <2>1. /\ serving.page.kind = "project" /\ serving.user \in MembersOf[serving.page.of]
        /\ serving.phase = "query" /\ Unanswered /\ UNCHANGED <<cache, world>>
        /\ serving' = [serving EXCEPT !.phase = "runs"]
    BY <1>2 DEF GetProjectBySlug
  <2>2. serving.page.of \in Projects
    BY <1>0, <2>1 DEF AnyServing, AnyPage, Pages, NoPage
  <2>3. serving.user # Anonymous
    BY <2>1, <2>2
  <2>4. /\ serving' \in AnyServing
        /\ serving'.page = serving.page /\ serving'.user = serving.user
        /\ serving'.client = serving.client /\ serving'.shows = serving.shows
    BY <1>0, <2>1 DEF AnyServing
  <2>5. serving.shows = {}
    BY <1>0, <2>1 DEF ServedAsClient
  <2>6. ServedAsClient' /\ RowsWereDue'
    BY <1>0, <2>1, <2>3, <2>4, <2>5, NoRowsYet DEF ServedAsClient
  <2>7. QED
    BY <2>1, <2>4, <2>6, UnansweredShowsNothing, OnePageStep
<1>3. CASE ProjectDenied
  BY <1>3, IdleServes, ShowsNothing, OnePageStep DEF ProjectDenied, Answer
<1>4. CASE HandlerFails
  BY <1>4, IdleServes, UnansweredShowsNothing, OnePageStep DEF HandlerFails
<1>5. QED
  BY <1>1, <1>2, <1>3, <1>4

LEMMA HandleProjectStep ==
    ASSUME PagesInv, HandleProject
    PROVE  PagesInv'
<1> DEFINE p == serving.page.of
<1>0. /\ PagesTypeOK /\ GhostsAreCurrent /\ ServedAsClient
      /\ serving.phase = "runs" /\ serving.age \in Nat
  BY DEF PagesInv, PagesTypeOK, HandleProject, AnyServing
<1>1. PICK stored \in SUBSET Runs : Read(ListRunsForProject(p, stored))
  BY DEF HandleProject
<1> DEFINE shows == ListRunsForProject(p, stored)
<1>2. ASSUME NEW x \in shows
      PROVE  /\ x \in Shown
             /\ ~x.member
             /\ WasMember(serving.user, RepoOf[x.run], serving.age)
  <2>1. PICK m \in stored : <<p, RepoOf[m]>> \in bound /\ x = [run |-> m, member |-> FALSE]
    BY <1>2 DEF ListRunsForProject
  <2>2. m \in Runs /\ RepoOf[m] \in Repos
    BY PagesAssumption
  <2>3. serving.user \in MembersOf[p]
    BY <1>0 DEF ServedAsClient
  <2>4. IsMember(serving.user, RepoOf[m])
    BY <2>1, <2>3 DEF IsMember
  <2>5. WasMember(serving.user, RepoOf[m], 0)
    BY <1>0, <2>4, MembersWereMembers
  <2>6. WasMember(serving.user, RepoOf[m], serving.age)
    BY <1>0, <2>2, <2>5, MembershipLasts
  <2>7. QED
    BY <2>1, <2>2, <2>6 DEF Shown
<1> HIDE DEF shows
<1>3. shows \in SUBSET Shown
  BY <1>2
<1>4. Read(shows) /\ Unanswered /\ UNCHANGED <<cache, world>>
  BY <1>1 DEF HandleProject, shows
<1>5. QED
  BY <1>2, <1>3, <1>4, ReadStep

\* What the public queries show is due.
LEMMA PublicPagesShow ==
    ASSUME PagesInv, NEW n, NEW user, NEW stored \in SUBSET Runs, NEW age \in Nat,
           NEW shows \in {GetRunByPublicID(n, user, stored), ListRunsForRepo(n, user, stored)}
    PROVE  /\ shows \in SUBSET Shown
           /\ \A x \in shows :
                 /\ hidden[RepoOf[x.run]] <= age \/ WasMember(user, RepoOf[x.run], age)
                 /\ x.member => WasMember(user, RepoOf[x.run], age)
<1>0. PagesTypeOK /\ GhostsAreCurrent
  BY DEF PagesInv
<1>1. \A m : IsMember(user, m) \in BOOLEAN
  BY DEF IsMember
<1>2. ASSUME NEW m \in stored, Visible(user, RepoOf[m]), NEW member \in BOOLEAN,
             member => IsMember(user, RepoOf[m]), NEW x, x = [run |-> m, member |-> member]
      PROVE  /\ x \in Shown
             /\ hidden[RepoOf[x.run]] <= age \/ WasMember(user, RepoOf[x.run], age)
             /\ x.member => WasMember(user, RepoOf[x.run], age)
  <2>1. x \in Shown /\ x.run = m /\ x.member = member /\ m \in Runs
    BY <1>2 DEF Shown
  <2>2. /\ hidden[RepoOf[m]] <= age \/ WasMember(user, RepoOf[m], age)
        /\ member => WasMember(user, RepoOf[m], age)
    BY <1>0, <1>2, <2>1, VisibleRowIsDue
  <2>3. QED
    BY <2>1, <2>2
<1>3. ASSUME NEW x \in shows
      PROVE  /\ x \in Shown
             /\ hidden[RepoOf[x.run]] <= age \/ WasMember(user, RepoOf[x.run], age)
             /\ x.member => WasMember(user, RepoOf[x.run], age)
  <2>1. CASE shows = GetRunByPublicID(n, user, stored)
    <3>1. PICK m \in stored \cap {n} : Visible(user, RepoOf[m])
                                     /\ x = [run |-> m, member |-> IsMember(user, RepoOf[m])]
      BY <1>3, <2>1 DEF GetRunByPublicID
    <3>2. QED
      BY <1>1, <1>2, <3>1
  <2>2. CASE shows = ListRunsForRepo(n, user, stored)
    <3>1. PICK m \in stored : Visible(user, RepoOf[m]) /\ x = [run |-> m, member |-> FALSE]
      BY <1>3, <2>2 DEF ListRunsForRepo
    <3>2. QED
      BY <1>2, <3>1
  <2>3. QED
    BY <2>1, <2>2
<1>4. QED
  BY <1>3

LEMMA HandlePublicPageStep ==
    ASSUME PagesInv, HandlePublicPage
    PROVE  PagesInv'
<1> DEFINE n == serving.page.of
<1>1. PICK stored \in SUBSET Runs :
         \/ Read(GetRunByPublicID(n, serving.user, stored))
         \/ Read(ListRunsForRepo(n, serving.user, stored))
  BY DEF HandlePublicPage
<1>2. PICK shows \in {GetRunByPublicID(n, serving.user, stored),
                      ListRunsForRepo(n, serving.user, stored)} : Read(shows)
  BY <1>1
<1>3. serving.age \in Nat
  BY DEF PagesInv, PagesTypeOK, AnyServing
<1>4. /\ shows \in SUBSET Shown
      /\ \A x \in shows :
            /\ hidden[RepoOf[x.run]] <= serving.age \/ WasMember(serving.user, RepoOf[x.run], serving.age)
            /\ x.member => WasMember(serving.user, RepoOf[x.run], serving.age)
  BY <1>3, PublicPagesShow
<1>5. Unanswered /\ UNCHANGED <<cache, world>>
  BY DEF HandlePublicPage
<1>6. QED
  BY <1>2, <1>4, <1>5, ReadStep

\* A page is delivered at most MaxRequest after its rows were due.
LEMMA DeliverStep ==
    ASSUME PagesInv, Deliver
    PROVE  PagesInv'
<1> DEFINE answer == [client |-> serving.client, page |-> serving.page, shows |-> serving.shows]
<1>0. /\ PagesTypeOK /\ GhostsAreCurrent /\ ServedAsClient /\ RowsWereDue
      /\ serving \in AnyServing
  BY DEF PagesInv, PagesTypeOK
<1>1. /\ last' = answer /\ serving' = Idle /\ UNCHANGED world
      /\ \/ Cacheable(serving.user, serving.page) /\ cache' = [answer |-> answer, age |-> 0]
         \/ UNCHANGED cache
  BY DEF Deliver, Answer
<1>2. /\ answer \in AnyAnswer
      /\ answer.client = serving.client /\ answer.shows = serving.shows
      /\ serving.shows \in SUBSET Shown
      /\ serving.age \in Nat /\ serving.age <= MaxRequest
  BY <1>0, PagesAssumption DEF AnyServing, AnyAnswer
<1> HIDE DEF answer
<1>3. ASSUME NEW x \in serving.shows
      PROVE  /\ RepoOf[x.run] \in Repos /\ hidden[RepoOf[x.run]] \in Nat
             /\ \/ hidden[RepoOf[x.run]] <= MaxRequest
                \/ WasMember(serving.user, RepoOf[x.run], MaxRequest)
             /\ x.member => WasMember(serving.user, RepoOf[x.run], MaxRequest)
  <2>1. RepoOf[x.run] \in Repos /\ hidden[RepoOf[x.run]] \in Nat
    BY <1>0, <1>2, PagesAssumption DEF Shown, PagesTypeOK
  <2>2. WasMember(serving.user, RepoOf[x.run], serving.age) =>
           WasMember(serving.user, RepoOf[x.run], MaxRequest)
    BY <1>0, <1>2, <2>1, MembershipLasts, PagesAssumption
  <2>3. hidden[RepoOf[x.run]] <= serving.age => hidden[RepoOf[x.run]] <= MaxRequest
    BY <1>2, <2>1, PagesAssumption
  <2>4. RowWasDue(x)
    BY <1>0 DEF RowsWereDue
  <2>5. QED
    BY <2>1, <2>2, <2>3, <2>4 DEF RowWasDue
<1>4. ASSUME NEW r, WasMember(serving.user, r, MaxRequest)
      PROVE  WasMember(serving.client, r, MaxRequest)
  BY <1>0, <1>4, AnonymousIsNoMember DEF ServedAsClient
<1>5. last'.client = serving.client /\ last'.shows = serving.shows
  BY <1>1, <1>2
<1>6. ASSUME NEW x \in serving.shows
      PROVE  /\ \/ hidden[RepoOf[x.run]] <= MaxAge + MaxRequest
                \/ WasMember(serving.client, RepoOf[x.run], MaxRequest)
             /\ x.member => WasMember(serving.client, RepoOf[x.run], MaxRequest)
  <2>1. hidden[RepoOf[x.run]] <= MaxRequest => hidden[RepoOf[x.run]] <= MaxAge + MaxRequest
    BY <1>3, PagesAssumption
  <2>2. QED
    BY <1>3, <1>4, <2>1
<1>7. PrivateRunsFadeOut' /\ MemberViewsStayWithMembers'
  BY <1>1, <1>5, <1>6 DEF PrivateRunsFadeOut, MemberViewsStayWithMembers, WasMember, world
<1>8. CASE UNCHANGED cache
  BY <1>1, <1>7, <1>8, IdleServes, OnePageStep
<1>9. CASE Cacheable(serving.user, serving.page) /\ cache' = [answer |-> answer, age |-> 0]
  <2>1. serving.user = Anonymous
    BY <1>9 DEF Cacheable
  <2>2. \A x \in serving.shows : ~x.member /\ hidden[RepoOf[x.run]] <= MaxRequest
    BY <1>3, <2>1, AnonymousIsNoMember
  <2>3. cache' \in AnyEntry /\ cache'.answer = answer /\ cache'.age = 0
    BY <1>2, <1>9, PagesAssumption DEF AnyEntry
  <2>4. EntryWasPublic'
    BY <1>1, <1>2, <2>2, <2>3, PagesAssumption DEF EntryWasPublic, world
  <2>5. PagesTypeOK'
    BY <1>0, <1>1, <2>3, IdleServes DEF PagesTypeOK, world
  <2>6. GhostsAreCurrent'
    BY <1>0, <1>1 DEF GhostsAreCurrent, world
  <2>7. QED
    BY <1>1, <1>7, <2>4, <2>5, <2>6, IdleServes DEF PagesInv
<1>10. QED
  BY <1>1, <1>8, <1>9

LEMMA ServeFromCacheStep ==
    ASSUME PagesInv, ServeFromCache
    PROVE  PagesInv'
<1>0. PagesTypeOK /\ ServedAsClient /\ RowsWereDue /\ EntryWasPublic
  BY DEF PagesInv
<1>1. last' = cache.answer /\ UNCHANGED <<serving, cache, world>>
  BY DEF ServeFromCache
<1>2. ASSUME NEW x \in cache.answer.shows
      PROVE  ~x.member /\ hidden[RepoOf[x.run]] <= MaxAge + MaxRequest
  <2>1. hidden[RepoOf[x.run]] \in Nat
    BY <1>0, PagesAssumption DEF PagesTypeOK, AnyEntry, AnyAnswer, Shown
  <2>2. cache.age \in Nat /\ cache.age <= MaxAge
    BY <1>0 DEF PagesTypeOK, AnyEntry
  <2>3. ~x.member /\ hidden[RepoOf[x.run]] <= cache.age + MaxRequest
    BY <1>0 DEF EntryWasPublic
  <2>4. QED
    BY <2>1, <2>2, <2>3, PagesAssumption
<1>3. PrivateRunsFadeOut' /\ MemberViewsStayWithMembers'
  BY <1>1, <1>2 DEF PrivateRunsFadeOut, MemberViewsStayWithMembers, world
<1>4. ServedAsClient' /\ serving' \in AnyServing
  BY <1>0, <1>1 DEF ServedAsClient, PagesTypeOK
<1>5. RowsWereDue'
  BY <1>0, <1>1 DEF RowsWereDue, RowWasDue, WasMember, world
<1>6. QED
  BY <1>1, <1>3, <1>4, <1>5, OnePageStep

\* What changes in the tables ages what was read, and what is kept, by no more
\* than the ghosts of hidden repositories and revoked bindings.
LEMMA WorldChanges ==
    ASSUME PagesInv, NEW d \in {0, 1}, Unanswered,
           PagesTypeOK', GhostsAreCurrent',
           \A r \in Repos : hidden'[r] <= hidden[r] + d,
           \A b \in Projects \X Repos : unbound'[b] <= unbound[b] + d,
           serving' = serving \/ serving' = [serving EXCEPT !.age = @ + d],
           serving.phase = "render" => serving'.age = serving.age + d,
           \/ cache'.answer.shows = {}
           \/ cache'.answer = cache.answer /\ cache'.age = cache.age + d
    PROVE  PagesInv'
<1>0. PagesTypeOK /\ ServedAsClient /\ RowsWereDue /\ EntryWasPublic /\ d \in Nat
  BY DEF PagesInv
<1>1. /\ serving'.shows = serving.shows /\ serving'.user = serving.user
      /\ serving'.client = serving.client /\ serving'.page = serving.page
      /\ serving'.phase = serving.phase
  BY <1>0 DEF PagesTypeOK, AnyServing
<1>2. ServedAsClient'
  BY <1>0, <1>1 DEF ServedAsClient
<1>3. ASSUME NEW x, x.run \in Runs
      PROVE  /\ RepoOf[x.run] \in Repos /\ hidden[RepoOf[x.run]] \in Nat
             /\ hidden'[RepoOf[x.run]] \in Nat
             /\ hidden'[RepoOf[x.run]] <= hidden[RepoOf[x.run]] + d
  BY <1>0, <1>3, PagesAssumption DEF PagesTypeOK
<1>4. RowsWereDue'
  <2>1. ASSUME NEW x \in serving.shows
        PROVE  RowWasDue(x)'
    <3>1. x.run \in Runs /\ serving.phase = "render"
      BY <1>0 DEF PagesTypeOK, AnyServing, Shown, ServedAsClient
    <3>2. PICK a \in Nat : serving.age = a /\ serving'.age = a + d
      BY <1>0, <3>1 DEF PagesTypeOK, AnyServing
    <3>3. WasMember(serving.user, RepoOf[x.run], a) => WasMember(serving.user, RepoOf[x.run], a + d)'
      <4>1. PICK u \in Clients : u = serving.user
        BY <1>0 DEF PagesTypeOK, AnyServing
      <4>2. \A b \in Projects \X Repos : unbound'[b] \in Nat /\ unbound'[b] <= unbound[b] + d
        BY DEF PagesTypeOK
      <4>3. WasMember(u, RepoOf[x.run], a) => WasMember(u, RepoOf[x.run], a + d)'
        BY <1>0, <1>3, <3>1, <4>2, MembershipsAge
      <4>4. QED
        BY <1>1, <4>1, <4>3 DEF WasMember
    <3>4. hidden[RepoOf[x.run]] <= a => hidden'[RepoOf[x.run]] <= a + d
      BY <1>0, <1>3, <3>1
    <3>5. RowWasDue(x)
      BY <1>0 DEF RowsWereDue
    <3>6. QED
      BY <1>1, <3>2, <3>3, <3>4, <3>5 DEF RowWasDue
  <2>2. QED
    BY <1>1, <2>1 DEF RowsWereDue
<1>5. EntryWasPublic'
  <2>1. CASE cache'.answer.shows = {}
    BY <2>1 DEF EntryWasPublic
  <2>2. CASE cache'.answer = cache.answer /\ cache'.age = cache.age + d
    <3>1. cache.age \in Nat
      BY <1>0 DEF PagesTypeOK, AnyEntry
    <3>2. ASSUME NEW x \in cache.answer.shows
          PROVE  ~x.member /\ hidden'[RepoOf[x.run]] <= cache.age + d + MaxRequest
      <4>1. x.run \in Runs
        BY <1>0 DEF PagesTypeOK, AnyEntry, AnyAnswer, Shown
      <4>2. ~x.member /\ hidden[RepoOf[x.run]] <= cache.age + MaxRequest
        BY <1>0 DEF EntryWasPublic
      <4>3. QED
        BY <1>0, <1>3, <3>1, <4>1, <4>2, PagesAssumption
    <3>3. QED
      BY <2>2, <3>2 DEF EntryWasPublic
  <2>3. QED
    BY <2>1, <2>2
<1>6. QED
  BY <1>2, <1>4, <1>5, UnansweredShowsNothing DEF PagesInv

\* The steps of everything else keep the inductive invariant.
LEMMA WorldStep ==
    ASSUME PagesInv, World
    PROVE  PagesInv'
<1> USE PagesAssumption
<1>0. PagesTypeOK /\ GhostsAreCurrent /\ ServedAsClient /\ serving \in AnyServing /\ cache \in AnyEntry
  BY DEF PagesInv, PagesTypeOK
<1>a. serving.age \in Nat /\ serving.age = serving.age + 0 /\ cache.age = cache.age + 0
  BY <1>0 DEF AnyServing, AnyEntry
<1>1. ASSUME NEW r \in Repos, SetVisibility(r)
      PROVE  PagesInv'
  <2>1. /\ public' \subseteq Repos /\ hidden' \in [Repos -> Nat]
        /\ \A p \in public' : hidden'[p] = 0
        /\ \A p \in Repos : hidden'[p] \in {0, hidden[p]}
        /\ Unanswered /\ UNCHANGED <<bound, serving, cache, unbound>>
    BY <1>0, <1>1 DEF SetVisibility, PagesTypeOK, GhostsAreCurrent
  <2>2. PagesTypeOK' /\ GhostsAreCurrent'
    BY <1>0, <2>1 DEF PagesTypeOK, GhostsAreCurrent
  <2>3. /\ \A p \in Repos : hidden'[p] <= hidden[p] + 0
        /\ \A b \in Projects \X Repos : unbound'[b] <= unbound[b] + 0
    BY <1>0, <2>1 DEF PagesTypeOK
  <2>4. QED
    BY <1>a, <2>1, <2>2, <2>3, WorldChanges
<1>2. ASSUME NEW p \in Projects, NEW r \in Repos, SetBinding(p, r)
      PROVE  PagesInv'
  <2>1. /\ bound' \subseteq Projects \X Repos /\ Unanswered
        /\ UNCHANGED <<public, serving, cache, hidden>>
        /\ unbound' \in [Projects \X Repos -> Nat]
        /\ \A b \in Projects \X Repos : unbound'[b] \in {0, unbound[b]}
        /\ \A b \in bound' : unbound'[b] = 0
    <3> DEFINE b == <<p, r>>
    <3>1. b \in Projects \X Repos
      OBVIOUS
    <3>2. /\ bound' \subseteq bound \cup {b} /\ (b \in bound' => b \notin bound)
          /\ unbound' = [unbound EXCEPT ![b] = IF b \in bound THEN @ ELSE 0]
          /\ Unanswered /\ UNCHANGED <<public, serving, cache, hidden>>
      BY <1>2 DEF SetBinding
    <3>3. QED
      BY <1>0, <3>1, <3>2 DEF PagesTypeOK, GhostsAreCurrent
  <2>2. PagesTypeOK' /\ GhostsAreCurrent'
    BY <1>0, <2>1 DEF PagesTypeOK, GhostsAreCurrent
  <2>3. /\ \A q \in Repos : hidden'[q] <= hidden[q] + 0
        /\ \A b \in Projects \X Repos : unbound'[b] <= unbound[b] + 0
    BY <1>0, <2>1 DEF PagesTypeOK
  <2>4. QED
    BY <1>a, <2>1, <2>2, <2>3, WorldChanges
<1>3. CASE Tick
  <2>1. /\ cache' = Aged(cache) /\ Unanswered /\ UNCHANGED <<public, bound>>
        /\ hidden' \in [Repos -> Nat] /\ unbound' \in [Projects \X Repos -> Nat]
        /\ \A r \in public : hidden'[r] = 0
        /\ \A b \in bound : unbound'[b] = 0
        /\ \A r \in Repos : hidden'[r] <= hidden[r] + 1
        /\ \A b \in Projects \X Repos : unbound'[b] <= unbound[b] + 1
    BY <1>0, <1>3 DEF Tick, Older, PagesTypeOK
  <2>2. /\ serving' \in AnyServing
        /\ serving' = serving \/ serving' = [serving EXCEPT !.age = @ + 1]
        /\ serving.phase = "render" => serving'.age = serving.age + 1
    <3>1. CASE serving.phase = "render"
      <4>1. serving' = [serving EXCEPT !.age = @ + 1] /\ serving.age < MaxRequest
        BY <1>3, <3>1 DEF Tick
      <4>2. serving.age + 1 \in 0 .. MaxRequest
        BY <1>0, <4>1 DEF AnyServing
      <4>3. QED
        BY <1>0, <4>1, <4>2 DEF AnyServing
    <3>2. CASE serving.phase # "render"
      BY <1>0, <1>3, <3>2 DEF Tick
    <3>3. QED
      BY <3>1, <3>2
  <2>3. /\ cache' \in AnyEntry
        /\ \/ cache'.answer.shows = {}
           \/ cache'.answer = cache.answer /\ cache'.age = cache.age + 1
    <3>1. CASE cache = NoEntry \/ cache.age >= MaxAge
      <4>1. NoEntry \in AnyEntry /\ NoEntry.answer.shows = {}
        BY DEF NoEntry, NoAnswer, Clients, AnyPage, AnyEntry, AnyAnswer
      <4>2. QED
        BY <2>1, <3>1, <4>1 DEF Aged
    <3>2. CASE ~(cache = NoEntry \/ cache.age >= MaxAge)
      <4>1. cache' = [cache EXCEPT !.age = @ + 1]
        BY <2>1, <3>2 DEF Aged
      <4>2. cache.age \in Nat /\ cache.age + 1 \in 0 .. MaxAge
        BY <1>0, <3>2 DEF AnyEntry
      <4>3. QED
        BY <1>0, <4>1, <4>2 DEF AnyEntry
    <3>3. QED
      BY <3>1, <3>2
  <2>4. PagesTypeOK' /\ GhostsAreCurrent'
    BY <1>0, <2>1, <2>2, <2>3 DEF PagesTypeOK, GhostsAreCurrent
  <2>5. QED
    BY <2>1, <2>2, <2>3, <2>4, WorldChanges
<1>4. QED
  BY <1>1, <1>2, <1>3 DEF World

\* The inductive invariant holds throughout.
THEOREM PagesInvariant == PagesSpec => []PagesInv
<1>1. PagesInit => PagesInv
  <2> SUFFICES ASSUME PagesInit PROVE PagesInv
    OBVIOUS
  <2>1. /\ Anonymous \in Clients /\ NoPage \in AnyPage
        /\ NoEntry.answer.shows = {} /\ NoAnswer.shows = {}
    BY DEF Clients, AnyPage, NoEntry, NoAnswer
  <2>2. /\ cache \in AnyEntry /\ serving \in AnyServing
        /\ serving.shows = {} /\ serving.phase = "idle" /\ serving.user = Anonymous
    BY <2>1, PagesAssumption DEF PagesInit, NoEntry, NoAnswer, Idle, AnyEntry, AnyAnswer, AnyServing
  <2>3. PagesTypeOK /\ GhostsAreCurrent
    BY <2>2, PagesAssumption DEF PagesInit, PagesTypeOK, GhostsAreCurrent
  <2>4. ServedAsClient /\ RowsWereDue
    BY <2>2 DEF ServedAsClient, RowsWereDue
  <2>5. EntryWasPublic /\ PrivateRunsFadeOut /\ MemberViewsStayWithMembers
    BY <2>1 DEF PagesInit, EntryWasPublic, PrivateRunsFadeOut, MemberViewsStayWithMembers
  <2>6. QED
    BY <2>3, <2>4, <2>5 DEF PagesInv
<1>2. PagesInv /\ [PagesNext]_pageVars => PagesInv'
  <2> SUFFICES ASSUME PagesInv, [PagesNext]_pageVars
               PROVE  PagesInv'
    OBVIOUS
  <2>1. CASE UNCHANGED pageVars
    BY <2>1 DEF pageVars, PagesInv, PagesTypeOK, GhostsAreCurrent, ServedAsClient, RowsWereDue,
       RowWasDue, EntryWasPublic, PrivateRunsFadeOut, MemberViewsStayWithMembers, WasMember
  <2>2. CASE PagesNext
    BY <2>2, ReadersStep, HandleProjectStep, HandlePublicPageStep, DeliverStep, ServeFromCacheStep,
       WorldStep DEF PagesNext
  <2>3. QED
    BY <2>1, <2>2
<1>3. QED
  BY <1>1, <1>2, PTL DEF PagesSpec

\* Whatever caches kept and whatever changed while a page was being made, a run
\* of a repository private for longer than max-age and a request is shown only to
\* who is a member, or was while the request was served.
THEOREM PrivateRunsFade == PagesSpec => []PrivateRunsFadeOut
<1>1. PagesInv => PrivateRunsFadeOut
  BY DEF PagesInv
<1>2. QED
  BY <1>1, PagesInvariant, PTL

\* The members' views of a run are shown only to who is a member, or was while the
\* request was served.
THEOREM MemberViewsStay == PagesSpec => []MemberViewsStayWithMembers
<1>1. PagesInv => MemberViewsStayWithMembers
  BY DEF PagesInv
<1>2. QED
  BY <1>1, PagesInvariant, PTL

-----------------------------------------------------------------------------
(* RateLimiter: sums over sets *)

PickOf(s) == CHOOSE x \in s : TRUE

\* g gives each subset of S the sum of f over it.
IsSum(g, f, S) ==
    g = [s \in SUBSET S |-> IF s = {} THEN 0 ELSE f[PickOf(s)] + g[s \ {PickOf(s)}]]

\* What Total computes.
LEMMA TotalIsASum ==
    ASSUME NEW f, NEW S
    PROVE  Total(f, S) = (CHOOSE g : IsSum(g, f, S))[S]
BY DEF Total, FoldSet, MapThenFoldSet, IsSum, PickOf

\* Among sets of subsets of a finite set there are smallest ones.
LEMMA SmallestSubset ==
    ASSUME NEW S, IsFiniteSet(S), NEW Bad, Bad \subseteq SUBSET S, Bad # {}
    PROVE  \E s \in Bad : \A t \in Bad : t \subseteq s => t = s
<1> DEFINE R == StrictSubsetOrdering(S)
<1>1. IsWellFoundedOn(R, SUBSET S)
  BY FS_StrictSubsetOrderingWellFounded, FS_FiniteSubsetsOfFinite
<1>2. \A s, t \in SUBSET S : t \subseteq s /\ t # s => <<t, s>> \in R
  BY DEF StrictSubsetOrdering
<1> HIDE DEF R
<1>3. PICK s \in Bad : \A t \in Bad : ~(<<t, s>> \in R)
  BY <1>1, WFMin
<1>4. QED
  BY <1>2, <1>3

\* The sums exist: first over the sets of at most n elements.
LEMMA SumsExist ==
    ASSUME NEW S, IsFiniteSet(S), NEW f
    PROVE  \E g : IsSum(g, f, S)
<1> DEFINE Small(n) == {s \in SUBSET S : Cardinality(s) <= n}
           Good(n) == \E g : g = [s \in Small(n) |->
                         IF s = {} THEN 0 ELSE f[PickOf(s)] + g[s \ {PickOf(s)}]]
           Bad == {n \in Nat : ~Good(n)}
<1>0. \A s \in SUBSET S : IsFiniteSet(s) /\ Cardinality(s) \in Nat
  BY FS_Subset, FS_CardinalityType
<1>1. Bad = {}
  <2>1. SUFFICES ASSUME Bad # {} PROVE FALSE
    OBVIOUS
  <2> DEFINE R == OpToRel(<, Nat)
  <2>2. IsWellFoundedOn(R, Nat)
    BY NatLessThanWellFounded
  <2>3. \A x, y \in Nat : x < y <=> <<x, y>> \in R
    BY DEF OpToRel
  <2> HIDE DEF R
  <2>4. PICK n \in Bad : \A m \in Bad : ~(<<m, n>> \in R)
    <3> HIDE DEF Good
    <3>1. Bad \subseteq Nat
      OBVIOUS
    <3> QED
      BY <2>1, <2>2, <3>1, WFMin
  <2>5. n # 0
    <3>1. Small(0) = {{}}
      <4>1. \A s \in SUBSET S : Cardinality(s) <= 0 => s = {}
        BY <1>0, FS_EmptySet
      <4>2. Cardinality({}) <= 0
        BY FS_EmptySet
      <4>3. QED
        BY <4>1, <4>2
    <3> DEFINE g == [s \in {{}} |-> 0]
    <3>2. g = [s \in {{}} |-> IF s = {} THEN 0 ELSE f[PickOf(s)] + g[s \ {PickOf(s)}]]
      OBVIOUS
    <3> HIDE DEF g
    <3>3. Good(0)
      BY <3>1, <3>2
    <3>4. QED
      BY <3>3
  <2>6. n \in Nat /\ n - 1 \in Nat /\ n - 1 < n
    BY <2>5
  <2>7. Good(n - 1)
    <3> HIDE DEF Good
    <3> QED BY <2>3, <2>4, <2>6
  <2>8. PICK g : g = [s \in Small(n - 1) |->
                         IF s = {} THEN 0 ELSE f[PickOf(s)] + g[s \ {PickOf(s)}]]
    BY <2>7
  <2> DEFINE h == [s \in Small(n) |-> IF s = {} THEN 0 ELSE f[PickOf(s)] + g[s \ {PickOf(s)}]]
  <2>9. \A s \in Small(n - 1) : s \in Small(n) /\ g[s] = h[s]
    <3>1. \A s \in Small(n - 1) : s \in Small(n)
      BY <1>0, <2>6
    <3>2. ASSUME NEW s \in Small(n - 1)
          PROVE  g[s] = IF s = {} THEN 0 ELSE f[PickOf(s)] + g[s \ {PickOf(s)}]
      BY <2>8, Zenon
    <3>3. \A s \in Small(n) : h[s] = IF s = {} THEN 0 ELSE f[PickOf(s)] + g[s \ {PickOf(s)}]
      OBVIOUS
    <3>4. QED
      BY <3>1, <3>2, <3>3
  <2>10. ASSUME NEW s \in Small(n), s # {}
         PROVE  s \ {PickOf(s)} \in Small(n - 1)
    <3>1. PickOf(s) \in s
      BY <2>10 DEF PickOf
    <3>2. Cardinality(s \ {PickOf(s)}) = Cardinality(s) - 1
      BY <1>0, <3>1, FS_RemoveElement
    <3>3. QED
      BY <1>0, <2>6, <3>2
  <2>11. h = [s \in Small(n) |-> IF s = {} THEN 0 ELSE f[PickOf(s)] + h[s \ {PickOf(s)}]]
    <3>1. \A s \in Small(n) : s # {} => g[s \ {PickOf(s)}] = h[s \ {PickOf(s)}]
      BY <2>9, <2>10
    <3>2. QED
      BY <3>1
  <2>12. Good(n)
    <3> HIDE DEF h
    <3> QED BY <2>11
  <2>13. QED
    <3> HIDE DEF Good
    <3> QED BY <2>4, <2>12
<1>2. Good(Cardinality(S))
  <2> HIDE DEF Good
  <2> QED BY <1>0, <1>1
<1>3. Small(Cardinality(S)) = SUBSET S
  BY <1>0, FS_Subset
<1>4. PICK g : g = [s \in SUBSET S |-> IF s = {} THEN 0 ELSE f[PickOf(s)] + g[s \ {PickOf(s)}]]
  BY <1>2, <1>3
<1>5. QED
  BY <1>4 DEF IsSum

\* How one summand enters a sum, whichever is taken first.
LEMMA SumOfOneMore ==
    ASSUME NEW S, IsFiniteSet(S), NEW f \in [S -> Nat], NEW g, IsSum(g, f, S)
    PROVE  /\ g[{}] = 0
           /\ \A s \in SUBSET S : g[s] \in Nat
           /\ \A s \in SUBSET S : \A x \in s : g[s] = f[x] + g[s \ {x}]
<1>1. \A s \in SUBSET S : g[s] = IF s = {} THEN 0 ELSE f[PickOf(s)] + g[s \ {PickOf(s)}]
  BY Zenon DEF IsSum
<1>2. \A s \in SUBSET S : s # {} => PickOf(s) \in s
  BY DEF PickOf
<1>3. \A s \in SUBSET S : g[s] \in Nat
  <2> DEFINE Bad == {s \in SUBSET S : g[s] \notin Nat}
  <2>1. SUFFICES ASSUME Bad # {} PROVE FALSE
    OBVIOUS
  <2>2. PICK s \in Bad : \A t \in Bad : t \subseteq s => t = s
    <3>1. Bad \subseteq SUBSET S
      OBVIOUS
    <3> HIDE DEF Bad
    <3>2. QED
      BY <2>1, <3>1, SmallestSubset
  <2>3. s # {} /\ PickOf(s) \in s
    <3>1. s \in SUBSET S /\ g[s] \notin Nat /\ g[{}] = 0
      BY <1>1
    <3>2. QED
      BY <1>2, <3>1
  <2>4. g[s \ {PickOf(s)}] \in Nat
    BY <2>2, <2>3
  <2>5. f[PickOf(s)] \in Nat
    BY <2>3
  <2>6. QED
    BY <1>1, <2>3, <2>4, <2>5
<1>4. \A s \in SUBSET S : \A x \in s : g[s] = f[x] + g[s \ {x}]
  <2> DEFINE Bad == {s \in SUBSET S : \E x \in s : g[s] # f[x] + g[s \ {x}]}
  <2>1. SUFFICES ASSUME Bad # {} PROVE FALSE
    OBVIOUS
  <2>2. PICK s \in Bad : \A t \in Bad : t \subseteq s => t = s
    <3>1. Bad \subseteq SUBSET S
      OBVIOUS
    <3> HIDE DEF Bad
    <3>2. QED
      BY <2>1, <3>1, SmallestSubset
  <2>3. PICK x \in s : g[s] # f[x] + g[s \ {x}]
    OBVIOUS
  <2>4. PICK y \in s : g[s] = f[y] + g[s \ {y}]
    BY <1>1, <1>2
  <2>5. x # y
    BY <2>3, <2>4
  <2>6. \A t \in SUBSET S : t \subseteq s /\ t # s => \A z \in t : g[t] = f[z] + g[t \ {z}]
    BY <2>2
  <2>7. g[s \ {y}] = f[x] + g[(s \ {y}) \ {x}]
    BY <2>5, <2>6
  <2>8. g[s \ {x}] = f[y] + g[(s \ {x}) \ {y}]
    BY <2>5, <2>6
  <2> DEFINE rest == g[(s \ {y}) \ {x}]
  <2>9. (s \ {x}) \ {y} = (s \ {y}) \ {x}
    OBVIOUS
  <2>10. f[x] \in Nat /\ f[y] \in Nat /\ rest \in Nat
    BY <1>3
  <2>11. g[s] = f[y] + (f[x] + rest) /\ f[x] + g[s \ {x}] = f[x] + (f[y] + rest)
    BY <2>4, <2>7, <2>8, <2>9
  <2> HIDE DEF rest
  <2>12. f[y] + (f[x] + rest) = f[x] + (f[y] + rest)
    BY <2>10
  <2>13. QED
    BY <2>3, <2>11, <2>12
<1>5. QED
  BY <1>1, <1>3, <1>4

\* Sums of functions that agree on a set agree on it.
LEMMA SumsAgree ==
    ASSUME NEW S, IsFiniteSet(S), NEW f \in [S -> Nat], NEW g, IsSum(g, f, S),
           NEW T, IsFiniteSet(T), NEW e \in [T -> Nat], NEW h, IsSum(h, e, T),
           NEW U, U \subseteq S, U \subseteq T, \A x \in U : f[x] = e[x]
    PROVE  g[U] = h[U]
<1> DEFINE Bad == {s \in SUBSET U : g[s] # h[s]}
<1>1. SUFFICES ASSUME Bad # {} PROVE FALSE
  OBVIOUS
<1>2. IsFiniteSet(U)
  BY FS_Subset
<1>3. PICK s \in Bad : \A t \in Bad : t \subseteq s => t = s
  <2>1. Bad \subseteq SUBSET U
    OBVIOUS
  <2> HIDE DEF Bad
  <2>2. QED
    BY <1>1, <1>2, <2>1, SmallestSubset
<1>4. /\ g[{}] = 0
      /\ \A x \in s : g[s] = f[x] + g[s \ {x}]
  BY SumOfOneMore
<1>5. /\ h[{}] = 0
      /\ \A x \in s : h[s] = e[x] + h[s \ {x}]
  BY SumOfOneMore
<1>6. PICK x \in s : TRUE
  BY <1>4, <1>5
<1>7. g[s \ {x}] = h[s \ {x}]
  BY <1>3
<1>8. QED
  BY <1>4, <1>5, <1>7

\* Total is such a sum, the same for all subsets of a finite set.
LEMMA TotalIsTheSum ==
    ASSUME NEW S, IsFiniteSet(S), NEW f \in [S -> Nat], NEW g, IsSum(g, f, S),
           NEW U, U \subseteq S
    PROVE  Total(f, U) = g[U]
<1> DEFINE h == CHOOSE h : IsSum(h, f, U)
           e == [x \in U |-> f[x]]
<1>1. IsFiniteSet(U)
  BY FS_Subset
<1>2. IsSum(h, f, U)
  BY <1>1, SumsExist
<1> HIDE DEF h
<1>3. IsSum(h, e, U)
  <2>1. \A s \in SUBSET U : s # {} => PickOf(s) \in s
    BY DEF PickOf
  <2>2. \A s \in SUBSET U : s # {} => f[PickOf(s)] = e[PickOf(s)]
    BY <2>1
  <2> HIDE DEF e
  <2>3. QED
    BY <1>2, <2>2 DEF IsSum
<1>4. e \in [U -> Nat] /\ \A x \in U : f[x] = e[x]
  OBVIOUS
<1> HIDE DEF e
<1>5. g[U] = h[U]
  BY <1>1, <1>3, <1>4, SumsAgree
<1>6. QED
  BY <1>5, TotalIsASum DEF h

\* The sums over stretches of time.
LEMMA TotalsOfTimes ==
    ASSUME NEW f \in [Times -> Nat], NEW U, U \subseteq Times
    PROVE  /\ Total(f, U) \in Nat
           /\ (\A t \in U : f[t] = 0) => Total(f, U) = 0
           /\ \A t \in Times :
                 Total([f EXCEPT ![t] = @ + 1], U) = Total(f, U) + IF t \in U THEN 1 ELSE 0
<1>1. IsFiniteSet(Times) /\ IsFiniteSet(U)
  <2>1. IsFiniteSet(0 .. MaxTime)
    <3>1. 0 \in Int /\ MaxTime \in Int
      BY LimiterAssumption
    <3>2. QED
      BY <3>1, FS_Interval
  <2>2. QED
    BY <2>1, FS_Subset DEF Times
<1>2. PICK g : IsSum(g, f, Times)
  BY <1>1, SumsExist
<1>3. /\ \A s \in SUBSET Times : Total(f, s) = g[s] /\ g[s] \in Nat
      /\ g[{}] = 0
      /\ \A s \in SUBSET Times : \A x \in s : g[s] = f[x] + g[s \ {x}]
  <2>1. \A s \in SUBSET Times : Total(f, s) = g[s]
    BY <1>1, <1>2, TotalIsTheSum
  <2>2. QED
    BY <1>1, <1>2, <2>1, SumOfOneMore
<1>4. ASSUME \A t \in U : f[t] = 0
      PROVE  Total(f, U) = 0
  <2> DEFINE Bad == {s \in SUBSET U : g[s] # 0}
  <2>1. SUFFICES ASSUME Bad # {} PROVE FALSE
    BY <1>3
  <2>2. PICK s \in Bad : \A t \in Bad : t \subseteq s => t = s
    <3>1. Bad \subseteq SUBSET U
      OBVIOUS
    <3> HIDE DEF Bad
    <3>2. QED
      BY <1>1, <2>1, <3>1, SmallestSubset
  <2>3. PICK x \in s : TRUE
    BY <1>3
  <2>4. g[s \ {x}] = 0 /\ f[x] = 0
    BY <1>4, <2>2
  <2>5. QED
    BY <1>3, <2>4
<1>5. ASSUME NEW t \in Times
      PROVE  Total([f EXCEPT ![t] = @ + 1], U) = Total(f, U) + IF t \in U THEN 1 ELSE 0
  <2> DEFINE e == [f EXCEPT ![t] = @ + 1]
  <2>1. e \in [Times -> Nat] /\ e[t] = f[t] + 1 /\ \A x \in Times \ {t} : e[x] = f[x]
    OBVIOUS
  <2> HIDE DEF e
  <2>2. PICK h : IsSum(h, e, Times)
    BY <1>1, SumsExist
  <2>3. /\ \A s \in SUBSET Times : Total(e, s) = h[s] /\ h[s] \in Nat
        /\ \A s \in SUBSET Times : \A x \in s : h[s] = e[x] + h[s \ {x}]
    <3>1. \A s \in SUBSET Times : Total(e, s) = h[s]
      BY <1>1, <2>1, <2>2, TotalIsTheSum
    <3>2. QED
      BY <1>1, <2>1, <2>2, <3>1, SumOfOneMore
  <2>4. g[U \ {t}] = h[U \ {t}]
    BY <1>1, <1>2, <2>1, <2>2, SumsAgree
  <2>5. Total(e, U) = Total(f, U) + IF t \in U THEN 1 ELSE 0
    <3>1. CASE t \in U
      <4>1. g[U] = f[t] + g[U \ {t}] /\ h[U] = e[t] + h[U \ {t}]
        BY <1>3, <2>3, <3>1
      <4>2. f[t] \in Nat /\ g[U \ {t}] \in Nat
        BY <1>3
      <4>3. h[U] = g[U] + 1
        BY <2>1, <2>4, <4>1, <4>2
      <4>4. QED
        BY <1>3, <2>3, <3>1, <4>3
    <3>2. CASE t \notin U
      <4>1. U \ {t} = U
        BY <3>2
      <4>2. h[U] = g[U] /\ g[U] \in Nat
        BY <1>3, <2>4, <4>1
      <4>3. QED
        BY <1>3, <2>3, <3>2, <4>2
    <3>3. QED
      BY <3>1, <3>2
  <2>6. QED
    BY <2>5 DEF e
<1>6. QED
  BY <1>3, <1>4, <1>5

-----------------------------------------------------------------------------
(* RateLimiter: the inductive invariant *)

LimiterTypeOK ==
    /\ clock \in Times
    /\ hit \in Hit
    /\ waiting \in [Times -> Nat] /\ admitted \in [Times -> Nat]

\* Nobody waits for the lock longer than MaxStall.
WaitersAreRecent == \A t \in Times : waiting[t] > 0 => t <= clock /\ clock <= t + MaxStall

\* The window began in the past and has counted no more than the limit; nothing is
\* admitted before the first window, and nothing in the future.
CounterOK ==
    /\ hit.windowStart <= clock /\ hit.count <= RateLimit
    /\ \A t \in Times : hit = NoHit \/ clock < t => admitted[t] = 0

\* The window was opened at most MaxStall after its beginning, and the ones before
\* it began at least one window's length earlier each.  So what was admitted from
\* some time on was counted in this window alone, in this one and the last, or in
\* this one and the last two.
AdmittedFrom(from, to) ==
    LET opened == hit.windowStart + MaxStall
        total == Total(admitted, from .. to)
    IN /\ from > opened => total <= hit.count
       /\ from + RateWindow > opened => total <= RateLimit + hit.count
       /\ from + RateWindow + RateWindow > opened => total <= RateLimit + RateLimit + hit.count

LimiterInv ==
    /\ LimiterTypeOK
    /\ WaitersAreRecent
    /\ CounterOK
    /\ \A from, to \in Times : AdmittedFrom(from, to)
    /\ BurstsAreBounded

-----------------------------------------------------------------------------
(* RateLimiter: the invariant is inductive *)

\* The limits are numbers.
LEMMA LimiterConstants ==
    /\ RateLimit \in Nat /\ RateLimit > 0 /\ RateWindow \in Nat /\ RateWindow > 0
    /\ MaxStall \in Nat /\ MaxStall < RateWindow /\ MaxTime \in Nat
    /\ \A t \in Times : t \in Nat
BY RateAssumption, LimiterAssumption DEF Times

\* A stretch of one window's length that has not ended lies in the window or the two
\* before it, or the one before it if nobody stalls.
LEMMA RecentBursts ==
    ASSUME NEW hits \in Hit, NEW time \in Nat, NEW from \in Nat, NEW total \in Nat,
           hits.windowStart <= time, hits.count <= RateLimit, time <= from + RateWindow - 1,
           from + RateWindow > hits.windowStart + MaxStall => total <= RateLimit + hits.count,
           from + RateWindow + RateWindow > hits.windowStart + MaxStall
              => total <= RateLimit + RateLimit + hits.count
    PROVE  total <= (IF MaxStall = 0 THEN 2 ELSE 3) * RateLimit
<1> USE LimiterConstants
<1> DEFINE start == hits.windowStart
           count == hits.count
<1>1. /\ start \in Nat /\ count \in Nat /\ start <= time /\ count <= RateLimit
      /\ from + RateWindow > start + MaxStall => total <= RateLimit + count
      /\ from + RateWindow + RateWindow > start + MaxStall => total <= RateLimit + RateLimit + count
  BY DEF Hit
<1> HIDE DEF start, count
<1>2. MaxStall = 0 => total <= 2 * RateLimit
  BY <1>1
<1>3. total <= 3 * RateLimit
  BY <1>1
<1>4. QED
  BY <1>2, <1>3

\* A request is admitted: the new counter accounts for it, and for what came before.
LEMMA AdmittedIsCounted ==
    ASSUME LimiterInv, NEW now \in Times, now <= clock, clock <= now + MaxStall,
           Allowed(hit, now), hit' = AfterAllow(hit, now), UNCHANGED clock,
           admitted' = [admitted EXCEPT ![clock] = @ + 1]
    PROVE  /\ hit' \in Hit /\ admitted' \in [Times -> Nat]
           /\ CounterOK' /\ BurstsAreBounded'
           /\ \A from, to \in Times : AdmittedFrom(from, to)'
<1> USE LimiterConstants
<1>0. /\ clock \in Times /\ clock \in Nat /\ hit \in Hit /\ admitted \in [Times -> Nat]
      /\ hit.windowStart \in Nat /\ hit.count \in Nat /\ now \in Nat
      /\ hit.windowStart <= clock /\ hit.count <= RateLimit
      /\ \A t \in Times : hit = NoHit \/ clock < t => admitted[t] = 0
  BY DEF LimiterInv, LimiterTypeOK, CounterOK, Hit
<1>1. /\ admitted' \in [Times -> Nat]
      /\ \A t \in Times : t # clock => admitted'[t] = admitted[t]
  BY <1>0
<1>2. /\ hit' \in Hit /\ hit' # NoHit
      /\ hit'.windowStart \in Nat /\ hit'.count \in Nat
      /\ hit'.windowStart <= clock /\ 1 <= hit'.count /\ hit'.count <= RateLimit
      /\ \/ /\ hit = NoHit \/ now >= hit.windowStart + RateWindow
            /\ hit'.windowStart = now /\ hit'.count = 1
         \/ hit'.windowStart = hit.windowStart /\ hit'.count = hit.count + 1
  <2>1. CASE WindowOver(hit, now)
    <3>1. hit' = [windowStart |-> now, count |-> 1]
      BY <2>1 DEF AfterAllow, Allowed
    <3>2. hit = NoHit \/ now >= hit.windowStart + RateWindow
      BY <1>0, <2>1 DEF WindowOver
    <3>3. hit' \in Hit /\ hit'.windowStart = now /\ hit'.count = 1 /\ NoHit.count = 0
      BY <1>0, <3>1 DEF Hit, NoHit
    <3>4. QED
      BY <1>0, <3>2, <3>3
  <2>2. CASE ~WindowOver(hit, now)
    <3>1. hit' = [hit EXCEPT !.count = @ + 1] /\ hit.count < RateLimit
      BY <2>2 DEF AfterAllow, Allowed
    <3>2. /\ hit' \in Hit /\ hit'.windowStart = hit.windowStart /\ hit'.count = hit.count + 1
          /\ NoHit.count = 0
      BY <1>0, <3>1 DEF Hit, NoHit
    <3>3. /\ hit'.windowStart \in Nat /\ hit'.count \in Nat /\ 1 <= hit'.count
          /\ hit'.windowStart <= clock /\ hit'.count <= RateLimit
      BY <1>0, <3>1, <3>2
    <3>4. hit' # NoHit
      BY <3>2, <3>3
    <3>5. QED
      BY <3>2, <3>3, <3>4
  <2>3. QED
    BY <2>1, <2>2
<1>3. CounterOK'
  BY <1>0, <1>1, <1>2 DEF CounterOK
<1>4. ASSUME NEW from \in Times, NEW to \in Times
      PROVE  /\ Total(admitted, from .. to) \in Nat /\ Total(admitted', from .. to) \in Nat
             /\ Total(admitted', from .. to) <= Total(admitted, from .. to) + 1
             /\ to < clock \/ clock < from =>
                   Total(admitted', from .. to) = Total(admitted, from .. to)
             /\ hit = NoHit \/ clock < from => Total(admitted, from .. to) = 0
  <2>1. from .. to \subseteq Times /\ \A t \in from .. to : t >= from
    BY DEF Times
  <2>2. hit = NoHit \/ clock < from => \A t \in from .. to : admitted[t] = 0
    BY <1>0, <2>1
  <2> DEFINE U == from .. to
  <2>3. /\ Total(admitted, U) \in Nat
        /\ (\A t \in U : admitted[t] = 0) => Total(admitted, U) = 0
        /\ Total([admitted EXCEPT ![clock] = @ + 1], U) =
              Total(admitted, U) + IF clock \in U THEN 1 ELSE 0
    <3>1. U \subseteq Times
      BY <2>1
    <3> HIDE DEF U
    <3>2. QED
      BY <1>0, <3>1, TotalsOfTimes
  <2>4. to < clock \/ clock < from => clock \notin U
    BY <1>0
  <2>5. Total(admitted', U) = Total(admitted, U) + IF clock \in U THEN 1 ELSE 0
    BY <2>3
  <2>6. hit = NoHit \/ clock < from => Total(admitted, U) = 0
    BY <2>2, <2>3
  <2> HIDE DEF U
  <2>7. /\ Total(admitted, U) \in Nat /\ Total(admitted', U) \in Nat
        /\ Total(admitted', U) <= Total(admitted, U) + 1
        /\ to < clock \/ clock < from => Total(admitted', U) = Total(admitted, U)
    BY <2>3, <2>4, <2>5
  <2>8. QED
    BY <2>6, <2>7 DEF U
<1>5. ASSUME NEW from \in Times, NEW to \in Times
      PROVE  AdmittedFrom(from, to)'
  <2> DEFINE total == Total(admitted, from .. to)
             start == hit.windowStart
             count == hit.count
             start1 == hit'.windowStart
             count1 == hit'.count
             total1 == Total(admitted', from .. to)
  <2>1. /\ total \in Nat /\ total1 \in Nat /\ total1 <= total + 1
        /\ hit = NoHit => total = 0
        /\ clock < from => total1 = 0
    BY <1>4
  <2>2. /\ from > start + MaxStall => total <= count
        /\ from + RateWindow > start + MaxStall => total <= RateLimit + count
        /\ from + RateWindow + RateWindow > start + MaxStall => total <= RateLimit + RateLimit + count
    BY DEF LimiterInv, AdmittedFrom
  <2>3. /\ start \in Nat /\ count \in Nat /\ count <= RateLimit /\ from \in Nat
        /\ start1 \in Nat /\ count1 \in Nat /\ 1 <= count1
        /\ \/ (hit = NoHit \/ now >= start + RateWindow) /\ start1 = now /\ count1 = 1
           \/ start1 = start /\ count1 = count + 1
    BY <1>0, <1>2
  <2> HIDE DEF total, start, count, start1, count1, total1
  <2>4. CASE start1 = start /\ count1 = count + 1
    <3>1. from > start1 + MaxStall => total1 <= count1
      BY <2>1, <2>2, <2>3, <2>4
    <3>2. from + RateWindow > start1 + MaxStall => total1 <= RateLimit + count1
      BY <2>1, <2>2, <2>3, <2>4
    <3>3. from + RateWindow + RateWindow > start1 + MaxStall => total1 <= RateLimit + RateLimit + count1
      BY <2>1, <2>2, <2>3, <2>4
    <3>4. QED
      BY <3>1, <3>2, <3>3 DEF AdmittedFrom, total1, start1, count1
  <2>5. CASE hit = NoHit /\ start1 = now /\ count1 = 1
    <3>1. total1 <= 1
      BY <2>1, <2>5
    <3>2. from > start1 + MaxStall => total1 = 0
      BY <1>0, <2>1, <2>3, <2>5
    <3>3. from > start1 + MaxStall => total1 <= count1
      BY <2>3, <3>2
    <3>4. from + RateWindow > start1 + MaxStall => total1 <= RateLimit + count1
      BY <2>1, <2>3, <3>1
    <3>5. from + RateWindow + RateWindow > start1 + MaxStall => total1 <= RateLimit + RateLimit + count1
      BY <2>1, <2>3, <3>1
    <3>6. QED
      BY <3>3, <3>4, <3>5 DEF AdmittedFrom, total1, start1, count1
  <2>6. CASE now >= start + RateWindow /\ start1 = now /\ count1 = 1
    <3>1. from > start1 + MaxStall => total1 <= count1
      BY <1>0, <2>1, <2>3, <2>6
    <3>2. from + RateWindow > start1 + MaxStall => total1 <= RateLimit + count1
      BY <1>0, <2>1, <2>2, <2>3, <2>6
    <3>3. from + RateWindow + RateWindow > start1 + MaxStall => total1 <= RateLimit + RateLimit + count1
      BY <1>0, <2>1, <2>2, <2>3, <2>6
    <3>4. QED
      BY <3>1, <3>2, <3>3 DEF AdmittedFrom, total1, start1, count1
  <2>7. QED
    BY <2>3, <2>4, <2>5, <2>6
<1>6. BurstsAreBounded'
  <2> DEFINE windows == IF MaxStall = 0 THEN 2 ELSE 3
  <2>1. SUFFICES ASSUME NEW from \in 0 .. (MaxTime + 1 - RateWindow)
                 PROVE  Total(admitted', from .. (from + RateWindow - 1)) <= windows * RateLimit
    BY DEF BurstsAreBounded
  <2> DEFINE to == from + RateWindow - 1
  <2>2. from \in Times /\ to \in Times
    BY DEF Times
  <2>3. CASE clock <= to
    <3> DEFINE total == Total(admitted', from .. to)
    <3>1. total \in Nat
      BY <1>4, <2>2
    <3>2. /\ from + RateWindow > hit'.windowStart + MaxStall => total <= RateLimit + hit'.count
          /\ from + RateWindow + RateWindow > hit'.windowStart + MaxStall
                => total <= RateLimit + RateLimit + hit'.count
      BY <1>5, <2>2 DEF AdmittedFrom
    <3> HIDE DEF total
    <3>3. total <= windows * RateLimit
      BY <1>0, <1>2, <2>2, <2>3, <3>1, <3>2, RecentBursts
    <3>4. QED
      BY <3>3 DEF total
  <2>4. CASE clock > to
    <3>1. Total(admitted', from .. to) = Total(admitted, from .. to)
      BY <1>4, <2>2, <2>4
    <3>2. Total(admitted, from .. to) <= windows * RateLimit
      BY DEF LimiterInv, BurstsAreBounded
    <3>3. QED
      BY <3>1, <3>2
  <2>5. QED
    BY <1>0, <2>2, <2>3, <2>4
<1>7. QED
  BY <1>1, <1>2, <1>3, <1>5, <1>6

\* Every step keeps the inductive invariant.
LEMMA LimiterStep == LimiterInv /\ [LimiterNext]_limiterVars => LimiterInv'
<1> SUFFICES ASSUME LimiterInv, [LimiterNext]_limiterVars
             PROVE  LimiterInv'
  OBVIOUS
<1> USE LimiterConstants
<1>0. /\ clock \in Times /\ hit \in Hit /\ waiting \in [Times -> Nat] /\ admitted \in [Times -> Nat]
      /\ \A t \in Times : waiting[t] > 0 => t <= clock /\ clock <= t + MaxStall
  BY DEF LimiterInv, LimiterTypeOK, WaitersAreRecent
<1>a. ASSUME UNCHANGED <<clock, hit, admitted>>
      PROVE  CounterOK' /\ BurstsAreBounded' /\ \A from, to \in Times : AdmittedFrom(from, to)'
  BY <1>a DEF LimiterInv, CounterOK, BurstsAreBounded, AdmittedFrom
<1>1. CASE ReadClock
  <2>1. waiting' = [waiting EXCEPT ![clock] = @ + 1] /\ UNCHANGED <<clock, hit, admitted>>
    BY <1>1 DEF ReadClock
  <2>2. LimiterTypeOK'
    BY <1>0, <2>1 DEF LimiterTypeOK
  <2>3. WaitersAreRecent'
    BY <1>0, <2>1 DEF WaitersAreRecent
  <2>4. QED
    BY <1>a, <2>1, <2>2, <2>3 DEF LimiterInv
<1>2. ASSUME NEW now \in Times, Allow(now)
      PROVE  LimiterInv'
  <2>1. /\ waiting[now] > 0 /\ waiting' = [waiting EXCEPT ![now] = @ - 1]
        /\ hit' = AfterAllow(hit, now) /\ UNCHANGED clock
        /\ admitted' = IF Allowed(hit, now) THEN [admitted EXCEPT ![clock] = @ + 1] ELSE admitted
    BY <1>2 DEF Allow
  <2>2. now <= clock /\ clock <= now + MaxStall
    BY <1>0, <2>1
  <2>3. waiting' \in [Times -> Nat] /\ \A t \in Times : waiting'[t] > 0 => waiting[t] > 0
    BY <1>0, <2>1
  <2>4. WaitersAreRecent'
    BY <1>0, <2>1, <2>3 DEF WaitersAreRecent
  <2>5. CASE Allowed(hit, now)
    <3>1. /\ hit' \in Hit /\ admitted' \in [Times -> Nat]
          /\ CounterOK' /\ BurstsAreBounded'
          /\ \A from, to \in Times : AdmittedFrom(from, to)'
      BY <2>1, <2>2, <2>5, AdmittedIsCounted
    <3>2. QED
      BY <1>0, <2>1, <2>3, <2>4, <3>1 DEF LimiterInv, LimiterTypeOK
  <2>6. CASE ~Allowed(hit, now)
    <3>1. UNCHANGED <<clock, hit, admitted>>
      BY <2>1, <2>6 DEF AfterAllow, Allowed
    <3>2. QED
      BY <1>0, <1>a, <2>3, <2>4, <3>1 DEF LimiterInv, LimiterTypeOK
  <2>7. QED
    BY <2>5, <2>6
<1>3. CASE LimiterTick
  <2>1. /\ clock < MaxTime /\ clock' = clock + 1 /\ UNCHANGED <<hit, waiting, admitted>>
        /\ \A t \in Times : waiting[t] > 0 => clock - t < MaxStall
    BY <1>3 DEF LimiterTick
  <2>2. clock' \in Times
    BY <1>0, <2>1 DEF Times
  <2>3. LimiterTypeOK'
    BY <1>0, <2>1, <2>2 DEF LimiterTypeOK
  <2>4. WaitersAreRecent'
    BY <1>0, <2>1 DEF WaitersAreRecent
  <2>5. CounterOK'
    BY <1>0, <2>1 DEF LimiterInv, CounterOK, Hit
  <2>6. BurstsAreBounded' /\ \A from, to \in Times : AdmittedFrom(from, to)'
    BY <2>1 DEF LimiterInv, BurstsAreBounded, AdmittedFrom
  <2>7. QED
    BY <2>3, <2>4, <2>5, <2>6 DEF LimiterInv
<1>4. CASE UNCHANGED limiterVars
  <2>1. UNCHANGED <<clock, hit, admitted>> /\ UNCHANGED waiting
    BY <1>4 DEF limiterVars
  <2>2. LimiterTypeOK' /\ WaitersAreRecent'
    BY <2>1 DEF LimiterInv, LimiterTypeOK, WaitersAreRecent
  <2>3. QED
    BY <1>a, <2>1, <2>2 DEF LimiterInv
<1>5. QED
  BY <1>1, <1>2, <1>3, <1>4 DEF LimiterNext

\* Nothing is admitted at first.
LEMMA LimiterInitially == LimiterInit => LimiterInv
<1> SUFFICES ASSUME LimiterInit
             PROVE  LimiterInv
  OBVIOUS
<1> USE LimiterConstants
<1>1. clock = 0 /\ hit = NoHit /\ waiting = NoCalls /\ admitted = NoCalls
  BY DEF LimiterInit
<1>2. 0 \in Times /\ NoHit \in Hit /\ NoCalls \in [Times -> Nat] /\ \A t \in Times : NoCalls[t] = 0
  BY DEF Times, NoHit, Hit, NoCalls
<1>3. LimiterTypeOK /\ WaitersAreRecent
  BY <1>1, <1>2 DEF LimiterTypeOK, WaitersAreRecent
<1>4. CounterOK
  BY <1>1, <1>2 DEF CounterOK, NoHit
<1>5. ASSUME NEW from \in Times, NEW to \in Times
      PROVE  Total(admitted, from .. to) = 0
  <2> DEFINE U == from .. to
  <2>1. U \subseteq Times
    BY DEF Times
  <2> HIDE DEF U
  <2>2. Total(admitted, U) = 0
    BY <1>1, <1>2, <2>1, TotalsOfTimes
  <2>3. QED
    BY <2>2 DEF U
<1>6. \A from, to \in Times : AdmittedFrom(from, to)
  BY <1>1, <1>2, <1>5 DEF AdmittedFrom, Hit
<1>7. BurstsAreBounded
  <2>1. SUFFICES ASSUME NEW from \in 0 .. (MaxTime + 1 - RateWindow)
                 PROVE  Total(admitted, from .. (from + RateWindow - 1))
                           <= (IF MaxStall = 0 THEN 2 ELSE 3) * RateLimit
    BY DEF BurstsAreBounded
  <2>2. from \in Times /\ from + RateWindow - 1 \in Times
    BY DEF Times
  <2>3. Total(admitted, from .. (from + RateWindow - 1)) = 0
    BY <1>5, <2>2
  <2>4. 0 <= 2 * RateLimit /\ 0 <= 3 * RateLimit
    OBVIOUS
  <2>5. QED
    BY <2>3, <2>4
<1>8. QED
  BY <1>3, <1>4, <1>6, <1>7 DEF LimiterInv

\* However callers of Allow overtake each other, the invariant holds.
THEOREM LimiterInvariant == LimiterSpec => []LimiterInv
<1>1. QED
  BY LimiterInitially, LimiterStep, PTL DEF LimiterSpec

\* No stretch of a window's length sees more than two windows' worth of admitted
\* requests, or three if callers stall, for every limit, window and stall and any
\* number of callers (fixedWindowLimiter.Allow).
THEOREM BurstsBounded == LimiterSpec => []BurstsAreBounded
<1>1. LimiterInv => BurstsAreBounded
  BY DEF LimiterInv
<1>2. QED
  BY <1>1, LimiterInvariant, PTL

==============================================================================
