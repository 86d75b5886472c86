------------------------------- MODULE Login -------------------------------
(***************************************************************************)
(* Logging in with GitHub and the sessions that follow: handleGitHubLogin,  *)
(* handleGitHubCallback, handleLogout and loadCurrentUser of                *)
(* server/web/handler/server.go, the cookies of internal/auth/session.go    *)
(* and the tables behind them (UpsertUserFromGitHub, UpsertUserGitHubTokens, *)
(* CreateSession, DeleteSession and GetUserBySessionToken of                *)
(* internal/postgres/store.go).                                             *)
(*                                                                         *)
(* A request reads the browser's cookies when it is sent and changes them   *)
(* when its answer arrives; between the two other requests of the same      *)
(* browser run, and requests of other browsers that log in to the same      *)
(* account for the first time.  A callback address may be opened again, or  *)
(* in another browser.  Every step on the database or on GitHub may fail.   *)
(*                                                                         *)
(* Right before some definitions stands a faulty variant of them, used only *)
(* to show that the properties notice the fault.                            *)
(***************************************************************************)
EXTENDS Naturals, FiniteSets, Functions

CONSTANTS Browsers, Accounts,   \* people's browsers, accounts at GitHub
          States,               \* values of auth.NewToken used as OAuth state
          Tokens,               \* values of auth.NewToken used as session token
          Requests,             \* bound: requests under way at once
          MaxUsers,             \* bound: rows inserted into users
          MaxFaults,            \* bound: failed steps
          None                  \* no state, no session, no account

ASSUME LoginAssumption ==
    /\ {MaxUsers, MaxFaults} \subseteq Nat
    /\ None \notin Browsers \cup Accounts \cup States \cup Tokens

VARIABLES cookie,      \* each browser's oauth_state and session cookies
          flow,        \* each OAuth state: its browser, and its code's account
          request,     \* the requests under way
          identity,    \* user_identities: the user of each account, 0 if none
          users,       \* users
          lastUser,    \* the sequence behind users.id, never rolled back
          withTokens,  \* users that have a row in user_github_tokens
          session,     \* sessions: the user of each token, and whether it is live
          authorised,  \* ghost: the accounts authorised from each browser
          faults

loginVars == <<cookie, flow, request, identity, users, lastUser, withTokens,
               session, authorised, faults>>
database == <<identity, users, lastUser, withTokens, session>>

Free == [phase |-> "free", browser |-> None, state |-> None, user |-> 0, token |-> None]
Unused == [browser |-> None, account |-> None, redeemed |-> FALSE]

LoginInit ==
    /\ cookie = [b \in Browsers |-> [state |-> None, session |-> None]]
    /\ flow = [s \in States |-> Unused]
    /\ request = [r \in Requests |-> Free]
    /\ identity = [a \in Accounts |-> 0]
    /\ users = {} /\ lastUser = 0 /\ withTokens = {}
    /\ session = [t \in Tokens |-> [user |-> 0, live |-> FALSE]]
    /\ authorised = [b \in Browsers |-> {}]
    /\ faults = 0

AccountOf(r) == flow[request[r].state].account
Goto(r, phase) == request' = [request EXCEPT ![r].phase = phase]
At(r, phase) == request[r].phase = phase
-----------------------------------------------------------------------------
\* handleGitHubLogin: a fresh state, set as a cookie and sent along to GitHub.
HandleGitHubLogin(b, s) ==
    /\ flow[s] = Unused
    /\ flow' = [flow EXCEPT ![s].browser = b]
    /\ cookie' = [cookie EXCEPT ![b].state = s]
    /\ UNCHANGED <<request, authorised, faults, database>>

\* GitHub: the person at that browser authorises the app as account a, and is
\* sent back with a code.
Authorise(s, a) ==
    /\ flow[s].browser # None /\ flow[s].account = None
    /\ flow' = [flow EXCEPT ![s].account = a]
    /\ authorised' = [authorised EXCEPT ![flow[s].browser] = @ \cup {a}]
    /\ UNCHANGED <<cookie, request, faults, database>>

\* Faulty: any state the server has issued is good enough.
StateIssued(b, s) == flow[s].browser # None

\* "!ok || cookieState != state"
StateMatches(b, s) == cookie[b].state = s

\* handleGitHubCallback, up to the exchange.  The address with state s and its
\* code is opened in browser b, usually but not always the one that asked.
HandleGitHubCallback(r, b, s) ==
    /\ At(r, "free")
    /\ flow[s].account # None
    /\ request' = [request EXCEPT ![r] =
           [Free EXCEPT !.phase = IF StateMatches(b, s) THEN "exchange" ELSE "refuse",
                        !.browser = b, !.state = s]]
    /\ UNCHANGED <<cookie, flow, authorised, faults, database>>

\* ExchangeUserCode and GitHubUser.  GitHub accepts a code once.
ExchangeUserCode(r) ==
    /\ At(r, "exchange")
    /\ flow' = [flow EXCEPT ![request[r].state].redeemed = TRUE]
    /\ Goto(r, IF flow[request[r].state].redeemed THEN "refuse" ELSE "lookup")
    /\ UNCHANGED <<cookie, authorised, faults, database>>

\* Faulty: the new user's row is committed before its identity is inserted.
LookupAndCommitUser(r) ==
    LET known == identity[AccountOf(r)]
    IN /\ At(r, "lookup")
       /\ known # 0 \/ lastUser < MaxUsers
       /\ lastUser' = IF known # 0 THEN lastUser ELSE lastUser + 1
       /\ users' = users \cup {IF known # 0 THEN known ELSE lastUser + 1}
       /\ request' = [request EXCEPT
              ![r].user = IF known # 0 THEN known ELSE lastUser + 1,
              ![r].phase = IF known # 0 THEN "profile" ELSE "identity"]
       /\ UNCHANGED <<cookie, flow, identity, withTokens, session, authorised, faults>>

\* UpsertUserFromGitHub, in a transaction: the identity's user, or the id of the
\* row inserted into users, which nobody else sees before the commit.
LookupIdentity(r) ==
    LET known == identity[AccountOf(r)]
    IN /\ At(r, "lookup")
       /\ known # 0 \/ lastUser < MaxUsers
       /\ lastUser' = IF known # 0 THEN lastUser ELSE lastUser + 1
       /\ request' = [request EXCEPT
              ![r].user = IF known # 0 THEN known ELSE lastUser + 1,
              ![r].phase = IF known # 0 THEN "profile" ELSE "identity"]
       /\ UNCHANGED <<cookie, flow, identity, users, withTokens, session, authorised, faults>>

\* Another transaction has inserted this account's identity and not ended.
IdentityLocked(r) ==
    \E q \in Requests \ {r} : At(q, "inserted") /\ AccountOf(q) = AccountOf(r)

\* INSERT INTO user_identities: waits for a transaction that holds the key, and
\* fails, with everything this one did, if the key is there.
InsertIdentity(r) ==
    /\ At(r, "identity")
    /\ ~IdentityLocked(r)
    /\ Goto(r, IF identity[AccountOf(r)] = 0 THEN "inserted" ELSE "refuse")
    /\ UNCHANGED <<cookie, flow, authorised, faults, database>>

\* The profile is updated in either case; commit.
CommitUser(r) ==
    /\ At(r, "inserted") \/ At(r, "profile")
    /\ identity' = [identity EXCEPT ![AccountOf(r)] = request[r].user]
    /\ users' = users \cup {request[r].user}
    /\ Goto(r, "save")
    /\ UNCHANGED <<cookie, flow, lastUser, withTokens, session, authorised, faults>>

\* UpsertUserGitHubTokens, with the tokens encrypted.
UpsertUserGitHubTokens(r) ==
    /\ At(r, "save")
    /\ withTokens' = withTokens \cup {request[r].user}
    /\ Goto(r, "session")
    /\ UNCHANGED <<cookie, flow, identity, users, lastUser, session, authorised, faults>>

\* CreateSession with a new token.
CreateSession(r, t) ==
    /\ At(r, "session")
    /\ session[t].user = 0
    /\ session' = [session EXCEPT ![t] = [user |-> request[r].user, live |-> TRUE]]
    /\ request' = [request EXCEPT ![r].token = t, ![r].phase = "answer"]
    /\ UNCHANGED <<cookie, flow, identity, users, lastUser, withTokens, authorised, faults>>

\* A step fails: the handler answers with an error, a transaction rolls back.
StepFails(r) ==
    /\ faults < MaxFaults
    /\ request[r].phase \in {"exchange", "lookup", "identity", "inserted", "profile",
                             "save", "session"}
    /\ faults' = faults + 1
    /\ Goto(r, "refuse")
    /\ UNCHANGED <<cookie, flow, authorised, database>>

\* The answer of the callback arrives: the state cookie goes in every case, and
\* a successful login sets the session cookie.
AnswerCallback(r) ==
    LET b == request[r].browser
    IN /\ At(r, "refuse") \/ At(r, "answer")
       /\ cookie' = [cookie EXCEPT ![b].state = None,
              ![b].session = IF At(r, "answer") THEN request[r].token ELSE @]
       /\ request' = [request EXCEPT ![r] = Free]
       /\ UNCHANGED <<flow, authorised, faults, database>>
-----------------------------------------------------------------------------
\* GetUserBySessionToken: the user of a session that has not expired.
UserBySessionToken(t) == IF t # None /\ session[t].live THEN session[t].user ELSE 0

\* loadCurrentUser: a request whose session cookie names no live session is
\* served to nobody in particular and its answer clears the cookie.  (One with a
\* live session, or none, changes nothing here.)
LoadCurrentUser(r, b) ==
    /\ At(r, "free")
    /\ cookie[b].session # None
    /\ UserBySessionToken(cookie[b].session) = 0
    /\ request' = [request EXCEPT ![r] = [Free EXCEPT !.phase = "clear", !.browser = b]]
    /\ UNCHANGED <<cookie, flow, authorised, faults, database>>

\* handleLogout: the row is deleted, or the failure logged; the answer clears
\* the cookie either way.
HandleLogout(r, b) ==
    /\ At(r, "free")
    /\ request' = [request EXCEPT ![r] = [Free EXCEPT !.phase = "clear", !.browser = b]]
    /\ \/ /\ faults < MaxFaults /\ faults' = faults + 1
          /\ UNCHANGED session
       \/ /\ session' = [t \in Tokens |->
                 IF t = cookie[b].session THEN [session[t] EXCEPT !.live = FALSE] ELSE session[t]]
          /\ UNCHANGED faults
    /\ UNCHANGED <<cookie, flow, authorised, identity, users, lastUser, withTokens>>

\* ClearSessionCookie takes effect, on whatever session the cookie names by now.
AnswerClear(r) ==
    /\ At(r, "clear")
    /\ cookie' = [cookie EXCEPT ![request[r].browser].session = None]
    /\ request' = [request EXCEPT ![r] = Free]
    /\ UNCHANGED <<flow, authorised, faults, database>>

\* The answer does not arrive: TimeoutHandler has answered in its place, or the
\* browser is gone.  What the handler stored stays.
AnswerLost(r) ==
    /\ request[r].phase \in {"refuse", "answer", "clear"}
    /\ faults < MaxFaults
    /\ faults' = faults + 1
    /\ request' = [request EXCEPT ![r] = Free]
    /\ UNCHANGED <<cookie, flow, authorised, database>>

\* expires_at passes.
SessionExpires(t) ==
    /\ session[t].live
    /\ session' = [session EXCEPT ![t].live = FALSE]
    /\ UNCHANGED <<cookie, flow, request, authorised, faults, identity, users, lastUser, withTokens>>

\* The ten minutes of the state cookie pass.
StateExpires(b) ==
    /\ cookie[b].state # None
    /\ cookie' = [cookie EXCEPT ![b].state = None]
    /\ UNCHANGED <<flow, request, authorised, faults, database>>

CallbackStep(r) ==
    \/ ExchangeUserCode(r) \/ LookupIdentity(r) \/ InsertIdentity(r) \/ CommitUser(r)
    \/ UpsertUserGitHubTokens(r) \/ (\E t \in Tokens : CreateSession(r, t))
    \/ StepFails(r) \/ AnswerCallback(r)

LoginNext ==
    \/ \E b \in Browsers, s \in States : HandleGitHubLogin(b, s)
    \/ \E s \in States, a \in Accounts : Authorise(s, a)
    \/ \E r \in Requests :
         \/ \E b \in Browsers, s \in States : HandleGitHubCallback(r, b, s)
         \/ \E b \in Browsers : LoadCurrentUser(r, b) \/ HandleLogout(r, b)
         \/ CallbackStep(r)
         \/ AnswerClear(r) \/ AnswerLost(r)
    \/ \E t \in Tokens : SessionExpires(t)
    \/ \E b \in Browsers : StateExpires(b)

LoginSpec == LoginInit /\ [][LoginNext]_loginVars
-----------------------------------------------------------------------------
(* Properties *)

\* First logins of one account that race never leave it two users, nor a user
\* that belongs to no account.
UsersAreAccounts ==
    /\ users = Range(identity) \ {0}
    /\ \A a, c \in Accounts : identity[a] = identity[c] /\ identity[a] # 0 => a = c

\* Whoever's answers overtake whose, a browser's session is always that of an
\* account authorised from this very browser.
LoggedInAsYourself ==
    \A b \in Browsers : cookie[b].session # None =>
        \E a \in authorised[b] : identity[a] = session[cookie[b].session].user

=============================================================================
