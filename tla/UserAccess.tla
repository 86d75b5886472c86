----------------------------- MODULE UserAccess -----------------------------
(***************************************************************************)
(* What a user may bind to a project: handleBindRepo, handleUnbindRepo and  *)
(* ensureUserRepoAccess (web/handler/server.go) for one user who manages    *)
(* one project.  Requests of others end before they read or write anything  *)
(* modelled here.                                                           *)
(*                                                                         *)
(* The repositories the user can reach on GitHub are copied to table        *)
(* user_repo_access.  The copy is used as it is for AccessCacheTTL; after   *)
(* that a request copies again, under a lock of the user, and if that fails *)
(* the old copy does until AccessMaxStaleness.  The copy is made with the   *)
(* user's access token; an expiring one is renewed with the refresh token,  *)
(* which GitHub replaces each time.                                         *)
(*                                                                         *)
(* Right before some definitions stands a faulty variant of them, used only *)
(* to show that the properties notice the fault.                            *)
(***************************************************************************)
EXTENDS Naturals, FiniteSets

CONSTANTS UserRepos,           \* repositories of GitHub
          NoRepo,              \* no repository is being bound
          Requests,            \* goroutines serving the user's requests
          NoRequest,           \* nobody holds the lock
          AccessCacheTTL,      \* five minutes
          AccessMaxStaleness,  \* a day
          RequestTimeout,      \* http.TimeoutHandler, thirty seconds
          MaxClock,            \* bound on the clock
          MaxTokens            \* bound on the number of refresh tokens GitHub issues

ASSUME AccessAssumption ==
    /\ IsFiniteSet(UserRepos) /\ IsFiniteSet(Requests)
    /\ NoRepo \notin UserRepos /\ NoRequest \notin Requests
    /\ AccessCacheTTL \in Nat /\ AccessMaxStaleness \in Nat /\ RequestTimeout \in Nat
    /\ AccessCacheTTL <= AccessMaxStaleness
    /\ MaxClock \in Nat \ {0} /\ MaxTokens \in Nat \ {0}

VARIABLES clock,    \* the clock
          granted,  \* repositories the user can reach on GitHub
          revoked,  \* history: when a repository not granted was taken away
          usable,   \* refresh tokens GitHub accepts
          issued,   \* how many refresh tokens GitHub has issued
          tokenRow, \* table user_github_tokens: the refresh token, and whether the
                    \* access token is about to expire
          access,   \* table user_repo_access
          asOf,     \* history: when GitHub gave the answer that access holds
          synced,   \* user_access_syncs.synced_at, Never before the first
          lock,     \* the request holding the user's lock
          request,  \* the request each goroutine is in
          bound,    \* table project_repos
          lost      \* history: GitHub replaced a refresh token that was not stored

github == <<granted, revoked, usable, issued>>
tables == <<tokenRow, access, asOf, synced, bound>>
accessVars == <<clock, github, tables, lock, request, lost>>

-----------------------------------------------------------------------------
Never == 0
IdleRequest == [phase |-> "idle", repo |-> NoRepo, start |-> 0, now |-> 0, synced |-> Never,
         token |-> 0, listing |-> {}, listed |-> 0, stale |-> FALSE]

SetRequest(q, next) == request' = [request EXCEPT ![q] = next]
To(q, phase) == SetRequest(q, [request[q] EXCEPT !.phase = phase])
\* syncUserRepoAccess goes on without its earlier locals.
Forget(q, phase) == SetRequest(q, [request[q] EXCEPT !.phase = phase, !.token = 0,
                                               !.listing = {}, !.listed = 0])

AccessInit ==
    /\ clock = 1
    /\ granted \in SUBSET UserRepos
    /\ revoked = [r \in UserRepos |-> 0]
    /\ usable = {1} /\ issued = 1
    /\ tokenRow = [token |-> 1, expiring |-> FALSE]
    /\ access = {} /\ asOf = 0 /\ synced = Never /\ bound = {}
    /\ lock = NoRequest
    /\ request = [q \in Requests |-> IdleRequest]
    /\ lost = FALSE

\* The rest of a request once ensureUserRepoAccess has returned without error:
\* the connect page only lists, handleBindRepo goes on.  Up to here requests take
\* the same steps, so which it is, and for which repository, is settled here.
Ensured(q, stale) ==
    \/ SetRequest(q, IdleRequest)
    \/ \E r \in UserRepos :
          SetRequest(q, [IdleRequest EXCEPT !.phase = "canbind", !.repo = r,
                                            !.start = request[q].start, !.stale = stale])
Unlock == lock' = NoRequest

-----------------------------------------------------------------------------
(* ensureUserRepoAccess.                                                   *)

\* handleBindRepo or handleConnectReposPage begins.
StartRequest(q) ==
    /\ request[q].phase = "idle"
    /\ SetRequest(q, [IdleRequest EXCEPT !.phase = "check", !.start = clock])
    /\ UNCHANGED <<clock, github, tables, lock, lost>>

Fresh == synced # Never /\ clock <= synced + AccessCacheTTL

CheckCache(q) ==
    /\ request[q].phase = "check"
    /\ IF Fresh THEN Ensured(q, FALSE) ELSE To(q, "lock")
    /\ UNCHANGED <<clock, github, tables, lock, lost>>

SkipLock(q) ==
    /\ request[q].phase = "lock"
    /\ lock' = q
    /\ To(q, "recheck")
    /\ UNCHANGED <<clock, github, tables, lost>>
Lock(q) ==
    /\ request[q].phase = "lock"
    /\ lock = NoRequest
    /\ lock' = q
    /\ To(q, "recheck")
    /\ UNCHANGED <<clock, github, tables, lost>>

\* Somebody else may have synced while this request waited for the lock.
RecheckCache(q) ==
    /\ request[q].phase = "recheck"
    /\ IF Fresh
       THEN Ensured(q, FALSE) /\ Unlock
       ELSE /\ SetRequest(q, [request[q] EXCEPT !.phase = "tokens", !.now = clock, !.synced = synced])
            /\ UNCHANGED lock
    /\ UNCHANGED <<clock, github, tables, lost>>

-----------------------------------------------------------------------------
(* syncUserRepoAccess.                                                     *)

ReadTokens(q) ==
    /\ request[q].phase = "tokens"
    /\ SetRequest(q, [request[q] EXCEPT !.phase = IF tokenRow.expiring THEN "refresh" ELSE "list",
                                  !.token = IF tokenRow.expiring THEN tokenRow.token ELSE 0])
    /\ UNCHANGED <<clock, github, tables, lock, lost>>

\* RefreshUserToken: GitHub replaces a refresh token it accepts, and the answer
\* may not arrive; or it answers with an access token only, and the refresh
\* token is kept.
Refresh(q, kept) ==
    LET new == issued + 1
    IN /\ request[q].phase = "refresh"
       /\ \/ /\ request[q].token \in usable
             /\ issued < MaxTokens
             /\ issued' = new
             /\ usable' = (usable \ {request[q].token}) \union {new}
             /\ \/ /\ SetRequest(q, [request[q] EXCEPT !.phase = "save", !.token = new])
                   /\ UNCHANGED lost
                \/ Forget(q, "failed") /\ lost' = TRUE
          \/ /\ request[q].token \in usable
             /\ SetRequest(q, [request[q] EXCEPT !.phase = "save", !.token = kept])
             /\ UNCHANGED <<issued, usable, lost>>
          \/ /\ request[q].token \notin usable
             /\ Forget(q, "failed")
             /\ UNCHANGED <<issued, usable, lost>>
       /\ UNCHANGED <<clock, granted, revoked, tables, lock>>
RefreshUserToken(q) == Refresh(q, request[q].token)

\* UpsertUserGitHubTokens, which may fail.
SaveAccessTokenOnly(q) ==
    /\ request[q].phase = "save"
    /\ tokenRow' = [tokenRow EXCEPT !.expiring = FALSE]
    /\ To(q, "list")
    /\ UNCHANGED <<clock, github, access, asOf, synced, bound, lock, lost>>
SaveTokens(q) ==
    /\ request[q].phase = "save"
    /\ \/ /\ tokenRow' = [token |-> request[q].token, expiring |-> FALSE]
          /\ Forget(q, "list")
          /\ UNCHANGED lost
       \/ Forget(q, "failed") /\ lost' = TRUE /\ UNCHANGED tokenRow
    /\ UNCHANGED <<clock, github, access, asOf, synced, bound, lock>>

\* ListUserInstallations and ListUserInstallationRepositories.
ListRepositories(q) ==
    /\ request[q].phase = "list"
    /\ SetRequest(q, [request[q] EXCEPT !.phase = "replace", !.listing = granted, !.listed = clock])
    /\ UNCHANGED <<clock, github, tables, lock, lost>>

\* ReplaceUserRepoAccess: one transaction.
ReplaceUserRepoAccess(q) ==
    /\ request[q].phase = "replace"
    /\ access' = request[q].listing
    /\ asOf' = request[q].listed
    /\ Forget(q, "stamp")
    /\ UNCHANGED <<clock, github, tokenRow, synced, bound, lock, lost>>

\* A call to GitHub or Postgres fails.
SyncFails(q) ==
    /\ request[q].phase \in {"tokens", "refresh", "list", "replace"}
    /\ Forget(q, "failed")
    /\ UNCHANGED <<clock, github, tables, lock, lost>>

\* UpsertUserAccessSync after a sync; if it fails the request ends.
StampSync(q) ==
    /\ request[q].phase = "stamp"
    /\ \/ synced' = clock /\ Ensured(q, FALSE)
       \/ UNCHANGED synced /\ SetRequest(q, IdleRequest)
    /\ Unlock
    /\ UNCHANGED <<clock, github, tokenRow, access, asOf, bound, lost>>

\* UpsertUserAccessSync after a failed sync writes back the synced_at it read,
\* unless that fails too, which is ignored.  An old copy may still do.
FallBackRestamping(q) ==
    LET s == request[q].synced
    IN /\ request[q].phase = "failed"
       /\ synced' = IF s = Never THEN s ELSE request[q].now
       /\ IF s # Never /\ request[q].now <= s + AccessMaxStaleness
          THEN Ensured(q, TRUE) ELSE SetRequest(q, IdleRequest)
       /\ Unlock
       /\ UNCHANGED <<clock, github, tokenRow, access, asOf, bound, lost>>
FallBack(q) ==
    LET s == request[q].synced
    IN /\ request[q].phase = "failed"
       /\ synced' \in {s, synced}
       /\ IF s # Never /\ request[q].now <= s + AccessMaxStaleness
          THEN Ensured(q, TRUE) ELSE SetRequest(q, IdleRequest)
       /\ Unlock
       /\ UNCHANGED <<clock, github, tokenRow, access, asOf, bound, lost>>

-----------------------------------------------------------------------------
(* The rest of handleBindRepo, and the other ways tables change.           *)

UserCanAccessRepoForBinding(q) ==
    /\ request[q].phase = "canbind"
    /\ IF request[q].repo \in access THEN To(q, "bind") ELSE SetRequest(q, IdleRequest)
    /\ UNCHANGED <<clock, github, tables, lock, lost>>

BindRepoToProject(q) ==
    /\ request[q].phase = "bind"
    /\ bound' = bound \union {request[q].repo}
    /\ SetRequest(q, IdleRequest)
    /\ UNCHANGED <<clock, github, tokenRow, access, asOf, synced, lock, lost>>

\* handleUnbindRepo
UnbindRepoFromProject(r) ==
    /\ r \in bound
    /\ bound' = bound \ {r}
    /\ UNCHANGED <<clock, github, tokenRow, access, asOf, synced, lock, request, lost>>

\* The request is cut off, or the process ends; deferred calls still unlock.
Cancel(q) ==
    /\ request[q].phase # "idle"
    /\ SetRequest(q, IdleRequest)
    /\ lock' = IF lock = q THEN NoRequest ELSE lock
    /\ lost' = (lost \/ request[q].phase = "save")
    /\ UNCHANGED <<clock, github, tables>>

\* handleGitHubCallback stores the tokens of a new grant, without the lock.
Login ==
    /\ issued < MaxTokens
    /\ issued' = issued + 1
    /\ usable' = usable \union {issued'}
    /\ tokenRow' = [token |-> issued', expiring |-> FALSE]
    /\ lost' = FALSE
    /\ UNCHANGED <<clock, granted, revoked, access, asOf, synced, bound, lock, request>>

AccessTokenExpires ==
    /\ ~tokenRow.expiring
    /\ tokenRow' = [tokenRow EXCEPT !.expiring = TRUE]
    /\ UNCHANGED <<clock, github, access, asOf, synced, bound, lock, request, lost>>

\* On GitHub the user gains or loses a repository.
GrantChanges(r) ==
    /\ granted' = IF r \in granted THEN granted \ {r} ELSE granted \union {r}
    /\ revoked' = IF r \in granted THEN [revoked EXCEPT ![r] = clock] ELSE [revoked EXCEPT ![r] = 0]
    /\ UNCHANGED <<clock, usable, issued, tables, lock, request, lost>>

\* No request outlasts the server's time-out.
ClockTicks ==
    /\ clock < MaxClock
    /\ \A q \in Requests :
          request[q].phase # "idle" => clock < request[q].start + RequestTimeout
    /\ clock' = clock + 1
    /\ UNCHANGED <<github, tables, lock, request, lost>>

RequestStep(q) ==
    \/ CheckCache(q) \/ Lock(q) \/ RecheckCache(q) \/ ReadTokens(q) \/ RefreshUserToken(q)
    \/ SaveTokens(q) \/ ListRepositories(q) \/ ReplaceUserRepoAccess(q) \/ SyncFails(q)
    \/ StampSync(q) \/ FallBack(q) \/ UserCanAccessRepoForBinding(q) \/ BindRepoToProject(q)

AccessNext ==
    \/ \E q \in Requests : StartRequest(q) \/ RequestStep(q) \/ Cancel(q)
    \/ \E r \in UserRepos : UnbindRepoFromProject(r) \/ GrantChanges(r)
    \/ Login
    \/ AccessTokenExpires
    \/ ClockTicks

AccessSpec == AccessInit /\ [][AccessNext]_accessVars

-----------------------------------------------------------------------------
\* When a repository is about to be bound, the user could reach it on GitHub not
\* longer ago than the cache's time to live, or the maximal staleness if the
\* request's own sync failed, and the length of two requests: the one that made
\* the copy and the one that binds (handleBindRepo).
BindingsRestOnRecentAccess ==
    \A q \in Requests : request[q].phase = "bind" =>
       LET age == IF request[q].stale THEN AccessMaxStaleness ELSE AccessCacheTTL
           r == request[q].repo
       IN r \in granted \/ clock <= revoked[r] + age + 2 * RequestTimeout

\* The copy is never replaced by an older answer of GitHub: of two requests that
\* sync, the second asks GitHub after the first has written (userSyncLock).
CopiesNeverGoBack == [][asOf' >= asOf]_accessVars

\* The stored refresh token is one GitHub accepts, or its successor is in the
\* hands of a request about to store it; unless an answer or a write was lost,
\* from which only a new login recovers (syncUserRepoAccess).
StoredRefreshTokenIsUsable ==
    \/ tokenRow.token \in usable
    \/ lost
    \/ \E q \in Requests : request[q].phase = "save" /\ request[q].token \in usable
=============================================================================
