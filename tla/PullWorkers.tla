----------------------------- MODULE PullWorkers -----------------------------
(***************************************************************************)
(* The pull workers of the control-plane (server/internal/workers/pull.go): *)
(* one goroutine that, pass after pass, copies the GitHub App's             *)
(* installations and the repositories' visibility into Postgres, revokes    *)
(* project bindings of repositories no installation covers and deletes the  *)
(* runs of private repositories that stayed uncovered for the retention     *)
(* window.  Its statements interleave with what changes under it: GitHub    *)
(* itself, uploads (RunIngest) and users binding repositories.              *)
(*                                                                         *)
(* The pass stops at the first error; AbortPass stands for every error and   *)
(* for a restart of the process.  Only this goroutine writes the tables      *)
(* installations, installation_repos and repo_coverage, so a statement on    *)
(* those is merged with the read of them before it; reads of GitHub and the  *)
(* writes that use them are separate steps.  Time is kept as the age of       *)
(* uncovered_since, which only the comparison with the retention window uses. *)
(*                                                                         *)
(* GitHub's lists come in pages counted from the front of a list that may    *)
(* change between two pages: an entry taken out of the part already returned *)
(* moves the rest up, so that one of them is skipped, and one put there moves *)
(* the rest down, so that one is returned twice (GithubListing counts the     *)
(* positions).  Here a list under way is the set of the entries still ahead  *)
(* of the next page; pages may end anywhere and the order is any.             *)
(*                                                                         *)
(* Right before some definitions stands a faulty variant of them, used only *)
(* to show that the properties notice the fault.                            *)
(***************************************************************************)
EXTENDS Naturals, FiniteSets

CONSTANTS Repos,       \* repository ids
          Installs,    \* installation ids of the GitHub App
          Retention,   \* RetentionWindow, in ticks
          MaxAborts,   \* bound on failing passes and restarts
          Null         \* SQL NULL, and the absence of a row

ASSUME PullAssumption ==
    /\ IsFiniteSet(Repos) /\ IsFiniteSet(Installs) /\ Installs \subseteq Nat
    /\ Retention \in Nat /\ MaxAborts \in Nat
    /\ Null \notin Nat \union {"public", "private"}

VARIABLES
    \* GitHub
    installed,   \* the installations that exist, with the repositories granted
    ghVis,       \* the visibility of each repository
    \* Postgres
    active,      \* rows of installations with deleted_at IS NULL
    instRepos,   \* table installation_repos
    repoVis,     \* repos.visibility, or Null
    coverage,    \* table repo_coverage, or Null
    bound,       \* repositories with an unrevoked row in project_repos
    access,      \* table user_repo_access, for one user
    runs,        \* repositories that have runs
    \* uploads in progress
    minted,      \* <<repository, visibility claim>> of live upload tokens
    uploading,   \* repositories with a POST /runs past its UpsertRepo
    \* the pull goroutine
    worker,      \* where it is in RunAll, and its local variables
    aborts,      \* failed passes so far
    \* history
    steady,      \* repositories GitHub covered, and whose lists lost no entry
                 \* while they were read, all through the current pass
    lastSeen     \* ticks since a coverage check last found the repository covered

github == <<installed, ghVis>>
syncTables == <<active, instRepos, coverage>>
userTables == <<bound, access>>
uploads == <<minted, uploading>>
history == <<steady, lastSeen>>
pullVars == <<github, syncTables, userTables, uploads, repoVis, runs, worker, aborts, history>>

-----------------------------------------------------------------------------
(* State *)

Visibility == {"public", "private"}

\* at:    the part of RunAll the goroutine executes next
\* ids:   installations still to be returned ("installs"), then still to pull
\* keep:  installations returned so far, keepIDs of runCoverageSync
\* again: installations returned twice and still to be pulled twice
\* todo:  repositories still to be returned ("list"), or to handle in the loop
\* seen:  what GitHub said about repositories, to be written next
\* twice: repositories returned twice
Idle == [at |-> "idle", ids |-> {}, keep |-> {}, again |-> {}, inst |-> Null,
         todo |-> {}, seen |-> {}, twice |-> {}]

\* What GitHub grants the app at this moment.
Granted(i) == {r \in Repos : <<i, r>> \in installed}
Covered(r) == \E i \in Installs : r \in Granted(i)
InstalledIds == {i \in Installs : Granted(i) # {}}

\* GetAnyInstallationIDForRepo: the lowest installation id that is not deleted.
InstallationsForRepo(r) == {i \in active : <<i, r>> \in instRepos}
AnyInstallation(r) ==
    IF InstallationsForRepo(r) = {} THEN Null
    ELSE CHOOSE i \in InstallationsForRepo(r) : \A j \in InstallationsForRepo(r) : i <= j

PullInit ==
    /\ installed \in {g \in SUBSET (Installs \X Repos) :
                       \A a, b \in g : a[2] = b[2] => a = b}
    /\ ghVis \in [Repos -> Visibility]
    /\ active = {} /\ instRepos = {}
    /\ repoVis = [r \in Repos |-> Null]
    /\ coverage = [r \in Repos |-> Null]
    /\ bound = {} /\ access = {} /\ runs = {} /\ minted = {} /\ uploading = {}
    /\ worker = Idle /\ aborts = 0
    /\ steady = {} /\ lastSeen = [r \in Repos |-> Retention + 1]

-----------------------------------------------------------------------------
(* GitHub, outside the server *)

\* What is ahead of the next page once x is taken out of the list: an x ahead
\* of it is gone, an x before it lets the first of the entries ahead slip by.
Slipped(ahead, x) ==
    IF x \in ahead \/ ahead = {} THEN {ahead \ {x}} ELSE {ahead \ {y} : y \in ahead}

\* What is ahead once x is put into list: x itself, or the last of the entries
\* before the next page, which x pushed out.
Pushed(ahead, list, x) == {ahead \union {y} : y \in (list \ ahead) \union {x}}

ListsInstallations == worker.at = "installs"
ListsReposOf(i) == worker.at = "list" /\ i = worker.inst

\* An owner grants the app a repository, which may install the app.  A
\* repository is granted by at most one installation.
Grant(i, r) ==
    /\ ~Covered(r)
    /\ installed' = installed \union {<<i, r>>}
    /\ \/ /\ ListsInstallations /\ Granted(i) = {}
          /\ \E ahead \in Pushed(worker.ids, InstalledIds, i) :
                worker' = [worker EXCEPT !.ids = ahead]
       \/ /\ ListsReposOf(i)
          /\ \E ahead \in Pushed(worker.todo, Granted(i), r) :
                worker' = [worker EXCEPT !.todo = ahead]
       \/ /\ ~(ListsInstallations /\ Granted(i) = {}) /\ ~ListsReposOf(i)
          /\ UNCHANGED worker
    /\ UNCHANGED <<ghVis, syncTables, userTables, uploads, repoVis, runs, aborts, history>>

\* The owner takes it away; with the last one the installation goes.
Withdraw(i, r) ==
    /\ <<i, r>> \in installed
    /\ installed' = installed \ {<<i, r>>}
    /\ \/ /\ ListsInstallations /\ Granted(i) = {r}
          /\ \E ahead \in Slipped(worker.ids, i) : worker' = [worker EXCEPT !.ids = ahead]
          /\ steady' = {}
       \/ /\ ListsReposOf(i)
          /\ \E ahead \in Slipped(worker.todo, r) : worker' = [worker EXCEPT !.todo = ahead]
          /\ steady' = steady \ Granted(i)
       \/ /\ ~(ListsInstallations /\ Granted(i) = {r}) /\ ~ListsReposOf(i)
          /\ UNCHANGED worker
          /\ steady' = steady \ {r}
    /\ UNCHANGED <<ghVis, syncTables, userTables, uploads, repoVis, runs, aborts, lastSeen>>

VisibilityChanges(r) ==
    /\ \E v \in Visibility : ghVis' = [ghVis EXCEPT ![r] = v]
    /\ UNCHANGED <<installed, syncTables, userTables, uploads, repoVis, runs, worker, aborts, history>>

-----------------------------------------------------------------------------
(* Requests the server handles meanwhile *)

\* POST /runs/token: the visibility claim is the one GitHub signs now.
MintUpload(r) ==
    /\ minted' = minted \union {<<r, ghVis[r]>>}
    /\ UNCHANGED <<github, syncTables, userTables, uploading, repoVis, runs, worker, aborts, history>>

\* POST /runs, first half: UpsertRepo with the claim of the token.
IngestRepo(r, v) ==
    /\ <<r, v>> \in minted
    /\ repoVis' = [repoVis EXCEPT ![r] = v]
    /\ uploading' = uploading \union {r}
    /\ UNCHANGED <<github, syncTables, userTables, minted, runs, worker, aborts, history>>

\* POST /runs, second half: UpsertRun, or nothing after an error or at the
\* quota.  Another upload of the repository may still be on its way.
IngestRun(r) ==
    /\ r \in uploading
    /\ uploading' \in {uploading, uploading \ {r}}
    /\ runs' \in {runs, runs \union {r}}
    /\ UNCHANGED <<github, syncTables, userTables, minted, repoVis, worker, aborts, history>>

UploadTokenExpires(r, v) ==
    /\ <<r, v>> \in minted
    /\ minted' = minted \ {<<r, v>>}
    /\ UNCHANGED <<github, syncTables, userTables, uploading, repoVis, runs, worker, aborts, history>>

\* syncUserRepoAccess for a user who sees some repositories of the app's
\* installations: UpsertRepo for each, then ReplaceUserRepoAccess.
SyncUserAccess ==
    /\ access' \in SUBSET {r \in Repos : Covered(r)}
    /\ repoVis' = [r \in Repos |-> IF r \in access' THEN ghVis[r] ELSE repoVis[r]]
    /\ UNCHANGED <<github, syncTables, bound, uploads, runs, worker, aborts, history>>

\* handleBindRepo, handleUnbindRepo
BindRepo(r) ==
    /\ r \in access
    /\ bound' = bound \union {r}
    /\ UNCHANGED <<github, syncTables, access, uploads, repoVis, runs, worker, aborts, history>>

UnbindRepo(r) ==
    /\ bound' = bound \ {r}
    /\ UNCHANGED <<github, syncTables, access, uploads, repoVis, runs, worker, aborts, history>>

-----------------------------------------------------------------------------
(* runCoverageSync *)

\* RunAll begins: ListAppInstallations asks for the first page.
ListAppInstallations ==
    /\ worker.at = "idle"
    /\ worker' = [Idle EXCEPT !.at = "installs", !.ids = InstalledIds]
    /\ steady' = {r \in Repos : Covered(r)}
    /\ UNCHANGED <<github, syncTables, userTables, uploads, repoVis, runs, aborts, lastSeen>>

\* One page of installations: a full one, after which the next is asked for, or
\* the last with all the rest.
Pages(ahead) == SUBSET ahead \ {{}}

ListInstallations(page) ==
    [worker EXCEPT !.keep = @ \union page, !.again = @ \union (worker.keep \intersect page)]

InstallationsPage ==
    /\ ListsInstallations
    /\ \E page \in Pages(worker.ids) :
          worker' = [ListInstallations(page) EXCEPT !.ids = @ \ page]
    /\ UNCHANGED <<github, syncTables, userTables, uploads, repoVis, runs, aborts, history>>

LastInstallationsPage ==
    /\ ListsInstallations
    /\ LET listed == ListInstallations(worker.ids)
       IN worker' = [listed EXCEPT !.at = IF listed.keep = {} THEN "mark" ELSE "pull",
                                   !.ids = listed.keep]
    /\ UNCHANGED <<github, syncTables, userTables, uploads, repoVis, runs, aborts, history>>

\* UpsertInstallationFromPull, then ListInstallationRepositories gets its token.
PullInstallation(i) ==
    /\ worker.at = "pull" /\ i \in worker.ids
    /\ Granted(i) # {}
    /\ active' = active \union {i}
    /\ worker' = [worker EXCEPT !.at = "list", !.inst = i, !.todo = Granted(i)]
    /\ UNCHANGED <<github, instRepos, coverage, userTables, uploads, repoVis, runs, aborts, history>>

\* The installation went away after it was listed, its row just upserted, or
\* while its repositories are: GitHub refuses and the pass ends.
PullVanishedInstallation(i) ==
    /\ Granted(i) = {}
    /\ \/ worker.at = "pull" /\ i \in worker.ids /\ active' = active \union {i}
       \/ ListsReposOf(i) /\ UNCHANGED active
    /\ worker' = Idle
    /\ UNCHANGED <<github, instRepos, coverage, userTables, uploads, repoVis, runs, aborts, history>>

\* One page of its repositories, each with the visibility it has now; of one
\* that is returned twice the loop of UpsertRepo stores the later.
ListRepos(page) ==
    [worker EXCEPT !.seen = {rv \in @ : rv[1] \notin page} \union {<<r, ghVis[r]>> : r \in page},
                   !.twice = @ \union {r \in page : \E rv \in worker.seen : rv[1] = r}]

ReposPage ==
    /\ ListsReposOf(worker.inst) /\ Granted(worker.inst) # {}
    /\ \E page \in Pages(worker.todo) :
          worker' = [ListRepos(page) EXCEPT !.todo = @ \ page]
    /\ UNCHANGED <<github, syncTables, userTables, uploads, repoVis, runs, aborts, history>>

LastReposPage ==
    /\ ListsReposOf(worker.inst) /\ Granted(worker.inst) # {}
    /\ worker' = [ListRepos(worker.todo) EXCEPT !.at = "store", !.todo = {}]
    /\ UNCHANGED <<github, syncTables, userTables, uploads, repoVis, runs, aborts, history>>

\* UpsertRepo of the listed repositories.
VisibilityOfNewRepos(seen) ==
    [r \in Repos |-> IF repoVis[r] = Null /\ \E v \in Visibility : <<r, v>> \in seen
                     THEN CHOOSE v \in Visibility : <<r, v>> \in seen
                     ELSE repoVis[r]]
VisibilityFrom(seen) ==
    [r \in Repos |-> IF \E v \in Visibility : <<r, v>> \in seen
                     THEN CHOOSE v \in Visibility : <<r, v>> \in seen
                     ELSE repoVis[r]]

\* UpsertRepo for each repository listed, then ReplaceInstallationRepos.
StoreInstallation ==
    LET rest == IF worker.inst \in worker.again THEN worker.ids ELSE worker.ids \ {worker.inst}
    IN /\ worker.at = "store" /\ worker.twice = {}
       /\ repoVis' = VisibilityFrom(worker.seen)
       /\ instRepos' = {ir \in instRepos : ir[1] # worker.inst}
                         \union {<<worker.inst, rv[1]>> : rv \in worker.seen}
       /\ worker' = [worker EXCEPT !.at = IF rest = {} THEN "mark" ELSE "pull",
                                   !.ids = rest, !.again = @ \ {worker.inst},
                                   !.inst = Null, !.seen = {}]
       /\ UNCHANGED <<github, active, coverage, userTables, uploads, runs, aborts, history>>

\* A repository inserted twice violates the primary key: the rows stay as they
\* were and the pass ends.
FailToStoreInstallation ==
    /\ worker.at = "store" /\ worker.twice # {}
    /\ repoVis' = VisibilityFrom(worker.seen)
    /\ worker' = Idle
    /\ UNCHANGED <<github, syncTables, userTables, uploads, runs, aborts, history>>

\* MarkInstallationsMissingFromPullDeleted, then ListRepoCoverageCandidates.
MarkListed ==
    /\ worker.at = "mark"
    /\ active' = active \ worker.keep
    /\ worker' = [worker EXCEPT !.at = "cover", !.keep = {},
                                !.todo = {r \in Repos : repoVis[r] # Null}]
    /\ UNCHANGED <<github, instRepos, coverage, userTables, uploads, repoVis, runs, aborts, history>>
MarkMissing ==
    /\ worker.at = "mark"
    /\ active' = active \intersect worker.keep
    /\ worker' = [worker EXCEPT !.at = "cover", !.keep = {},
                                !.todo = {r \in Repos : repoVis[r] # Null}]
    /\ UNCHANGED <<github, instRepos, coverage, userTables, uploads, repoVis, runs, aborts, history>>

\* UpsertRepoCoverage(r, GetAnyInstallationIDForRepo(r)): uncovered_since is
\* kept while the repository stays uncovered.
CoverageKeepingItsAge(old, inst) ==
    [inst |-> inst,
     age  |-> IF old # Null /\ old.age # Null THEN old.age
              ELSE IF inst # Null THEN Null ELSE 0]
CoverageRestartingItsAge(old, inst) ==
    [inst |-> inst, age |-> IF inst = Null THEN 0 ELSE Null]
NewCoverage(old, inst) ==
    [inst |-> inst,
     age  |-> IF inst # Null THEN Null
              ELSE IF old # Null /\ old.age # Null THEN old.age ELSE 0]

CoverRepo(r) ==
    /\ worker.at = "cover" /\ r \in worker.todo
    /\ coverage' = [coverage EXCEPT ![r] = NewCoverage(@, AnyInstallation(r))]
    /\ worker' = [worker EXCEPT !.todo = @ \ {r}]
    /\ lastSeen' = IF AnyInstallation(r) = Null THEN lastSeen ELSE [lastSeen EXCEPT ![r] = 0]
    /\ UNCHANGED <<github, active, instRepos, userTables, uploads, repoVis, runs, aborts, steady>>

\* The loop ends: runVisibilitySync starts with ListReposForSync.
StartVisibilitySync ==
    /\ worker.at = "cover" /\ worker.todo = {}
    /\ worker' = [worker EXCEPT !.at = "look", !.todo = {r \in Repos : repoVis[r] # Null}]
    /\ UNCHANGED <<github, syncTables, userTables, uploads, repoVis, runs, aborts, history>>

-----------------------------------------------------------------------------
(* runVisibilitySync *)

\* GetRepository authenticates as the installation the database knows, and
\* goes unauthenticated without one: then a private repository is not found.
Readable(r) == ghVis[r] = "public" \/ \E i \in {AnyInstallation(r)} \ {Null} : r \in Granted(i)

LookUpRepo(r) ==
    /\ worker.at = "look" /\ r \in worker.todo
    /\ Readable(r)
    /\ worker' = [worker EXCEPT !.at = "sync", !.todo = @ \ {r}, !.seen = {<<r, ghVis[r]>>}]
    /\ UNCHANGED <<github, syncTables, userTables, uploads, repoVis, runs, aborts, history>>

\* Any error of GetRepository is logged and the repository skipped.
SkipRepo(r) ==
    /\ worker.at = "look" /\ r \in worker.todo
    /\ \/ ~Readable(r) /\ UNCHANGED aborts
       \/ Readable(r) /\ aborts < MaxAborts /\ aborts' = aborts + 1
    /\ worker' = [worker EXCEPT !.todo = @ \ {r}]
    /\ UNCHANGED <<github, syncTables, userTables, uploads, repoVis, runs, history>>

\* UpsertRepo with what GitHub said.
SyncRepo ==
    /\ worker.at = "sync"
    /\ repoVis' = VisibilityFrom(worker.seen)
    /\ worker' = [worker EXCEPT !.at = "look", !.seen = {}]
    /\ UNCHANGED <<github, syncTables, userTables, uploads, runs, aborts, history>>

EndVisibilitySync ==
    /\ worker.at = "look" /\ worker.todo = {}
    /\ worker' = [worker EXCEPT !.at = "revoke"]
    /\ UNCHANGED <<github, syncTables, userTables, uploads, repoVis, runs, aborts, history>>

-----------------------------------------------------------------------------
(* runBindingRevalidation and runRetentionPurge *)

\* RevokeUncoveredProjectBindings
Uncovered(r) == coverage[r] # Null /\ coverage[r].inst = Null

RevokeBindings ==
    /\ worker.at = "revoke"
    /\ bound' = {r \in bound : ~Uncovered(r)}
    /\ worker' = [worker EXCEPT !.at = "purge"]
    /\ UNCHANGED <<github, syncTables, access, uploads, repoVis, runs, aborts, history>>

\* PurgeUnretainedRuns: the rows its WHERE clause selects.
Unretained(r) ==
    /\ repoVis[r] # "public"
    /\ coverage[r] # Null
    /\ coverage[r].age # Null
    /\ coverage[r].age > Retention
    /\ r \notin bound

\* The last stage of the pass that matters here; runJobEnrichment follows.
PurgeRuns ==
    /\ worker.at = "purge"
    /\ runs' = {r \in runs : ~Unretained(r)}
    /\ worker' = Idle
    /\ UNCHANGED <<github, syncTables, userTables, uploads, repoVis, aborts, history>>

\* An error of GitHub or the database ends the pass, or the process restarts.
\* An error right after UpsertInstallationFromPull leaves the installation
\* undeleted, one in the middle of the UpsertRepo loop leaves part of it done.
LogAndGoOn ==
    /\ worker.at \notin {"idle", "purge"}
    /\ aborts < MaxAborts
    /\ aborts' = aborts + 1
    /\ worker' = [Idle EXCEPT !.at = "revoke"]
    /\ UNCHANGED <<github, syncTables, userTables, uploads, repoVis, runs, history>>
AbortPass ==
    /\ worker.at # "idle"
    /\ aborts < MaxAborts
    /\ aborts' = aborts + 1
    /\ worker' = Idle
    /\ \/ UNCHANGED <<active, repoVis>>
       \/ /\ worker.at = "pull"
          /\ \E i \in worker.ids : active' = active \union {i}
          /\ UNCHANGED repoVis
       \/ /\ worker.at = "store"
          /\ \E part \in SUBSET worker.seen : repoVis' = VisibilityFrom(part)
          /\ UNCHANGED active
    /\ UNCHANGED <<github, instRepos, coverage, userTables, uploads, runs, history>>

Older(age) == IF age = Null \/ age > Retention THEN age ELSE age + 1

Tick ==
    /\ coverage' = [r \in Repos |-> IF coverage[r] = Null THEN Null
                                    ELSE [coverage[r] EXCEPT !.age = Older(@)]]
    /\ lastSeen' = [r \in Repos |-> Older(lastSeen[r])]
    /\ UNCHANGED <<github, active, instRepos, userTables, uploads, repoVis, runs, worker, aborts, steady>>

-----------------------------------------------------------------------------
WorkerStep ==
    \/ ListAppInstallations
    \/ InstallationsPage \/ LastInstallationsPage
    \/ \E i \in Installs : PullInstallation(i) \/ PullVanishedInstallation(i)
    \/ ReposPage \/ LastReposPage
    \/ StoreInstallation \/ FailToStoreInstallation
    \/ MarkMissing
    \/ \E r \in Repos : CoverRepo(r) \/ LookUpRepo(r) \/ SkipRepo(r)
    \/ StartVisibilitySync
    \/ SyncRepo
    \/ EndVisibilitySync
    \/ RevokeBindings
    \/ PurgeRuns

Environment ==
    \/ \E i \in Installs, r \in Repos : Grant(i, r) \/ Withdraw(i, r)
    \/ SyncUserAccess
    \/ \E r \in Repos : VisibilityChanges(r) \/ MintUpload(r) \/ IngestRun(r)
                           \/ BindRepo(r) \/ UnbindRepo(r)
    \/ \E r \in Repos, v \in Visibility : IngestRepo(r, v) \/ UploadTokenExpires(r, v)
    \/ AbortPass

PullNext == WorkerStep \/ Environment \/ Tick

PullSpec == PullInit /\ [][PullNext]_pullVars

\* The goroutine runs until the process ends, ticks pass, and an upload token
\* does expire.
PullFairness ==
    /\ WF_pullVars(WorkerStep)
    /\ WF_pullVars(Tick)
    /\ \A r \in Repos, v \in Visibility : WF_pullVars(UploadTokenExpires(r, v))

FairPullSpec == PullSpec /\ PullFairness

-----------------------------------------------------------------------------
(* Properties *)

\* The purge never deletes runs of a repository that GitHub covered all through
\* the pass, however often earlier passes failed and however old the stored
\* uncovered_since is: RunAll reaches the purge only after a coverage sync that
\* ran to its end.  It takes a list that lost an entry while it was being read,
\* its installation's or that of the installations, to have it skipped.
CoveredReposKeepTheirRuns ==
    [][\A r \in steady : r \in runs => r \in runs']_runs

\* The same for project bindings: revalidation revokes none of a repository
\* that GitHub covered all through the pass, but for one skipped in a page.
CoveredReposKeepTheirBindings ==
    [][worker.at = "revoke" /\ worker'.at = "purge" =>
          steady \intersect bound \subseteq bound']_bound

\* A repository found covered starts a full new grace period when coverage is
\* lost again: runs are purged only if no coverage check found the repository
\* covered in the last Retention ticks.
PurgeWaitsOutTheRetentionWindow ==
    [][\A r \in runs \ runs' : lastSeen[r] > Retention]_runs

\* GitHub leaves the app's installations and the visibility of r alone.
Settled(r, v, grants) == installed = grants /\ ghVis[r] = v /\ repoVis[r] # Null

\* Once GitHub has settled and the app can read a repository, its stored
\* visibility follows, whatever stale upload claims were in flight and however
\* the pass was interrupted.
ReadableVisibilityConverges ==
    \A r \in Repos, v \in Visibility, grants \in SUBSET (Installs \X Repos) :
        <>[](Settled(r, v, grants) /\ (v = "public" \/ Covered(r))) => <>[](repoVis[r] = v)

\* "repos: visibility source of truth" (server/db/migrations/0006_schema.sql):
\* once GitHub has settled, the stored visibility of every repository that has
\* a row is the repository's own.
StoredVisibilityIsTrue ==
    \A r \in Repos, v \in Visibility, grants \in SUBSET (Installs \X Repos) :
        <>[]Settled(r, v, grants) => <>[](repoVis[r] = v)

\* Retention is enforced: a private repository that stays uncovered and unbound
\* and gets no new uploads loses its runs.
UnretainedRunsArePurged ==
    \A r \in Repos, grants \in SUBSET (Installs \X Repos) :
        <>[](/\ installed = grants
             /\ ~Covered(r)
             /\ repoVis[r] = "private"
             /\ r \notin bound
             /\ r \notin uploading
             /\ \A v \in Visibility : <<r, v>> \notin minted)
            => <>[](r \notin runs)
=============================================================================
