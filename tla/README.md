# Verification of ghapp-demo

TLA+ modules for the control-plane server, the GitHub Action and the agent of
this repository: what they do to shared state, in which orders, and what stays
true while requests fail, repeat, overlap and are cut off.

## 1. The system

A job of a GitHub workflow runs the **action**. Its main step
(`action/src/main.ts`) starts the **agent** (`agent/src/main.rs`), which records
outgoing connections through eBPF; its post step (`action/src/post.ts`) stops
the agent and uploads the summary. The **server** (`server/`) issues upload
tokens, stores runs in Postgres, keeps its copy of GitHub's installations and
visibilities up to date with pull workers, and shows runs to users.

| component | state | operations | interacts with |
|---|---|---|---|
| ingest handlers (`server.go` 840-1095) | limiter (in memory), goroutines in progress | `POST /runs/token`, `POST /runs` | upload tokens, store, OIDC verifier |
| upload tokens (`tokens.go`) | none (signed) | issue, verify | handlers |
| rate limiter (`server.go` 194-236) | window and count per key | `Allow` | both ingest handlers, public routes |
| store (`store.go`, `0006_schema.sql`) | tables | one statement or transaction per method | everything in the server |
| post step upload (`post.ts` 304-475) | attempt counter, upload token | three calls with retry | GitHub, server |
| pull workers (`pull.go`) | position in the pass | coverage sync, visibility sync, revalidation, purge, enrichment | GitHub, store |
| user access (`server.go` 1223-1344) | cached access, sync time, lock per user | sync, bind, unbind | GitHub, store |
| OIDC verifier (`verifier.go`) | cached signing keys | verify, refresh | token handler |
| migrations (`migrate.go`) | recorded versions | apply | store, at start-up |
| agent (`main.rs`) | event list, counters, stop flag, queue | capture, drain, summarise | post step (signals and files) |
| lineage tree (`main.rs` 1215-1382) | none | build | agent |
| sessions and projects | sessions, memberships, slugs | login, logout, create | users, store |
| run pages (`server.go` 510-652) | pages in HTTP caches | show a run, a repository, a project | store, users |

What is hard here:

* *concurrency*: the three statements of an upload are not in a transaction; the
  pull workers read GitHub, then write, while uploads and users write the same
  rows;
* *failure*: a request can be abandoned by `http.TimeoutHandler` while its
  statement still commits; a pull pass can stop after any statement; the
  limiter is lost with the process;
* *delivery*: the post step retries calls whose effect it cannot see;
* *time*: token life, quota window, retention window;
* *shared files and processes*: the agent, its bpftrace child and the post step
  see of each other a signal, a pipe and the existence of files.

What makes each part correct is stated by the properties of section 3.

## 2. Modules

| module | models | state and actions |
|---|---|---|
| `FixedWindow` | `fixedWindowLimiter.Allow` | operators on one counter |
| `RunIngest` | both ingest handlers, upload tokens, `repos` and `runs` | one action per handler part between database calls; `handler[h]` is one goroutine of `POST /runs` |
| `RunStore` | what ingestion promises, abstractly | `Authorise`, `Store` |
| `RunUpload` | the post step's upload composed with `RunIngest` | one action per call and per way it can fail |
| `PullWorkers` | the pull workers up to the purge | one action per page that GitHub returns and per statement group; GitHub, uploads and users as environment |
| `Enrichment` | `runJobEnrichment`, `matchJobsToRuns` | one action per GitHub read and per statement; uploads and GitHub's jobs as environment |
| `GithubListing` | installation tokens and the paged listing of an installation's repositories | one action per request and answer |
| `UserAccess` | `ensureUserRepoAccess`, `syncUserRepoAccess`, binding and unbinding | `request[q]` is one goroutine; one action per lock, GitHub call and statement |
| `OidcKeys` | `Verifier` with its JWKS cache | `verify[v]` is one goroutine inside `Verify` |
| `RateLimiter` | concurrent callers of `Allow`, on top of `FixedWindow` | `ReadClock`, `Allow` |
| `Login` | login, OAuth callback, session cookie, logout | one action per statement and per answer that reaches a browser |
| `Projects` | `CreateProject` | `request[r]` is one transaction; one action per statement |
| `RunPages` | run, repository and project pages, their caching | session read, project read, query, delivery; one cache entry |
| `Migrate` | `Migrate`, `applyMigration`, `main` up to serving | `process[p]` is one server process; one action per statement |
| `SqlText` | `parseDollarTag` and what `splitStatements` asks of a text | operators on sequences of characters |
| `SqlLexer` | what cutting a migration promises, abstractly | `ReadLexeme`, `ReadSeparator`, `ReturnAll` |
| `SqlSplit` | `splitStatements` | one action per way through the body of its loop |
| `AgentRun` | the agent's capture loop, its child, and the action's readiness wait and stop | one action per round of the loop and per step of the action |
| `Lineage` | `lineage_for_pid`, `ProcessCache`, `build_process_lineage_tree` | one action per file read in `/proc`; processes as environment |
| `RunIngestProofs` | | theorems about `RunIngest` |
| `RunUploadProofs` | | theorems about `RunUpload`, on top of `RunIngestProofs` |
| `PullWorkersProofs` | | theorems about `PullWorkers` |
| `CachesProofs` | | theorems about `OidcKeys`, `UserAccess` and `GithubListing` |
| `WebProofs` | | theorems about `Login`, `RunPages` and `RateLimiter` |
| `BackgroundProofs` | | theorems about `Migrate`, `Enrichment`, `AgentRun` and `Lineage` |
| `SqlSplitProofs` | | `SqlSplit` implements `SqlLexer` |
| `ProjectsProofs` | | theorems about `Projects` |
| `MCRunIngest`, `MCPullWorkers`, `MCEnrichment`, `MCProjects` | | the instances of one module each |
| `MCJob` | what runs in a job: `RunUpload`, `AgentRun`, `Lineage` | sum of the three, see below |
| `MCBackground` | what the server does unasked: `Migrate` with `SqlSplit`, `GithubListing`, `Enrichment` | sum |
| `MCCaches` | what the server keeps of GitHub's answers: `OidcKeys`, `UserAccess` | sum |
| `MCWeb` | what browsers ask of the server: `Login`, `RunPages`, `RateLimiter` | sum |

**Sums.** Where components share nothing that either of them writes, their
interleavings are the product of their states and say no more than each says
alone. `MCJob`, `MCBackground`, `MCCaches` and `MCWeb` therefore explore such
components side by side: variable `part`, chosen in the initial state, names the
component a behaviour is about; the others rest in one initial state. Fairness is
that of the component's own specification, conditional on `part`. Where components
do interact they are composed: `RunUpload` contains the server's actions,
`PullWorkers` and `Enrichment` contain uploads as environment, `Login` contains the
database's locks.

**RunIngest.** `HandleRunsToken` is one step: it only touches the limiter.
`ReceiveRun` performs every check of `handleRunsIngest` that needs no database,
in the code's order; `HandleUpsertRepo`, `HandleCountRuns` and `HandleUpsertRun`
are its three database calls. `CancelRun` cancels the request context (time-out
or lost client): the call in progress may still commit (the action then happens
with `live = FALSE`), the next one fails. `HandleDatabaseError` is every error
return. A body stands for its own SHA-256; a token verifies exactly if it is in
`tokens` and not expired, that is, signatures are perfect. A repository keeps its
owner: transfers are not modelled. The server's and the database's clock are one.
Table `runs` is not purged here; `PullWorkers` does that. A row has a column `job`,
which `MarkRunEnrichmentMatched` of a pull pass fills at any moment, for the executions
in `Matchable`, and which `UpsertRun` clears: `ON CONFLICT DO UPDATE` takes
`github_job_id` and `job_display_name` from the upload token, where they are never set.

**RunUpload.** Every step of a post step that reaches the server contains the
server's own action, with its client made concrete. `faults` counts lost messages,
5xx answers and restarts. `Unretryable` admits what `fetchWithRetry` does not retry: a
refused OIDC token, an answer cut off in its body (`response.json()` is outside the
retry loop). What the model also shows, and the code accepts: a repeated `POST /runs`,
or a late one of an abandoned goroutine, takes from an enriched run the job it shows;
and a retry of a stored but unacknowledged run counts its own row and is refused with
429 when that row filled the quota, so that the post step reports a failure although
its run is stored. `RetriesKeepTheRun` and `FirstAnswersAreTrue` say that it takes a
retry for either.

**PullWorkers.** A pass is cut where it reads GitHub and where it writes tables
that others write or read. `installations`, `installation_repos` and
`repo_coverage` are written by this goroutine only, so reading and writing those
is one step. An upload is split at the point between its two writes. Visibility
`internal` behaves like `private` in every statement modelled and is folded into
it.

GitHub's two lists are read page by page, `ListAppInstallations` and
`ListInstallationRepositories` alike, and change between two pages. A list under way is
the set of the entries ahead of the next page: an entry taken out of the part already
returned lets one of those slip by (`Slipped`), one put in pushes a returned one back
(`Pushed`). A repository returned twice violates the key of `installation_repos` and
ends the pass. `steady` are the repositories that GitHub covered all through the pass
and whose lists, that of the installations and that of their own, lost no entry while
they were read; `lastSeen` is the time since a coverage check found the repository
covered. Both are history variables. What the model also shows, and the code accepts: a
repository that is covered throughout, but slips by when another one leaves the list
between two pages, is stored as uncovered by that pass and loses its project bindings
at once. It loses its runs in the same pass if an `uncovered_since` older than the
retention window has survived from before, because the passes that could have cleared
it were aborted; otherwise the next pass lists it again. `GithubListing` counts how many
can slip by.
Two overlapping passes are not modelled: the deployment allows one instance
(`server/infra/terraform/main.tf`), except for the moment of a rolling deploy.

**Enrichment.** The rows are those of one repository. A pass reads the pending runs
of a group, asks GitHub for the jobs of the attempt, and writes one verdict per
statement; uploads write the same rows in between. An upload rewrites all of what is
matched (attempt, runner and capture window, one of the `Captures` that the tokens of
the execution may name), clears the job, and leaves the state as it is; the pass matches
what it has read before. `overtaken`, a history variable, holds the runs that an upload
gave another capture after the pass had listed them: the verdict on such a run may not
fit what its row says by then, because `MarkRunEnrichmentMatched` asks for the id alone,
and `MatchedRunsFitTheirJob` excepts just these. What the model also shows, and
the code accepts: two passes may give one job to two runs (only one pass is kept
a bijection), a job that is still running makes its runs `ambiguous` for good, a
failed call to GitHub makes them `unavailable` for good, and a repeated upload
clears the job of a `matched` run without making it pending again.
`ListQueryAccepted` says whether the database answers the list query; see the
findings.

**GithubListing.** One installation, a list of repositories that changes between
two pages, a cached installation token that grows old. A listing that sees an entry
twice is refused by the key of `installation_repos` and abandons the pass, as an
error does. The ETag of the first page is not modelled.

**UserAccess.** One user with one project and two requests under way. `granted` is
what GitHub would answer now, `access` the copy in `user_repo_access`. GitHub
replaces the refresh token whenever it is used; `lost` records that an answer or
the write of a new token was lost, from which only a login recovers. The lock per user
is a mutex of one server process.

**OidcKeys.** A token is what `Verify` tests of it: the key it names, the key that
signed it, and whether the remaining checks hold; signatures are perfect. The
write lock is held during the exchange with GitHub, so other verifications wait.

**RateLimiter.** A caller reads the clock, then waits for the mutex; it may stall
for up to `MaxStall`. Callers that do not stall are admitted at most twice the
limit in any stretch of a window's length; with stalls three times the limit is
reached. That is within the life of one process: a restart starts from empty counts.

**Login.** Two browsers with one state cookie and one session cookie each; answers
reach a browser in any order or not at all. Unique keys behave as in PostgreSQL:
an insert waits for the transaction that has inserted the same key and fails
when that commits.

**Projects.** A slug is the sequence of its suffixes, so that `name-2` is reached
both as the second try of `Name` and as the first of `Name 2`. A transaction in
which a statement has failed refuses all later ones. `LoseCommit` is a commit that takes
effect although the request ends in an error: the connection is lost, or
`http.TimeoutHandler` has answered 503. The user then has a project nobody told them of.

**RunPages.** Three kinds of pages are made in the code's order of reads (session,
project, runs) and then delivered, while visibility and bindings change; whether the
session of a cookie is live and which runs are stored is a free choice at each read. The
rows of a page get older while it is rendered, up to the 30 seconds of
`http.TimeoutHandler` (`MaxRequest`), and an anonymous answer, error pages included, may
be kept by caches for `MaxAge` after that; so a page may be as old as both together.
Private means private by the stored visibility, `repos.visibility`, which follows
GitHub's as `PullWorkers` says. Two repositories share a name, as after a rename.
`ListLimit` is the code's `LIMIT 100`, which no instance reaches.

**Migrate, SqlSplit.** Three processes with binaries of different age start at once;
only the primary key of `schema_migrations` is between them. Statements of a
migration whose objects exist already fail and end the process, which is started
again. `SqlSplit` is the loop over the characters of a text, whose three booleans and
dollar tag are `mode` and `tag`; the ghost variable `lexeme` remembers where the latest
comment or quote was opened. It implements `SqlLexer`, a lexer of the
language the code cuts and not of all of PostgreSQL's (it has no block comments and no
escape strings), which reads lexeme by lexeme: the
lexer reads a lexeme when the loop has read its last character, or the last one of a
text that ends within it.

**AgentRun.** The channel and `pending_messages` are one queue; a line is one event.
A reader thread (`stream_lines`) ends with its pipe, or at an error such as a line that is
not UTF-8: then it says nothing, and later lines stay unread while the agent goes on,
since the other thread still holds a sender. `counts.cut` marks a drain that ran out of
its 700 ms. These two losses are not reported in the summary. The readiness file, the
summary file and the signal are all that agent and action share. Failure to
install the signal handlers is not modelled.

**Lineage.** A lineage is read one `/proc` file at a time while processes start, end
and leave their children to process 1. Process ids are not reused: a pid counter
that comes round during a job, together with a read that misses the start time,
could make the parent links circular and drop nodes from the tree. Without that
assumption an edge may also be wrong: `get_or_refresh` follows a parent by its pid alone
(`main.rs` 1061-1070), and the pid may name another process by then.

Some definitions are preceded by a faulty variant of themselves, the kind of slip
a change could introduce. They are never used by the specifications; substituting
one must break the property that guards against it.

## 3. Runs

| run | instance | shows |
|---|---|---|
| `ingest` | 2 repositories of 1 owner, 1 execution id, 2 bodies (1 valid), 2 goroutines, 2 tokens, clock to 2 | `TypeOK`, `StoredRunsWereAuthorised`, `AcceptedRunsAreStored`, `RunWritersHaveTheirRepo`, `UploadsNeverRedateRuns`, `OnlyTheRepoWritesItsRuns`, `ImplementsRunStore` |
| `quota` | 1 repository, 3 executions, quota 1, 2 goroutines | `QuotaOvershootIsBounded`: the quota is not a hard limit, but the overshoot is smaller than the number of goroutines between count and insert |
| `job`, upload | 2 post steps, 3 attempts, 3 faults, token life 1, quota 1 | `UploadsStoreTheirOwnSummary`, `RetriesKeepTheRun`, `FirstAnswersAreTrue`, `FaultsAreOutlasted`, `UploadsEnd` |
| `job`, capture | event limit 2, 4 lines, readers that may fail, an agent that may stop anywhere | `OnlyUnreadLinesAreLost`, `StuckAgentsAreLeftBehind` |
| `job`, lineage | 4 processes, depth 3, 3 events | `EventsAreInTheTree`, `TreeEdgesWereParents` |
| `pull_safety` | 2 repositories, 2 installations, retention 0, 1 aborted pass | `CoveredReposKeepTheirRuns`, `CoveredReposKeepTheirBindings`, `PurgeWaitsOutTheRetentionWindow` |
| `pull_liveness` | 1 repository, 1 installation, retention 1, 1 aborted pass | `ReadableVisibilityConverges`, `UnretainedRunsArePurged` |
| `background`, migrate | an old and a new binary and a migrate-only job, 2 faults; every text of up to 4 of the 7 characters the code tells apart, of 5 without the second kind of quote, and of 7 over a letter, `;` and `$` | `MigrationsTakeEffectOnce`, `MigrationsAreInOrder`, `EveryProcessStarts`; `SplitsLikeTheLexer` |
| `background`, listing | 4 repositories on pages of 2, 2 changes, 1 failed request, token life 4 | `ListingErrorsAreBounded`, `CoverageConverges` |
| `background`, enrichment | 2 executions whose tokens name 3 and 2 captures (1 without a window), 2 changes of the capture, 3 jobs, batch 1, 1 aborted pass | `MatchedRunsFitTheirJob`, `PendingRunsAreSettled`, if the list query is answered |
| `caches`, keys | 2 keys, 4 tokens, 2 verifications, cache and fetch time 1, clock to 4 | `WithdrawnKeysStopVerifying`, `PublishedKeysBecomeKnown` |
| `caches`, access | 2 requests of a user about 1 repository, cache 1, staleness 2, clock to 6 | `BindingsRestOnRecentAccess`, `CopiesNeverGoBack`, `StoredRefreshTokenIsUsable` |
| `web`, login | 2 browsers, 2 accounts, 2 logins, 2 requests, 2 faults | `UsersAreAccounts`, `LoggedInAsYourself` |
| `web`, pages | 2 repositories of one name, 2 runs, 2 users, 1 project, request and cache time 1 | `PrivateRunsFadeOut`, `MemberViewsStayWithMembers` |
| `web`, limiter | limit 2, window 3, 3 callers waiting, stall 2, clock to 8 | `BurstsAreBounded` |
| `pull_visibility` | as `pull_liveness`, no aborts | *violation* of `StoredVisibilityIsTrue`, see the findings |
| `enrichment_listing` | as in `background`, list query refused | *violation* of `PendingRunsAreSettled` |
| `project_slugs` | 2 users, 3 requests, 3 slugs per request, no faults | *violation* of `RefusedOnlyWithoutSlugs` |
| `agent_summary` | event limit 2, 2 lines | *violation* of `SummariesAreReadWhole` |

**Bounds.** Two repositories with one execution id are what a confusion of rows needs;
two goroutines are what every race in the handlers needs (one that wrote, one that read
before); three executions with a quota of one let the overshoot exceed the bound by one
if the comparison slips. A clock to 2 with a token life of 1 and a window of 1 lets
tokens expire and windows and days roll over. Three attempts and three faults let an
abandoned goroutine and a lost answer meet, and let the attempts be used up. The quota
of 1 in `job` is within reach, so that a retry can be refused because of the run it
repeats; the one execution is matchable, so that it can clear a job. In `pull_safety`
two repositories on pages of any length let one slip by when the other one leaves, and
two installations let coverage move. To keep that instance in bounds (`PagedSpec`) the
first repository is private and everything is tried of it, while its neighbour is
public, is only ever withdrawn, and is neither uploaded nor bound; visibilities stay,
and somebody has access to the first one and has begun to upload before the first pass.
Runs, bindings and ticks come right before the revalidation or the purge that reads
them (`InDueTime`): earlier ones would make no difference to either.
With a retention of 0 an `uncovered_since` is too old after one tick, and one aborted
pass lets it survive. The theorems of section 4 have none of these restrictions.
`pull_liveness` is about what becomes of one repository over many passes. `MaxAborts`
also bounds transient errors of `GetRepository`. Ages above the retention window are not
told apart because nothing compares them. For the keys the clock passes two lifetimes of
the cache and a fetch, so that a key can be withdrawn, cached, expire and be fetched
again. Two refresh tokens let a behaviour of `UserAccess` have a refresh or a login, not
both; the proof covers the rest. Two executions whose tokens name up to three captures,
with three jobs closer together than the slack, give a job with two candidates, a run
with two candidates, a pair that fits, and uploads that move a run to another attempt or
another window, twice, between any two steps of a pass; a batch of one makes a pass stop
between groups. Three processes are one more than a race needs: the third meets both a
winner and a loser. Four processes and a depth of three make chains that are cut short
and orphans whose two lineages disagree. Four lines over a limit of two fill the
summary, the queue and the pipe at once. A request that takes a tick and a cache that
keeps for one let a page be read, delivered and served from the cache in three different
ticks. The limiter's clock covers two windows and two stalls, where the admitted bursts
meet their bound; pages of two over four repositories let an entry move over each page
boundary in either direction. Five characters hold a comment, a quote with a doubled
quote or an unnamed dollar quote, opened and closed, with a separator inside or after
it; seven hold a named dollar quote around a separator.

**Symmetry.** Goroutines, repositories and execution ids are interchangeable in
`ingest` and `quota`, goroutines in `caches`. In
`web` browsers, and repositories together with their runs, are exchanged all at
once. No run with a liveness property uses symmetry.

**Deadlock** is checked for `PullWorkers` and `Enrichment` on their own, whose
goroutine runs for ever. Elsewhere it is not: clients may stop, post steps, jobs
and migrations end, or the clock reaches its bound.

**Fairness.** `UploadFairness`: a post step that can move and a goroutine that can
move eventually do (Node's event loop and Go's scheduler); every fetch is answered
or fails, since the server's time-out and TCP end each call. `PullFairness`: the
pull goroutine loops for the life of the process (`PullRunner.Start`), time
passes, and upload tokens expire. `Enrichment` and `GithubListing` assume weak
fairness of the same goroutine. `MigrateSpec` is weakly fair per process: a failed
process is started again by the platform, one that waits for a row goes on when the
other transaction ends. `StuckAgentSpec` is weakly fair for the action only: the
agent may be stuck anywhere. `OidcKeys`, `UserAccess`, `Login`, `Projects`,
`RunPages` and `RateLimiter` state safety only and assume no fairness. Nothing is assumed
of users, of GitHub or of failures, which the `Max...` constants only bound in
number.

**Findings.**

* `pull_visibility`: `runVisibilitySync` skips a repository it cannot read. A
  repository that was public, leaves the app's coverage and then turns private
  cannot be read without authentication, so its row in `repos` says `public` from
  then on, and readers are still shown its runs; the migration calls this table the
  "visibility source of truth" (`0006_schema.sql`, line 7).
  `ReadableVisibilityConverges` states what does hold.
* `enrichment_listing`: `ListPendingEnrichmentGroups` orders a `SELECT DISTINCT` by
  `r.created_at`, which it does not select. PostgreSQL refuses that (42P10), so the
  fifth pull worker of `server/README.md`, line 501, fails on every tick and runs
  stay `pending`. Run `background` shows what holds once the query is answered.
* `project_slugs`: `CreateProject` means to go on with the next slug after a unique
  violation (`store.go` 165), but the violation has aborted its transaction, so the
  second project of a name is refused although `name-2` is free.
* `agent_summary`: the post step takes the existence of the summary file for the
  end of the agent's writing (`post.ts` 255; its message in line 96 speaks of not
  truncating output) and can read a file the agent has only begun.

## 4. Proofs

`tlapm` proves the theorems below for every value of the constants that the named
assumption of each module allows (`IngestAssumption`, `UploadAssumption`,
`PullAssumption` and so on). These ask for finite sets where the code has finitely many
of something, for natural or positive limits and durations, for markers such as `NoKid`
that are no real value, and, in five places, for a fact of the deployment: two post
steps upload different executions (`UploadAssumption`); the copy of a user's
repositories is refreshed before it is refused (`AccessAssumption`, the code's 5 minutes
and 24 hours); a page's `LIMIT 100` does not cut the list of runs (`PagesAssumption`); a
request waits for the limiter's lock for less than a window (`LimiterAssumption`); and a
request to GitHub ends long before an installation token does (`ListingAssumption`). The
numeric bounds that keep TLC finite stay arbitrary naturals, so the theorems hold for
any length of run.

Each safety property follows from an inductive invariant that says more than the
property does; every one of them was checked by TLC on the instance of section 3
before it was proved. What each one adds is what the argument rests on.

**Ingestion** (`RunIngestProofs`).

* `TypeCorrect`: `IngestSpec => []TypeOK`.
* `IngestInvariant` and from it `StoredRunsAuthorised`, `AcceptedRunsStored`,
  `RunWritersHaveRepo`. `StoredRunsWereAuthorised` is not inductive: when the row
  is written, nothing about the row says that the goroutine's token was signed or
  that its body matches. `IngestInv` therefore carries `WritersAreAuthorised` (a
  goroutine past the checks keeps holding an issued token for the body it has)
  and `TokensAreRecent`. Tokens are never withdrawn and the goroutine's token
  and body never change, so the facts established by `ReceiveRun` last until
  `HandleUpsertRun` uses them.
* `RunsAreNeverRedated`, `RunsAreWrittenByTheirRepo`: action properties, from the
  fact that `HandleUpsertRun` is the only action that writes `runs` and writes
  one row.
* `IngestImplementsRunStore`: the refinement. Issuing a token maps to `Authorise`,
  `HandleUpsertRun` to `Store` (enabled because of `WritersAreAuthorised`), all else
  to a stutter.
* `QuotaOvershootBounded`: `QuotaInv` adds the goroutines between count and insert
  to the runs counted. Passing the check makes it at most (quota - 1) + goroutines;
  an insert moves one from the second summand to the first; everything else only
  shrinks both sets. The argument uses cardinalities of finite sets.

**Upload** (`RunUploadProofs`).

* `UploadInvariant` and from it `UploadsStored`, `RetriesKeepRuns`, `FirstAnswersTrue`,
  `FaultsOutlasted`. `UploadInv` contains `IngestInv` and says that every token there
  is was issued to a post step for its own summary (`TokensNamePosts`,
  `HeldTokensAreOwn`), that the goroutine a post step waits for is live and serves
  that post step's key (`ConnectionsAreServed`), so that an answer is about the
  right row, that a post step that is done has its row, and, in `UploadTypeOK`, that
  there are never more than `MaxAttempts` attempts. A goroutine that was
  abandoned by a retry may still write, but holds a token for the same key and
  the same body. Before the first retry there is no such goroutine: `FirstAttempts` says
  that no other one is about the post step's key, and that there is no row before its
  own goroutine has replied 202, so there is no job to take away and no false answer to
  give. For `FaultsAreOutlasted`, `AttemptsAreFaults` compares attempts with
  faults; a 500 that is on its way has been counted as a fault and not yet as an
  attempt, so the comparison is one tighter there.

**Pull workers** (`PullWorkersProofs`).

* `PullInvariant` and from it `CoveredReposKeepRuns`, `CoveredReposKeepBindings`,
  `PurgeWaits`. The worker acts on copies that are minutes old, so the invariant follows
  a repository that stays covered through the stages of a pass: while installations are
  listed its own was returned or is ahead (`SteadyIsAhead`); up to the mark stage its
  installation was listed and is pulled or still to be pulled, and while its
  repositories are listed it was returned or is ahead (`SteadyIsPulled`); in the cover
  stage the database knows its grants (`SteadyIsKnown`); once visited it is not stored
  as uncovered (`SteadyIsNotUncovered`), which is what purge and revocation read. That
  every row of `repo_coverage` has a row in `repos` (`CoverageHasRepo`) makes the cover
  stage visit it. For the window, `AgeIsSinceLastSeen` bounds the stored age by the time
  since the last check that found coverage.
* The first attempt failed for a good reason: `NewCoverage` was a `CASE` whose guards
  overlapped, where TLC takes the first and TLA+ allows either. It is now an
  `IF`/`ELSE` in the code's order.

**Caches** (`CachesProofs`).

* `OidcInvariant` and from it `WithdrawnKeysStop`, `PublishedKeysKnown`. A verdict is
  given long after the clock was read, from a cache another goroutine may have
  replaced. `OidcInv` bounds the age of what GitHub answered (`AnswerIsRecent`), of
  what is cached, relative to its expiry (`CacheIsRecent`), and keeps that a
  verification which did not fail to refresh looks the key up in a cache that had
  not expired at the time it read (`RecheckIsFresh`); the ages add up to `MaxAge`.
* `AccessInvariant` and from it `BindingsAreRecent`, `CopiesAdvance`,
  `StoredTokenUsable`. The invariant says who holds the user's mutex and that only
  the holder is between GitHub's answer and the write (`LockIsHeld`,
  `ListingIsNewer`), so that a copy is replaced by a newer one; that the copy's
  stamp is later than what it shows by a request's time-out at most
  (`CopyIsStamped`, `CopyIsRecent`); and
  that a refresh token about to be stored is one GitHub accepts (`TokenIsUsable`).
* `ListingInvariant` and from it `ListingErrorsBounded`. The pages read so far cover
  the first m positions of a list that moves under the loop. `PagesSoFar` counts the
  lasting repositories that have moved to where the loop has been without being
  listed (`Missed`, at most the removals), and adds to the repeats so far the listed
  ones that have moved to where it still comes (`Ahead`, together at most the
  additions): these are repeats to come, and a bound on the repeats alone would not
  survive the page that lists them. A removal moves only the repository at position
  m + 1 over the boundary, an addition only the one at position m or the new one.
  GitHub's order is stated by positions (`Position`, `RepoAt`) rather than by
  sorting a sequence, an operator the prover has no definition of.

**Browsers** (`WebProofs`).

* `LoginInvariant` and from it `AccountsHaveOneUser`, `SessionsAreYourOwn`. An argument
  about unique keys: while a transaction holds the key of an account's identity the
  account has no user and no other transaction holds that key or that id
  (`NewUser`, `InsertsAreApart`); from its commit on the callback's user is the
  account's (`KnownUser`); and a state cookie ties the callback to the browser the
  state was issued to (`OwnFlow`, `CookieOK`, `FlowsAreAuthorised`).
* `PagesInvariant` and from it `PrivateRunsFade`, `MemberViewsStay`. The invariant
  says of each row of the page under way that it was the reader's to see, public or a
  project's, no longer ago than the page is old (`RowsWereDue`), records whom the page is
  made for (`ServedAsClient`), bounds how long ago what a cache holds was public
  (`EntryWasPublic`), and ties the two history variables to
  what they record (`GhostsAreCurrent`). A page's own age and that of the cache's entry are
  counted separately, because delivery restarts the cache's clock.
* `LimiterInvariant` and from it `BurstsBounded`. The counter only knows the current
  window. `LimiterInv` says of every time t what was admitted from t on: it was
  counted in the current window, in that one and the last, or in that one and the
  last two, depending on how far t lies before the window's start, since windows
  begin at least `RateWindow` apart and are opened at most `MaxStall` late
  (`AdmittedFrom`). The sums are folds; that they exist and grow by one summand is
  proved by smallest counterexample (`SumsExist`, `TotalIsTheSum`).

**Background** (`BackgroundProofs`).

* `MigrateInvariant` and from it `MigrationsOnce`, `MigrationsOrdered`. What a process
  has read or passed is still recorded (`PastIsRecorded`), and a version about to be
  committed is in one hand and not recorded (`KeyIsNew`); hence the record is always
  1..v, each version having taken effect once.
* `EnrichmentInvariant` and from it `ShownJobsAreRight`. The verdicts of a pass fit
  when they are computed, but are written one by one while uploads rewrite the same
  rows, what was matched included. The invariant compares verdicts with what the pass has
  read, not with what is stored: the verdicts still to be written are of one group and fit
  that (`VerdictsOfOneGroup`, `VerdictsFit`), it is what is stored except for the overtaken
  runs (`ListingIsCurrent`), and the rows verdicts without a job are for show none
  (`ListedShowNoJob`). An overtaken run may go on
  showing a job that does not fit until it is uploaded again.
* `AgentInvariant` and from it `OnlyUnreadLost`: unless an error is noted, every line
  printed is in the pipe, in the queue or counted (`LinesAreAccountedFor`), and the
  summary is written only after the loop, with the readers through, an error noted or the
  drain cut (`WrittenWhenThrough`). The loop itself cannot tell a reader that failed from
  one that has nothing to read.
* `LineageInvariant` and from it `TreeEdgesAreTrue`, `EventsReachTheTree`. Parents have
  smaller ids than their children (`ProcessesOK`), so neither the cache nor a chain
  read at different times can be circular (`CacheOK`, `Linked`). That the tree, a
  recursive function, contains every event is proved without the library's induction
  theorems: the function is shown to exist by paths (a node is in level n if a path
  of at most n edges leads to it), and a process that lies deeper than there are
  older ones would, taken least, contradict its own parent.
* `SplitInvariant` and from it `SplitImplementsLexer` (in `SqlSplitProofs`), for every
  text over any characters. The lexer says of a lexeme only where it first may end; the
  loop knows no more than its mode. `SplitInv` ties the two: the open lexeme has no end
  before `pos`, what was read of it (of a comment: nothing) is what `current` has gained
  since, an open quote has been met an odd number of times, so that a pair of quotes
  is never an end and a single one always is, and the tag of a dollar quote has not
  been met again. `LexemeIsRead` and
  `LexemeIsClosed` then make each turn a stutter of the lexer or its `ReadLexeme`;
  `TextAssumption` only says that texts consist of characters and that those the code
  tells apart are among them.
* The least and the greatest element of a set of numbers (`MinOfNaturals`,
  `MaxOfNaturals`) come from the well-foundedness of `<`; so does every other
  induction in these proofs, by least counterexample.

**Projects** (`ProjectsProofs`). The run about `Projects` shows a finding; the theorems
say what holds. `ProjectsInvariant` keeps that a slug inserted and not committed is not
taken and in one hand (`HeldSlugsAreNew`), and that a transaction past its first slug is
an aborted one (`OnlyTheFirstIsTried`). From it `ProjectsOwned`: behind each project is
exactly one request, one that was told so or one whose answer was lost after the commit,
and its user is the only member; every other request has left nothing behind; and
`OnlyFirstSlugs`: for every number of tries, a project gets the slug of its name or is
refused because that one is taken, which is what the finding comes to. The two
properties are stated there and were checked by TLC on the instance of
`project_slugs` with one fault.

**Only model-checked.**

All liveness (`UploadsEnd`, `StuckAgentsAreLeftBehind`, `ReadableVisibilityConverges`,
`UnretainedRunsArePurged`, `EveryProcessStarts`, `CoverageConverges`,
`PendingRunsAreSettled`), which the prover does not handle. Every safety property that
holds is proved.

## 5. Not modelled

Rendering, the building of views from a summary's JSON, encryption and request
signing in the GitHub client, ETags, downloading and unpacking the agent, parsing
of bpftrace's lines, Terraform, and configuration are I/O or formatting. The
verdict of the OIDC verifier is a free choice in `HandleRunsToken`; `OidcKeys`
says which verdicts it can give. Columns of `runs` other than the body,
`created_at` and the enrichment columns are copied from the token and never read
by what is modelled. `UpsertInstallation` and `DeleteInstallation` are not called
by anything. Renames and transfers of repositories are only modelled as two
repositories with one name in `RunPages`; the pull workers' look-up by name is not.

## 6. Plan

The modelling is done as far as section 5 says, and all its safety properties are
proved. What could follow is in section 5: renames and transfers of repositories in
`PullWorkers`, whose look-up by name is one of the three hazards without a property; the
others are bindings made while coverage is computed and an answer cut off in its body
(`post.ts` 469). Liveness stays with TLC.
