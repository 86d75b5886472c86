------------------------------ MODULE RunIngest ------------------------------
(***************************************************************************)
(* The run ingestion side of the control-plane server: POST /runs/token    *)
(* and POST /runs (server/web/handler/server.go), the upload tokens that   *)
(* link them (server/internal/runsauth/tokens.go) and the two tables they  *)
(* write (server/internal/postgres/store.go).                              *)
(*                                                                         *)
(* handleRunsToken touches only the in-memory limiter, so it is one step.   *)
(* handleRunsIngest makes three database calls that other requests         *)
(* interleave with; each goroutine serving it is one of Handlers and each  *)
(* database call is one step.  The 30 s http.TimeoutHandler, or the client *)
(* going away, cancels the request context while the goroutine is inside a *)
(* database call: that statement may still commit, every later one fails.   *)
(*                                                                         *)
(* Clients are unconstrained here: they may present any token, the same     *)
(* token twice, or a body other than the one the token was issued for.      *)
(* RunUpload replaces them by the action's post step.  The pull workers,    *)
(* which Enrichment models, appear only as the step that gives a stored run *)
(* the GitHub job it was captured in.                                       *)
(*                                                                         *)
(* Right before some definitions stands a faulty variant of them, used only *)
(* to show that the properties notice the fault.                            *)
(***************************************************************************)
EXTENDS FixedWindow, FiniteSets

CONSTANTS Repos,          \* repository ids
          Owners,         \* repository owner ids
          OwnerOf,        \* repository_owner_id of each repository
          Executions,     \* execution ids minted by the action's main step
          Payloads,       \* summary bodies; a body stands for its SHA-256 too
          ValidPayloads,  \* those validateRunSummaryPayload accepts
          Handlers,       \* goroutines that can serve POST /runs at a time
          Quota,          \* ownerRunQuotaPerDay; 0 switches the quota off
          Day,            \* the quota's 24 hours, in ticks
          TokenTTL,       \* life of an upload token, in ticks
          MaxTime,        \* bound on the clock
          MaxTokens,      \* bound on the number of upload tokens issued
          Matchable       \* executions that a pull pass finds the job of

ASSUME IngestAssumption ==
    /\ OwnerOf \in [Repos -> Owners]
    /\ ValidPayloads \subseteq Payloads
    /\ Matchable \subseteq Executions
    /\ IsFiniteSet(Repos) /\ IsFiniteSet(Executions)
    /\ IsFiniteSet(Handlers) /\ Handlers # {}
    /\ Quota \in Nat /\ Day \in Nat \ {0} /\ TokenTTL \in Nat \ {0}
    /\ MaxTime \in Nat /\ MaxTokens \in Nat

VARIABLES now,      \* time.Now() / NOW(), in ticks
          hits,     \* ingestOwnerLimiter, shared by both endpoints
          tokens,   \* every upload token IssueUploadToken has signed
          repos,    \* the repository ids with a row in table repos
          runs,     \* table runs, by its unique key (repo_id, execution_id)
          handler   \* what each goroutine serving POST /runs is doing

ingestVars == <<now, hits, tokens, repos, runs, handler>>

-----------------------------------------------------------------------------
(* State *)

\* UploadClaims: the repository comes from the verified OIDC principal, the
\* execution and the payload hash from the token request.
Token == [repo : Repos, exec : Executions, sha : Payloads,
          exp : 1 .. (MaxTime + TokenTTL)]

RunKeys == Repos \X Executions
\* job: whether github_job_id and job_display_name are set.
Run == [body : Payloads, createdAt : Nat, job : {"none", "shown"}]
NoRun == [absent |-> TRUE]

\* The next database call of handleRunsIngest, or "replied" once a status is
\* on its way to the client.  A request that is not live has its context
\* cancelled.
Idle == [call |-> "idle"]

Calls == {"UpsertRepo", "CountRuns", "UpsertRun"}
Statuses == {202, 400, 401, 429, 500}
HandlerState ==
    {Idle} \union
    [call : Calls \union {"replied"}, tok : Token, body : Payloads, live : BOOLEAN,
     status : Statuses \union {0}]

\* The token's repository owner: the key of the limiter and of the quota.
OwnerOfToken(tok) == OwnerOf[tok.repo]
KeyOf(tok) == <<tok.repo, tok.exec>>

\* CountRunsByOwnerSince(owner, now - 24h): created_at >= since.
RunsOfOwner(o) ==
    {k \in RunKeys : /\ runs[k] # NoRun
                     /\ OwnerOf[k[1]] = o
                     /\ runs[k].createdAt + Day >= now}

IngestInit ==
    /\ now = 0
    /\ hits = [o \in Owners |-> NoHit]
    /\ tokens = {}
    /\ repos = {}
    /\ runs = [k \in RunKeys |-> NoRun]
    /\ handler = [h \in Handlers |-> Idle]

-----------------------------------------------------------------------------
(* POST /runs/token *)

AllowOwner(o) ==
    /\ Allowed(hits[o], now)
    /\ hits' = [hits EXCEPT ![o] = AfterAllow(@, now)]

\* IssueUploadToken
LongLivedToken(r, e, p) ==
    [repo |-> r, exec |-> e, sha |-> p, exp |-> now + TokenTTL + 1]
NewToken(r, e, p) == [repo |-> r, exec |-> e, sha |-> p, exp |-> now + TokenTTL]

\* handleRunsToken for a request whose bearer names repository r, answered
\* with `status'.  401: the OIDC token does not verify.  503: the handler
\* timed out while fetching signing keys.  429: the owner's limiter refuses.
\* 400: payload_sha256 or execution_id is missing or malformed.  500: signing
\* failed.
HandleRunsToken(r, e, p, status) ==
    /\ \/ /\ status \in {401, 503}
          /\ UNCHANGED <<hits, tokens>>
       \/ /\ status = 429
          /\ ~Allowed(hits[OwnerOf[r]], now)
          /\ UNCHANGED <<hits, tokens>>
       \/ /\ status \in {400, 500}
          /\ AllowOwner(OwnerOf[r])
          /\ UNCHANGED tokens
       \/ /\ status = 200
          /\ Cardinality(tokens) < MaxTokens
          /\ AllowOwner(OwnerOf[r])
          /\ tokens' = tokens \union {NewToken(r, e, p)}
    /\ UNCHANGED <<now, repos, runs, handler>>

-----------------------------------------------------------------------------
(* POST /runs *)

\* VerifyUploadToken: signed by this server and not expired.
VerifiesUnsigned(tok) == now < tok.exp
Verifies(tok) == tok \in tokens /\ now < tok.exp

\* http.Error on a live request; a cancelled one has nobody to answer.
Reply(h, status) ==
    handler' = [handler EXCEPT ![h] =
                    IF @.live THEN [@ EXCEPT !.call = "replied", !.status = status]
                              ELSE Idle]

\* The goroutine goes on to its next database call, unless its context is
\* cancelled: then that call fails and the goroutine ends.
Proceed(h, call) ==
    handler' = [handler EXCEPT ![h] = IF @.live THEN [@ EXCEPT !.call = call]
                                                ELSE Idle]

\* The SHA-256 of the body is the one the token was issued for.
MatchesAnyBody(tok, body) == TRUE
Matches(tok, body) == body = tok.sha

\* handleRunsIngest up to its first database call: every check that needs no
\* database, in the order of the code.  dated: the capture times in the token
\* parse.  Which tokens carry times that do not is left open.
ReceiveRun(h, tok, body, dated) ==
    LET o == OwnerOfToken(tok)
        Start(call, status) ==
            handler' = [handler EXCEPT ![h] =
                [call |-> call, tok |-> tok, body |-> body, live |-> TRUE, status |-> status]]
    IN /\ handler[h] = Idle
       /\ \/ /\ ~Verifies(tok)
             /\ Start("replied", 401)
             /\ UNCHANGED hits
          \/ /\ Verifies(tok)
             /\ ~Allowed(hits[o], now)
             /\ Start("replied", 429)
             /\ UNCHANGED hits
          \/ /\ Verifies(tok)
             /\ AllowOwner(o)
             /\ \/ body \notin ValidPayloads /\ Start("replied", 400)
                \/ body \in ValidPayloads /\ ~Matches(tok, body) /\ Start("replied", 401)
                \/ body \in ValidPayloads /\ Matches(tok, body) /\ ~dated /\ Start("replied", 400)
                \/ body \in ValidPayloads /\ Matches(tok, body) /\ dated /\ Start("UpsertRepo", 0)
       /\ UNCHANGED <<now, tokens, repos, runs>>

\* store.UpsertRepo: the row exists afterwards.  The columns it refreshes are
\* modelled in PullWorkers.
SkipUpsertRepo(h) ==
    /\ handler[h].call = "UpsertRepo"
    /\ Proceed(h, "CountRuns")
    /\ UNCHANGED <<now, hits, tokens, repos, runs>>
HandleUpsertRepo(h) ==
    /\ handler[h].call = "UpsertRepo"
    /\ repos' = repos \union {handler[h].tok.repo}
    /\ Proceed(h, "CountRuns")
    /\ UNCHANGED <<now, hits, tokens, runs>>

QuotaExceeded(o) == Quota > 0 /\ Cardinality(RunsOfOwner(o)) > Quota
QuotaReached(o) == Quota > 0 /\ Cardinality(RunsOfOwner(o)) >= Quota

\* store.CountRunsByOwnerSince and the comparison with the quota.
HandleCountRuns(h) ==
    /\ handler[h].call = "CountRuns"
    /\ IF QuotaReached(OwnerOfToken(handler[h].tok))
       THEN Reply(h, 429)
       ELSE Proceed(h, "UpsertRun")
    /\ UNCHANGED <<now, hits, tokens, repos, runs>>

\* INSERT ... ON CONFLICT (repo_id, execution_id) DO UPDATE: the payload is
\* overwritten, created_at is not, and the columns of the job take the values
\* of the upload token, which never carries a job.
RedatedRun(old, body) == [body |-> body, createdAt |-> now, job |-> "none"]
UpsertedRun(old, body) ==
    [body |-> body, createdAt |-> IF old = NoRun THEN now ELSE old.createdAt, job |-> "none"]

\* store.UpsertRun: the foreign key needs the repository's row.
UpsertRunByExecution(h) ==
    LET tok == handler[h].tok
    IN /\ handler[h].call = "UpsertRun"
       /\ tok.repo \in repos
       /\ runs' = [k \in RunKeys |-> CASE k = KeyOf(tok)    -> UpsertedRun(runs[k], handler[h].body)
                                       [] k # KeyOf(tok)    ->
                                             IF k[2] = tok.exec THEN NoRun ELSE runs[k]]
       /\ Reply(h, 202)
       /\ UNCHANGED <<now, hits, tokens, repos>>
UpsertRunThenCount(h) ==
    LET tok == handler[h].tok
    IN /\ handler[h].call = "UpsertRun"
       /\ tok.repo \in repos
       /\ runs' = [runs EXCEPT ![KeyOf(tok)] = UpsertedRun(@, handler[h].body)]
       /\ IF QuotaReached(OwnerOfToken(tok)) THEN Reply(h, 429) ELSE Reply(h, 202)
       /\ UNCHANGED <<now, hits, tokens, repos>>
HandleUpsertRun(h) ==
    LET tok == handler[h].tok
    IN /\ handler[h].call = "UpsertRun"
       /\ tok.repo \in repos
       /\ runs' = [runs EXCEPT ![KeyOf(tok)] = UpsertedRun(@, handler[h].body)]
       /\ Reply(h, 202)
       /\ UNCHANGED <<now, hits, tokens, repos>>

\* A database call returns an error, or its context is cancelled before the
\* statement runs: nothing is written and a live request is answered 500.
AcceptOnDatabaseError(h) ==
    /\ handler[h].call \in Calls
    /\ Reply(h, 202)
    /\ UNCHANGED <<now, hits, tokens, repos, runs>>
HandleDatabaseError(h) ==
    /\ handler[h].call \in Calls
    /\ Reply(h, 500)
    /\ UNCHANGED <<now, hits, tokens, repos, runs>>

\* http.TimeoutHandler answers 503 in the handler's place, or the connection
\* is lost: either way the request context is cancelled under the goroutine.
CancelRun(h) ==
    /\ handler[h].call \in Calls
    /\ handler[h].live
    /\ handler' = [handler EXCEPT ![h].live = FALSE]
    /\ UNCHANGED <<now, hits, tokens, repos, runs>>

\* The response reaches the client or is lost; the goroutine is done.
ResponseGone(h) ==
    /\ handler[h].call = "replied"
    /\ handler' = [handler EXCEPT ![h] = Idle]
    /\ UNCHANGED <<now, hits, tokens, repos, runs>>

\* The instance is replaced or crashes: every goroutine and the in-memory
\* limiter are gone, the database and the signing key stay.
Restart ==
    /\ handler' = [h \in Handlers |-> Idle]
    /\ hits' = [o \in Owners |-> NoHit]
    /\ UNCHANGED <<now, tokens, repos, runs>>

\* store.MarkRunEnrichmentMatched: a pull pass, at whatever moment, gives a
\* stored run the job it found for it.  Enrichment models the pass.
MarkRunEnrichmentMatched(k) ==
    /\ k[2] \in Matchable
    /\ runs[k] # NoRun
    /\ runs' = [runs EXCEPT ![k].job = "shown"]
    /\ UNCHANGED <<now, hits, tokens, repos, handler>>

Tick ==
    /\ now < MaxTime
    /\ now' = now + 1
    /\ UNCHANGED <<hits, tokens, repos, runs, handler>>

-----------------------------------------------------------------------------
HandlerStep(h) ==
    \/ HandleUpsertRepo(h)
    \/ HandleCountRuns(h)
    \/ HandleUpsertRun(h)
    \/ HandleDatabaseError(h)

IngestNext ==
    \/ \E r \in Repos, e \in Executions, p \in Payloads,
          status \in {200, 400, 401, 429, 500, 503} : HandleRunsToken(r, e, p, status)
    \/ \E h \in Handlers, tok \in Token, body \in Payloads, dated \in BOOLEAN :
          ReceiveRun(h, tok, body, dated)
    \/ \E h \in Handlers : HandlerStep(h) \/ CancelRun(h) \/ ResponseGone(h)
    \/ Restart
    \/ \E k \in RunKeys : MarkRunEnrichmentMatched(k)
    \/ Tick

IngestSpec == IngestInit /\ [][IngestNext]_ingestVars

-----------------------------------------------------------------------------
(* Properties *)

\* Every variable has its type.
TypeOK ==
    /\ now \in 0 .. MaxTime
    /\ hits \in [Owners -> Hit]
    /\ tokens \subseteq Token
    /\ repos \subseteq Repos
    /\ runs \in [RunKeys -> Run \union {NoRun}]
    /\ handler \in [Handlers -> HandlerState]

\* A stored run is one some upload token was issued for: the token names the
\* run's repository and execution and was bound to the hash of the stored
\* body before the body arrived, and the body passed validation.  Covers the
\* chain of handleRunsToken, VerifyUploadToken and the hash comparison of
\* handleRunsIngest, with other requests in between.
StoredRunsWereAuthorised ==
    \A k \in RunKeys : runs[k] # NoRun =>
        /\ runs[k].body \in ValidPayloads
        /\ \E tok \in tokens : /\ KeyOf(tok) = k
                               /\ tok.sha = runs[k].body
                               /\ tok.exp <= now + TokenTTL

\* handleRunsIngest answers 202 only for a run that is in the table, whatever
\* happened to other requests, and whether or not the row existed before.
AcceptedRunsAreStored ==
    \A h \in Handlers :
        handler[h].call = "replied" /\ handler[h].status = 202
            => runs[KeyOf(handler[h].tok)] # NoRun

\* A goroutine that reaches the database holds a token this server signed, for
\* exactly the body it carries, and the body passed validation.  No token is
\* ever looked at again after that, so this has to last to the write.
WritersAreAuthorised ==
    \A h \in Handlers : handler[h].call \in Calls =>
        /\ handler[h].tok \in tokens
        /\ handler[h].body = handler[h].tok.sha
        /\ handler[h].body \in ValidPayloads

TokensAreRecent == \A tok \in tokens : tok.exp <= now + TokenTTL

\* Goroutines of one owner that have passed the quota check and not written.
PastQuotaCheck(o) ==
    {h \in Handlers : /\ handler[h].call = "UpsertRun"
                      /\ OwnerOfToken(handler[h].tok) = o}

\* CountRunsByOwnerSince and UpsertRun are two statements with no transaction
\* around them, so the daily quota is not a hard limit.  What the code does
\* guarantee: an owner never has more runs of the last day than the quota plus
\* the goroutines that can be between the two statements, less one.
QuotaOvershootIsBounded ==
    Quota > 0 => \A o \in Owners :
        Cardinality(RunsOfOwner(o)) <= Quota + Cardinality(Handlers) - 1

\* The inductive form of QuotaOvershootIsBounded.
QuotaInv ==
    Quota > 0 => \A o \in Owners :
        Cardinality(RunsOfOwner(o)) + Cardinality(PastQuotaCheck(o))
            <= Quota + Cardinality(Handlers) - 1

\* A goroutine about to write a run finds the repository row the foreign key
\* of table runs needs, so an upload is never lost to the order of the two
\* upserts, not even across a restart or a cancelled predecessor.
RunWritersHaveTheirRepo ==
    \A h \in Handlers :
        handler[h].call \in {"CountRuns", "UpsertRun"} => handler[h].tok.repo \in repos

\* The inductive invariant behind the safety properties.
IngestInv ==
    /\ TypeOK
    /\ TokensAreRecent
    /\ WritersAreAuthorised
    /\ StoredRunsWereAuthorised
    /\ AcceptedRunsAreStored
    /\ RunWritersHaveTheirRepo

\* Ingestion never deletes a run and never moves its created_at: uploading an
\* execution again, with the same token or another one, does not make the row
\* younger or older for the quota.
UploadsNeverRedateRuns ==
    [][\A k \in RunKeys : runs[k] # NoRun =>
          /\ runs'[k] # NoRun
          /\ runs'[k].createdAt = runs[k].createdAt]_runs

\* "repo_id in the key so one repo can never overwrite another's row"
\* (server/db/migrations/0006_schema.sql): a step that changes the
\* row of a repository is taken by a request whose token names it, even when
\* two repositories use the same execution id, or is enrichment's.
OnlyTheRepoWritesItsRuns ==
    [][\A k \in RunKeys : runs'[k] # runs[k] =>
          \/ MarkRunEnrichmentMatched(k)
          \/ \E h \in Handlers : /\ handler[h].call = "UpsertRun"
                                 /\ handler[h].tok.repo = k[1]
                                 /\ handler'[h] # handler[h]]_runs

\* RunIngest implements RunStore: an issued upload token is an authorisation,
\* a row of table runs a stored payload; cancelled requests, errors, quota and
\* rate limits only ever make an upload not happen.
AuthorisedUploads == {<<KeyOf(tok), tok.sha>> : tok \in tokens}
StoredPayloads == {<<k, runs[k].body>> : k \in {kk \in RunKeys : runs[kk] # NoRun}}
Abstract == INSTANCE RunStore WITH Keys <- RunKeys, Bodies <- Payloads,
                authorised <- AuthorisedUploads, stored <- StoredPayloads
ImplementsRunStore == Abstract!StoreSpec
=============================================================================
