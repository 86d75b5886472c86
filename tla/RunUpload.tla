------------------------------ MODULE RunUpload ------------------------------
(***************************************************************************)
(* The action's post step (action/src/post.ts) uploading its run summary    *)
(* to the server of RunIngest over an unreliable network.                   *)
(*                                                                         *)
(* uploadSummary makes three calls in order, each through fetchWithRetry:   *)
(* the OIDC token from GitHub, POST /runs/token, POST /runs.  A call is     *)
(* tried at most MaxAttempts times; only 5xx answers and exceptions are     *)
(* retried, any other answer that is not 2xx ends the post step.            *)
(*                                                                         *)
(* A request can be lost before the server sees it, its answer can be lost  *)
(* after the server acted on it, and the server can give up on a request    *)
(* whose goroutine is still inside a database call.  In the last two cases  *)
(* the retry meets what the first attempt left behind.                      *)
(*                                                                         *)
(* Right before some definitions stand faulty variants of them, used only   *)
(* to show that the properties notice the fault.                            *)
(***************************************************************************)
EXTENDS RunIngest

CONSTANTS Posts,          \* running post steps
          Upload,         \* the repo, exec and sha each of them uploads
          MaxAttempts,    \* MAX_UPLOAD_ATTEMPTS
          MaxFaults,      \* bound on the number of faults
          Unretryable     \* TRUE if faults may happen that fetchWithRetry does not retry:
                          \* a 4xx answer to a token request, an answer cut off in its body

NoConn == "none"

ASSUME UploadAssumption ==
    /\ NoConn \notin Handlers
    /\ Upload \in [Posts -> [repo : Repos, exec : Executions, sha : Payloads]]
    /\ \A c, d \in Posts : c # d =>
          <<Upload[c].repo, Upload[c].exec>> # <<Upload[d].repo, Upload[d].exec>>
    /\ MaxAttempts \in Nat \ {0} /\ MaxFaults \in Nat /\ Unretryable \in BOOLEAN

VARIABLES post,     \* where each post step is in uploadSummary
          conn,     \* the goroutine serving its POST /runs, or NoConn
          held,     \* the upload token each post step has received, if any
          faults    \* how many faults have happened

postVars == <<post, conn, held, faults>>
uploadVars == <<ingestVars, postVars>>

-----------------------------------------------------------------------------
UploadKey(c) == <<Upload[c].repo, Upload[c].exec>>

UploadInit ==
    /\ IngestInit
    /\ post = [c \in Posts |-> [phase |-> "oidc", attempt |-> 1]]
    /\ conn = [c \in Posts |-> NoConn]
    /\ held = [c \in Posts |-> {}]
    /\ faults = 0

\* fetchWithRetry after a 5xx answer or an exception.  On the last attempt a
\* 5xx answer is returned and then refused by the caller, an exception is
\* rethrown: both end the post step.
GiveUpEarly(p) == IF p.attempt + 1 < MaxAttempts
                  THEN [p EXCEPT !.attempt = @ + 1]
                  ELSE [p EXCEPT !.phase = "failed"]
AfterRetryable(p) == IF p.attempt < MaxAttempts
                     THEN [p EXCEPT !.attempt = @ + 1]
                     ELSE [p EXCEPT !.phase = "failed"]

GoTo(c, phase) == post' = [post EXCEPT ![c] = [phase |-> phase, attempt |-> 1]]
Retry(c) == post' = [post EXCEPT ![c] = AfterRetryable(@)]
Fault == faults < MaxFaults /\ faults' = faults + 1

-----------------------------------------------------------------------------
\* requestOidcToken: GitHub answers with a token; or it refuses, or its answer
\* does not parse; or the call fails and is tried again.
RequestOidcToken(c) ==
    /\ post[c].phase = "oidc"
    /\ \/ GoTo(c, "token") /\ UNCHANGED faults
       \/ Unretryable /\ GoTo(c, "failed") /\ UNCHANGED faults
       \/ Retry(c) /\ Fault
    /\ UNCHANGED <<ingestVars, conn, held>>

\* requestUploadToken when the server's answer arrives.  response.json() runs
\* outside fetchWithRetry: a 200 answer cut off in its body is not retried.
RequestUploadToken(c) ==
    LET u == Upload[c]
    IN /\ post[c].phase = "token"
       /\ \/ /\ HandleRunsToken(u.repo, u.exec, u.sha, 200)
             /\ GoTo(c, "runs")
             /\ held' = [held EXCEPT ![c] = @ \union {NewToken(u.repo, u.exec, u.sha)}]
             /\ UNCHANGED faults
          \/ /\ \/ HandleRunsToken(u.repo, u.exec, u.sha, 429)
                \/ Unretryable /\ HandleRunsToken(u.repo, u.exec, u.sha, 401)
                \/ Unretryable /\ HandleRunsToken(u.repo, u.exec, u.sha, 200)
             /\ GoTo(c, "failed")
             /\ UNCHANGED <<held, faults>>
          \/ /\ \E status \in {500, 503} : HandleRunsToken(u.repo, u.exec, u.sha, status)
             /\ Retry(c)
             /\ Fault
             /\ UNCHANGED held
       /\ UNCHANGED conn

\* requestUploadToken when the request or its answer is lost: a token may have
\* been issued, and the limiter charged, for nothing.
LoseTokenExchange(c) ==
    LET u == Upload[c]
    IN /\ post[c].phase = "token"
       /\ \/ HandleRunsToken(u.repo, u.exec, u.sha, 200)
          \/ UNCHANGED ingestVars
       /\ Retry(c)
       /\ Fault
       /\ UNCHANGED <<conn, held>>

\* fetch of POST /runs: a goroutine takes the request.  The capture times are
\* the post step's own and always parse.
SendRunAgain(c) ==
    /\ post[c].phase = "runs"
    /\ \E h \in Handlers, tok \in held[c] :
          /\ ReceiveRun(h, tok, Upload[c].sha, TRUE)
          /\ conn' = [conn EXCEPT ![c] = h]
    /\ UNCHANGED <<post, held, faults>>
SendRun(c) ==
    /\ post[c].phase = "runs"
    /\ conn[c] = NoConn
    /\ \E h \in Handlers, tok \in held[c] :
          /\ ReceiveRun(h, tok, Upload[c].sha, TRUE)
          /\ conn' = [conn EXCEPT ![c] = h]
    /\ UNCHANGED <<post, held, faults>>

\* The request never reaches the server.
LoseRun(c) ==
    /\ post[c].phase = "runs"
    /\ conn[c] = NoConn
    /\ Retry(c)
    /\ Fault
    /\ UNCHANGED <<ingestVars, conn, held>>

\* The server's answer to POST /runs arrives.
ReceiveAnyReply(c) ==
    /\ conn[c] # NoConn
    /\ handler[conn[c]].call = "replied"
    /\ IF handler[conn[c]].status = 500 THEN Retry(c) ELSE GoTo(c, "done")
    /\ ResponseGone(conn[c])
    /\ conn' = [conn EXCEPT ![c] = NoConn]
    /\ UNCHANGED <<held, faults>>
ReceiveReply(c) ==
    /\ conn[c] # NoConn
    /\ handler[conn[c]].call = "replied"
    /\ LET status == handler[conn[c]].status
       IN CASE status = 202 -> GoTo(c, "done")
            [] status = 500 -> Retry(c)
            [] OTHER        -> GoTo(c, "failed")
    /\ ResponseGone(conn[c])
    /\ conn' = [conn EXCEPT ![c] = NoConn]
    /\ UNCHANGED <<held, faults>>

\* The answer is lost after the server acted.
LoseReply(c) ==
    /\ conn[c] # NoConn
    /\ ResponseGone(conn[c])
    /\ Retry(c)
    /\ Fault
    /\ conn' = [conn EXCEPT ![c] = NoConn]
    /\ UNCHANGED held

\* 503 from http.TimeoutHandler, or the connection breaks, while the goroutine
\* is still working: the post step moves on, the goroutine lives a little.
AbandonRunSilently(c) ==
    /\ conn[c] # NoConn
    /\ CancelRun(conn[c])
    /\ Fault
    /\ UNCHANGED <<post, conn, held>>
AbandonRun(c) ==
    /\ conn[c] # NoConn
    /\ CancelRun(conn[c])
    /\ Retry(c)
    /\ Fault
    /\ conn' = [conn EXCEPT ![c] = NoConn]
    /\ UNCHANGED held

\* A goroutine takes its next step.  An error on a live request is a fault.
ServeRun(h) ==
    /\ \/ (HandleUpsertRepo(h) \/ HandleCountRuns(h) \/ HandleUpsertRun(h)) /\ UNCHANGED faults
       \/ HandleDatabaseError(h) /\ handler[h].live /\ Fault
       \/ HandleDatabaseError(h) /\ ~handler[h].live /\ UNCHANGED faults
    /\ UNCHANGED <<post, conn, held>>

\* The instance restarts under every open connection.
RestartServer ==
    /\ Restart
    /\ Fault
    /\ post' = [c \in Posts |-> IF conn[c] = NoConn THEN post[c]
                                                   ELSE AfterRetryable(post[c])]
    /\ conn' = [c \in Posts |-> NoConn]
    /\ UNCHANGED held

PostStep(c) ==
    \/ RequestOidcToken(c) \/ RequestUploadToken(c) \/ LoseTokenExchange(c)
    \/ SendRun(c) \/ LoseRun(c)
    \/ ReceiveReply(c) \/ LoseReply(c) \/ AbandonRun(c)

UploadNext ==
    \/ \E c \in Posts : PostStep(c)
    \/ \E h \in Handlers : ServeRun(h)
    \/ RestartServer
    \/ \E k \in RunKeys : MarkRunEnrichmentMatched(k) /\ UNCHANGED postVars
    \/ Tick /\ UNCHANGED postVars

UploadSpec == UploadInit /\ [][UploadNext]_uploadVars

\* The post step's event loop and the server's scheduler keep running: a post
\* step that can move does, and so does a goroutine.
UploadFairness ==
    /\ \A c \in Posts : WF_uploadVars(PostStep(c))
    /\ \A h \in Handlers : WF_uploadVars(ServeRun(h))

FairUploadSpec == UploadSpec /\ UploadFairness

-----------------------------------------------------------------------------
(* Properties *)

\* Whatever was lost, retried, cancelled or restarted on the way: the row under
\* a post step's key is absent or holds exactly its summary, and a post step
\* that logged "uploaded run summary successfully" has its row.
UploadsStoreTheirOwnSummary ==
    \A c \in Posts :
        /\ runs[UploadKey(c)] # NoRun => runs[UploadKey(c)].body = Upload[c].sha
        /\ post[c].phase = "done" => runs[UploadKey(c)] # NoRun

\* The post step is past its first POST /runs: it has sent it again, or ended.
BeyondFirstAttempt(c) == \/ post[c].phase \in {"done", "failed"}
                         \/ post[c].phase = "runs" /\ post[c].attempt > 1

\* What a request does that meets the row of an earlier attempt, be it a retry
\* or an abandoned goroutine whose statement commits late: the run stays, with
\* its summary and its age.  The one thing it takes away is the job that
\* enrichment has found in between (ON CONFLICT DO UPDATE SET github_job_id),
\* and as long as the first POST /runs is under way nothing does that.
RetriesKeepTheRun ==
    [][\A c \in Posts : LET old == runs[UploadKey(c)]
                           new == runs'[UploadKey(c)]
       IN old # NoRun =>
            /\ new # NoRun /\ new.body = old.body /\ new.createdAt = old.createdAt
            /\ old.job = "shown" /\ new.job = "none" => BeyondFirstAttempt(c)]_runs

\* A post step that fails although its run is stored was misled by a retry, say
\* one refused with 429 because the stored run has filled the quota, or has lost
\* its last answer: an answer to the first POST /runs never says otherwise than
\* the table does.
FirstAnswersAreTrue ==
    [][\A c \in Posts :
          /\ post[c].phase # "failed" /\ post'[c].phase = "failed"
          /\ runs[UploadKey(c)] # NoRun
          => BeyondFirstAttempt(c) \/ faults' # faults]_uploadVars

\* "Logs errors/warnings and continues (fail-open behavior)" (action/README.md):
\* every post step ends, however the server, the network or GitHub behave.
EveryUploadEnds == \A c \in Posts : <>(post[c].phase \in {"done", "failed"})

\* A fault or an answer of 500 ends a post step only if it is at least the
\* MaxAttempts-th since the start: up to then every combination of lost requests,
\* lost answers, time-outs, database errors and restarts is tried again
\* (fetchWithRetry), although one of them may hit several post steps at once.
FaultsAreOutlasted ==
    [][\A c \in Posts :
          /\ post[c].phase # "failed" /\ post'[c].phase = "failed"
          /\ faults' # faults \/ (conn[c] # NoConn /\ handler[conn[c]].status = 500)
          => faults' >= MaxAttempts]_uploadVars
=============================================================================
