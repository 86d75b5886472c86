----------------------------- MODULE Enrichment -----------------------------
(***************************************************************************)
(* The last stage of a pull pass: runJobEnrichment (workers/pull.go) gives  *)
(* each stored run the GitHub job it was captured in.                       *)
(*                                                                         *)
(* A pass lists the groups (run attempts) with pending runs, and for each   *)
(* reads the group's pending runs, asks GitHub for the attempt's jobs,      *)
(* matches, and writes the verdict of each run with a statement of its own. *)
(* Uploads write the same rows at any moment, what is matched included: the *)
(* attempt, the runner and the capture window of a run are those its last   *)
(* upload token names, and the pass matches what it has read before.  The   *)
(* purge and the coverage sync are earlier stages of the same goroutine, so *)
(* they only happen between two passes.                                     *)
(*                                                                         *)
(* The rows are those of one repository.  The list query orders a SELECT    *)
(* DISTINCT by a column it does not select, which PostgreSQL refuses:       *)
(* ListQueryAccepted says whether the database answers it.                  *)
(*                                                                         *)
(* Right before some definitions stands a faulty variant of them, used only *)
(* to show that the properties notice the fault.                            *)
(***************************************************************************)
EXTENDS Naturals, FiniteSets, FiniteSetsExt

CONSTANTS Executions,         \* executions of the action, each stored as one run
          Captures,           \* what upload tokens say of the capture
          Capture,            \* Capture[c]: its run attempt, runner and window
          Named,              \* Named[e]: the captures the tokens for e may name
          Untimed,            \* captures without a window
          Jobs,               \* jobs of the workflow runs on GitHub
          Job,                \* Job[j]: its run attempt, runner, start and completion
          Slack,              \* the 60 seconds a capture may stick out of its job
          EnrichmentBatch,    \* PullConfig.EnrichmentBatch
          ListQueryAccepted,  \* whether ListPendingEnrichmentGroups is answered
          MaxAborts,          \* bound on the number of aborted passes
          MaxMoves            \* bound on the uploads that name another capture

Span == [attempt : Nat, runner : Nat, start : Nat, end : Nat]
NoCapture == "no capture"

ASSUME EnrichmentAssumption ==
    /\ IsFiniteSet(Executions) /\ IsFiniteSet(Jobs)
    /\ Untimed \subseteq Captures /\ NoCapture \notin Captures
    /\ Named \in [Executions -> SUBSET Captures]
    /\ Capture \in [Captures -> Span] /\ Job \in [Jobs -> Span]
    /\ Slack \in Nat /\ EnrichmentBatch \in Nat \ {0}
    /\ MaxAborts \in Nat /\ MaxMoves \in Nat
    /\ ListQueryAccepted \in BOOLEAN

VARIABLES rows,       \* rows[e]: the run stored for e, NoRow before, Purged after
          covered,    \* whether an installation covers the repository
          completed,  \* jobs that GitHub reports as completed
          worker,     \* the pass: its stage and its locals
          aborts,     \* how many passes were aborted
          moves,      \* how often an upload named another capture
          overtaken   \* runs given another capture since the pass has listed them

enrichmentVars == <<rows, covered, completed, worker, aborts, moves, overtaken>>

-----------------------------------------------------------------------------
NoJob == "no job"
States == {"pending", "matched", "ambiguous", "unavailable"}
NoRow == [state |-> "none", job |-> NoJob, capture |-> NoCapture]
Purged == [state |-> "purged", job |-> NoJob, capture |-> NoCapture]
Attempts == {Capture[c].attempt : c \in Captures}

\* listed[e] is what the pass has read of the run e.
NothingListed == [e \in Executions |-> NoCapture]
NoPass == [stage |-> "idle", groups |-> {}, listed |-> NothingListed,
           unavailable |-> {}, ambiguous |-> {}, matched |-> {}]
Listed == {e \in Executions : worker.listed[e] # NoCapture}

Stored == {e \in Executions : rows[e].state \in States}
Pending == {e \in Stored : rows[e].state = "pending"}
AttemptOf(e) == Capture[rows[e].capture].attempt
PendingOf(g) == {e \in Pending : AttemptOf(e) = g}

EnrichmentInit ==
    /\ rows = [e \in Executions |-> NoRow]
    /\ covered \in BOOLEAN
    /\ completed = {}
    /\ worker = NoPass
    /\ aborts = 0 /\ moves = 0 /\ overtaken = {}

-----------------------------------------------------------------------------
(* What other parts of the system do to the rows.                          *)

\* Whether an upload of e that names c comes between the listing and the verdict
\* with another capture than the one listed.
Overtake(e, c) ==
    overtaken' = IF worker.listed[e] \in {NoCapture, c} THEN overtaken \ {e} ELSE overtaken \cup {e}

\* Store.UpsertRun: a new row is pending.  Uploading again overwrites the capture
\* with the one of the upload token, which nothing compares with the earlier one,
\* and the job with the one of the token, which is never set, and leaves the state
\* alone.  An upload token does not outlive the retention window.
NameCapture(e, c) ==
    /\ rows[e].state # "purged"
    /\ c \in Named[e]
    /\ IF e \in Stored /\ rows[e].capture # c THEN moves < MaxMoves /\ moves' = moves + 1
                                             ELSE UNCHANGED moves
    /\ Overtake(e, c)
    /\ UNCHANGED <<covered, completed, worker, aborts>>
\* Faulty: the job is not in the list of columns that are overwritten.
UpsertRunKeepsJob(e, c) ==
    /\ NameCapture(e, c)
    /\ rows' = [rows EXCEPT ![e] =
                  IF e \in Stored THEN [@ EXCEPT !.capture = c]
                                  ELSE [state |-> "pending", job |-> NoJob, capture |-> c]]
UpsertRun(e, c) ==
    /\ NameCapture(e, c)
    /\ rows' = [rows EXCEPT ![e] =
                  IF e \in Stored THEN [@ EXCEPT !.job = NoJob, !.capture = c]
                                  ELSE [state |-> "pending", job |-> NoJob, capture |-> c]]

\* The earlier stages of the pass: the purge, and the coverage sync.
PurgeRun(e) ==
    /\ worker = NoPass
    /\ e \in Stored
    /\ rows' = [rows EXCEPT ![e] = Purged]
    /\ overtaken' = overtaken \ {e}
    /\ UNCHANGED <<covered, completed, worker, aborts, moves>>
CoverageSync ==
    /\ worker = NoPass
    /\ covered' = ~covered
    /\ UNCHANGED <<rows, completed, worker, aborts, moves, overtaken>>

\* The post step uploads while its own job is still running.
CompleteJob(j) ==
    /\ j \notin completed
    /\ completed' = completed \union {j}
    /\ UNCHANGED <<rows, covered, worker, aborts, moves, overtaken>>

-----------------------------------------------------------------------------
(* matchJobsToRuns, for runs R and the jobs J that GitHub lists.           *)

Fits(c, j) ==
    /\ Capture[c].runner = Job[j].runner
    /\ c \notin Untimed /\ j \in completed
    /\ Capture[c].start + Slack >= Job[j].start
    /\ Capture[c].end <= Job[j].end + Slack

Matches(e, J) == {j \in J : Fits(worker.listed[e], j)}
Chosen(R, J) == {p \in R \X J : Matches(p[1], J) = {p[2]}}

Matched(R, J) == {p \in Chosen(R, J) : \A q \in Chosen(R, J) : q[2] = p[2] => q = p}

Ambiguous(R, J) == R \ {p[1] : p \in Matched(R, J)}

-----------------------------------------------------------------------------
(* The pass.                                                               *)

\* ListPendingEnrichmentGroups.  Without pending runs, or with the query
\* refused, the pass ends here and leaves everything as it was.
ListPendingEnrichmentGroups ==
    /\ worker.stage = "idle"
    /\ ListQueryAccepted
    /\ Pending # {}
    /\ LET groups == {AttemptOf(e) : e \in Pending}
       IN \E G \in SUBSET groups :
             /\ Cardinality(G) = Min({EnrichmentBatch, Cardinality(groups)})
             /\ worker' = [NoPass EXCEPT !.stage = "groups", !.groups = G]
    /\ UNCHANGED <<rows, covered, completed, aborts, moves, overtaken>>

\* The next group when all verdicts of this one are written.
AfterMark(w) ==
    CASE w.unavailable # {} \/ w.ambiguous # {} \/ w.matched # {} -> [w EXCEPT !.stage = "mark"]
      [] OTHER -> IF w.groups = {} THEN NoPass ELSE [w EXCEPT !.stage = "groups", !.listed = NothingListed]

\* GetAnyInstallationIDForRepo and ListRunsForEnrichmentGroup, which reads the
\* runner and the window of each run: without an installation every listed run is
\* unavailable.
ListRunsForEnrichmentGroup(g) ==
    /\ worker.stage = "groups"
    /\ g \in worker.groups
    /\ LET R == PendingOf(g)
           listed == [e \in Executions |-> IF e \in R THEN rows[e].capture ELSE NoCapture]
           w == [worker EXCEPT !.groups = @ \ {g}, !.listed = listed]
       IN /\ worker' = IF covered THEN [w EXCEPT !.stage = "github"]
                                  ELSE AfterMark([w EXCEPT !.unavailable = R])
          /\ overtaken' = overtaken \ R
    /\ UNCHANGED <<rows, covered, completed, aborts, moves>>

\* ListRunAttemptJobs: an error makes every listed run unavailable, an answer
\* is matched at once.  The jobs are those of the listed runs' attempt.
JobsOfTheGroup ==
    {j \in Jobs : \E e \in Listed : Job[j].attempt = Capture[worker.listed[e]].attempt}
MatchJobsToRuns ==
    worker' = AfterMark([worker EXCEPT !.ambiguous = Ambiguous(Listed, JobsOfTheGroup),
                                       !.matched = Matched(Listed, JobsOfTheGroup)])
\* Faulty: an error of GitHub is passed over.
SkipOnError ==
    /\ worker.stage = "github"
    /\ worker' = AfterMark(worker) \/ MatchJobsToRuns
    /\ UNCHANGED <<rows, covered, completed, aborts, moves, overtaken>>
ListRunAttemptJobs ==
    /\ worker.stage = "github"
    /\ worker' = AfterMark([worker EXCEPT !.unavailable = Listed]) \/ MatchJobsToRuns
    /\ UNCHANGED <<rows, covered, completed, aborts, moves, overtaken>>

\* MarkRunEnrichmentUnavailable, -Ambiguous and -Matched: one UPDATE each, of
\* the row with that id whatever its state is by then; matched runs come last.
SetState(e, state) ==
    rows' = [rows EXCEPT ![e] = IF e \in Stored THEN [@ EXCEPT !.state = state] ELSE @]
MarkUnavailable(e) ==
    /\ e \in worker.unavailable
    /\ SetState(e, "unavailable")
    /\ worker' = AfterMark([worker EXCEPT !.unavailable = @ \ {e}])
    /\ UNCHANGED <<covered, completed, aborts, moves, overtaken>>
MarkAmbiguous(e) ==
    /\ e \in worker.ambiguous
    /\ SetState(e, "ambiguous")
    /\ worker' = AfterMark([worker EXCEPT !.ambiguous = @ \ {e}])
    /\ UNCHANGED <<covered, completed, aborts, moves, overtaken>>
MarkMatched(e, j) ==
    /\ worker.ambiguous = {}
    /\ <<e, j>> \in worker.matched
    /\ rows' = [rows EXCEPT ![e] =
                  IF e \in Stored THEN [@ EXCEPT !.state = "matched", !.job = j] ELSE @]
    /\ worker' = AfterMark([worker EXCEPT !.matched = @ \ {<<e, j>>}])
    /\ UNCHANGED <<covered, completed, aborts, moves, overtaken>>

\* A statement fails or the process ends: what was written stays written.
AbortPass ==
    /\ worker.stage # "idle"
    /\ aborts < MaxAborts
    /\ aborts' = aborts + 1
    /\ worker' = NoPass
    /\ UNCHANGED <<rows, covered, completed, moves, overtaken>>

PassStep ==
    \/ ListPendingEnrichmentGroups
    \/ \E g \in Attempts : ListRunsForEnrichmentGroup(g)
    \/ ListRunAttemptJobs
    \/ \E e \in Executions : MarkUnavailable(e) \/ MarkAmbiguous(e)
    \/ \E e \in Executions, j \in Jobs : MarkMatched(e, j)

EnrichmentNext ==
    \/ PassStep
    \/ AbortPass
    \/ \E e \in Executions, c \in Captures : UpsertRun(e, c)
    \/ \E e \in Executions : PurgeRun(e)
    \/ CoverageSync
    \/ \E j \in Jobs : CompleteJob(j)

\* The pull goroutine starts a pass every fifteen minutes for as long as the
\* process lives, and a pass goes on unless it is aborted.
EnrichmentSpec == EnrichmentInit /\ [][EnrichmentNext]_enrichmentVars /\ WF_enrichmentVars(PassStep)

-----------------------------------------------------------------------------
\* A run that shows a job was captured on that job's runner, inside its window
\* and its run attempt, and the job had ended: whatever uploads, jobs and aborted
\* passes come in between, and although an upload may change what was matched.
\* The one exception is a run that an upload gives another capture after the pass
\* has listed it and before its job is written: MarkRunEnrichmentMatched asks for
\* the id alone.
MatchedRunsFitTheirJob ==
    \A e \in Stored : rows[e].job # NoJob =>
       LET c == rows[e].capture
           j == rows[e].job
       IN /\ rows[e].state = "matched"
          /\ e \notin overtaken =>
                /\ Capture[c].attempt = Job[j].attempt
                /\ Capture[c].runner = Job[j].runner
                /\ c \notin Untimed
                /\ j \in completed
                /\ Job[j].start <= Capture[c].start + Slack
                /\ Capture[c].end <= Job[j].end + Slack

\* Every stored run is settled sooner or later, or purged, when uploads change the
\* captures only so often (runJobEnrichment).
PendingRunsAreSettled ==
    \A e \in Executions : (e \in Pending) ~> (e \notin Pending)
=============================================================================
