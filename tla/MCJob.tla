------------------------------- MODULE MCJob -------------------------------
(***************************************************************************)
(* The action in a job: what becomes of the lines the agent's backend       *)
(* prints, what the lineages read from /proc make of the job's processes,   *)
(* and the upload of the summary.  The upload takes any summary, and the    *)
(* three share nothing else that one of them writes, so a behaviour is      *)
(* about one of them, and the others rest: the states are the sum of        *)
(* theirs.  In the upload, two post steps of one owner; their repositories  *)
(* differ and their execution ids are the same.                             *)
(***************************************************************************)
EXTENDS RunUpload, AgentRun, Lineage

CONSTANTS r1, r2, o1, e1, s1, s2, h1, h2, p1, p2

VARIABLE part

jobVars == <<part, uploadVars, agentVars, lineageVars>>

MCOwnerOf == [r \in Repos |-> o1]
MCUpload == [c \in Posts |-> IF c = p1 THEN [repo |-> r1, exec |-> e1, sha |-> s1]
                                       ELSE [repo |-> r2, exec |-> e1, sha |-> s2]]

Capturing(A) == part = "capture" /\ A /\ UNCHANGED <<part, uploadVars, lineageVars>>
Tracing(A) == part = "lineage" /\ A /\ UNCHANGED <<part, uploadVars, agentVars>>
Uploading(A) == part = "upload" /\ A /\ UNCHANGED <<part, agentVars, lineageVars>>

JobInit ==
    /\ part \in {"capture", "lineage", "upload"}
    /\ AgentInit /\ LineageInit /\ UploadInit

JobNext ==
    \/ Capturing(AgentNext)
    \/ Tracing(LineageNext)
    \/ Uploading(UploadNext)

\* The fairness of StuckAgentSpec and of FairUploadSpec.
JobSpec ==
    /\ JobInit /\ [][JobNext]_jobVars
    /\ WF_jobVars(Capturing(ActionStep))
    /\ \A c \in Posts : WF_jobVars(Uploading(PostStep(c)))
    /\ \A h \in Handlers : WF_jobVars(Uploading(ServeRun(h)))

\* JobGoesOn for the behaviours that are about the capture: the main and the post
\* step come to their end whatever the agent does (waitForProcessExitOrSummary).
StuckAgentsAreLeftBehind == part = "capture" => JobGoesOn

\* EveryUploadEnds for the behaviours that are about the upload: every post step
\* is done or has failed sooner or later (fetchWithRetry).
UploadsEnd == part = "upload" => EveryUploadEnds
=============================================================================
