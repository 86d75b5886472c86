------------------------------ MODULE AgentRun ------------------------------
(***************************************************************************)
(* One job's capture: the agent (run, CaptureBackend and write_summary_json *)
(* of agent/src/main.rs), its bpftrace child and the threads that read the  *)
(* child's output, the action's main step that waits for readiness           *)
(* (waitForAgentReadiness of action/src/main.ts) and its post step that      *)
(* stops the agent and reads the summary (stopAgentIfRunning,                *)
(* waitForProcessExitOrSummary and readSummary of action/src/post.ts).      *)
(*                                                                         *)
(* The agent, the child, the reader threads and the action run concurrently *)
(* and see of each other a signal, a pipe, and the existence of files.  A   *)
(* line of the child stands for one event: lines that do not parse differ    *)
(* only in the counter they end up in.  The channel and pending_messages,   *)
(* which are filled, emptied and dropped together, are one queue.  A reader  *)
(* whose pipe gives an error, as it does for a line that is not UTF-8, ends   *)
(* there and says nothing; what it has not read by then stays unread.         *)
(*                                                                         *)
(* Right before some definitions stands a faulty variant of them, used only *)
(* to show that the properties notice the fault.                            *)
(***************************************************************************)
EXTENDS Naturals

CONSTANTS MaxEvents,    \* cfg.max_events
          MaxEmitted    \* bound: lines the child prints

ASSUME AgentAssumption == {MaxEvents, MaxEmitted} \subseteq Nat

VARIABLES agent,    \* where the agent is
          signal,   \* SHUTDOWN_REQUESTED
          child,    \* bpftrace, and the sudo it may run under
          lines,    \* printed so far, not read, in the queue; the readers still reading
          counts,   \* the summary's event and drop counts, errors, a drain cut short
          file,     \* the summary file
          ready,    \* the readiness file exists
          main,     \* the main step
          postStep, \* the post step
          payload   \* what the post step has read

agentVars == <<agent, signal, child, lines, counts, file, ready, main, postStep, payload>>
action == <<main, postStep, payload>>

AgentInit ==
    /\ agent = "launched"
    /\ signal = FALSE
    /\ child = "none"
    /\ lines = [printed |-> 0, pipe |-> 0, queue |-> 0, readers |-> {"stdout", "stderr"}]
    /\ counts = [events |-> 0, dropped |-> 0, errors |-> FALSE, cut |-> FALSE]
    /\ file = "absent"
    /\ ready = FALSE
    /\ main = "waiting"
    /\ postStep = "later"
    /\ payload = "none"
-----------------------------------------------------------------------------
(* The agent *)

\* install_signal_handlers: from here on SIGTERM sets the flag instead of killing.
InstallHandlers ==
    /\ agent = "launched"
    /\ agent' = "starting"
    /\ UNCHANGED <<signal, child, lines, counts, file, ready, action>>

\* start_capture_backend, and the readiness file once a child is attached.
StartBackend ==
    /\ agent = "starting"
    /\ \/ /\ agent' = "check" /\ child' = "running"
          /\ \/ ready' = TRUE /\ UNCHANGED counts
             \/ UNCHANGED ready /\ counts' = [counts EXCEPT !.errors = TRUE]
       \/ /\ agent' = "write"
          /\ counts' = [counts EXCEPT !.errors = TRUE]
          /\ UNCHANGED <<child, ready>>
    /\ UNCHANGED <<signal, lines, file, action>>

\* The head of the loop: shutdown_requested.
CheckShutdown ==
    /\ agent = "check"
    /\ agent' = IF signal THEN "stop" ELSE "poll"
    /\ UNCHANGED <<signal, child, lines, counts, file, ready, action>>

\* Faulty: a child that has ended is not reported.
PollBackendQuietly ==
    /\ agent = "poll"
    /\ IF child = "exited"
       THEN agent' = "write" /\ lines' = [lines EXCEPT !.queue = 0]
       ELSE agent' = "recv" /\ UNCHANGED lines
    /\ UNCHANGED <<signal, child, counts, file, ready, action>>

\* try_wait: a child that has ended, and with it the queue, is given up; the
\* round after finds no backend and leaves the loop.
PollBackend ==
    /\ agent = "poll"
    /\ IF child = "exited"
       THEN /\ agent' = "write"
            /\ counts' = [counts EXCEPT !.errors = TRUE]
            /\ lines' = [lines EXCEPT !.queue = 0]
       ELSE /\ agent' = "recv"
            /\ UNCHANGED <<counts, lines>>
    /\ UNCHANGED <<signal, child, file, ready, action>>

\* One message becomes an event, or a dropped one when the summary is full.
TakeMessage ==
    /\ lines.queue > 0
    /\ lines' = [lines EXCEPT !.queue = @ - 1]
    /\ counts' = IF counts.events < MaxEvents THEN [counts EXCEPT !.events = @ + 1]
                                              ELSE [counts EXCEPT !.dropped = @ + 1]

\* Both reader threads have ended, at the end of their pipe or at an error, and
\* with them the senders of the channel.
Disconnected ==
    /\ lines.queue = 0
    /\ (child = "exited" /\ lines.pipe = 0) \/ "stdout" \notin lines.readers
    /\ child = "exited" \/ "stderr" \notin lines.readers

\* recv_message with its 200 ms: a message, nothing, or the channel is closed.
RecvMessage ==
    /\ agent = "recv"
    /\ \/ TakeMessage /\ agent' = "check"
       \/ /\ lines.queue = 0 /\ ~Disconnected
          /\ agent' = "check" /\ UNCHANGED <<lines, counts>>
       \/ /\ Disconnected
          /\ agent' = "write"
          /\ counts' = [counts EXCEPT !.errors = TRUE] /\ UNCHANGED lines
    /\ UNCHANGED <<signal, child, file, ready, action>>

\* CaptureBackend::stop: the child is killed and waited for, for a while.
StopBackend ==
    /\ agent = "stop"
    /\ agent' = "drain"
    /\ \/ child' = "exited" /\ UNCHANGED counts
       \/ UNCHANGED <<child, counts>>
       \/ UNCHANGED child /\ counts' = [counts EXCEPT !.errors = TRUE]
    /\ UNCHANGED <<signal, lines, file, ready, action>>

\* The 700 ms after that: messages are taken until the readers are through, or
\* the time is.
Drain ==
    /\ agent = "drain"
    /\ \/ TakeMessage /\ UNCHANGED agent
       \/ Disconnected /\ agent' = "write" /\ UNCHANGED <<lines, counts>>
       \/ /\ ~Disconnected
          /\ agent' = "write"
          /\ counts' = [counts EXCEPT !.cut = TRUE] /\ UNCHANGED lines
    /\ UNCHANGED <<signal, child, file, ready, action>>

\* write_summary_json: File::create, then everything else up to the flush.  An
\* error ends the agent with the file as it is.
CreateSummary ==
    /\ agent = "write" /\ file = "absent"
    /\ \/ file' = "partial" /\ UNCHANGED agent
       \/ agent' = "exited" /\ UNCHANGED file
    /\ UNCHANGED <<signal, child, lines, counts, ready, action>>

FlushSummary ==
    /\ agent = "write" /\ file = "partial"
    /\ file' \in {"partial", "complete"}
    /\ agent' = "exited"
    /\ UNCHANGED <<signal, child, lines, counts, ready, action>>

AgentStep == \/ InstallHandlers \/ StartBackend \/ CheckShutdown \/ PollBackend \/ RecvMessage
             \/ StopBackend \/ Drain \/ CreateSummary \/ FlushSummary
-----------------------------------------------------------------------------
(* The child and the threads that read its output *)

PrintLine ==
    /\ child = "running" /\ lines.printed < MaxEmitted
    /\ lines' = [lines EXCEPT !.printed = @ + 1, !.pipe = @ + 1]
    /\ UNCHANGED <<agent, signal, child, counts, file, ready, action>>

\* stream_lines: a line is sent to the agent.
ReadLine ==
    /\ lines.pipe > 0 /\ "stdout" \in lines.readers /\ agent # "exited"
    /\ lines' = [lines EXCEPT !.pipe = @ - 1, !.queue = @ + 1]
    /\ UNCHANGED <<agent, signal, child, counts, file, ready, action>>

\* stream_lines: read_line returns an error, and the reader leaves its loop.
ReaderFails ==
    /\ agent # "exited"
    /\ \E s \in lines.readers :
          /\ s = "stdout" => lines.pipe > 0
          /\ s = "stderr" => child = "running"
          /\ lines' = [lines EXCEPT !.readers = @ \ {s}]
    /\ UNCHANGED <<agent, signal, child, counts, file, ready, action>>

ChildExits ==
    /\ child = "running"
    /\ child' = "exited"
    /\ UNCHANGED <<agent, signal, lines, counts, file, ready, action>>
-----------------------------------------------------------------------------
(* The action *)

\* waitForAgentReadiness: the file, the end of the agent, or the time limit.
WaitForAgentReadiness ==
    /\ main = "waiting"
    /\ main' \in (IF ready THEN {"ready"} ELSE {})
                 \cup (IF ~ready /\ agent = "exited" THEN {"gone"} ELSE {})
                 \cup {"timeout"}
    /\ UNCHANGED <<agent, signal, child, lines, counts, file, ready, postStep, payload>>

\* stopAgentIfRunning after the job's own steps: SIGTERM, unless the agent is gone.
StopAgent ==
    /\ postStep = "later" /\ main # "waiting"
    /\ postStep' = IF agent = "exited" THEN "read" ELSE "wait"
    /\ IF agent = "launched" THEN agent' = "exited" /\ UNCHANGED signal
       ELSE signal' = (signal \/ agent # "exited") /\ UNCHANGED agent
    /\ UNCHANGED <<child, lines, counts, file, ready, main, payload>>

\* Faulty: only the end of the process ends the wait.
WaitForProcessExit ==
    /\ postStep = "wait"
    /\ agent = "exited"
    /\ postStep' = "read"
    /\ UNCHANGED <<agent, signal, child, lines, counts, file, ready, main, payload>>

\* waitForProcessExitOrSummary: the process has ended or the file exists; or the
\* 20 seconds are over and neither is seen.
WaitForProcessExitOrSummary ==
    /\ postStep = "wait"
    /\ postStep' = IF agent = "exited" \/ file # "absent" THEN "read" ELSE "kill"
    /\ UNCHANGED <<agent, signal, child, lines, counts, file, ready, main, payload>>

\* SIGKILL, after what was seen.
KillAgent ==
    /\ postStep = "kill"
    /\ agent' = "exited"
    /\ postStep' = "read"
    /\ UNCHANGED <<signal, child, lines, counts, file, ready, main, payload>>

\* readSummary, and the end of the step: there is no upload without a file.
ReadSummary ==
    /\ postStep = "read"
    /\ payload' = IF file = "absent" THEN "none" ELSE file
    /\ postStep' = "done"
    /\ UNCHANGED <<agent, signal, child, lines, counts, file, ready, main>>

ActionStep == \/ WaitForAgentReadiness \/ StopAgent \/ WaitForProcessExitOrSummary
              \/ KillAgent \/ ReadSummary

AgentNext == AgentStep \/ PrintLine \/ ReadLine \/ ReaderFails \/ ChildExits \/ ActionStep

\* The action's steps go on, with an agent that may get stuck anywhere, on a full
\* disk or a blocked pipe.
StuckAgentSpec == AgentInit /\ [][AgentNext]_agentVars /\ WF_agentVars(ActionStep)
-----------------------------------------------------------------------------
(* Properties *)

\* A finished summary without errors has every line the agent's readers read and
\* it took, as an event or in a drop counter, and it lacks only lines that were
\* left unread: by a drain out of time, or by a reader that met an error.  These
\* two losses the summary does not report; every other one it does (run_errors).
OnlyUnreadLinesAreLost ==
    file = "complete" /\ ~counts.errors =>
        /\ counts.events + counts.dropped + lines.pipe + lines.queue = lines.printed
        /\ lines.pipe + lines.queue > 0 => counts.cut \/ "stdout" \notin lines.readers

\* The job is never held up: whatever the agent does or fails to do, the main and
\* the post step come to their end.
JobGoesOn == <>(postStep = "done")

\* The post step does not read a summary that the agent is still writing: "summary
\* file appeared before process exit; skipping SIGKILL to avoid truncating output"
\* (action/src/post.ts).
SummariesAreReadWhole == payload = "partial" => agent = "exited"
=============================================================================
