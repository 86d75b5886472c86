--------------------------- MODULE MCPullWorkers ---------------------------
(***************************************************************************)
(* Instances of PullWorkers; the .cfg files give the constants.  One        *)
(* repository is enough for what becomes of a repository over many passes;   *)
(* what another may do to it, it does through the pages of a list.           *)
(***************************************************************************)
EXTENDS PullWorkers

CONSTANTS r1, r2

\* Two repositories: a private one, of which everything is tried, and its public
\* neighbour, which may go away and which nobody uploads or binds.
GrantsOf(r) == {i \in Installs : <<i, r>> \in installed}

PagedInit ==
    /\ PullInit
    /\ ghVis = [r \in Repos |-> IF r = r2 THEN "public" ELSE "private"]
    /\ GrantsOf(r1) # {} /\ GrantsOf(r2) = {2}

\* Before the first pass somebody gets access to the private one and somebody
\* else starts to upload; both go on for ever.
Prepared == access = {r1} /\ uploading = {r1} /\ minted = {<<r1, "private">>}

\* What only revalidation and the purge read need not be there before: uploads,
\* bindings and ticks come right before them, and bindings go again.
InDueTime ==
    /\ runs' # runs => worker.at = "purge"
    /\ bound' # {} => worker'.at \in {"revoke", "purge"}
    /\ UNCHANGED worker /\ <<coverage, lastSeen>>' # <<coverage, lastSeen>> => worker.at = "purge"

PagedNext ==
    /\ PullNext
    /\ InDueTime
    /\ ghVis' = ghVis
    /\ GrantsOf(r2)' \subseteq GrantsOf(r2)
    /\ IF Prepared THEN Prepared'
       ELSE /\ UNCHANGED <<installed, worker, lastSeen>>
            /\ access' \subseteq {r1} /\ minted' \subseteq {<<r1, "private">>}

PagedSpec == PagedInit /\ [][PagedNext]_pullVars
=============================================================================
