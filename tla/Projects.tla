------------------------------ MODULE Projects ------------------------------
(***************************************************************************)
(* Creating a project: handleCreateProject of server/web/handler/server.go  *)
(* and CreateProject of internal/postgres/store.go.  In one transaction the *)
(* code tries slug after slug, "name", "name-2", "name-3", ..., until an     *)
(* INSERT is not refused with a unique violation, makes the creator a member *)
(* and commits.                                                             *)
(*                                                                         *)
(* PostgreSQL is modelled by what this use of it shows: rows appear at the  *)
(* commit; an INSERT waits for a transaction that has inserted the same slug *)
(* and fails if it commits; a transaction in which a statement failed        *)
(* refuses every other one (SQLSTATE 25P02) until it is rolled back.        *)
(*                                                                         *)
(* A slug is the sequence of its number suffixes: <<>> is "name", <<2>> is   *)
(* "name-2", which is also what the project name "Name 2" begins with.      *)
(***************************************************************************)
EXTENDS Naturals, Sequences

CONSTANTS Users,
          Requests,   \* POST /projects requests, each made once
          Names,      \* the slugs that project names are turned into by slugify
          MaxTries,   \* slugs tried, 100 in the code
          MaxFaults   \* bound: failed statements and lost answers

VARIABLES projects,  \* the slugs in table projects
          members,   \* project_members: <<slug, user>>
          request,   \* the requests
          faults

projectVars == <<projects, members, request, faults>>

\* "slug = base", or with "-%d" of i + 1.
Candidate(base, i) == IF i = 0 THEN base ELSE Append(base, i + 1)

ProjectsInit ==
    /\ projects = {} /\ members = {}
    /\ request \in [Requests -> [user : Users, base : Names, phase : {"begin"},
                                 i : {0}, aborted : {FALSE}, cause : {"none"}]]
    /\ faults = 0

SlugOf(r) == Candidate(request[r].base, request[r].i)
Goto(r, phase) == request' = [request EXCEPT ![r].phase = phase]

Begin(r) ==
    /\ request[r].phase = "begin"
    /\ Goto(r, "insert")
    /\ UNCHANGED <<projects, members, faults>>

\* Another transaction has inserted this slug and not ended.
SlugLocked(r) ==
    \E q \in Requests \ {r} : request[q].phase \in {"member", "commit"} /\ SlugOf(q) = SlugOf(r)

\* The loop goes on with the next slug, or is over.
NextSlug(r) ==
    request' = [request EXCEPT
        ![r].i = IF @ + 1 < MaxTries THEN @ + 1 ELSE @,
        ![r].aborted = TRUE,
        ![r].phase = IF request[r].i + 1 < MaxTries THEN @ ELSE "failed",
        ![r].cause = IF request[r].i + 1 < MaxTries THEN @ ELSE "slugs"]

\* INSERT INTO projects: in an aborted transaction the error is another one than
\* 23505 and ends the attempt; otherwise the slug is new, or the loop goes on.
InsertProject(r) ==
    /\ request[r].phase = "insert"
    /\ \/ /\ request[r].aborted
          /\ request' = [request EXCEPT ![r].phase = "failed", ![r].cause = "aborted"]
       \/ /\ ~request[r].aborted /\ ~SlugLocked(r)
          /\ IF SlugOf(r) \in projects THEN NextSlug(r) ELSE Goto(r, "member")
    /\ UNCHANGED <<projects, members, faults>>

\* INSERT INTO project_members, seen by others at the commit.
InsertMember(r) ==
    /\ request[r].phase = "member"
    /\ Goto(r, "commit")
    /\ UNCHANGED <<projects, members, faults>>

Committed(r) ==
    /\ request[r].phase = "commit"
    /\ projects' = projects \cup {SlugOf(r)}
    /\ members' = members \cup {<<SlugOf(r), request[r].user>>}

\* The commit, and the redirection to the project's page.
Commit(r) ==
    /\ Committed(r)
    /\ Goto(r, "created")
    /\ UNCHANGED faults

\* The database has committed, and the answer never gets there: the connection is
\* lost, or the 30 seconds of TimeoutHandler are over and have cancelled the request.
\* The user sees an error and has a project.
LoseCommit(r) ==
    /\ faults < MaxFaults
    /\ Committed(r)
    /\ Goto(r, "lost")
    /\ faults' = faults + 1

\* A statement fails, or the commit does before it took effect, and the transaction
\* is rolled back.
Fail(r) ==
    /\ faults < MaxFaults
    /\ request[r].phase \in {"begin", "insert", "member", "commit"}
    /\ request' = [request EXCEPT ![r].phase = "failed", ![r].cause = "fault"]
    /\ faults' = faults + 1
    /\ UNCHANGED <<projects, members>>

CreateProject(r) == Begin(r) \/ InsertProject(r) \/ InsertMember(r) \/ Commit(r) \/ LoseCommit(r)

ProjectsNext == \E r \in Requests : CreateProject(r) \/ Fail(r)

ProjectsSpec == ProjectsInit /\ [][ProjectsNext]_projectVars
-----------------------------------------------------------------------------
(* Properties *)

\* A project is refused for its name only when all of the slugs the loop goes
\* through are taken.
RefusedOnlyWithoutSlugs ==
    \A r \in Requests :
        request[r].phase = "failed" /\ request[r].cause # "fault" =>
            \A i \in 0..(MaxTries - 1) : Candidate(request[r].base, i) \in projects
=============================================================================
