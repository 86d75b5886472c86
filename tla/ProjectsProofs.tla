--------------------------- MODULE ProjectsProofs ---------------------------
(***************************************************************************)
(* What CreateProject does guarantee, for every set of users, requests and  *)
(* names, any number of slugs tried and of failed statements.               *)
(***************************************************************************)
EXTENDS Projects, TLAPS

\* The transaction of r has inserted its slug and not ended.
Holds(r) == request[r].phase \in {"member", "commit"}

RequestsOK ==
    request \in [Requests -> [user : Users, base : Names,
                              phase : {"begin", "insert", "member", "commit", "created", "lost", "failed"},
                              i : Nat, aborted : BOOLEAN, cause : {"none", "fault", "aborted", "slugs"}]]

\* Two requests do not hold one slug, and a slug that is held is not taken yet.
HeldSlugsAreNew ==
    \A r \in Requests : Holds(r) =>
        /\ SlugOf(r) \notin projects
        /\ \A q \in Requests : Holds(q) /\ SlugOf(q) = SlugOf(r) => q = r

\* The transaction of r has committed, whether or not the user was told.
Made(r) == request[r].phase \in {"created", "lost"}

\* Behind each project is exactly one request, whatever failed or was tried at the same
\* time, and that request's user is the project's only member: a project is never there
\* without its owner, nor its owner in another one's project.  A request that was told
\* its project was created has it, and so has one whose commit was not answered; every
\* other one has left nothing.
CreatedProjectsAreOwned ==
    /\ projects = {SlugOf(r) : r \in {q \in Requests : Made(q)}}
    /\ members = {<<SlugOf(r), request[r].user>> : r \in {q \in Requests : Made(q)}}
    /\ \A r, q \in Requests : Made(r) /\ Made(q) /\ SlugOf(r) = SlugOf(q) => r = q

\* No slug but the first is ever used: a project gets the slug of its name without a
\* number, or is refused because that slug was taken.  The other 99 turns of the loop
\* meet an aborted transaction.
FirstSlugOrNone ==
    \A r \in Requests :
        /\ Made(r) => SlugOf(r) = request[r].base
        /\ request[r].phase = "failed" /\ request[r].cause # "fault" => request[r].base \in projects

\* A transaction that has not failed is at its first slug, and one that has ends without
\* having inserted anything.
OnlyTheFirstIsTried ==
    \A r \in Requests :
        /\ ~request[r].aborted => request[r].i = 0
        /\ request[r].aborted => /\ request[r].phase \in {"insert", "failed"}
                                 /\ request[r].base \in projects
        /\ request[r].phase = "failed" /\ request[r].cause # "fault" => request[r].aborted

ProjectsInv == RequestsOK /\ HeldSlugsAreNew /\ CreatedProjectsAreOwned /\ OnlyTheFirstIsTried

-----------------------------------------------------------------------------
\* What the types say of one request.
LEMMA RequestType ==
    ASSUME ProjectsInv, NEW r \in Requests
    PROVE  /\ request \in [Requests -> [user : Users, base : Names,
                              phase : {"begin", "insert", "member", "commit", "created", "lost", "failed"},
                              i : Nat, aborted : BOOLEAN, cause : {"none", "fault", "aborted", "slugs"}]]
           /\ request[r].user \in Users /\ request[r].base \in Names /\ request[r].i \in Nat
           /\ request[r].aborted \in BOOLEAN
           /\ request[r].cause \in {"none", "fault", "aborted", "slugs"}
           /\ DOMAIN request[r] = {"user", "base", "phase", "i", "aborted", "cause"}
BY DEF ProjectsInv, RequestsOK

\* A step of r that creates no project keeps the invariant: it stays within the types and
\* what is tried, and if it comes to hold a slug, that one is new and free.
LEMMA NothingIsCreated ==
    ASSUME ProjectsInv, NEW r \in Requests, NEW next, RequestsOK',
           request' = [request EXCEPT ![r] = next], UNCHANGED <<projects, members>>,
           next.user = request[r].user, next.base = request[r].base,
           ~Made(r), next.phase \notin {"created", "lost"},
           next.phase \in {"member", "commit"} =>
               /\ next.i = request[r].i
               /\ Holds(r) \/ (SlugOf(r) \notin projects /\ ~SlugLocked(r)),
           ~next.aborted => next.i = 0,
           next.aborted => next.phase \in {"insert", "failed"} /\ next.base \in projects,
           next.phase = "failed" /\ next.cause # "fault" => next.aborted
    PROVE  ProjectsInv'
<1>1. request'[r] = next /\ \A q \in Requests : q # r => request'[q] = request[q]
  BY RequestType
<1>2. \A q \in Requests : q # r => SlugOf(q)' = SlugOf(q) /\ Holds(q)' = Holds(q)
  BY <1>1 DEF SlugOf, Holds
<1>3. Holds(r)' => SlugOf(r)' = SlugOf(r) /\ (Holds(r) \/ (SlugOf(r) \notin projects /\ ~SlugLocked(r)))
  BY <1>1 DEF SlugOf, Holds
<1>4. HeldSlugsAreNew'
  <2>1. ASSUME NEW s \in Requests, Holds(s)' PROVE SlugOf(s)' \notin projects'
    BY <1>2, <1>3, <2>1 DEF ProjectsInv, HeldSlugsAreNew
  <2>2. ASSUME NEW s \in Requests, NEW q \in Requests, Holds(s)', Holds(q)', SlugOf(q)' = SlugOf(s)'
        PROVE  q = s
    <3>1. SUFFICES ASSUME q # s PROVE FALSE
      OBVIOUS
    <3>2. SlugOf(q) = SlugOf(s)
      BY <1>2, <1>3, <2>2
    <3>3. CASE Holds(q) /\ Holds(s)
      BY <3>1, <3>2, <3>3 DEF ProjectsInv, HeldSlugsAreNew
    <3>4. CASE s = r /\ ~SlugLocked(r)
      BY <1>2, <2>2, <3>1, <3>2, <3>4 DEF SlugLocked, Holds
    <3>5. CASE q = r /\ ~SlugLocked(r)
      BY <1>2, <2>2, <3>1, <3>2, <3>5 DEF SlugLocked, Holds
    <3>6. QED
      BY <1>2, <1>3, <2>2, <3>1, <3>3, <3>4, <3>5
  <2>3. QED
    BY <2>1, <2>2 DEF HeldSlugsAreNew
<1>5. CreatedProjectsAreOwned'
  <2> DEFINE C == {q \in Requests : Made(q)}
  <2>1. C' = C
    BY <1>1 DEF Made
  <2>2. \A q \in C : q # r /\ q \in Requests /\ SlugOf(q)' = SlugOf(q) /\ request'[q].user = request[q].user
    BY <1>1, <1>2
  <2>3. projects = {SlugOf(q) : q \in C} /\ members = {<<SlugOf(q), request[q].user>> : q \in C}
    BY DEF ProjectsInv, CreatedProjectsAreOwned
  <2>4. \A s, q \in C : SlugOf(s) = SlugOf(q) => s = q
    BY DEF ProjectsInv, CreatedProjectsAreOwned
  <2>5. C' = {q \in Requests : Made(q)'}
    OBVIOUS
  <2> HIDE DEF C
  <2>6. projects' = {SlugOf(q)' : q \in C} /\ members' = {<<SlugOf(q)', request'[q].user>> : q \in C}
    BY <2>2, <2>3
  <2>7. \A s, q \in C : SlugOf(s)' = SlugOf(q)' => s = q
    BY <2>2, <2>4
  <2>8. \A q \in Requests : Made(q)' <=> q \in C
    BY <2>1, <2>5
  <2>9. QED
    BY <2>1, <2>5, <2>6, <2>7, <2>8 DEF CreatedProjectsAreOwned
<1>6. OnlyTheFirstIsTried'
  BY <1>1 DEF ProjectsInv, OnlyTheFirstIsTried
<1>7. QED
  BY <1>4, <1>5, <1>6 DEF ProjectsInv

\* Statements before the commit.
LEMMA StatementsKeep ==
    ASSUME ProjectsInv, NEW r \in Requests, Begin(r) \/ InsertProject(r) \/ InsertMember(r) \/ Fail(r)
    PROVE  ProjectsInv'
<1>1. PICK next : next = request'[r]
  OBVIOUS
<1>2. /\ ~request[r].aborted => request[r].i = 0
      /\ request[r].aborted => request[r].phase \in {"insert", "failed"} /\ request[r].base \in projects
  BY DEF ProjectsInv, OnlyTheFirstIsTried
<1>3. CASE Begin(r)
  <2>1. request' = [request EXCEPT ![r] = next] /\ next = [request[r] EXCEPT !.phase = "insert"]
    BY <1>1, <1>3, RequestType DEF Begin, Goto
  <2>2. RequestsOK' /\ UNCHANGED <<projects, members>> /\ request[r].phase = "begin" /\ ~Made(r)
    BY <1>3, <2>1, RequestType DEF RequestsOK, Begin, Made
  <2>3. /\ next.user = request[r].user /\ next.base = request[r].base /\ next.i = request[r].i
        /\ next.aborted = request[r].aborted /\ next.phase = "insert"
    BY <2>1, RequestType
  <2>4. QED
    BY <1>2, <2>1, <2>2, <2>3, NothingIsCreated
<1>4. CASE InsertMember(r)
  <2>1. request' = [request EXCEPT ![r] = next] /\ next = [request[r] EXCEPT !.phase = "commit"]
    BY <1>1, <1>4, RequestType DEF InsertMember, Goto
  <2>2. RequestsOK' /\ UNCHANGED <<projects, members>> /\ request[r].phase = "member" /\ ~Made(r)
    BY <1>4, <2>1, RequestType DEF RequestsOK, InsertMember, Made
  <2>3. /\ next.user = request[r].user /\ next.base = request[r].base /\ next.i = request[r].i
        /\ next.aborted = request[r].aborted /\ next.phase = "commit"
    BY <2>1, RequestType
  <2>4. QED
    BY <1>2, <2>1, <2>2, <2>3, NothingIsCreated DEF Holds
<1>5. CASE Fail(r)
  <2>1. /\ request' = [request EXCEPT ![r] = next]
        /\ next = [request[r] EXCEPT !.phase = "failed", !.cause = "fault"]
    BY <1>1, <1>5, RequestType DEF Fail
  <2>2. /\ RequestsOK' /\ UNCHANGED <<projects, members>>
        /\ request[r].phase \in {"begin", "insert", "member", "commit"} /\ ~Made(r)
    BY <1>5, <2>1, RequestType DEF RequestsOK, Fail, Made
  <2>3. /\ next.user = request[r].user /\ next.base = request[r].base /\ next.i = request[r].i
        /\ next.aborted = request[r].aborted /\ next.phase = "failed" /\ next.cause = "fault"
    BY <2>1, RequestType
  <2>4. QED
    BY <1>2, <2>1, <2>2, <2>3, NothingIsCreated
<1>6. CASE InsertProject(r)
  <2>1. request[r].phase = "insert" /\ ~Made(r) /\ UNCHANGED <<projects, members>>
    BY <1>6 DEF InsertProject, Made
  <2>2. CASE request[r].aborted
    <3>1. /\ request' = [request EXCEPT ![r] = next]
          /\ next = [request[r] EXCEPT !.phase = "failed", !.cause = "aborted"]
      BY <1>1, <1>6, <2>2, RequestType DEF InsertProject
    <3>2. RequestsOK'
      BY <3>1, RequestType DEF RequestsOK
    <3>3. /\ next.user = request[r].user /\ next.base = request[r].base /\ next.i = request[r].i
          /\ next.aborted = request[r].aborted /\ next.phase = "failed"
      BY <3>1, RequestType
    <3>4. QED
      BY <1>2, <2>1, <2>2, <3>1, <3>2, <3>3, NothingIsCreated
  <2>3. CASE ~request[r].aborted /\ SlugOf(r) \notin projects
    <3>1. /\ request' = [request EXCEPT ![r] = next] /\ next = [request[r] EXCEPT !.phase = "member"]
          /\ ~SlugLocked(r)
      BY <1>1, <1>6, <2>3, RequestType DEF InsertProject, Goto
    <3>2. RequestsOK'
      BY <3>1, RequestType DEF RequestsOK
    <3>3. /\ next.user = request[r].user /\ next.base = request[r].base /\ next.i = request[r].i
          /\ next.aborted = request[r].aborted /\ next.phase = "member"
      BY <3>1, RequestType
    <3>4. QED
      BY <1>2, <2>1, <2>3, <3>1, <3>2, <3>3, NothingIsCreated
  <2>4. CASE ~request[r].aborted /\ SlugOf(r) \in projects
    <3>1. request[r].base \in projects
      BY <1>2, <2>4 DEF SlugOf, Candidate
    <3>2. PICK j, phase, cause :
             /\ j \in Nat /\ phase \in {"insert", "failed"} /\ cause \in {"none", "fault", "aborted", "slugs"}
             /\ next = [request[r] EXCEPT !.i = j, !.aborted = TRUE, !.phase = phase, !.cause = cause]
             /\ request' = [request EXCEPT ![r] = next]
      <4>1. NextSlug(r)
        BY <1>6, <2>4 DEF InsertProject
      <4>2. request[r].i + 1 \in Nat
        BY RequestType
      <4>3. CASE request[r].i + 1 < MaxTries
        <5>1. /\ next = [request[r] EXCEPT !.i = request[r].i + 1, !.aborted = TRUE,
                                           !.phase = "insert", !.cause = request[r].cause]
              /\ request' = [request EXCEPT ![r] = next]
          BY <1>1, <2>1, <4>1, <4>3, RequestType DEF NextSlug
        <5>2. QED
          BY <4>2, <5>1, RequestType
      <4>4. CASE ~(request[r].i + 1 < MaxTries)
        <5>1. /\ next = [request[r] EXCEPT !.i = request[r].i, !.aborted = TRUE,
                                           !.phase = "failed", !.cause = "slugs"]
              /\ request' = [request EXCEPT ![r] = next]
          BY <1>1, <2>1, <4>1, <4>4, RequestType DEF NextSlug
        <5>2. QED
          BY <5>1, RequestType
      <4>5. QED
        BY <4>3, <4>4
    <3>3. RequestsOK'
      BY <3>2, RequestType DEF RequestsOK
    <3>4. /\ next.user = request[r].user /\ next.base = request[r].base /\ next.aborted = TRUE
          /\ next.phase \in {"insert", "failed"}
      BY <3>2, RequestType
    <3>5. QED
      BY <2>1, <3>1, <3>2, <3>3, <3>4, NothingIsCreated
  <2>5. QED
    BY <2>2, <2>3, <2>4
<1>7. QED
  BY <1>3, <1>4, <1>5, <1>6

\* The commit, answered or not.
LEMMA CommitKeeps ==
    ASSUME ProjectsInv, NEW r \in Requests, Commit(r) \/ LoseCommit(r)
    PROVE  ProjectsInv'
<1>1. /\ request[r].phase = "commit" /\ Holds(r)
      /\ projects' = projects \cup {SlugOf(r)}
      /\ members' = members \cup {<<SlugOf(r), request[r].user>>}
  BY DEF Commit, LoseCommit, Committed, Holds
<1> PICK phase \in {"created", "lost"} : request' = [request EXCEPT ![r].phase = phase]
  BY DEF Commit, LoseCommit, Goto
<1>2. /\ request'[r] = [request[r] EXCEPT !.phase = phase]
      /\ \A q \in Requests : q # r => request'[q] = request[q]
  BY <1>1, RequestType
<1>3. /\ \A q \in Requests : SlugOf(q)' = SlugOf(q) /\ request'[q].user = request[q].user
      /\ \A q \in Requests : q # r => Holds(q)' = Holds(q)
      /\ ~Holds(r)'
  BY <1>2, RequestType DEF SlugOf, Holds
<1>4. RequestsOK'
  BY <1>1, RequestType DEF RequestsOK
<1>5. HeldSlugsAreNew'
  BY <1>1, <1>3 DEF ProjectsInv, HeldSlugsAreNew
<1>6. CreatedProjectsAreOwned'
  <2> DEFINE C == {q \in Requests : Made(q)}
  <2>1. C' = C \cup {r}
    BY <1>2, RequestType DEF Made
  <2>2. projects = {SlugOf(q) : q \in C} /\ members = {<<SlugOf(q), request[q].user>> : q \in C}
    BY DEF ProjectsInv, CreatedProjectsAreOwned
  <2>3. \A s, q \in C : SlugOf(s) = SlugOf(q) => s = q
    BY DEF ProjectsInv, CreatedProjectsAreOwned
  <2>4. C' = {q \in Requests : Made(q)'} /\ C \subseteq Requests
    OBVIOUS
  <2>5. SlugOf(r) \notin projects
    BY <1>1 DEF ProjectsInv, HeldSlugsAreNew
  <2> HIDE DEF C
  <2>6. /\ projects' = {SlugOf(q)' : q \in C \cup {r}}
        /\ members' = {<<SlugOf(q)', request'[q].user>> : q \in C \cup {r}}
    BY <1>1, <1>3, <2>2, <2>4
  <2>7. \A s, q \in C \cup {r} : SlugOf(s)' = SlugOf(q)' => s = q
    BY <1>3, <2>2, <2>3, <2>4, <2>5
  <2>8. \A q \in Requests : Made(q)' <=> q \in C \cup {r}
    BY <2>1, <2>4
  <2>9. QED
    BY <2>1, <2>4, <2>6, <2>7, <2>8 DEF CreatedProjectsAreOwned
<1>7. OnlyTheFirstIsTried'
  <2>1. ~request[r].aborted /\ request[r].i = 0
    BY <1>1 DEF ProjectsInv, OnlyTheFirstIsTried
  <2>2. QED
    BY <1>1, <1>2, <2>1, RequestType DEF ProjectsInv, OnlyTheFirstIsTried
<1>8. QED
  BY <1>4, <1>5, <1>6, <1>7 DEF ProjectsInv

\* Transactions that race for slugs, fail or are aborted keep the invariant.
THEOREM ProjectsInvariant == ProjectsSpec => []ProjectsInv
<1>1. ProjectsInit => ProjectsInv
  <2> SUFFICES ASSUME ProjectsInit PROVE ProjectsInv
    OBVIOUS
  <2>1. RequestsOK
    <3>1. [user : Users, base : Names, phase : {"begin"}, i : {0}, aborted : {FALSE}, cause : {"none"}]
             \subseteq [user : Users, base : Names,
                        phase : {"begin", "insert", "member", "commit", "created", "lost", "failed"},
                        i : Nat, aborted : BOOLEAN, cause : {"none", "fault", "aborted", "slugs"}]
      <4>1. ASSUME NEW F, NEW B, F \subseteq B
            PROVE  [user : Users, base : Names, phase : {"begin"}, i : {0}, aborted : F, cause : {"none"}]
                      \subseteq [user : Users, base : Names,
                        phase : {"begin", "insert", "member", "commit", "created", "lost", "failed"},
                        i : Nat, aborted : B, cause : {"none", "fault", "aborted", "slugs"}]
        BY <4>1
      <4>2. {FALSE} \subseteq BOOLEAN
        OBVIOUS
      <4>3. QED
        BY <4>1, <4>2, Zenon
    <3>2. QED
      BY <3>1 DEF ProjectsInit, RequestsOK
  <2>2. \A r \in Requests : request[r].phase = "begin" /\ request[r].i = 0 /\ request[r].aborted = FALSE
    BY DEF ProjectsInit
  <2>3. QED
    BY <2>1, <2>2 DEF ProjectsInit, ProjectsInv, HeldSlugsAreNew, Holds, CreatedProjectsAreOwned, Made,
                      OnlyTheFirstIsTried
<1>2. ProjectsInv /\ [ProjectsNext]_projectVars => ProjectsInv'
  <2> SUFFICES ASSUME ProjectsInv, [ProjectsNext]_projectVars PROVE ProjectsInv'
    OBVIOUS
  <2>1. CASE UNCHANGED projectVars
    BY <2>1 DEF projectVars, ProjectsInv, RequestsOK, HeldSlugsAreNew, Holds, SlugOf,
                CreatedProjectsAreOwned, Made, OnlyTheFirstIsTried
  <2>2. CASE ProjectsNext
    BY <2>2, StatementsKeep, CommitKeeps DEF ProjectsNext, CreateProject
  <2>3. QED
    BY <2>1, <2>2
<1>3. QED
  BY <1>1, <1>2, PTL DEF ProjectsSpec

\* CreateProject never leaves half a project behind and never gives one slug away twice,
\* although each request looks for its slug without seeing what the others insert, and
\* although a commit may take effect that the user is told has failed.
THEOREM ProjectsOwned == ProjectsSpec => []CreatedProjectsAreOwned
BY ProjectsInvariant, PTL DEF ProjectsInv

\* The loop of CreateProject never succeeds after its first turn: for every number of
\* turns the code may be given, what the finding about slugs comes to.
THEOREM OnlyFirstSlugs == ProjectsSpec => []FirstSlugOrNone
<1>1. ProjectsInv => FirstSlugOrNone
  BY RequestType DEF ProjectsInv, OnlyTheFirstIsTried, FirstSlugOrNone, Made, SlugOf, Candidate
<1>2. QED
  BY <1>1, ProjectsInvariant, PTL
=============================================================================
