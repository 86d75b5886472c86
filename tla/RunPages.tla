------------------------------ MODULE RunPages ------------------------------
(***************************************************************************)
(* Who sees which runs: the pages handleRunDetail, handleRepoRuns and       *)
(* handleProject of server/web/handler/server.go, with loadCurrentUser      *)
(* before them, the queries GetRunByPublicID, ListRunsForRepo,              *)
(* GetProjectBySlug and ListRunsForProject of internal/postgres/store.go,   *)
(* and the HTTP caches that applyPublicCacheHeaders lets keep an answer.    *)
(*                                                                         *)
(* A page is made in steps: the session is read, then the project, then the *)
(* runs, and the page is delivered; ingests, pull passes, bindings and       *)
(* log-outs happen in between, and caches go on serving an answer after     *)
(* that.  TimeoutHandler holds the page back until it is complete and after  *)
(* 30 seconds answers without it.  Caches may drop what they keep, count an *)
(* answer's age from its delivery, and entries do not affect each other: one *)
(* entry stands for all.                                                    *)
(* Ages count ticks and are capped just above what the properties tell      *)
(* apart, so time is not bounded.                                           *)
(*                                                                         *)
(* Right before some definitions stands a faulty variant of them, used only *)
(* to show that the properties notice the fault.                            *)
(***************************************************************************)
EXTENDS Naturals, FiniteSets

CONSTANTS Users, Projects, Repos, Runs,
          Anonymous,     \* a visitor with no session cookie
          MembersOf,     \* project_members, by project
          RepoOf,        \* the repository of each run
          FullName,      \* of each repository; not unique after a rename
          MaxAge,        \* max-age=30 of an anonymous answer, in ticks
          MaxRequest     \* the 30 seconds of TimeoutHandler, in ticks

\* The lists of runs stop here, newest first; no instance comes near.
ListLimit == 100

ASSUME PagesAssumption ==
    /\ IsFiniteSet(Runs) /\ Cardinality(Runs) <= ListLimit
    /\ MembersOf \in [Projects -> SUBSET Users]
    /\ RepoOf \in [Runs -> Repos]
    /\ DOMAIN FullName = Repos
    /\ Anonymous \notin Users
    /\ MaxAge \in Nat /\ MaxRequest \in Nat

VARIABLES public,    \* repos.visibility = 'public'
          bound,     \* project_repos with revoked_at IS NULL: <<project, repo>>
          serving,   \* the request being served, and how old its runs are
          cache,     \* an answer kept by an HTTP cache
          last,      \* ghost: the answer received in the step just taken
          hidden,    \* ghost: ticks since each repository was last public
          unbound    \* ghost: ticks since each binding last existed

pageVars == <<public, bound, serving, cache, last, hidden, unbound>>
world == <<public, bound, hidden, unbound>>

Clients == Users \cup {Anonymous}   \* also the values of the Cookie header
Pages == [kind : {"run"}, of : Runs]
         \cup [kind : {"repo"}, of : {FullName[r] : r \in Repos}]
         \cup [kind : {"project"}, of : Projects]

\* What an answer shows: runs, each with or without the members' views.  Nothing
\* is the 404 page.
NoPage == [kind |-> "none", of |-> Anonymous]
NoAnswer == [client |-> Anonymous, page |-> NoPage, shows |-> {}]
NoEntry == [answer |-> NoAnswer, age |-> 0]
Idle == [phase |-> "idle", client |-> Anonymous, page |-> NoPage, user |-> Anonymous,
         shows |-> {}, age |-> 0]

PagesInit ==
    /\ public \in SUBSET Repos
    /\ bound = {}
    /\ serving = Idle
    /\ cache = NoEntry
    /\ last = NoAnswer
    /\ hidden = [r \in Repos |-> IF r \in public THEN 0 ELSE MaxAge + MaxRequest + 1]
    /\ unbound = [b \in Projects \X Repos |-> MaxRequest + 1]

Answer(shows) == [client |-> serving.client, page |-> serving.page, shows |-> shows]
Unanswered == last' = NoAnswer
-----------------------------------------------------------------------------
\* "EXISTS (SELECT 1 FROM project_repos JOIN project_members ...)"
IsMember(user, repo) == \E b \in bound : b[2] = repo /\ user \in MembersOf[b[1]]

\* Faulty: any binding will do, whoever its members are.
VisibleIfBound(user, repo) == repo \in public \/ \E b \in bound : b[2] = repo

\* The WHERE clause the two public queries share.
Visible(user, repo) == repo \in public \/ IsMember(user, repo)

\* GetRunByPublicID: none or one run.
GetRunByPublicID(run, user, stored) ==
    {[run |-> n, member |-> IsMember(user, RepoOf[n])] :
        n \in {m \in stored \cap {run} : Visible(user, RepoOf[m])}}

\* ListRunsForRepo: by full name, every repository that has it.
ListRunsForRepo(name, user, stored) ==
    {[run |-> n, member |-> FALSE] :
        n \in {m \in stored : FullName[RepoOf[m]] = name /\ Visible(user, RepoOf[m])}}

\* ListRunsForProject: the caller has found the user among the members.
ListRunsForProject(project, stored) ==
    {[run |-> n, member |-> FALSE] : n \in {m \in stored : <<project, RepoOf[m]>> \in bound}}

\* loadCurrentUser, and allowPublicRouteRequest: the session that the cookie names
\* may be live or not, and if not the request is served as nobody's.  A request
\* over the limit is not served.
LoadReader(client, page) ==
    /\ serving.phase = "idle"
    /\ \E user \in {client, Anonymous} :
          serving' = [Idle EXCEPT !.phase = "query", !.client = client, !.page = page, !.user = user]
    /\ Unanswered
    /\ UNCHANGED <<cache, world>>

\* requireUser and GetProjectBySlug: a project page is for its members; for any
\* other request the answer is a redirection or 404.
GetProjectBySlug ==
    /\ serving.phase = "query" /\ serving.page.kind = "project"
    /\ serving.user \in MembersOf[serving.page.of]
    /\ serving' = [serving EXCEPT !.phase = "runs"]
    /\ Unanswered
    /\ UNCHANGED <<cache, world>>

ProjectDenied ==
    /\ serving.phase = "query" /\ serving.page.kind = "project"
    /\ serving.user \notin MembersOf[serving.page.of]
    /\ last' = Answer({})
    /\ serving' = Idle
    /\ UNCHANGED <<cache, world>>

\* The rows are read; from here on they get older.
Read(shows) == serving' = [serving EXCEPT !.phase = "render", !.shows = shows]

\* Of whichever runs uploads and purges have left in the table.
HandleProject ==
    /\ serving.phase = "runs"
    /\ \E stored \in SUBSET Runs : Read(ListRunsForProject(serving.page.of, stored))
    /\ Unanswered
    /\ UNCHANGED <<cache, world>>

\* handleRunDetail and handleRepoRuns.
HandlePublicPage ==
    /\ serving.phase = "query"
    /\ \E stored \in SUBSET Runs :
          \/ /\ serving.page.kind = "run"
             /\ Read(GetRunByPublicID(serving.page.of, serving.user, stored))
          \/ /\ serving.page.kind = "repo"
             /\ Read(ListRunsForRepo(serving.page.of, serving.user, stored))
    /\ Unanswered
    /\ UNCHANGED <<cache, world>>

\* Faulty: answers to members may be kept as well.
CacheableForAll(user, page) == page.kind # "project"

\* "public, max-age=30" on the public pages if anonymous, else "private, no-store".
Cacheable(user, page) == page.kind # "project" /\ user = Anonymous

\* The page is complete.  The headers are set before the query, so a 404 may be
\* cached too; Vary: Cookie keeps one entry per Cookie header.
Deliver ==
    /\ serving.phase = "render"
    /\ last' = Answer(serving.shows)
    /\ \/ /\ Cacheable(serving.user, serving.page)
          /\ cache' = [answer |-> Answer(serving.shows), age |-> 0]
       \/ UNCHANGED cache
    /\ serving' = Idle
    /\ UNCHANGED world

\* The handler fails or times out, or the limiter refuses: nothing is shown.  (A
\* cache may keep an error page like a 404; it shows nothing either.)
HandlerFails ==
    /\ serving.phase # "idle"
    /\ serving' = Idle
    /\ Unanswered
    /\ UNCHANGED <<cache, world>>

\* A cache answers for the server, to a request with the same Cookie header.
ServeFromCache ==
    /\ cache # NoEntry
    /\ last' = cache.answer
    /\ UNCHANGED <<serving, cache, world>>
-----------------------------------------------------------------------------
\* What other components do to the tables.

\* UpsertRepo, from an ingest or a pull pass.
SetVisibility(repo) ==
    /\ public' = IF repo \in public THEN public \ {repo} ELSE public \cup {repo}
    /\ hidden' = [hidden EXCEPT ![repo] = IF repo \in public THEN @ ELSE 0]
    /\ Unanswered
    /\ UNCHANGED <<bound, serving, cache, unbound>>

\* BindRepoToProject; UnbindRepoFromProject or a revocation.
SetBinding(project, repo) ==
    /\ bound' = IF <<project, repo>> \in bound THEN bound \ {<<project, repo>>}
                                               ELSE bound \cup {<<project, repo>>}
    /\ unbound' = [unbound EXCEPT ![<<project, repo>>] = IF <<project, repo>> \in bound THEN @ ELSE 0]
    /\ Unanswered
    /\ UNCHANGED <<public, serving, cache, hidden>>

\* A cache serves an answer up to its max-age.
Aged(entry) ==
    IF entry = NoEntry \/ entry.age >= MaxAge THEN NoEntry ELSE [entry EXCEPT !.age = @ + 1]

Older(age, cap) == IF age > cap THEN age ELSE age + 1

\* TimeoutHandler ends the request before it gets older than MaxRequest.
Tick ==
    /\ serving.age < MaxRequest
    /\ serving' = IF serving.phase = "render" THEN [serving EXCEPT !.age = @ + 1] ELSE serving
    /\ cache' = Aged(cache)
    /\ hidden' = [r \in Repos |-> IF r \in public THEN 0 ELSE Older(hidden[r], MaxAge + MaxRequest)]
    /\ unbound' = [b \in Projects \X Repos |-> IF b \in bound THEN 0 ELSE Older(unbound[b], MaxRequest)]
    /\ Unanswered
    /\ UNCHANGED <<public, bound>>

World == \/ \E r \in Repos : SetVisibility(r)
         \/ \E p \in Projects, r \in Repos : SetBinding(p, r)
         \/ Tick

PagesNext ==
    \/ \E c \in Clients, p \in Pages : LoadReader(c, p)
    \/ GetProjectBySlug \/ ProjectDenied \/ HandleProject \/ HandlePublicPage \/ Deliver
    \/ HandlerFails \/ ServeFromCache
    \/ World

PagesSpec == PagesInit /\ [][PagesNext]_pageVars
-----------------------------------------------------------------------------
(* Properties *)

\* Through a project that has, or within so many ticks had, the repository bound.
WasMember(user, repo, ticks) ==
    \E p \in Projects : user \in MembersOf[p] /\ unbound[<<p, repo>>] <= ticks

\* Whatever a cache kept and whatever changed while a page was being made, nobody
\* is shown a run of a repository that has been private for longer than max-age
\* and a request together, unless a project they are a member of has it bound, or
\* had while the request was served.
PrivateRunsFadeOut ==
    \A x \in last.shows : \/ hidden[RepoOf[x.run]] <= MaxAge + MaxRequest
                          \/ WasMember(last.client, RepoOf[x.run], MaxRequest)

\* The members' views of a run are never shown to anybody but those who are, or
\* were while the request was served, members of a project with its repository: not
\* even for as long as a cache could keep them.
MemberViewsStayWithMembers ==
    \A x \in last.shows : x.member => WasMember(last.client, RepoOf[x.run], MaxRequest)
=============================================================================
