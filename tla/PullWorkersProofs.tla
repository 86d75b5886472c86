-------------------------- MODULE PullWorkersProofs --------------------------
(***************************************************************************)
(* Theorems about PullWorkers, for every set of repositories and            *)
(* installations, every retention window and any number of failed passes.   *)
(***************************************************************************)
EXTENDS PullWorkers, WellFoundedInduction, TLAPS

-----------------------------------------------------------------------------
(* The inductive invariant *)

Stages == {"idle", "installs", "pull", "list", "store", "mark", "cover", "look", "sync", "revoke", "purge"}
WorkerType == [at : Stages, ids : SUBSET Installs, keep : SUBSET Installs,
               again : SUBSET Installs, inst : Installs \union {Null}, todo : SUBSET Repos,
               seen : SUBSET (Repos \X Visibility), twice : SUBSET Repos]
CoverageRow == [inst : Installs \union {Null}, age : Nat \union {Null}]

PullTypeOK ==
    /\ installed \subseteq Installs \X Repos
    /\ ghVis \in [Repos -> Visibility]
    /\ active \subseteq Installs
    /\ instRepos \subseteq Installs \X Repos
    /\ repoVis \in [Repos -> Visibility \union {Null}]
    /\ coverage \in [Repos -> CoverageRow \union {Null}]
    /\ runs \subseteq Repos
    /\ minted \subseteq Repos \X Visibility
    /\ worker \in WorkerType
    /\ steady \subseteq Repos
    /\ lastSeen \in [Repos -> Nat]

\* Steady repositories are covered now.
SteadyIsCovered == \A r \in steady : Covered(r)

\* A repository with a row in repo_coverage has one in repos, so the coverage
\* stage visits it again in every pass.
CoverageHasRepo == \A r \in Repos : coverage[r] # Null => repoVis[r] # Null
CandidatesHaveRepo == worker.at = "cover" => \A r \in worker.todo : repoVis[r] # Null

\* The database knows the grant.
Pulled(i, r) == i \in active /\ <<i, r>> \in instRepos

\* While installations are listed: that of a steady repository has been
\* returned or is still ahead.
SteadyIsAhead ==
    worker.at = "installs" =>
       \A r \in steady, i \in Installs : <<i, r>> \in installed =>
          i \in worker.ids \union worker.keep

\* From then up to the mark stage: it was listed, so it will be kept, and it has
\* been pulled or is still to be; while it is, GitHub has returned the
\* repository or has it still ahead.
Returned(r) == \E v \in Visibility : <<r, v>> \in worker.seen

SteadyIsPulled ==
    worker.at \in {"pull", "list", "store", "mark"} =>
       /\ worker.at = "mark" => worker.ids = {}
       /\ worker.at \in {"list", "store"} => worker.inst \in active
       /\ \A r \in steady, i \in Installs : <<i, r>> \in installed =>
             /\ i \in worker.keep
             /\ i \in worker.ids \/ Pulled(i, r)
             /\ worker.at = "list" /\ i = worker.inst => r \in worker.todo \/ Returned(r)
             /\ worker.at = "store" /\ i = worker.inst => Returned(r)

\* In the cover stage: the database knows the grants of steady repositories.
SteadyIsKnown ==
    worker.at = "cover" =>
       \A r \in steady, i \in Installs : <<i, r>> \in installed => Pulled(i, r)

\* From the cover stage on: a steady repository that was visited is not
\* stored as uncovered.
Visited(r) == worker.at \in {"look", "sync", "revoke", "purge"}
                 \/ (worker.at = "cover" /\ r \notin worker.todo)
SteadyIsNotUncovered ==
    \A r \in steady : Visited(r) /\ coverage[r] # Null =>
       coverage[r].inst # Null /\ coverage[r].age = Null

\* uncovered_since never lies before the last check that found coverage.
AgeIsSinceLastSeen ==
    \A r \in Repos : coverage[r] # Null /\ coverage[r].age # Null
                        => coverage[r].age <= lastSeen[r]

PullInv ==
    /\ PullTypeOK
    /\ SteadyIsCovered
    /\ CoverageHasRepo
    /\ CandidatesHaveRepo
    /\ SteadyIsAhead
    /\ SteadyIsPulled
    /\ SteadyIsKnown
    /\ SteadyIsNotUncovered
    /\ AgeIsSinceLastSeen

-----------------------------------------------------------------------------
(* Facts about the pieces the actions are made of *)

\* A set of natural numbers that is not empty has a least element.
LEMMA LeastNatural ==
    ASSUME NEW S, S \subseteq Nat, S # {}
    PROVE  \E x \in S : \A y \in S : x <= y
<1> DEFINE R == OpToRel(<, Nat)
<1>1. IsWellFoundedOn(R, Nat)
  BY NatLessThanWellFounded
<1>2. \A x, y \in Nat : x < y <=> <<x, y>> \in R
  BY DEF OpToRel
<1> HIDE DEF R
<1>3. PICK x \in S : \A y \in S : ~(<<y, x>> \in R)
  BY <1>1, WFMin
<1>4. \A y \in S : x \in Nat /\ y \in Nat /\ ~(y < x)
  BY <1>2, <1>3, Zenon
<1>5. QED
  BY <1>4

\* GetAnyInstallationIDForRepo finds an installation if there is one.
LEMMA AnyInstallationFound ==
    ASSUME PullTypeOK, NEW r \in Repos
    PROVE  /\ AnyInstallation(r) \in Installs \union {Null}
           /\ \A i \in Installs : Pulled(i, r) => AnyInstallation(r) # Null
<1> DEFINE S == InstallationsForRepo(r)
<1>1. S \subseteq Installs /\ S \subseteq Nat
  BY PullAssumption DEF PullTypeOK, InstallationsForRepo
<1>2. CASE S = {}
  BY <1>2 DEF AnyInstallation, InstallationsForRepo, Pulled
<1>3. CASE S # {}
  <2>1. \E i \in S : \A j \in S : i <= j
    BY <1>1, <1>3, LeastNatural
  <2>2. AnyInstallation(r) = CHOOSE i \in S : \A j \in S : i <= j
    BY <1>3 DEF AnyInstallation
  <2> HIDE DEF S
  <2>3. AnyInstallation(r) \in S
    BY <2>1, <2>2
  <2>4. AnyInstallation(r) \in Nat /\ AnyInstallation(r) \in Installs
    BY <1>1, <2>3
  <2>5. QED
    BY <2>4, PullAssumption
<1>4. QED
  BY <1>2, <1>3

\* UpsertRepo stores a visibility and never takes one away.
LEMMA VisibilityFromKeeps ==
    ASSUME PullTypeOK, NEW seen
    PROVE  /\ VisibilityFrom(seen) \in [Repos -> Visibility \union {Null}]
           /\ \A r \in Repos : repoVis[r] # Null => VisibilityFrom(seen)[r] # Null
<1>1. ASSUME NEW r \in Repos
      PROVE  /\ VisibilityFrom(seen)[r] \in Visibility \union {Null}
             /\ repoVis[r] # Null => VisibilityFrom(seen)[r] # Null
  <2>1. CASE \E v \in Visibility : <<r, v>> \in seen
    <3>1. VisibilityFrom(seen)[r] = CHOOSE v \in Visibility : <<r, v>> \in seen
      BY <2>1 DEF VisibilityFrom
    <3>2. VisibilityFrom(seen)[r] \in Visibility
      BY <2>1, <3>1
    <3>3. QED
      BY <3>2, PullAssumption DEF Visibility
  <2>2. CASE ~\E v \in Visibility : <<r, v>> \in seen
    BY <2>2 DEF VisibilityFrom, PullTypeOK
  <2>3. QED
    BY <2>1, <2>2
<1>2. QED
  BY <1>1 DEF VisibilityFrom

\* UpsertRepoCoverage: a covered repository has no uncovered_since.
LEMMA NewCoverageRow ==
    ASSUME NEW old \in CoverageRow \union {Null}, NEW inst \in Installs \union {Null}
    PROVE  /\ NewCoverage(old, inst) \in CoverageRow
           /\ NewCoverage(old, inst).inst = inst
           /\ inst # Null => NewCoverage(old, inst).age = Null
           /\ inst = Null => NewCoverage(old, inst).age = 0
                               \/ (old # Null /\ old.age # Null /\ NewCoverage(old, inst).age = old.age)
<1>1. CASE inst # Null
  BY <1>1 DEF NewCoverage, CoverageRow
<1>2. CASE inst = Null /\ old # Null /\ old.age # Null
  BY <1>2 DEF NewCoverage, CoverageRow
<1>3. CASE inst = Null /\ ~(old # Null /\ old.age # Null)
  BY <1>3 DEF NewCoverage, CoverageRow
<1>4. QED
  BY <1>1, <1>2, <1>3

-----------------------------------------------------------------------------
(* The invariant is inductive *)

\* A step outside the pull goroutine and outside GitHub's grants: requests,
\* and GitHub changing a visibility.
LEMMA Bystander ==
    ASSUME PullInv,
           UNCHANGED <<installed, active, instRepos, coverage, worker, steady, lastSeen>>,
           ghVis' \in [Repos -> Visibility], minted' \subseteq Repos \X Visibility,
           runs' \subseteq Repos,
           repoVis' \in [Repos -> Visibility \union {Null}],
           \A r \in Repos : repoVis[r] # Null => repoVis'[r] # Null
    PROVE  PullInv'
<1> USE DEF PullInv
<1>1. PullTypeOK'
  BY DEF PullTypeOK
<1>2. SteadyIsCovered' /\ SteadyIsAhead' /\ SteadyIsPulled' /\ SteadyIsKnown'
  BY DEF SteadyIsCovered, Covered, Granted, SteadyIsAhead, SteadyIsPulled, Returned,
         SteadyIsKnown, Pulled
<1>3. CoverageHasRepo' /\ CandidatesHaveRepo'
  BY DEF CoverageHasRepo, CandidatesHaveRepo, PullTypeOK, WorkerType
<1>4. SteadyIsNotUncovered' /\ AgeIsSinceLastSeen'
  BY DEF SteadyIsNotUncovered, Visited, AgeIsSinceLastSeen
<1>5. QED
  BY <1>1, <1>2, <1>3, <1>4

\* A step of the goroutine from the coverage stage on that leaves coverage
\* alone, or that ends the pass.
LEMMA LateStage ==
    ASSUME PullInv,
           UNCHANGED <<installed, ghVis, instRepos, coverage, minted, steady, lastSeen>>,
           active' \subseteq Installs, runs' \subseteq Repos,
           repoVis' \in [Repos -> Visibility \union {Null}],
           \A r \in Repos : repoVis[r] # Null => repoVis'[r] # Null,
           worker' \in WorkerType,
           \/ worker'.at = "idle"
           \/ /\ worker'.at \in {"look", "sync", "revoke", "purge"}
              /\ \A r \in steady : Visited(r)
    PROVE  PullInv'
<1> USE DEF PullInv
<1>1. PullTypeOK'
  BY DEF PullTypeOK
<1>2. SteadyIsCovered' /\ SteadyIsAhead' /\ SteadyIsPulled' /\ SteadyIsKnown'
  BY DEF SteadyIsCovered, Covered, Granted, SteadyIsAhead, SteadyIsPulled, SteadyIsKnown
<1>3. CoverageHasRepo' /\ CandidatesHaveRepo'
  BY DEF CoverageHasRepo, CandidatesHaveRepo, PullTypeOK, WorkerType
<1>4. SteadyIsNotUncovered' /\ AgeIsSinceLastSeen'
  BY DEF SteadyIsNotUncovered, Visited, AgeIsSinceLastSeen
<1>5. QED
  BY <1>1, <1>2, <1>3, <1>4

\* A step of the goroutine up to the mark stage: it is left to show that the
\* steady repositories are still ahead, or pulled.
LEMMA EarlyStage ==
    ASSUME PullInv,
           UNCHANGED <<installed, ghVis, coverage, minted, runs, steady, lastSeen>>,
           active' \subseteq Installs, instRepos' \subseteq Installs \X Repos,
           repoVis' \in [Repos -> Visibility \union {Null}],
           \A r \in Repos : repoVis[r] # Null => repoVis'[r] # Null,
           worker' \in WorkerType,
           worker'.at \in {"installs", "pull", "list", "store", "mark"},
           SteadyIsAhead', SteadyIsPulled'
    PROVE  PullInv'
<1> USE DEF PullInv
<1>1. PullTypeOK'
  BY DEF PullTypeOK
<1>2. SteadyIsCovered' /\ SteadyIsKnown'
  BY DEF SteadyIsCovered, Covered, Granted, SteadyIsKnown
<1>3. CoverageHasRepo' /\ CandidatesHaveRepo'
  BY DEF CoverageHasRepo, CandidatesHaveRepo
<1>4. SteadyIsNotUncovered' /\ AgeIsSinceLastSeen'
  BY DEF SteadyIsNotUncovered, Visited, AgeIsSinceLastSeen
<1>5. QED
  BY <1>1, <1>2, <1>3, <1>4

\* GitHub's grants move: what is steady after it was granted before, and a list
\* under way still has ahead of it what is steady.
LEMMA GrantsMove ==
    ASSUME PullInv,
           UNCHANGED <<ghVis, active, instRepos, coverage, minted, runs, repoVis, lastSeen>>,
           installed' \subseteq Installs \X Repos, steady' \subseteq steady,
           worker' \in WorkerType, worker'.at = worker.at, worker'.keep = worker.keep,
           worker'.inst = worker.inst, worker'.seen = worker.seen,
           worker.at # "installs" => worker'.ids = worker.ids,
           worker.at # "list" => worker'.todo = worker.todo,
           \A r \in steady' : Covered(r)',
           \A r \in steady', i \in Installs : <<i, r>> \in installed' =>
              /\ <<i, r>> \in installed
              /\ i \in worker.ids => i \in worker'.ids
              /\ worker.at = "list" /\ i = worker.inst /\ r \in worker.todo => r \in worker'.todo
    PROVE  PullInv'
<1> USE DEF PullInv
<1>1. PullTypeOK'
  BY DEF PullTypeOK
<1>2. SteadyIsCovered'
  BY DEF SteadyIsCovered
<1>3. CoverageHasRepo' /\ CandidatesHaveRepo'
  BY DEF CoverageHasRepo, CandidatesHaveRepo
<1>4. SteadyIsAhead' /\ SteadyIsKnown'
  BY DEF SteadyIsAhead, SteadyIsKnown, Pulled
<1>5. SteadyIsPulled'
  BY DEF SteadyIsPulled, Pulled, Returned
<1>6. SteadyIsNotUncovered' /\ AgeIsSinceLastSeen'
  BY DEF SteadyIsNotUncovered, Visited, AgeIsSinceLastSeen
<1>7. QED
  BY <1>1, <1>2, <1>3, <1>4, <1>5, <1>6

\* A grant makes nothing steady and takes nothing from what is ahead.
LEMMA GrantKeeps ==
    ASSUME PullInv, NEW j \in Installs, NEW s \in Repos, Grant(j, s)
    PROVE  PullInv'
<1>0. PullTypeOK /\ worker \in WorkerType /\ SteadyIsCovered
  BY DEF PullInv, PullTypeOK
<1>1. /\ ~Covered(s) /\ installed' = installed \union {<<j, s>>}
      /\ UNCHANGED <<ghVis, active, instRepos, coverage, minted, runs, repoVis, steady, lastSeen>>
  BY DEF Grant, syncTables, uploads, history
<1>2. /\ worker' \in WorkerType /\ worker'.at = worker.at /\ worker'.keep = worker.keep
      /\ worker'.inst = worker.inst /\ worker'.seen = worker.seen
      /\ worker.at # "installs" => worker'.ids = worker.ids
      /\ worker.at # "list" => worker'.todo = worker.todo
      /\ worker.ids \subseteq worker'.ids /\ worker.todo \subseteq worker'.todo
  <2>1. CASE ListsInstallations /\ Granted(j) = {}
    <3>1. PICK ahead \in Pushed(worker.ids, InstalledIds, j) :
             worker' = [worker EXCEPT !.ids = ahead]
      BY <2>1 DEF Grant, ListsInstallations, ListsReposOf
    <3>2. worker.ids \subseteq ahead /\ ahead \subseteq Installs
      <4>1. PICK y \in (InstalledIds \ worker.ids) \union {j} : ahead = worker.ids \union {y}
        BY <3>1, Zenon DEF Pushed
      <4>2. worker.ids \subseteq Installs /\ y \in Installs
        BY <1>0 DEF InstalledIds, WorkerType
      <4>3. QED
        BY <4>1, <4>2
    <3>3. QED
      BY <1>0, <2>1, <3>1, <3>2 DEF WorkerType, ListsInstallations
  <2>2. CASE ListsReposOf(j)
    <3>1. PICK ahead \in Pushed(worker.todo, Granted(j), s) :
             worker' = [worker EXCEPT !.todo = ahead]
      BY <2>2 DEF Grant, ListsInstallations, ListsReposOf
    <3>2. worker.todo \subseteq ahead /\ ahead \subseteq Repos
      <4>1. PICK y \in (Granted(j) \ worker.todo) \union {s} : ahead = worker.todo \union {y}
        BY <3>1, Zenon DEF Pushed
      <4>2. worker.todo \subseteq Repos /\ y \in Repos
        BY <1>0 DEF Granted, WorkerType
      <4>3. QED
        BY <4>1, <4>2
    <3>3. QED
      BY <1>0, <2>2, <3>1, <3>2 DEF WorkerType, ListsReposOf
  <2>3. CASE ~(ListsInstallations /\ Granted(j) = {}) /\ ~ListsReposOf(j)
    BY <1>0, <2>3 DEF Grant
  <2>4. QED
    BY <2>1, <2>2, <2>3
<1>3. ASSUME NEW r \in steady, NEW i \in Installs, <<i, r>> \in installed'
      PROVE  <<i, r>> \in installed
  BY <1>0, <1>1, <1>3 DEF SteadyIsCovered
<1>4. ASSUME NEW r \in steady
      PROVE  Covered(r)'
  BY <1>0, <1>1, <1>4 DEF SteadyIsCovered, Covered, Granted
<1>5. installed' \subseteq Installs \X Repos
  BY <1>0, <1>1 DEF PullTypeOK
<1>6. QED
  BY <1>1, <1>2, <1>3, <1>4, <1>5, GrantsMove

\* What a withdrawal may let slip by is steady no more.
LEMMA WithdrawKeeps ==
    ASSUME PullInv, NEW j \in Installs, NEW s \in Repos, Withdraw(j, s)
    PROVE  PullInv'
<1>0. PullTypeOK /\ worker \in WorkerType /\ SteadyIsCovered /\ steady \subseteq Repos
  BY DEF PullInv, PullTypeOK
<1>1. /\ <<j, s>> \in installed /\ installed' = installed \ {<<j, s>>}
      /\ UNCHANGED <<ghVis, active, instRepos, coverage, minted, runs, repoVis, lastSeen>>
  BY DEF Withdraw, syncTables, uploads
<1>2. /\ steady' \subseteq steady /\ s \notin steady'
      /\ worker' \in WorkerType /\ worker'.at = worker.at /\ worker'.keep = worker.keep
      /\ worker'.inst = worker.inst /\ worker'.seen = worker.seen
      /\ worker.at # "installs" => worker'.ids = worker.ids
      /\ worker.at # "list" => worker'.todo = worker.todo
      /\ \A r \in steady', i \in Installs : <<i, r>> \in installed' =>
            /\ i \in worker.ids => i \in worker'.ids
            /\ worker.at = "list" /\ i = worker.inst /\ r \in worker.todo => r \in worker'.todo
  <2>1. CASE ListsInstallations /\ Granted(j) = {s}
    <3>1. PICK ahead \in Slipped(worker.ids, j) : worker' = [worker EXCEPT !.ids = ahead]
      BY <2>1 DEF Withdraw, ListsInstallations, ListsReposOf
    <3>2. ahead \subseteq Installs
      BY <1>0, <3>1 DEF Slipped, WorkerType
    <3>3. steady' = {}
      BY <2>1 DEF Withdraw, ListsInstallations, ListsReposOf
    <3>4. QED
      BY <1>0, <2>1, <3>1, <3>2, <3>3 DEF WorkerType, ListsInstallations
  <2>2. CASE ListsReposOf(j)
    <3>1. PICK ahead \in Slipped(worker.todo, s) : worker' = [worker EXCEPT !.todo = ahead]
      BY <2>2 DEF Withdraw, ListsInstallations, ListsReposOf
    <3>2. ahead \subseteq Repos
      BY <1>0, <3>1 DEF Slipped, WorkerType
    <3>3. steady' = steady \ Granted(j)
      BY <2>2 DEF Withdraw, ListsInstallations, ListsReposOf
    <3>4. s \in Granted(j)
      BY <1>1 DEF Granted
    <3>5. ASSUME NEW r \in steady', NEW i \in Installs, <<i, r>> \in installed'
          PROVE  i # worker.inst
      BY <1>0, <1>1, <2>2, <3>3, <3>5 DEF Granted, ListsReposOf
    <3>6. QED
      BY <1>0, <2>2, <3>1, <3>2, <3>3, <3>4, <3>5 DEF WorkerType, ListsReposOf
  <2>3. CASE ~(ListsInstallations /\ Granted(j) = {s}) /\ ~ListsReposOf(j)
    BY <1>0, <2>3 DEF Withdraw
  <2>4. QED
    BY <2>1, <2>2, <2>3
<1>3. ASSUME NEW r \in steady'
      PROVE  Covered(r)'
  BY <1>0, <1>1, <1>2, <1>3 DEF SteadyIsCovered, Covered, Granted
<1>4. installed' \subseteq Installs \X Repos /\ installed' \subseteq installed
  BY <1>0, <1>1 DEF PullTypeOK
<1>5. QED
  BY <1>1, <1>2, <1>3, <1>4, GrantsMove

\* GitHub's lists are read.
LEMMA ListingKeeps ==
    ASSUME PullInv,
           \/ ListAppInstallations \/ InstallationsPage \/ LastInstallationsPage
           \/ ReposPage \/ LastReposPage
    PROVE  PullInv'
<1>0. /\ PullTypeOK /\ worker \in WorkerType /\ steady \subseteq Repos
      /\ SteadyIsAhead /\ SteadyIsPulled
  BY DEF PullInv, PullTypeOK
<1>1. CASE ListAppInstallations
  <2>1. /\ worker' = [Idle EXCEPT !.at = "installs", !.ids = InstalledIds]
        /\ steady' = {r \in Repos : Covered(r)}
        /\ UNCHANGED <<installed, ghVis, active, instRepos, coverage, minted, runs, repoVis, lastSeen>>
    BY <1>1 DEF ListAppInstallations, github, syncTables, uploads
  <2>2. InstalledIds \subseteq Installs
    BY DEF InstalledIds
  <2>3. worker' \in WorkerType /\ worker'.at = "installs" /\ worker'.ids = InstalledIds
    BY <2>1, <2>2 DEF Idle, WorkerType, Stages
  <2>4. PullTypeOK'
    BY <1>0, <2>1, <2>3 DEF PullTypeOK
  <2>5. SteadyIsCovered'
    BY <2>1 DEF SteadyIsCovered, Covered, Granted
  <2>6. CoverageHasRepo' /\ CandidatesHaveRepo' /\ SteadyIsKnown' /\ SteadyIsPulled'
    BY <2>1, <2>3 DEF PullInv, CoverageHasRepo, CandidatesHaveRepo, SteadyIsKnown, SteadyIsPulled
  <2>7. SteadyIsAhead'
    <3>1. ASSUME NEW r \in steady', NEW i \in Installs, <<i, r>> \in installed
          PROVE  i \in InstalledIds
      BY <2>1, <3>1 DEF InstalledIds, Granted
    <3>2. QED
      BY <2>1, <2>3, <3>1 DEF SteadyIsAhead
  <2>8. SteadyIsNotUncovered' /\ AgeIsSinceLastSeen'
    BY <2>1, <2>3 DEF PullInv, SteadyIsNotUncovered, Visited, AgeIsSinceLastSeen
  <2>9. QED
    BY <2>4, <2>5, <2>6, <2>7, <2>8 DEF PullInv
<1>2. ASSUME NEW page \in SUBSET worker.ids, worker.at = "installs",
             worker' \in WorkerType, worker'.keep = worker.keep \union page,
             \/ worker'.at = "installs" /\ worker'.ids = worker.ids \ page
             \/ /\ page = worker.ids /\ worker'.ids = worker'.keep
                /\ worker'.at = IF worker'.keep = {} THEN "mark" ELSE "pull",
             UNCHANGED <<installed, ghVis, active, instRepos, coverage, minted, runs, repoVis,
                         steady, lastSeen>>
      PROVE  PullInv'
  <2>1. ASSUME NEW r \in steady, NEW i \in Installs, <<i, r>> \in installed
        PROVE  i \in worker.ids \union worker.keep
    BY <1>0, <1>2, <2>1 DEF SteadyIsAhead
  <2>2. SteadyIsAhead'
    BY <1>2, <2>1 DEF SteadyIsAhead
  <2>3. SteadyIsPulled'
    BY <1>2, <2>1 DEF SteadyIsPulled
  <2>4. worker'.at \in {"installs", "pull", "list", "store", "mark"}
    BY <1>2
  <2>5. /\ active' \subseteq Installs /\ instRepos' \subseteq Installs \X Repos
        /\ repoVis' \in [Repos -> Visibility \union {Null}]
    BY <1>0, <1>2 DEF PullTypeOK
  <2>6. QED
    BY <1>2, <2>2, <2>3, <2>4, <2>5, EarlyStage
<1>3. CASE InstallationsPage
  <2>1. PICK page \in Pages(worker.ids) : worker' = [ListInstallations(page) EXCEPT !.ids = @ \ page]
    BY <1>3 DEF InstallationsPage
  <2>2. page \in SUBSET worker.ids /\ page \subseteq Installs
    BY <1>0, <2>1 DEF Pages, WorkerType
  <2>3. /\ worker.at = "installs" /\ worker' \in WorkerType
        /\ worker'.keep = worker.keep \union page
        /\ worker'.at = "installs" /\ worker'.ids = worker.ids \ page
    BY <1>0, <1>3, <2>1, <2>2 DEF InstallationsPage, ListsInstallations, ListInstallations, WorkerType
  <2>4. UNCHANGED <<installed, ghVis, active, instRepos, coverage, minted, runs, repoVis,
                    steady, lastSeen>>
    BY <1>3 DEF InstallationsPage, github, syncTables, uploads, history
  <2>5. QED
    BY <1>2, <2>2, <2>3, <2>4
<1>4. CASE LastInstallationsPage
  <2> DEFINE listed == ListInstallations(worker.ids)
  <2>1. worker.at = "installs" /\ worker.ids \subseteq Installs
    BY <1>0, <1>4 DEF LastInstallationsPage, ListsInstallations, WorkerType
  <2>2. listed \in WorkerType /\ listed.keep = worker.keep \union worker.ids
    BY <1>0, <2>1 DEF ListInstallations, WorkerType
  <2>3. worker' = [listed EXCEPT !.at = IF listed.keep = {} THEN "mark" ELSE "pull",
                                 !.ids = listed.keep]
    BY <1>4 DEF LastInstallationsPage
  <2> HIDE DEF listed
  <2>4. /\ worker' \in WorkerType /\ worker'.keep = worker.keep \union worker.ids
        /\ worker'.ids = worker'.keep
        /\ worker'.at = IF worker'.keep = {} THEN "mark" ELSE "pull"
    BY <2>2, <2>3 DEF WorkerType, Stages
  <2>5. UNCHANGED <<installed, ghVis, active, instRepos, coverage, minted, runs, repoVis,
                    steady, lastSeen>>
    BY <1>4 DEF LastInstallationsPage, github, syncTables, uploads, history
  <2>6. QED
    BY <1>2, <2>1, <2>4, <2>5
<1>5. ASSUME NEW page \in SUBSET worker.todo, worker.at = "list",
             worker' \in WorkerType, worker'.keep = worker.keep, worker'.ids = worker.ids,
             worker'.inst = worker.inst,
             worker'.seen = {rv \in worker.seen : rv[1] \notin page}
                               \union {<<r, ghVis[r]>> : r \in page},
             \/ worker'.at = "list" /\ worker'.todo = worker.todo \ page
             \/ worker'.at = "store" /\ page = worker.todo,
             UNCHANGED <<installed, ghVis, active, instRepos, coverage, minted, runs, repoVis,
                         steady, lastSeen>>
      PROVE  PullInv'
  <2>1. ASSUME NEW r \in Repos, r \in page \/ Returned(r)
        PROVE  Returned(r)'
    <3>1. CASE r \in page
      <4>1. ghVis[r] \in Visibility /\ <<r, ghVis[r]>> \in worker'.seen
        BY <1>0, <1>5, <3>1 DEF PullTypeOK
      <4>2. QED
        BY <4>1 DEF Returned
    <3>2. CASE r \notin page
      <4>1. PICK v \in Visibility : <<r, v>> \in worker.seen
        BY <2>1, <3>2 DEF Returned
      <4>2. <<r, v>> \in worker'.seen
        BY <1>5, <3>2, <4>1
      <4>3. QED
        BY <4>2 DEF Returned
    <3>3. QED
      BY <3>1, <3>2
  <2>2. ASSUME NEW r \in steady, NEW i \in Installs, <<i, r>> \in installed
        PROVE  /\ i \in worker.keep
               /\ i \in worker.ids \/ Pulled(i, r)
               /\ i = worker.inst => r \in worker.todo \/ Returned(r)
    BY <1>0, <1>5, <2>2 DEF SteadyIsPulled
  <2>3. worker.inst \in active
    BY <1>0, <1>5 DEF SteadyIsPulled
  <2>4. SteadyIsPulled'
    <3>1. ASSUME NEW r \in steady, NEW i \in Installs, <<i, r>> \in installed
          PROVE  /\ i \in worker'.keep
                 /\ i \in worker'.ids \/ Pulled(i, r)'
                 /\ worker'.at = "list" /\ i = worker'.inst => r \in worker'.todo \/ Returned(r)'
                 /\ worker'.at = "store" /\ i = worker'.inst => Returned(r)'
      <4>1. r \in Repos
        BY <1>0
      <4>2. QED
        BY <1>5, <2>1, <2>2, <3>1, <4>1 DEF Pulled
    <3>2. QED
      BY <1>5, <2>3, <3>1 DEF SteadyIsPulled
  <2>5. SteadyIsAhead'
    BY <1>5 DEF SteadyIsAhead
  <2>6. worker'.at \in {"installs", "pull", "list", "store", "mark"}
    BY <1>5
  <2>7. /\ active' \subseteq Installs /\ instRepos' \subseteq Installs \X Repos
        /\ repoVis' \in [Repos -> Visibility \union {Null}]
    BY <1>0, <1>5 DEF PullTypeOK
  <2>8. QED
    BY <1>5, <2>4, <2>5, <2>6, <2>7, EarlyStage
<1>6. ASSUME NEW page \in SUBSET worker.todo
      PROVE  /\ ListRepos(page) \in WorkerType /\ ListRepos(page).at = worker.at
             /\ ListRepos(page).keep = worker.keep /\ ListRepos(page).ids = worker.ids
             /\ ListRepos(page).inst = worker.inst /\ ListRepos(page).todo = worker.todo
             /\ ListRepos(page).seen = {rv \in worker.seen : rv[1] \notin page}
                                           \union {<<r, ghVis[r]>> : r \in page}
  <2>1. page \subseteq Repos
    BY <1>0 DEF WorkerType
  <2>2. {<<r, ghVis[r]>> : r \in page} \subseteq Repos \X Visibility
    <3>1. \A r \in page : r \in Repos /\ ghVis[r] \in Visibility
      BY <1>0, <2>1 DEF PullTypeOK
    <3>2. QED
      BY <3>1
  <2>3. QED
    BY <1>0, <2>1, <2>2 DEF ListRepos, WorkerType
<1>7. CASE ReposPage
  <2>1. PICK page \in Pages(worker.todo) : worker' = [ListRepos(page) EXCEPT !.todo = @ \ page]
    BY <1>7 DEF ReposPage
  <2>2. page \in SUBSET worker.todo
    BY <2>1 DEF Pages
  <2>3. worker.at = "list"
    BY <1>7 DEF ReposPage, ListsReposOf
  <2> DEFINE listed == ListRepos(page)
  <2>4. /\ listed \in WorkerType /\ listed.at = worker.at
        /\ listed.keep = worker.keep /\ listed.ids = worker.ids
        /\ listed.inst = worker.inst /\ listed.todo = worker.todo
        /\ listed.seen = {rv \in worker.seen : rv[1] \notin page}
                            \union {<<r, ghVis[r]>> : r \in page}
    BY <1>6, <2>2
  <2>5. worker' = [listed EXCEPT !.todo = @ \ page]
    BY <2>1
  <2> HIDE DEF listed
  <2>6. /\ worker' \in WorkerType /\ worker'.keep = worker.keep /\ worker'.ids = worker.ids
        /\ worker'.inst = worker.inst
        /\ worker'.seen = {rv \in worker.seen : rv[1] \notin page}
                            \union {<<r, ghVis[r]>> : r \in page}
        /\ worker'.at = "list" /\ worker'.todo = worker.todo \ page
    BY <2>3, <2>4, <2>5 DEF WorkerType
  <2>7. UNCHANGED <<installed, ghVis, active, instRepos, coverage, minted, runs, repoVis,
                    steady, lastSeen>>
    BY <1>7 DEF ReposPage, github, syncTables, uploads, history
  <2>8. QED
    BY <1>5, <2>2, <2>3, <2>6, <2>7
<1>8. CASE LastReposPage
  <2> DEFINE listed == ListRepos(worker.todo)
             all == {rv \in worker.seen : rv[1] \notin worker.todo}
                       \union {<<r, ghVis[r]>> : r \in worker.todo}
  <2>1. worker.at = "list"
    BY <1>8 DEF LastReposPage, ListsReposOf
  <2>2. /\ listed \in WorkerType /\ listed.at = worker.at
        /\ listed.keep = worker.keep /\ listed.ids = worker.ids
        /\ listed.inst = worker.inst /\ listed.seen = all
    BY <1>6
  <2>3. worker' = [listed EXCEPT !.at = "store", !.todo = {}]
    BY <1>8 DEF LastReposPage
  <2> HIDE DEF listed
  <2>4. /\ worker' \in WorkerType /\ worker'.keep = worker.keep /\ worker'.ids = worker.ids
        /\ worker'.inst = worker.inst /\ worker'.seen = all
        /\ worker'.at = "store"
    <3> HIDE DEF all
    <3>1. QED
      BY <2>2, <2>3 DEF WorkerType, Stages
  <2>5. UNCHANGED <<installed, ghVis, active, instRepos, coverage, minted, runs, repoVis,
                    steady, lastSeen>>
    BY <1>8 DEF LastReposPage, github, syncTables, uploads, history
  <2>6. QED
    BY <1>5, <2>1, <2>4, <2>5
<1>9. QED
  BY <1>1, <1>3, <1>4, <1>7, <1>8

\* The stages that write what was listed, and the clock: one step each.
LEMMA CoverageSyncKeeps ==
    ASSUME PullInv,
           \/ (\E i \in Installs : PullInstallation(i))
           \/ StoreInstallation \/ MarkMissing \/ (\E r \in Repos : CoverRepo(r)) \/ Tick
    PROVE  PullInv'
<1> USE DEF PullInv
<1>0. /\ PullTypeOK /\ worker \in WorkerType
      /\ coverage \in [Repos -> CoverageRow \union {Null}]
  BY DEF PullTypeOK
<1>2. ASSUME NEW j \in Installs, PullInstallation(j)
      PROVE  PullInv'
  <2>1. /\ worker.at = "pull" /\ active' = active \union {j}
        /\ worker' = [worker EXCEPT !.at = "list", !.inst = j, !.todo = Granted(j)]
        /\ UNCHANGED <<installed, ghVis, instRepos, coverage, minted, runs, repoVis, steady, lastSeen>>
    BY <1>2 DEF PullInstallation, github, uploads, history
  <2>2. Granted(j) \subseteq Repos
    BY DEF Granted
  <2>3. /\ worker' \in WorkerType /\ worker'.at = "list" /\ worker'.inst = j
        /\ worker'.ids = worker.ids /\ worker'.keep = worker.keep
        /\ worker'.todo = Granted(j)
    BY <1>0, <2>1, <2>2 DEF WorkerType, Stages
  <2>4. SteadyIsPulled'
    <3>1. ASSUME NEW r \in steady, NEW i \in Installs, <<i, r>> \in installed
          PROVE  /\ i \in worker.keep
                 /\ i \in worker.ids \/ Pulled(i, r)'
                 /\ i = j => r \in worker'.todo
      <4>1. i \in worker.keep /\ (i \in worker.ids \/ Pulled(i, r))
        BY <2>1, <3>1 DEF SteadyIsPulled
      <4>2. r \in Repos
        BY <1>0 DEF PullTypeOK
      <4>3. QED
        BY <2>1, <2>3, <3>1, <4>1, <4>2 DEF Pulled, Granted
    <3>2. QED
      BY <2>1, <2>3, <3>1 DEF SteadyIsPulled
  <2>5. SteadyIsAhead'
    BY <2>3 DEF SteadyIsAhead
  <2>6. /\ active' \subseteq Installs /\ instRepos' \subseteq Installs \X Repos
        /\ repoVis' \in [Repos -> Visibility \union {Null}]
    BY <1>0, <2>1 DEF PullTypeOK
  <2>7. worker'.at \in {"installs", "pull", "list", "store", "mark"}
    BY <2>3
  <2>8. QED
    BY <2>1, <2>3, <2>4, <2>5, <2>6, <2>7, EarlyStage
<1>3. CASE StoreInstallation
  <2> DEFINE rest == IF worker.inst \in worker.again THEN worker.ids
                     ELSE worker.ids \ {worker.inst}
             stored == {ir \in instRepos : ir[1] # worker.inst}
                          \union {<<worker.inst, rv[1]>> : rv \in worker.seen}
  <2>1. /\ worker.at = "store"
        /\ repoVis' = VisibilityFrom(worker.seen)
        /\ instRepos' = stored
        /\ worker' = [worker EXCEPT !.at = IF rest = {} THEN "mark" ELSE "pull",
                                    !.ids = rest, !.again = @ \ {worker.inst},
                                    !.inst = Null, !.seen = {}]
        /\ UNCHANGED <<installed, ghVis, active, coverage, minted, runs, steady, lastSeen>>
    BY <1>3 DEF StoreInstallation, github, uploads, history
  <2>2. worker.inst \in active /\ worker.inst \in Installs
    BY <1>0, <2>1 DEF SteadyIsPulled, PullTypeOK
  <2>3. rest \subseteq Installs /\ (\A i \in worker.ids : i \in rest \/ i = worker.inst)
    BY <1>0 DEF WorkerType
  <2>4. /\ worker' \in WorkerType /\ worker'.at = (IF rest = {} THEN "mark" ELSE "pull")
        /\ worker'.ids = rest /\ worker'.keep = worker.keep
    <3> HIDE DEF rest
    <3>1. QED
      BY <1>0, <2>1, <2>3 DEF WorkerType, Stages
  <2>5. /\ active' \subseteq Installs /\ instRepos' \subseteq Installs \X Repos
    BY <1>0, <2>1, <2>2 DEF PullTypeOK, WorkerType
  <2>6. /\ repoVis' \in [Repos -> Visibility \union {Null}]
        /\ \A r \in Repos : repoVis[r] # Null => repoVis'[r] # Null
    BY <1>0, <2>1, VisibilityFromKeeps
  <2>7. SteadyIsPulled'
    <3>1. ASSUME NEW r \in steady, NEW i \in Installs, <<i, r>> \in installed
          PROVE  i \in worker.keep /\ (i \in rest \/ Pulled(i, r)')
      <4>1. /\ i \in worker.keep
            /\ i \in worker.ids \/ Pulled(i, r)
            /\ i = worker.inst => Returned(r)
        BY <2>1, <3>1 DEF SteadyIsPulled
      <4>2. CASE i = worker.inst
        <5>1. PICK v \in Visibility : <<r, v>> \in worker.seen
          BY <4>1, <4>2 DEF Returned
        <5>2. <<i, r>> \in instRepos'
          BY <2>1, <4>2, <5>1
        <5>3. QED
          BY <2>1, <2>2, <4>1, <4>2, <5>2 DEF Pulled
      <4>3. CASE i # worker.inst
        BY <2>1, <2>3, <4>1, <4>3 DEF Pulled
      <4>4. QED
        BY <4>2, <4>3
    <3>2. QED
      BY <2>1, <2>4, <3>1 DEF SteadyIsPulled
  <2>8. worker'.at \in {"installs", "pull", "list", "store", "mark"}
    BY <2>4
  <2>9. SteadyIsAhead'
    BY <2>4 DEF SteadyIsAhead
  <2>10. QED
    BY <2>1, <2>4, <2>5, <2>6, <2>7, <2>8, <2>9, EarlyStage
<1>4. CASE MarkMissing
  <2>1. /\ worker.at = "mark" /\ active' = active \intersect worker.keep
        /\ worker' = [worker EXCEPT !.at = "cover", !.keep = {},
                                    !.todo = {r \in Repos : repoVis[r] # Null}]
        /\ UNCHANGED <<installed, ghVis, instRepos, coverage, minted, runs, repoVis, steady, lastSeen>>
    BY <1>4 DEF MarkMissing, github, uploads, history
  <2>2. /\ worker' \in WorkerType /\ worker'.at = "cover"
        /\ worker'.todo = {r \in Repos : repoVis[r] # Null}
    BY <1>0, <2>1 DEF WorkerType, Stages
  <2>3. PullTypeOK'
    BY <2>1, <2>2 DEF PullTypeOK, WorkerType
  <2>4. /\ SteadyIsCovered' /\ CoverageHasRepo' /\ CandidatesHaveRepo'
        /\ SteadyIsAhead' /\ SteadyIsPulled'
    BY <2>1, <2>2 DEF SteadyIsCovered, Covered, Granted, CoverageHasRepo, CandidatesHaveRepo,
                      SteadyIsAhead, SteadyIsPulled
  <2>5. SteadyIsKnown'
    BY <2>1, <2>2 DEF SteadyIsKnown, SteadyIsPulled, Pulled
  <2>6. SteadyIsNotUncovered'
    BY <1>0, <2>1, <2>2 DEF SteadyIsNotUncovered, Visited, CoverageHasRepo, PullTypeOK
  <2>7. AgeIsSinceLastSeen'
    BY <2>1 DEF AgeIsSinceLastSeen
  <2>8. QED
    BY <2>3, <2>4, <2>5, <2>6, <2>7
<1>5. ASSUME NEW s \in Repos, CoverRepo(s)
      PROVE  PullInv'
  <2> DEFINE found == AnyInstallation(s)
             row == NewCoverage(coverage[s], found)
  <2>1. /\ worker.at = "cover" /\ s \in worker.todo
        /\ coverage' = [coverage EXCEPT ![s] = row]
        /\ worker' = [worker EXCEPT !.todo = @ \ {s}]
        /\ lastSeen' = IF found = Null THEN lastSeen ELSE [lastSeen EXCEPT ![s] = 0]
        /\ UNCHANGED <<installed, ghVis, active, instRepos, minted, runs, repoVis, steady>>
    BY <1>5 DEF CoverRepo, github, uploads
  <2>2. /\ found \in Installs \union {Null}
        /\ \A i \in Installs : Pulled(i, s) => found # Null
    BY <1>0, AnyInstallationFound
  <2>3. /\ row \in CoverageRow /\ row.inst = found
        /\ found # Null => row.age = Null
        /\ found = Null => row.age = 0 \/ (coverage[s] # Null /\ coverage[s].age # Null
                                             /\ row.age = coverage[s].age)
    BY <1>0, <2>2, NewCoverageRow
  <2> HIDE DEF row, found
  <2>4. /\ worker' \in WorkerType /\ worker'.at = "cover" /\ worker'.todo = worker.todo \ {s}
    BY <1>0, <2>1 DEF WorkerType
  <2>5. /\ coverage'[s] = row
        /\ \A r \in Repos : r # s => coverage'[r] = coverage[r]
        /\ lastSeen' \in [Repos -> Nat]
        /\ \A r \in Repos : r # s => lastSeen'[r] = lastSeen[r]
        /\ found = Null => lastSeen'[s] = lastSeen[s]
    BY <1>0, <2>1 DEF PullTypeOK
  <2>6. PullTypeOK'
    BY <1>0, <2>1, <2>3, <2>4, <2>5 DEF PullTypeOK, WorkerType
  <2>7. SteadyIsCovered' /\ SteadyIsAhead' /\ SteadyIsPulled' /\ SteadyIsKnown'
    BY <2>1, <2>4 DEF SteadyIsCovered, Covered, Granted, SteadyIsAhead, SteadyIsPulled,
                      SteadyIsKnown, Pulled
  <2>8. CoverageHasRepo' /\ CandidatesHaveRepo'
    BY <2>1, <2>4, <2>5 DEF CoverageHasRepo, CandidatesHaveRepo
  <2>9. SteadyIsNotUncovered'
    <3> SUFFICES ASSUME NEW r \in steady, r \notin worker'.todo, coverage'[r] # Null
                 PROVE  coverage'[r].inst # Null /\ coverage'[r].age = Null
      BY <2>1, <2>4 DEF SteadyIsNotUncovered, Visited
    <3>1. CASE r = s
      <4>1. PICK i \in Installs : <<i, s>> \in installed
        BY <3>1 DEF SteadyIsCovered, Covered, Granted
      <4>2. Pulled(i, s)
        BY <2>1, <3>1, <4>1 DEF SteadyIsKnown
      <4>3. QED
        BY <2>2, <2>3, <2>5, <3>1, <4>2
    <3>2. CASE r # s
      BY <1>0, <2>1, <2>4, <2>5, <3>2 DEF SteadyIsNotUncovered, Visited, PullTypeOK
    <3>3. QED
      BY <3>1, <3>2
  <2>10. AgeIsSinceLastSeen'
    <3> SUFFICES ASSUME NEW r \in Repos, coverage'[r] # Null, coverage'[r].age # Null
                 PROVE  coverage'[r].age <= lastSeen'[r]
      BY DEF AgeIsSinceLastSeen
    <3>1. CASE r # s
      BY <2>5, <3>1 DEF AgeIsSinceLastSeen
    <3>2. CASE r = s
      <4>1. found = Null
        BY <2>3, <2>5, <3>2
      <4>2. lastSeen[s] \in Nat
        BY <1>0 DEF PullTypeOK
      <4>3. QED
        BY <2>3, <2>5, <3>2, <4>1, <4>2 DEF AgeIsSinceLastSeen
    <3>3. QED
      BY <3>1, <3>2
  <2>11. QED
    BY <2>6, <2>7, <2>8, <2>9, <2>10
<1>6. CASE Tick
  <2>1. /\ coverage' = [r \in Repos |-> IF coverage[r] = Null THEN Null
                                        ELSE [coverage[r] EXCEPT !.age = Older(@)]]
        /\ lastSeen' = [r \in Repos |-> Older(lastSeen[r])]
        /\ UNCHANGED <<installed, ghVis, active, instRepos, minted, runs, repoVis, worker, steady>>
    BY <1>6 DEF Tick, github, uploads
  <2>2. ASSUME NEW age \in Nat \union {Null}
        PROVE  /\ Older(age) \in Nat \union {Null}
               /\ age = Null <=> Older(age) = Null
    BY PullAssumption DEF Older
  <2>3. ASSUME NEW r \in Repos
        PROVE  /\ coverage[r] = Null => coverage'[r] = Null
               /\ coverage[r] # Null => /\ coverage'[r] \in CoverageRow
                                        /\ coverage'[r].inst = coverage[r].inst
                                        /\ coverage'[r].age = Older(coverage[r].age)
                                        /\ coverage[r].age \in Nat \union {Null}
               /\ coverage'[r] # Null => coverage[r] # Null
    <3>1. CASE coverage[r] = Null
      BY <2>1, <3>1
    <3>2. CASE coverage[r] # Null
      <4>1. coverage[r] \in CoverageRow
        BY <1>0, <3>2
      <4>2. coverage'[r] = [coverage[r] EXCEPT !.age = Older(coverage[r].age)]
        BY <2>1, <3>2
      <4>3. QED
        BY <2>2, <3>2, <4>1, <4>2 DEF CoverageRow
    <3>3. QED
      BY <3>1, <3>2
  <2>4. lastSeen' \in [Repos -> Nat]
    BY <1>0, <2>1, PullAssumption DEF PullTypeOK, Older
  <2>5. PullTypeOK'
    <3>1. coverage' \in [Repos -> CoverageRow \union {Null}]
      BY <2>1, <2>3
    <3>2. QED
      BY <1>0, <2>1, <2>4, <3>1 DEF PullTypeOK
  <2>6. /\ SteadyIsCovered' /\ SteadyIsAhead' /\ SteadyIsPulled' /\ SteadyIsKnown'
        /\ CandidatesHaveRepo'
    BY <2>1 DEF SteadyIsCovered, Covered, Granted, SteadyIsAhead, SteadyIsPulled, Returned,
                SteadyIsKnown, Pulled, CandidatesHaveRepo
  <2>7. CoverageHasRepo'
    BY <2>1, <2>3 DEF CoverageHasRepo
  <2>8. SteadyIsNotUncovered'
    BY <1>0, <2>1, <2>2, <2>3 DEF SteadyIsNotUncovered, Visited, PullTypeOK
  <2>9. AgeIsSinceLastSeen'
    <3> SUFFICES ASSUME NEW r \in Repos, coverage'[r] # Null, coverage'[r].age # Null
                 PROVE  coverage'[r].age <= lastSeen'[r]
      BY DEF AgeIsSinceLastSeen
    <3>1. /\ coverage[r] # Null /\ coverage[r].age \in Nat
          /\ coverage'[r].age = Older(coverage[r].age)
      BY <2>2, <2>3
    <3>2. coverage[r].age # Null
      BY <3>1, PullAssumption
    <3>3. coverage[r].age <= lastSeen[r] /\ lastSeen[r] \in Nat
      BY <1>0, <3>1, <3>2 DEF AgeIsSinceLastSeen, PullTypeOK
    <3>4. lastSeen'[r] = Older(lastSeen[r])
      BY <2>1
    <3>5. QED
      BY <3>1, <3>3, <3>4, PullAssumption DEF Older
  <2>10. QED
    BY <2>5, <2>6, <2>7, <2>8, <2>9
<1>7. QED
  BY <1>2, <1>3, <1>4, <1>5, <1>6

\* Every step keeps the inductive invariant.
LEMMA PullStep == PullInv /\ [PullNext]_pullVars => PullInv'
<1> SUFFICES ASSUME PullInv, [PullNext]_pullVars
             PROVE  PullInv'
  OBVIOUS
<1>0. PullTypeOK /\ worker \in WorkerType
  BY DEF PullInv, PullTypeOK
<1>1. ASSUME NEW i \in Installs, NEW s \in Repos, Grant(i, s) \/ Withdraw(i, s)
      PROVE  PullInv'
  BY <1>1, GrantKeeps, WithdrawKeeps
<1>2. CASE \/ (\E i \in Installs : PullInstallation(i))
           \/ StoreInstallation \/ MarkMissing \/ (\E r \in Repos : CoverRepo(r)) \/ Tick
  BY <1>2, CoverageSyncKeeps
<1>2a. CASE \/ ListAppInstallations \/ InstallationsPage \/ LastInstallationsPage
            \/ ReposPage \/ LastReposPage
  BY <1>2a, ListingKeeps
<1>2b. CASE FailToStoreInstallation
  <2>1. /\ UNCHANGED <<installed, ghVis, instRepos, coverage, minted, steady, lastSeen>>
        /\ UNCHANGED active /\ UNCHANGED runs /\ repoVis' = VisibilityFrom(worker.seen)
        /\ worker' = Idle
    BY <1>2b DEF FailToStoreInstallation, github, syncTables, uploads, history
  <2>2. worker' \in WorkerType /\ worker'.at = "idle"
    BY <2>1 DEF Idle, WorkerType, Stages
  <2>3. /\ repoVis' \in [Repos -> Visibility \union {Null}]
        /\ \A r \in Repos : repoVis[r] # Null => repoVis'[r] # Null
    BY <1>0, <2>1, VisibilityFromKeeps
  <2>4. QED
    BY <1>0, <2>1, <2>2, <2>3, LateStage DEF PullTypeOK
<1>3. ASSUME NEW s \in Repos, VisibilityChanges(s) \/ MintUpload(s) \/ IngestRun(s)
                                 \/ BindRepo(s) \/ UnbindRepo(s)
      PROVE  PullInv'
  <2>1. /\ UNCHANGED <<installed, active, instRepos, coverage, worker, steady, lastSeen>>
        /\ UNCHANGED repoVis
    BY <1>3 DEF VisibilityChanges, MintUpload, IngestRun, BindRepo, UnbindRepo,
                github, syncTables, history
  <2>2. /\ ghVis' \in [Repos -> Visibility] /\ minted' \subseteq Repos \X Visibility
        /\ runs' \subseteq Repos
    BY <1>0, <1>3 DEF VisibilityChanges, MintUpload, IngestRun, BindRepo, UnbindRepo,
                github, uploads, PullTypeOK
  <2>3. QED
    BY <1>0, <2>1, <2>2, Bystander DEF PullTypeOK
<1>4. ASSUME NEW s \in Repos, NEW v \in Visibility, IngestRepo(s, v) \/ UploadTokenExpires(s, v)
      PROVE  PullInv'
  <2>1. UNCHANGED <<installed, active, instRepos, coverage, worker, steady, lastSeen>>
    BY <1>4 DEF IngestRepo, UploadTokenExpires, github, syncTables, history
  <2>2. /\ ghVis' \in [Repos -> Visibility] /\ minted' \subseteq Repos \X Visibility
        /\ runs' \subseteq Repos
    BY <1>0, <1>4 DEF IngestRepo, UploadTokenExpires, github, PullTypeOK
  <2>3. /\ repoVis' \in [Repos -> Visibility \union {Null}]
        /\ \A r \in Repos : repoVis[r] # Null => repoVis'[r] # Null
    BY <1>0, <1>4, PullAssumption DEF IngestRepo, UploadTokenExpires, PullTypeOK, Visibility
  <2>4. QED
    BY <2>1, <2>2, <2>3, Bystander
<1>5. CASE SyncUserAccess
  <2>1. UNCHANGED <<installed, active, instRepos, coverage, worker, steady, lastSeen>>
    BY <1>5 DEF SyncUserAccess, github, syncTables, history
  <2>2. /\ ghVis' \in [Repos -> Visibility] /\ minted' \subseteq Repos \X Visibility
        /\ runs' \subseteq Repos
    BY <1>0, <1>5 DEF SyncUserAccess, github, uploads, PullTypeOK
  <2>3. /\ repoVis' \in [Repos -> Visibility \union {Null}]
        /\ \A r \in Repos : repoVis[r] # Null => repoVis'[r] # Null
    BY <1>0, <1>5, PullAssumption DEF SyncUserAccess, PullTypeOK, Visibility
  <2>4. QED
    BY <2>1, <2>2, <2>3, Bystander
<1>6. ASSUME NEW i \in Installs, PullVanishedInstallation(i)
      PROVE  PullInv'
  <2>1. /\ UNCHANGED <<installed, ghVis, instRepos, coverage, minted, steady, lastSeen>>
        /\ UNCHANGED repoVis /\ UNCHANGED runs /\ active' \subseteq Installs /\ worker' = Idle
    BY <1>0, <1>6 DEF PullVanishedInstallation, github, uploads, history, PullTypeOK
  <2>2. worker' \in WorkerType /\ worker'.at = "idle"
    BY <2>1 DEF Idle, WorkerType, Stages
  <2>3. QED
    BY <1>0, <2>1, <2>2, LateStage DEF WorkerType, PullTypeOK
<1>7. ASSUME NEW s \in Repos, LookUpRepo(s) \/ SkipRepo(s)
      PROVE  PullInv'
  <2>1. /\ UNCHANGED <<installed, ghVis, instRepos, coverage, minted, steady, lastSeen>>
        /\ UNCHANGED repoVis /\ UNCHANGED active /\ UNCHANGED runs /\ worker.at = "look"
        /\ \/ worker' = [worker EXCEPT !.at = "sync", !.todo = @ \ {s}, !.seen = {<<s, ghVis[s]>>}]
           \/ worker' = [worker EXCEPT !.todo = @ \ {s}]
    BY <1>7 DEF LookUpRepo, SkipRepo, github, syncTables, uploads, history
  <2>2. <<s, ghVis[s]>> \in Repos \X Visibility
    BY <1>0 DEF PullTypeOK
  <2>3. worker' \in WorkerType /\ worker'.at \in {"look", "sync"}
    <3>1. CASE worker' = [worker EXCEPT !.at = "sync", !.todo = @ \ {s}, !.seen = {<<s, ghVis[s]>>}]
      BY <1>0, <2>2, <3>1 DEF WorkerType, Stages
    <3>2. CASE worker' = [worker EXCEPT !.todo = @ \ {s}]
      BY <1>0, <2>1, <3>2 DEF WorkerType, Stages
    <3>3. QED
      BY <2>1, <3>1, <3>2
  <2>4. QED
    BY <1>0, <2>1, <2>3, LateStage DEF WorkerType, PullTypeOK, Visited
<1>8. CASE StartVisibilitySync \/ EndVisibilitySync \/ RevokeBindings \/ PurgeRuns
  <2>1. /\ UNCHANGED <<installed, ghVis, instRepos, coverage, minted, steady, lastSeen>>
        /\ UNCHANGED repoVis /\ UNCHANGED active /\ runs' \subseteq runs
    BY <1>8 DEF StartVisibilitySync, EndVisibilitySync, RevokeBindings, PurgeRuns,
                github, syncTables, uploads, history
  <2>2. /\ worker' \in WorkerType
        /\ worker'.at \in {"idle", "look", "revoke", "purge"}
        /\ worker.at \in {"look", "revoke", "purge"} \/ (worker.at = "cover" /\ worker.todo = {})
    <3>1. CASE StartVisibilitySync
      BY <1>0, <3>1 DEF StartVisibilitySync, WorkerType, Stages
    <3>2. CASE EndVisibilitySync
      BY <1>0, <3>2 DEF EndVisibilitySync, WorkerType, Stages
    <3>3. CASE RevokeBindings
      BY <1>0, <3>3 DEF RevokeBindings, WorkerType, Stages
    <3>4. CASE PurgeRuns
      BY <3>4 DEF PurgeRuns, WorkerType, Stages, Idle
    <3>5. QED
      BY <1>8, <3>1, <3>2, <3>3, <3>4
  <2>3. QED
    BY <1>0, <2>1, <2>2, LateStage DEF WorkerType, PullTypeOK, Visited
<1>9. CASE SyncRepo
  <2>1. /\ UNCHANGED <<installed, ghVis, instRepos, coverage, minted, steady, lastSeen>>
        /\ UNCHANGED active /\ UNCHANGED runs /\ repoVis' = VisibilityFrom(worker.seen)
        /\ worker.at = "sync" /\ worker' = [worker EXCEPT !.at = "look", !.seen = {}]
    BY <1>9 DEF SyncRepo, github, syncTables, uploads, history
  <2>2. worker' \in WorkerType /\ worker'.at = "look"
    BY <1>0, <2>1 DEF WorkerType, Stages
  <2>3. /\ repoVis' \in [Repos -> Visibility \union {Null}]
        /\ \A r \in Repos : repoVis[r] # Null => repoVis'[r] # Null
    BY <1>0, <2>1, VisibilityFromKeeps
  <2>4. QED
    BY <1>0, <2>1, <2>2, <2>3, LateStage DEF WorkerType, PullTypeOK, Visited
<1>10. CASE AbortPass
  <2>1. /\ UNCHANGED <<installed, ghVis, instRepos, coverage, minted, steady, lastSeen>>
        /\ UNCHANGED runs /\ worker' = Idle
    BY <1>10 DEF AbortPass, github, uploads, history
  <2>2. active' \subseteq Installs
    BY <1>0, <1>10 DEF AbortPass, PullTypeOK, WorkerType
  <2>3. repoVis' = repoVis \/ \E part \in SUBSET worker.seen : repoVis' = VisibilityFrom(part)
    BY <1>10 DEF AbortPass
  <2>4. /\ repoVis' \in [Repos -> Visibility \union {Null}]
        /\ \A r \in Repos : repoVis[r] # Null => repoVis'[r] # Null
    BY <1>0, <2>3, VisibilityFromKeeps DEF PullTypeOK
  <2>5. worker' \in WorkerType /\ worker'.at = "idle"
    BY <2>1 DEF Idle, WorkerType, Stages
  <2>6. QED
    BY <1>0, <2>1, <2>2, <2>4, <2>5, LateStage DEF WorkerType, PullTypeOK
<1>11. CASE UNCHANGED pullVars
  <2>1. /\ UNCHANGED <<installed, active, instRepos, coverage, worker, steady, lastSeen>>
        /\ UNCHANGED ghVis /\ UNCHANGED minted /\ UNCHANGED runs /\ UNCHANGED repoVis
    BY <1>11 DEF pullVars, github, syncTables, uploads, history
  <2>2. QED
    BY <1>0, <2>1, Bystander DEF PullTypeOK
<1>12. QED
  BY <1>1, <1>2, <1>2a, <1>2b, <1>3, <1>4, <1>5, <1>6, <1>7, <1>8, <1>9, <1>10, <1>11
  DEF PullNext, WorkerStep, Environment

\* The inductive invariant holds throughout.
THEOREM PullInvariant == PullSpec => []PullInv
<1>1. PullInit => PullInv
  <2> SUFFICES ASSUME PullInit PROVE PullInv
    OBVIOUS
  <2>1. worker \in WorkerType /\ worker.at = "idle"
    BY DEF PullInit, Idle, WorkerType, Stages
  <2>2. PullTypeOK
    BY <2>1, PullAssumption DEF PullInit, PullTypeOK, WorkerType
  <2>3. QED
    BY <2>1, <2>2 DEF PullInit, PullInv, SteadyIsCovered, CoverageHasRepo, CandidatesHaveRepo,
         SteadyIsAhead, SteadyIsPulled, SteadyIsKnown, SteadyIsNotUncovered, AgeIsSinceLastSeen
<1>2. QED
  BY <1>1, PullStep, PTL DEF PullSpec

-----------------------------------------------------------------------------
(* The theorems *)

\* Only the purge takes runs away, and only those its WHERE clause selects.
LEMMA OnlyThePurgeDeletes ==
    ASSUME [PullNext]_pullVars, NEW r, r \in runs, r \notin runs'
    PROVE  worker.at = "purge" /\ Unretained(r)
<1>1. PurgeRuns
  BY DEF PullNext, WorkerStep, Environment, pullVars, ListAppInstallations, InstallationsPage,
     LastInstallationsPage, PullInstallation, ReposPage, LastReposPage, FailToStoreInstallation,
     PullVanishedInstallation, StoreInstallation, MarkMissing, CoverRepo, LookUpRepo, SkipRepo,
     StartVisibilitySync, SyncRepo, EndVisibilitySync, RevokeBindings, Grant, Withdraw,
     SyncUserAccess, VisibilityChanges, MintUpload, IngestRun, BindRepo, UnbindRepo,
     IngestRepo, UploadTokenExpires, AbortPass, Tick
<1>2. QED
  BY <1>1 DEF PurgeRuns

\* However passes fail, restart and interleave with uploads and grants: the
\* purge takes nothing from a repository GitHub covered all through the pass, as
\* long as no list it is on loses an entry while its pages are read.
THEOREM CoveredReposKeepRuns == PullSpec => CoveredReposKeepTheirRuns
<1>1. PullInv /\ [PullNext]_pullVars => [\A r \in steady : r \in runs => r \in runs']_runs
  BY OnlyThePurgeDeletes DEF PullInv, SteadyIsNotUncovered, Visited, Unretained
<1>2. QED
  BY <1>1, PullInvariant, PTL DEF PullSpec, CoveredReposKeepTheirRuns

\* Revalidation revokes no binding of such a repository either.
THEOREM CoveredReposKeepBindings == PullSpec => CoveredReposKeepTheirBindings
<1>1. PullInv /\ [PullNext]_pullVars
        => [worker.at = "revoke" /\ worker'.at = "purge" =>
               steady \intersect bound \subseteq bound']_bound
  <2> SUFFICES ASSUME PullInv, [PullNext]_pullVars, bound' # bound,
                      worker.at = "revoke", worker'.at = "purge"
               PROVE  steady \intersect bound \subseteq bound'
    OBVIOUS
  <2>1. RevokeBindings
    BY DEF PullNext, WorkerStep, Environment, pullVars, userTables, ListAppInstallations,
     InstallationsPage, LastInstallationsPage, ReposPage, LastReposPage, FailToStoreInstallation,
     PullInstallation, PullVanishedInstallation, StoreInstallation, MarkMissing, CoverRepo,
     LookUpRepo, SkipRepo, StartVisibilitySync, SyncRepo, EndVisibilitySync, PurgeRuns,
     Grant, Withdraw, SyncUserAccess, VisibilityChanges, MintUpload, IngestRun, BindRepo, UnbindRepo,
     IngestRepo, UploadTokenExpires, AbortPass, Tick
  <2>2. QED
    BY <2>1 DEF RevokeBindings, PullInv, SteadyIsNotUncovered, Visited, Uncovered
<1>2. QED
  BY <1>1, PullInvariant, PTL DEF PullSpec, CoveredReposKeepTheirBindings

\* Runs are purged only after a whole retention window in which no coverage
\* check found the repository covered.
THEOREM PurgeWaits == PullSpec => PurgeWaitsOutTheRetentionWindow
<1>1. PullInv /\ [PullNext]_pullVars
        => [\A r \in runs \ runs' : lastSeen[r] > Retention]_runs
  <2> SUFFICES ASSUME PullInv, [PullNext]_pullVars, NEW r \in runs \ runs'
               PROVE  lastSeen[r] > Retention
    OBVIOUS
  <2>1. Unretained(r)
    BY OnlyThePurgeDeletes
  <2>2. r \in Repos
    BY <2>1 DEF PullInv, PullTypeOK
  <2>3. QED
    BY <2>1, <2>2, PullAssumption
    DEF Unretained, PullInv, PullTypeOK, CoverageRow, AgeIsSinceLastSeen
<1>2. QED
  BY <1>1, PullInvariant, PTL DEF PullSpec, PurgeWaitsOutTheRetentionWindow
=============================================================================
