---------------------------- MODULE GithubListing ----------------------------
(***************************************************************************)
(* The paged listings of server/internal/githubapp/client.go, followed     *)
(* through the one that decides coverage: ListInstallationRepositories and  *)
(* the ReplaceInstallationRepos that stores its answer, once per pull pass *)
(* (runCoverageSync in workers/pull.go).  GitHub numbers its pages over a   *)
(* list that goes on changing between two requests, so a repository may be *)
(* skipped (an earlier one was removed and the rest moved up) or returned  *)
(* twice (an earlier one was added).  The four other listings of the       *)
(* client run the same loop with another endpoint and token.               *)
(*                                                                         *)
(* The installation token comes from a cache with a time to live.  A time  *)
(* to live is kept as the ticks that remain, so that time need not be      *)
(* bounded; changes on GitHub, failed requests and ticks in the middle of  *)
(* a listing are, by budgets.                                              *)
(*                                                                         *)
(* Right before some definitions stands a faulty variant of them, used only *)
(* to show that the properties notice the fault.                            *)
(***************************************************************************)
EXTENDS Integers, Sequences, FiniteSets, Functions

CONSTANTS Repos,        \* the repository ids GitHub may list, in this order
          PageSize,     \* per_page, 100 in the code
          TokenLife,    \* ticks an installation token lives (GitHub: one hour)
          Margin,       \* ticks before its end a token is no longer handed out
          MaxChanges,   \* bound: repositories added or removed
          MaxFailures,  \* bound: failed requests
          MaxDelays     \* bound: ticks that pass while a listing is under way

ASSUME ListingAssumption ==
    /\ Repos \subseteq Nat /\ IsFiniteSet(Repos)
    /\ PageSize \in Nat \ {0}
    /\ {TokenLife, Margin, MaxChanges, MaxFailures, MaxDelays} \subseteq Nat
    \* The client gives up on a request after 15 seconds, far less than the
    \* hour a token lives.
    /\ TokenLife > Margin + MaxDelays

VARIABLES repos,    \* GitHub: the repositories of the installation
          stored,   \* installation_repos
          cache,    \* c.installationTokens: ticks left of the cached token, 0 if none
          op,       \* the listing under way
          seen,     \* ghost: what happened on GitHub during the listing
          spent     \* changes, faults and delays used up so far

listingVars == <<repos, stored, cache, op, seen, spent>>

NoListing == [phase |-> "idle", ttl |-> 0, page |-> 1, out |-> <<>>]
NothingSeen == [kept |-> {}, removed |-> 0, added |-> 0]

ListingInit ==
    /\ repos \in SUBSET Repos
    /\ stored = {}
    /\ cache = 0
    /\ op = NoListing
    /\ seen = NothingSeen
    /\ spent = [changes |-> 0, faults |-> 0, delays |-> 0]

Fault == /\ spent.faults < MaxFailures
         /\ spent' = [spent EXCEPT !.faults = @ + 1]
-----------------------------------------------------------------------------
\* The loop starts at page 1 with an empty result and the token it was given.
StartListing(ttl) ==
    /\ op' = [phase |-> "pages", ttl |-> ttl, page |-> 1, out |-> <<>>]
    /\ seen' = [kept |-> repos, removed |-> 0, added |-> 0]

\* "now.Before(tok.ExpiresAt.Add(-1 * time.Minute))"
Reusable(ttl) == ttl > Margin

\* installationToken, cached.
TokenFromCache ==
    /\ op.phase = "idle"
    /\ Reusable(cache)
    /\ StartListing(cache)
    /\ UNCHANGED <<repos, stored, cache, spent>>

\* installationToken, no usable token: the lock is released and a new token
\* asked for.  It ages from the moment GitHub issues it.
RequestToken ==
    /\ op.phase = "idle"
    /\ ~Reusable(cache)
    /\ op' = [NoListing EXCEPT !.phase = "token", !.ttl = TokenLife]
    /\ UNCHANGED <<repos, stored, cache, seen, spent>>

\* The token arrives and is cached, and the listing starts.
TokenArrives ==
    /\ op.phase = "token"
    /\ cache' = op.ttl
    /\ StartListing(op.ttl)
    /\ UNCHANGED <<repos, stored, spent>>

\* The list as it stands now is ordered by id: the position of a repository, the
\* repository at a position, and page n.
Position(r, list) == Cardinality({x \in list : x <= r})
RepoAt(i, list) == CHOOSE r \in list : Position(r, list) = i
OnPage(n, list) == {r \in list : (n - 1) * PageSize < Position(r, list)
                                 /\ Position(r, list) <= n * PageSize}
Page(n) == [i \in 1 .. Cardinality(OnPage(n, repos)) |-> RepoAt((n - 1) * PageSize + i, repos)]

\* Faulty: the loop stops at a full page.
IsLastPageIfFull(page) == Len(page) <= PageSize

\* "len(payload.Repositories) < 100"
IsLastPage(page) == Len(page) < PageSize

\* Faulty: the loop keeps asking for the same page.
ListSamePage ==
    /\ op.phase = "pages"
    /\ op.ttl > 0
    /\ LET page == Page(op.page)
       IN op' = [op EXCEPT !.out = page,
                           !.phase = IF IsLastPage(page) THEN "listed" ELSE @]
    /\ UNCHANGED <<repos, stored, cache, seen, spent>>

\* One round of the loop: a request GitHub accepts while the token is valid.
ListPage ==
    /\ op.phase = "pages"
    /\ op.ttl > 0
    /\ LET page == Page(op.page)
       IN op' = [op EXCEPT !.out = @ \o page,
                           !.page = IF IsLastPage(page) THEN @ ELSE @ + 1,
                           !.phase = IF IsLastPage(page) THEN "listed" ELSE @]
    /\ UNCHANGED <<repos, stored, cache, seen, spent>>

\* Any failed request (also one with a token that has expired, which GitHub
\* answers with 401) returns the error and no part of the list; runCoverageSync
\* returns it too and the pass ends.
AbandonListing ==
    /\ op' = NoListing
    /\ seen' = NothingSeen
    /\ UNCHANGED <<repos, stored, cache>>

RequestFails == op.phase \in {"token", "pages"} /\ Fault /\ AbandonListing

TokenExpired ==
    /\ op.phase = "pages" /\ op.ttl = 0
    /\ AbandonListing
    /\ UNCHANGED spent

\* ReplaceInstallationRepos, one transaction: the rows of the installation are
\* deleted and inserted anew with plain INSERTs, so a repository that is listed
\* twice violates the primary key and rolls everything back.
ReplaceInstallationRepos ==
    /\ op.phase = "listed"
    /\ \/ /\ stored' = IF IsInjective(op.out) THEN Range(op.out) ELSE stored
          /\ UNCHANGED spent
       \/ Fault /\ UNCHANGED stored
    /\ op' = NoListing
    /\ seen' = NothingSeen
    /\ UNCHANGED <<repos, cache>>
-----------------------------------------------------------------------------
Listing == op.phase = "pages"

\* A repository is created, or given to the installation.
AddRepo(r) ==
    /\ spent.changes < MaxChanges
    /\ r \notin repos
    /\ repos' = repos \cup {r}
    /\ seen' = IF Listing THEN [seen EXCEPT !.added = @ + 1] ELSE seen
    /\ spent' = [spent EXCEPT !.changes = @ + 1]
    /\ UNCHANGED <<stored, cache, op>>

\* A repository is deleted, or taken from the installation.
RemoveRepo(r) ==
    /\ spent.changes < MaxChanges
    /\ r \in repos
    /\ repos' = repos \ {r}
    /\ seen' = IF Listing THEN [seen EXCEPT !.removed = @ + 1, !.kept = @ \ {r}]
                          ELSE seen
    /\ spent' = [spent EXCEPT !.changes = @ + 1]
    /\ UNCHANGED <<stored, cache, op>>

\* Time passes: freely between two passes, from a budget during one.
TokensAge ==
    LET Aged(ttl) == IF ttl = 0 THEN 0 ELSE ttl - 1
    IN /\ cache' = Aged(cache)
       /\ op' = [op EXCEPT !.ttl = Aged(@)]
       /\ \/ op.phase = "idle" /\ UNCHANGED spent
          \/ /\ op.phase # "idle" /\ spent.delays < MaxDelays
             /\ spent' = [spent EXCEPT !.delays = @ + 1]
       /\ UNCHANGED <<repos, stored, seen>>

Work == \/ TokenFromCache \/ RequestToken \/ TokenArrives
        \/ ListPage \/ TokenExpired \/ ReplaceInstallationRepos

ListingNext ==
    \/ Work
    \/ RequestFails
    \/ \E r \in Repos : AddRepo(r) \/ RemoveRepo(r)
    \/ TokensAge

\* Start runs a pass every 15 minutes for as long as the process lives, and
\* every request and transaction ends (the client's timeout, the pool's).
ListingSpec == ListingInit /\ [][ListingNext]_listingVars
LiveListingSpec == ListingSpec /\ WF_listingVars(Work)
-----------------------------------------------------------------------------
(* Properties *)

\* A finished listing is wrong by no more than the list moved meanwhile: it
\* skips at most one lasting repository for each one removed during it, and
\* repeats at most one for each one added.  With no change it is exact, whatever
\* the number of pages (a full last page included).
ListingErrorsAreBounded ==
    op.phase = "listed" =>
        /\ Cardinality(seen.kept \ Range(op.out)) <= seen.removed
        /\ Len(op.out) - Cardinality(Range(op.out)) <= seen.added

\* A wrong listing is repaired: once GitHub stops changing and failing, the
\* passes that follow store the list as it is.
CoverageConverges == <>[](stored = repos)
=============================================================================
