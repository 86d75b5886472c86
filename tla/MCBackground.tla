---------------------------- MODULE MCBackground ----------------------------
(***************************************************************************)
(* What the server does without being asked: migrate at start-up, cut the  *)
(* text of a migration, list the repositories of an installation, find the *)
(* job of each run.  The four share nothing that one of them writes, so a  *)
(* behaviour is about one of them, and the others rest: the states are the *)
(* sum of theirs.  In each:                                                *)
(*   - the instance that runs, the next one with a newer binary, and a job *)
(*     that only migrates;                                                 *)
(*   - every text of up to four characters, of five without the second     *)
(*     kind of quote, and of seven of those that a named dollar quote with *)
(*     a separator in it consists of;                                      *)
(*   - four repositories on pages of two, so that the list ends within a   *)
(*     page or with a full one;                                            *)
(*   - two back-to-back jobs of one attempt on one runner, closer together *)
(*     than the slack, and a job of a second attempt; the upload tokens of *)
(*     two runs, which may name another attempt, runner or window of the   *)
(*     capture at every upload, or no window.                              *)
(***************************************************************************)
EXTENDS MCEnrichment, Migrate, GithubListing, SqlSplit

VARIABLE part

backgroundVars == <<part, migrateVars, splitVars, listingVars, enrichmentVars>>

MCFiles == [p \in Processes |-> IF p = "old" THEN 2 ELSE 3]
MCRepos == 1..4
MCSpaces == {"\n"}
MCChars == {"x", "\n", ";", "-", "$", "'", "\""}
TextsOver(chars, lengths) == UNION {[1 .. n -> chars] : n \in lengths}
MCTexts == UNION {TextsOver(MCChars, 0 .. 4), TextsOver(MCChars \ {"\""}, {5}),
                  TextsOver({"x", ";", "$"}, 6 .. 7)}

BackgroundInit ==
    /\ part \in {"migrate", "split", "listing", "enrichment"}
    /\ SplitInit /\ (part # "split" => sql = <<>>)
    /\ MigrateInit /\ ListingInit /\ EnrichmentInit
    /\ part # "listing" => repos = {}
    /\ part # "enrichment" => covered

Migrating(A) ==
    part = "migrate" /\ A /\ UNCHANGED <<part, splitVars, listingVars, enrichmentVars>>
Splitting(A) ==
    part = "split" /\ A /\ UNCHANGED <<part, migrateVars, listingVars, enrichmentVars>>
ListingRepos(A) ==
    part = "listing" /\ A /\ UNCHANGED <<part, migrateVars, splitVars, enrichmentVars>>
Enriching(A) ==
    part = "enrichment" /\ A /\ UNCHANGED <<part, migrateVars, splitVars, listingVars>>

BackgroundNext ==
    \/ Migrating(MigrateNext)
    \/ Splitting(SplitNext)
    \/ ListingRepos(ListingNext)
    \/ Enriching(EnrichmentNext)

\* The fairness of the specifications.
BackgroundSpec ==
    /\ BackgroundInit /\ [][BackgroundNext]_backgroundVars
    /\ \A p \in Processes : WF_backgroundVars(Migrating(ProcessStep(p)))
    /\ WF_backgroundVars(ListingRepos(Work))
    /\ WF_backgroundVars(Enriching(PassStep))
=============================================================================
