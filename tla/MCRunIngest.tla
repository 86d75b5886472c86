---------------------------- MODULE MCRunIngest ----------------------------
(***************************************************************************)
(* A small instance of RunIngest: two repositories of one owner, so that   *)
(* the limiter and the quota are shared, and one execution id that both    *)
(* repositories use.                                                       *)
(***************************************************************************)
EXTENDS RunIngest, TLC

CONSTANTS r1, r2, o1, e1, e2, e3, good, bad, h1, h2

MCOwnerOf == [r \in Repos |-> o1]
MCSymmetry == Permutations(Handlers) \union Permutations(Repos) \union Permutations(Executions)
=============================================================================
