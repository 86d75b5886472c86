------------------------------ MODULE MCCaches ------------------------------
(***************************************************************************)
(* What the server keeps of GitHub's answers: the signing keys of OIDC      *)
(* tokens, in memory, and the repositories of a user, in a table.  The two  *)
(* share nothing that one of them writes, so a behaviour is about one of    *)
(* them, and the other rests: the states are the sum of theirs.  In each:   *)
(*   - two keys and two verifications at once, of a good token for each     *)
(*     key, one that another key signed, and one that fails every other     *)
(*     test;                                                                *)
(*   - two requests of one user about one repository.                       *)
(***************************************************************************)
EXTENDS OidcKeys, UserAccess, TLC

CONSTANTS k1, k2, g1, g2

VARIABLE part

Good(k) == [kid |-> k, signer |-> k, valid |-> TRUE, aud |-> {"server"}, bad |-> {}]
MCTokens == {Good(k1), Good(k2), [Good(k1) EXCEPT !.signer = k2],
             [kid |-> NoKid, signer |-> k1, valid |-> FALSE, aud |-> {}, bad |-> {"run_id"}]}

\* The goroutines, of which no definition tells one from another.
MCSymmetry == Permutations({g1, g2})

cachesVars == <<part, oidcVars, accessVars>>

CachesInit ==
    /\ part \in {"keys", "access"}
    /\ OidcInit /\ AccessInit
    /\ part # "keys" => published = {}
    /\ part # "access" => granted = {}

CachesNext ==
    \/ part = "keys" /\ OidcNext /\ UNCHANGED <<part, accessVars>>
    \/ part = "access" /\ AccessNext /\ UNCHANGED <<part, oidcVars>>

CachesSpec == CachesInit /\ [][CachesNext]_cachesVars
=============================================================================
