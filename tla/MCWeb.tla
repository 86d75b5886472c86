-------------------------------- MODULE MCWeb --------------------------------
(***************************************************************************)
(* What browsers ask of the server: log in and out, read pages, and all of  *)
(* it through the rate limiter.  The three share nothing that one of them   *)
(* writes (RunPages takes the sessions that Login makes for any that may    *)
(* exist), so a behaviour is about one of them, and the others rest: the    *)
(* states are the sum of theirs.  In each:                                  *)
(*   - two browsers, two accounts, two logins and two requests at once,     *)
(*     with one more user row than there are accounts;                      *)
(*   - two users, one of them a member of the only project, and two         *)
(*     repositories that share their name (one was renamed and the name     *)
(*     used again), each with a run;                                        *)
(*   - three requests of one address between the clock and the lock.        *)
(***************************************************************************)
EXTENDS Login, RunPages, RateLimiter, TLC

CONSTANTS b1, b2, a1, a2, s1, s2, t1, t2, q1, q2,
          u1, u2, p1, x1, x2, n1, n2, name

VARIABLE part

webVars == <<part, loginVars, pageVars, limiterVars>>

MCMembersOf == p1 :> {u1}
MCTwoNames == (x1 :> name) @@ (x2 :> name)
MCTwoRuns == (n1 :> x1) @@ (n2 :> x2)

\* No definition tells the browsers apart, nor the repositories, if each keeps
\* its run: exchanging all of them at once changes nothing.
Twins == {<<b1, b2>>, <<x1, x2>>, <<n1, n2>>}
MCSymmetry ==
    {f \in Permutations(UNION {{t[1], t[2]} : t \in Twins}) :
        \/ \A t \in Twins : f[t[1]] = t[1] /\ f[t[2]] = t[2]
        \/ \A t \in Twins : f[t[1]] = t[2] /\ f[t[2]] = t[1]}

WebInit ==
    /\ part \in {"login", "pages", "limiter"}
    /\ LoginInit /\ PagesInit /\ LimiterInit
    /\ part # "pages" => public = {}

WebNext ==
    \/ part = "login" /\ LoginNext /\ UNCHANGED <<part, pageVars, limiterVars>>
    \/ part = "pages" /\ PagesNext /\ UNCHANGED <<part, loginVars, limiterVars>>
    \/ part = "limiter" /\ LimiterNext /\ UNCHANGED <<part, loginVars, pageVars>>

WebSpec == WebInit /\ [][WebNext]_webVars
=============================================================================
