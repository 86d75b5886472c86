------------------------------ MODULE OidcKeys ------------------------------
(***************************************************************************)
(* Verifier of oidc/verifier.go: requests present OIDC tokens of GitHub     *)
(* Actions, the verifier checks them against GitHub's signing keys, which   *)
(* it caches for CacheTTL.                                                  *)
(*                                                                         *)
(* A verification reads the cache under the read lock; if that does not     *)
(* settle it, refreshJWKS takes the write lock, keeps it during the whole   *)
(* exchange with GitHub, and the cache is read once more.  GitHub publishes *)
(* and withdraws keys at any time.                                          *)
(*                                                                         *)
(* A key stands for its kid.  A token is abstracted to what Verify tests:   *)
(* the kid it names, the key that really signed it, whether issuer,         *)
(* algorithm and dates hold, its audiences, and its bad required claims.    *)
(*                                                                         *)
(* Right before some definitions stands a faulty variant of them, used only *)
(* to show that the properties notice the fault.                            *)
(***************************************************************************)
EXTENDS Naturals, FiniteSets

CONSTANTS Kids,          \* key ids
          NoKid,         \* the kid header is missing or blank
          Tokens,        \* tokens that may be presented
          Audiences,     \* Config.Audiences; empty allows every audience
          Verifiers,     \* goroutines calling Verify
          CacheTTL,      \* Config.CacheTTL, one hour
          FetchTimeout,  \* the HTTP client's time-out, ten seconds
          MaxTime        \* bound on the clock

RequiredClaims == {"repository", "run_id", "repository_id", "repository_owner_id",
                   "repository_visibility", "run_attempt", "actor_id", "sha"}

ASSUME OidcAssumption ==
    /\ IsFiniteSet(Kids) /\ IsFiniteSet(Verifiers) /\ NoKid \notin Kids
    /\ \A t \in Tokens : /\ t.kid \in Kids \union {NoKid}
                         /\ t.valid \in BOOLEAN
                         /\ t.bad \subseteq RequiredClaims
    /\ CacheTTL \in Nat \ {0} /\ FetchTimeout \in Nat /\ MaxTime \in Nat \ {0}

VARIABLES now,         \* the clock
          published,   \* keys GitHub publishes
          changed,     \* history: when each key was last published or withdrawn
          keys,        \* Verifier.keys
          expiresAt,   \* Verifier.expiresAt
          verify       \* the verification each goroutine is in

oidcVars == <<now, published, changed, keys, expiresAt, verify>>

-----------------------------------------------------------------------------
NoToken == [kid |-> NoKid, signer |-> NoKid, valid |-> FALSE, aud |-> {}, bad |-> {}]
NoVerification == [phase |-> "idle", token |-> NoToken, doc |-> {}, at |-> 0,
                   failed |-> FALSE, verdict |-> "none"]

\* In a verification, at is the time of its last test of the cache's age or, from
\* the request to GitHub until its end, the time of that request.

\* The verifier's lock is held for writing from the start of the fetch on.
Locked == \E v \in Verifiers : verify[v].phase \in {"fetch", "store"}

SetVerify(v, next) == verify' = [verify EXCEPT ![v] = next]

OidcInit ==
    /\ now = 1
    /\ published \in SUBSET Kids
    /\ changed = [k \in Kids |-> 0]
    /\ keys = {}
    /\ expiresAt = 0
    /\ verify = [v \in Verifiers |-> NoVerification]

-----------------------------------------------------------------------------
\* isAudienceAllowed and tokenAudiences
IsAudienceAllowed(t) == Audiences = {} \/ t.aud \cap Audiences # {}

\* principalFromClaims: every required claim is there and well-formed.
PrincipalFromClaims(t) == t.bad = {}

\* Verify, once keyForKID has answered: the signature, the standard claims,
\* the audience, the claims of the principal.
VerdictIgnoringSigner(t, found) ==
    IF ~found THEN "unknown"
    ELSE IF t.valid /\ IsAudienceAllowed(t) /\ PrincipalFromClaims(t)
         THEN "principal" ELSE "refused"
Verdict(t, found) ==
    IF ~found THEN "unknown"
    ELSE IF t.signer = t.kid /\ t.valid /\ IsAudienceAllowed(t) /\ PrincipalFromClaims(t)
         THEN "principal" ELSE "refused"

\* A request presents a token; without a kid it is refused at once.
Present(v, t) ==
    /\ verify[v].phase = "idle"
    /\ SetVerify(v, IF t.kid = NoKid
                    THEN [NoVerification EXCEPT !.phase = "done", !.token = t, !.verdict = "refused"]
               ELSE [NoVerification EXCEPT !.phase = "lookup", !.token = t])
    /\ UNCHANGED <<now, published, changed, keys, expiresAt>>

\* keyForKID's first cachedKey: a key of a cache that has not expired.
LookUp(v) ==
    LET t == verify[v].token
    IN /\ verify[v].phase = "lookup"
       /\ ~Locked
       /\ SetVerify(v, IF now <= expiresAt /\ t.kid \in keys
                  THEN [verify[v] EXCEPT !.phase = "done", !.at = now,
                                         !.verdict = Verdict(t, TRUE)]
                  ELSE [verify[v] EXCEPT !.phase = "refresh"])
       /\ UNCHANGED <<now, published, changed, keys, expiresAt>>

\* refreshJWKS up to the request: another goroutine may have refreshed.
LockUnlessCached(v) ==
    /\ verify[v].phase = "refresh"
    /\ ~Locked
    /\ SetVerify(v, IF keys # {}
               THEN [verify[v] EXCEPT !.phase = "recheck", !.at = now]
               ELSE [verify[v] EXCEPT !.phase = "fetch", !.at = now])
    /\ UNCHANGED <<now, published, changed, keys, expiresAt>>
RefreshJWKS(v) ==
    /\ verify[v].phase = "refresh"
    /\ ~Locked
    /\ SetVerify(v, IF now < expiresAt /\ keys # {}
               THEN [verify[v] EXCEPT !.phase = "recheck", !.at = now]
               ELSE [verify[v] EXCEPT !.phase = "fetch", !.at = now])
    /\ UNCHANGED <<now, published, changed, keys, expiresAt>>

\* GitHub answers with the keys it publishes, or with none that can be used.
FetchAnswered(v) ==
    /\ verify[v].phase = "fetch"
    /\ \E doc \in {published, {}} :
          SetVerify(v, [verify[v] EXCEPT !.phase = "store", !.doc = doc])
    /\ UNCHANGED <<now, published, changed, keys, expiresAt>>

\* The exchange fails: refreshJWKS returns an error, the cache stays as it is.
FetchFails(v) ==
    /\ verify[v].phase = "fetch"
    /\ SetVerify(v, [verify[v] EXCEPT !.phase = "recheck", !.failed = TRUE, !.at = now])
    /\ UNCHANGED <<now, published, changed, keys, expiresAt>>

\* The rest of refreshJWKS: the fetched keys replace the cached ones, unless
\* none of them can be used, which is an error like any other.
Refreshed(v, newKeys, ttl) ==
    LET unusable == verify[v].doc = {}
    IN /\ verify[v].phase = "store"
       /\ SetVerify(v, [verify[v] EXCEPT !.phase = "recheck", !.doc = {}, !.failed = unusable, !.at = now])
       /\ keys' = IF unusable THEN keys ELSE newKeys
       /\ expiresAt' = IF unusable THEN expiresAt ELSE now + ttl
       /\ UNCHANGED <<now, published, changed>>
StoreKeys(v) == Refreshed(v, verify[v].doc, CacheTTL)

\* keyForKID's second cachedKey, which takes keys of any age.
Recheck(v) ==
    LET t == verify[v].token
    IN /\ verify[v].phase = "recheck"
       /\ ~Locked
       /\ SetVerify(v, [verify[v] EXCEPT !.phase = "done", !.verdict = Verdict(t, t.kid \in keys)])
       /\ UNCHANGED <<now, published, changed, keys, expiresAt>>

\* The handler goes on with the verdict.
Return(v) ==
    /\ verify[v].phase = "done"
    /\ SetVerify(v, NoVerification)
    /\ UNCHANGED <<now, published, changed, keys, expiresAt>>

-----------------------------------------------------------------------------
\* GitHub publishes or withdraws a key.
Rotate(k) ==
    /\ published' = IF k \in published THEN published \ {k} ELSE published \union {k}
    /\ changed' = [changed EXCEPT ![k] = now]
    /\ UNCHANGED <<now, keys, expiresAt, verify>>

\* The process is replaced; the cache is in memory.
Restart ==
    /\ keys' = {}
    /\ expiresAt' = 0
    /\ verify' = [v \in Verifiers |-> NoVerification]
    /\ UNCHANGED <<now, published, changed>>

\* An exchange with GitHub does not outlast the client's time-out.
Tick ==
    /\ now < MaxTime
    /\ \A v \in Verifiers :
          verify[v].phase \in {"fetch", "store"} => now < verify[v].at + FetchTimeout
    /\ now' = now + 1
    /\ UNCHANGED <<published, changed, keys, expiresAt, verify>>

VerifyStep(v) ==
    \/ LookUp(v) \/ RefreshJWKS(v) \/ FetchAnswered(v) \/ FetchFails(v)
    \/ StoreKeys(v) \/ Recheck(v)

OidcNext ==
    \/ \E v \in Verifiers : VerifyStep(v) \/ Return(v) \/ \E t \in Tokens : Present(v, t)
    \/ \E k \in Kids : Rotate(k)
    \/ Restart
    \/ Tick

OidcSpec == OidcInit /\ [][OidcNext]_oidcVars

-----------------------------------------------------------------------------
\* How long ago a key of an unexpired cache can have been withdrawn.
MaxAge == CacheTTL + FetchTimeout
PublishedWithin(k, d, t) == k \in published \/ changed[k] + d >= t

\* A token is accepted only if the key it names signed it and that key was
\* published within MaxAge; an older key is accepted only by a verification
\* whose own attempt to refresh the cache failed (keyForKID).
WithdrawnKeysStopVerifying ==
    \A v \in Verifiers : verify[v].verdict = "principal" =>
       LET t == verify[v].token
       IN /\ t.signer = t.kid
          /\ verify[v].failed \/ PublishedWithin(t.kid, MaxAge, verify[v].at)

\* A key that has been published for longer than MaxAge is unknown only to a
\* verification whose own attempt to refresh the cache failed: the early return
\* of refreshJWKS does not hide a rotation for longer.
PublishedKeysBecomeKnown ==
    \A v \in Verifiers : verify[v].verdict = "unknown" =>
       LET k == verify[v].token.kid
       IN verify[v].failed \/ k \notin published \/ changed[k] + MaxAge >= verify[v].at
=============================================================================
