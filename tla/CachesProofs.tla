----------------------------- MODULE CachesProofs -----------------------------
(***************************************************************************)
(* Theorems about what the server keeps of GitHub's answers: OidcKeys, for  *)
(* every set of keys, tokens and goroutines, every time to live and every   *)
(* time-out, UserAccess, for every set of repositories and requests and     *)
(* every time to live, staleness and time-out, and GithubListing, for every *)
(* list, page size and number of changes.                                   *)
(***************************************************************************)
EXTENDS OidcKeys, UserAccess, GithubListing, FiniteSetTheorems, SequenceTheorems, TLAPS

-----------------------------------------------------------------------------
(* OidcKeys: the inductive invariant *)

Verification ==
    [phase : {"idle", "lookup", "refresh", "fetch", "store", "recheck", "done"},
     token : Tokens \union {NoToken}, doc : SUBSET Kids, at : Nat,
     failed : BOOLEAN, verdict : {"none", "refused", "unknown", "principal"}]

OidcTypeOK ==
    /\ now \in Nat
    /\ published \subseteq Kids
    /\ changed \in [Kids -> Nat]
    /\ keys \subseteq Kids
    /\ expiresAt \in Nat
    /\ verify \in [Verifiers -> Verification]

\* No time lies ahead, and an exchange with GitHub is shorter than its time-out.
TimesArePast(x) ==
    /\ x.at <= now
    /\ x.phase \in {"fetch", "store"} => now <= x.at + FetchTimeout

\* What GitHub answered was so at some time since the request.
AnswerIsRecent(x) ==
    x.phase = "store" /\ x.doc # {} =>
       \A k \in Kids : (k \in x.doc <=> k \in published) \/ changed[k] >= x.at

\* A verification that did not fail to refresh looks the key up in a cache that
\* had not expired when it was last tested.
RecheckIsFresh(x) ==
    x.phase = "recheck" /\ ~x.failed => keys # {} /\ x.at <= expiresAt

\* The key in question is a real one, and the verdict comes last.
KeyIsNamed(x) ==
    /\ x.phase \notin {"idle", "done"} => x.token.kid \in Kids /\ x.verdict = "none"
    /\ x.verdict \in {"unknown", "principal"} => x.token.kid \in Kids

\* The two properties, for one verification.
VerdictIsRecent(x) ==
    LET k == x.token.kid
    IN /\ x.verdict = "principal" =>
             x.token.signer = k /\ (x.failed \/ PublishedWithin(k, MaxAge, x.at))
       /\ x.verdict = "unknown" =>
             x.failed \/ k \notin published \/ changed[k] + MaxAge >= x.at

VerificationOK(x) ==
    TimesArePast(x) /\ AnswerIsRecent(x) /\ RecheckIsFresh(x) /\ KeyIsNamed(x) /\ VerdictIsRecent(x)

\* What is cached was so not longer than MaxAge before the cache expires.
CacheIsRecent ==
    /\ expiresAt <= now + CacheTTL
    /\ keys # {} => \A k \in Kids : (k \in keys <=> k \in published)
                                       \/ changed[k] + MaxAge >= expiresAt

OidcInv ==
    /\ OidcTypeOK
    /\ CacheIsRecent
    /\ \A v \in Verifiers : VerificationOK(verify[v])

-----------------------------------------------------------------------------
(* OidcKeys: the invariant is inductive *)

\* A step that changes one verification only.
LEMMA OneVerifies ==
    ASSUME OidcInv, NEW v \in Verifiers, NEW next \in Verification, VerificationOK(next),
           SetVerify(v, next), UNCHANGED <<now, published, changed, keys, expiresAt>>
    PROVE  OidcInv'
<1>1. OidcTypeOK' /\ CacheIsRecent'
  BY DEF OidcInv, OidcTypeOK, SetVerify, CacheIsRecent
<1>2. ASSUME NEW w \in Verifiers
      PROVE  VerificationOK(verify'[w])
  BY DEF OidcInv, OidcTypeOK, SetVerify
<1>3. \A w \in Verifiers : VerificationOK(verify[w])'
  BY <1>2 DEF VerificationOK, TimesArePast, AnswerIsRecent, RecheckIsFresh, KeyIsNamed,
              VerdictIsRecent, PublishedWithin
<1>4. QED
  BY <1>1, <1>3 DEF OidcInv

\* A verification that goes on has no verdict that could be wrong.
LEMMA StillVerifying ==
    ASSUME NEW x, x.verdict = "none", x.token.kid \in Kids,
           TimesArePast(x), AnswerIsRecent(x), RecheckIsFresh(x)
    PROVE  VerificationOK(x)
BY DEF VerificationOK, KeyIsNamed, VerdictIsRecent

\* keyForKID's answers from a cache that had not expired at the time of the test.
LEMMA CachedVerdict ==
    ASSUME OidcInv, NEW t, t.kid \in Kids, NEW at \in Nat, at <= expiresAt, keys # {}
    PROVE  /\ Verdict(t, t.kid \in keys) \in {"unknown", "refused", "principal"}
           /\ Verdict(t, t.kid \in keys) = "principal" =>
                 t.signer = t.kid /\ PublishedWithin(t.kid, MaxAge, at)
           /\ Verdict(t, t.kid \in keys) = "unknown" =>
                 t.kid \notin published \/ changed[t.kid] + MaxAge >= at
<1>1. expiresAt \in Nat /\ changed[t.kid] \in Nat /\ MaxAge \in Nat
  BY OidcAssumption DEF OidcInv, OidcTypeOK, MaxAge
<1>2. (t.kid \in keys <=> t.kid \in published) \/ changed[t.kid] + MaxAge >= expiresAt
  BY DEF OidcInv, CacheIsRecent
<1>3. (t.kid \in keys <=> t.kid \in published) \/ changed[t.kid] + MaxAge >= at
  BY <1>1, <1>2
<1>4. QED
  BY <1>3 DEF Verdict, PublishedWithin

\* Every step keeps the inductive invariant, one action at a time.
LEMMA OidcStep == OidcInv /\ [OidcNext]_oidcVars => OidcInv'
<1> SUFFICES ASSUME OidcInv, [OidcNext]_oidcVars
             PROVE  OidcInv'
  OBVIOUS
<1> USE OidcAssumption
<1>0. OidcTypeOK /\ \A v \in Verifiers : verify[v] \in Verification /\ VerificationOK(verify[v])
  BY DEF OidcInv, OidcTypeOK
<1>a. NoVerification \in Verification /\ VerificationOK(NoVerification)
  BY <1>0 DEF NoVerification, Verification, NoToken, VerificationOK, TimesArePast, AnswerIsRecent,
       RecheckIsFresh, KeyIsNamed, VerdictIsRecent, OidcTypeOK
<1>1. ASSUME NEW v \in Verifiers, NEW t \in Tokens, Present(v, t)
      PROVE  OidcInv'
  <2> DEFINE next == IF t.kid = NoKid
                     THEN [NoVerification EXCEPT !.phase = "done", !.token = t, !.verdict = "refused"]
                     ELSE [NoVerification EXCEPT !.phase = "lookup", !.token = t]
  <2>1. next \in Verification
    BY DEF NoVerification, Verification
  <2>2. VerificationOK(next)
    BY <1>0 DEF NoVerification, VerificationOK, TimesArePast, AnswerIsRecent,
       RecheckIsFresh, KeyIsNamed, VerdictIsRecent, OidcTypeOK
  <2>3. SetVerify(v, next) /\ UNCHANGED <<now, published, changed, keys, expiresAt>>
    BY <1>1 DEF Present
  <2> HIDE DEF next
  <2>4. QED
    BY <2>1, <2>2, <2>3, OneVerifies
<1>2. ASSUME NEW v \in Verifiers, LookUp(v)
      PROVE  OidcInv'
  <2> DEFINE t == verify[v].token
             hit == [verify[v] EXCEPT !.phase = "done", !.at = now, !.verdict = Verdict(t, TRUE)]
             miss == [verify[v] EXCEPT !.phase = "refresh"]
  <2>1. /\ verify[v].phase = "lookup"
        /\ SetVerify(v, IF now <= expiresAt /\ t.kid \in keys THEN hit ELSE miss)
        /\ UNCHANGED <<now, published, changed, keys, expiresAt>>
    BY <1>2 DEF LookUp
  <2>2. verify[v] \in Verification /\ VerificationOK(verify[v]) /\ t.kid \in Kids
    BY <1>0, <2>1 DEF VerificationOK, KeyIsNamed
  <2>3. CASE now <= expiresAt /\ t.kid \in keys
    <3>1. /\ Verdict(t, TRUE) \in {"unknown", "refused", "principal"}
          /\ Verdict(t, TRUE) = "principal" => t.signer = t.kid /\ PublishedWithin(t.kid, MaxAge, now)
          /\ Verdict(t, TRUE) # "unknown"
      <4>1. Verdict(t, TRUE) # "unknown"
        BY DEF Verdict
      <4>2. QED
        BY <1>0, <2>2, <2>3, <4>1, CachedVerdict DEF OidcTypeOK
    <3>2. hit \in Verification
      BY <1>0, <2>2, <3>1 DEF Verification, OidcTypeOK
    <3>3. /\ hit.phase = "done" /\ hit.at = now /\ hit.token = t
          /\ hit.verdict = Verdict(t, TRUE)
      BY <2>2 DEF Verification
    <3> HIDE DEF hit
    <3>4. TimesArePast(hit) /\ AnswerIsRecent(hit) /\ RecheckIsFresh(hit) /\ KeyIsNamed(hit)
      <4>1. now \in Nat
        BY <1>0 DEF OidcTypeOK
      <4>2. TimesArePast(hit)
        BY <3>3, <4>1 DEF TimesArePast
      <4>3. AnswerIsRecent(hit) /\ RecheckIsFresh(hit)
        BY <3>3 DEF AnswerIsRecent, RecheckIsFresh
      <4>4. KeyIsNamed(hit)
        BY <2>2, <3>3 DEF KeyIsNamed
      <4>5. QED
        BY <4>2, <4>3, <4>4
    <3>5. VerdictIsRecent(hit)
      BY <3>1, <3>3 DEF VerdictIsRecent
    <3>6. QED
      BY <2>1, <2>3, <3>2, <3>4, <3>5, OneVerifies DEF VerificationOK
  <2>4. CASE ~(now <= expiresAt /\ t.kid \in keys)
    <3>1. /\ miss \in Verification /\ miss.phase = "refresh" /\ miss.token = t
          /\ miss.at = verify[v].at /\ miss.verdict = verify[v].verdict
      BY <2>2 DEF Verification
    <3> HIDE DEF miss
    <3>2. miss.verdict = "none" /\ TimesArePast(miss) /\ AnswerIsRecent(miss) /\ RecheckIsFresh(miss)
      BY <2>1, <2>2, <3>1 DEF VerificationOK, KeyIsNamed, TimesArePast, AnswerIsRecent,
         RecheckIsFresh
    <3>3. VerificationOK(miss)
      BY <2>2, <3>1, <3>2, StillVerifying
    <3>4. QED
      BY <2>1, <2>4, <3>1, <3>3, OneVerifies
  <2>5. QED
    BY <2>3, <2>4
<1>3. ASSUME NEW v \in Verifiers, RefreshJWKS(v)
      PROVE  OidcInv'
  <2>1. /\ verify[v].phase = "refresh" /\ verify[v] \in Verification /\ VerificationOK(verify[v])
        /\ UNCHANGED <<now, published, changed, keys, expiresAt>>
    BY <1>0, <1>3 DEF RefreshJWKS
  <2>2. CASE now < expiresAt /\ keys # {}
    <3> DEFINE next == [verify[v] EXCEPT !.phase = "recheck", !.at = now]
    <3>1. SetVerify(v, next)
      BY <1>3, <2>2 DEF RefreshJWKS
    <3>2. /\ next \in Verification /\ next.phase = "recheck" /\ next.token = verify[v].token
          /\ next.at = now /\ next.verdict = verify[v].verdict
      BY <1>0, <2>1 DEF Verification, OidcTypeOK
    <3> HIDE DEF next
    <3>3. next.verdict = "none" /\ next.token.kid \in Kids
      BY <2>1, <3>2 DEF VerificationOK, KeyIsNamed
    <3>4. TimesArePast(next) /\ AnswerIsRecent(next) /\ RecheckIsFresh(next)
      BY <1>0, <2>1, <2>2, <3>2 DEF TimesArePast, AnswerIsRecent, RecheckIsFresh, OidcTypeOK
    <3>5. VerificationOK(next)
      BY <3>3, <3>4, StillVerifying
    <3>6. QED
      BY <2>1, <3>1, <3>2, <3>5, OneVerifies
  <2>3. CASE ~(now < expiresAt /\ keys # {})
    <3> DEFINE next == [verify[v] EXCEPT !.phase = "fetch", !.at = now]
    <3>1. SetVerify(v, next)
      BY <1>3, <2>3 DEF RefreshJWKS
    <3>2. /\ next \in Verification /\ next.phase = "fetch" /\ next.token = verify[v].token
          /\ next.at = now /\ next.verdict = verify[v].verdict
      BY <1>0, <2>1 DEF Verification, OidcTypeOK
    <3> HIDE DEF next
    <3>3. next.verdict = "none" /\ next.token.kid \in Kids
      BY <2>1, <3>2 DEF VerificationOK, KeyIsNamed
    <3>4. TimesArePast(next) /\ AnswerIsRecent(next) /\ RecheckIsFresh(next)
      BY <1>0, <2>1, <3>2 DEF TimesArePast, AnswerIsRecent, RecheckIsFresh, OidcTypeOK
    <3>5. VerificationOK(next)
      BY <3>3, <3>4, StillVerifying
    <3>6. QED
      BY <2>1, <3>1, <3>2, <3>5, OneVerifies
  <2>4. QED
    BY <2>2, <2>3
<1>4. ASSUME NEW v \in Verifiers, FetchAnswered(v)
      PROVE  OidcInv'
  <2>1. PICK doc \in {published, {}} :
           SetVerify(v, [verify[v] EXCEPT !.phase = "store", !.doc = doc])
    BY <1>4 DEF FetchAnswered
  <2>2. verify[v].phase = "fetch" /\ UNCHANGED <<now, published, changed, keys, expiresAt>>
    BY <1>4 DEF FetchAnswered
  <2> DEFINE next == [verify[v] EXCEPT !.phase = "store", !.doc = doc]
  <2>3. next \in Verification /\ VerificationOK(next)
    BY <1>0, <2>1, <2>2 DEF Verification, VerificationOK, TimesArePast, AnswerIsRecent,
       RecheckIsFresh, KeyIsNamed, VerdictIsRecent, OidcTypeOK
  <2>4. QED
    BY <2>1, <2>2, <2>3, OneVerifies
<1>5. ASSUME NEW v \in Verifiers, FetchFails(v)
      PROVE  OidcInv'
  <2> DEFINE next == [verify[v] EXCEPT !.phase = "recheck", !.failed = TRUE, !.at = now]
  <2>1. /\ SetVerify(v, next) /\ verify[v].phase = "fetch"
        /\ UNCHANGED <<now, published, changed, keys, expiresAt>>
    BY <1>5 DEF FetchFails
  <2>2. verify[v] \in Verification /\ VerificationOK(verify[v])
    BY <1>0
  <2>3. /\ next \in Verification /\ next.phase = "recheck" /\ next.failed
        /\ next.token = verify[v].token /\ next.at = now /\ next.verdict = verify[v].verdict
    BY <1>0, <2>2 DEF Verification, OidcTypeOK
  <2> HIDE DEF next
  <2>4. next.verdict = "none" /\ next.token.kid \in Kids
    BY <2>1, <2>2, <2>3 DEF VerificationOK, KeyIsNamed
  <2>5. TimesArePast(next) /\ AnswerIsRecent(next) /\ RecheckIsFresh(next)
    BY <1>0, <2>3 DEF TimesArePast, AnswerIsRecent, RecheckIsFresh, OidcTypeOK
  <2>6. VerificationOK(next)
    BY <2>4, <2>5, StillVerifying
  <2>7. QED
    BY <2>1, <2>3, <2>6, OneVerifies
<1>6. ASSUME NEW v \in Verifiers, StoreKeys(v)
      PROVE  OidcInv'
  <2>1. verify[v].phase = "store" /\ UNCHANGED <<now, published, changed>>
    BY <1>6 DEF StoreKeys, Refreshed
  <2>2. verify[v] \in Verification /\ VerificationOK(verify[v])
    BY <1>0
  <2>3. CASE verify[v].doc = {}
    <3> DEFINE next == [verify[v] EXCEPT !.phase = "recheck", !.doc = {}, !.failed = TRUE, !.at = now]
    <3>1. SetVerify(v, next) /\ UNCHANGED <<now, published, changed, keys, expiresAt>>
      BY <1>6, <2>3 DEF StoreKeys, Refreshed
    <3>2. /\ next \in Verification /\ next.phase = "recheck" /\ next.failed
          /\ next.token = verify[v].token /\ next.at = now /\ next.verdict = verify[v].verdict
      BY <1>0, <2>2 DEF Verification, OidcTypeOK
    <3> HIDE DEF next
    <3>3. next.verdict = "none" /\ next.token.kid \in Kids
      BY <2>1, <2>2, <3>2 DEF VerificationOK, KeyIsNamed
    <3>4. TimesArePast(next) /\ AnswerIsRecent(next) /\ RecheckIsFresh(next)
      BY <1>0, <3>2 DEF TimesArePast, AnswerIsRecent, RecheckIsFresh, OidcTypeOK
    <3>5. VerificationOK(next)
      BY <3>3, <3>4, StillVerifying
    <3>6. QED
      BY <3>1, <3>2, <3>5, OneVerifies
  <2>4. CASE verify[v].doc # {}
    <3> DEFINE next == [verify[v] EXCEPT !.phase = "recheck", !.doc = {}, !.failed = FALSE, !.at = now]
    <3>1. /\ SetVerify(v, next)
          /\ keys' = verify[v].doc /\ expiresAt' = now + CacheTTL
      BY <1>6, <2>4 DEF StoreKeys, Refreshed
    <3>2. /\ next \in Verification /\ next.phase = "recheck" /\ next.at = now
          /\ next.token.kid \in Kids /\ next.verdict = "none"
      BY <1>0, <2>1, <2>2 DEF Verification, VerificationOK, KeyIsNamed, OidcTypeOK
    <3> HIDE DEF next
    <3>3. OidcTypeOK'
      BY <1>0, <2>1, <2>2, <3>1, <3>2 DEF OidcTypeOK, SetVerify, Verification
    <3>4. CacheIsRecent'
      <4>1. ASSUME NEW k \in Kids
            PROVE  (k \in keys' <=> k \in published) \/ changed[k] + MaxAge >= now + CacheTTL
        <5>1. (k \in verify[v].doc <=> k \in published) \/ changed[k] >= verify[v].at
          BY <2>1, <2>2, <2>4 DEF VerificationOK, AnswerIsRecent
        <5>2. now <= verify[v].at + FetchTimeout
          BY <2>1, <2>2 DEF VerificationOK, TimesArePast
        <5>3. changed[k] \in Nat /\ verify[v].at \in Nat /\ now \in Nat
          BY <1>0, <2>2 DEF OidcTypeOK, Verification
        <5>4. QED
          BY <3>1, <5>1, <5>2, <5>3 DEF MaxAge
      <4>2. QED
        BY <1>0, <2>1, <3>1, <4>1 DEF CacheIsRecent, OidcTypeOK, MaxAge
    <3>5. ASSUME NEW w \in Verifiers
          PROVE  VerificationOK(verify[w])'
      <4>1. CASE w = v
        <5>1. verify'[w] = next
          BY <1>0, <3>1, <4>1 DEF SetVerify, OidcTypeOK
        <5>2. keys' # {} /\ now <= expiresAt'
          BY <1>0, <2>4, <3>1 DEF OidcTypeOK
        <5>3. QED
          BY <1>0, <2>1, <3>2, <5>1, <5>2 DEF VerificationOK, TimesArePast, AnswerIsRecent,
             RecheckIsFresh, KeyIsNamed, VerdictIsRecent, OidcTypeOK
      <4>2. CASE w # v
        <5>1. verify'[w] = verify[w] /\ verify[w] \in Verification /\ VerificationOK(verify[w])
          BY <1>0, <3>1, <4>2 DEF SetVerify, OidcTypeOK
        <5>2. expiresAt' >= expiresAt /\ expiresAt \in Nat /\ expiresAt' \in Nat /\ keys' # {}
          BY <1>0, <2>4, <3>1 DEF OidcInv, CacheIsRecent, OidcTypeOK
        <5>3. verify[w].at \in Nat
          BY <5>1 DEF Verification
        <5>4. RecheckIsFresh(verify[w])'
          BY <5>1, <5>2, <5>3 DEF VerificationOK, RecheckIsFresh
        <5>5. QED
          BY <2>1, <5>1, <5>4 DEF VerificationOK, TimesArePast, AnswerIsRecent, KeyIsNamed,
             VerdictIsRecent, PublishedWithin
      <4>3. QED
        BY <4>1, <4>2
    <3>6. QED
      BY <3>3, <3>4, <3>5 DEF OidcInv
  <2>5. QED
    BY <2>3, <2>4
<1>7. ASSUME NEW v \in Verifiers, Recheck(v)
      PROVE  OidcInv'
  <2> DEFINE t == verify[v].token
             verdict == Verdict(t, t.kid \in keys)
             next == [verify[v] EXCEPT !.phase = "done", !.verdict = verdict]
  <2>1. /\ verify[v].phase = "recheck" /\ SetVerify(v, next)
        /\ UNCHANGED <<now, published, changed, keys, expiresAt>>
    BY <1>7 DEF Recheck
  <2>2. verify[v] \in Verification /\ VerificationOK(verify[v]) /\ t.kid \in Kids
    BY <1>0, <2>1 DEF VerificationOK, KeyIsNamed
  <2>3. verdict \in {"unknown", "refused", "principal"} /\ (verdict = "principal" => t.signer = t.kid)
    BY DEF Verdict
  <2>4. ~verify[v].failed =>
           /\ verdict = "principal" => PublishedWithin(t.kid, MaxAge, verify[v].at)
           /\ verdict = "unknown" =>
                 t.kid \notin published \/ changed[t.kid] + MaxAge >= verify[v].at
    <3>1. SUFFICES ASSUME ~verify[v].failed
                   PROVE  keys # {} /\ verify[v].at <= expiresAt /\ verify[v].at \in Nat
      BY <2>2, CachedVerdict
    <3>2. QED
      BY <2>1, <2>2, <3>1 DEF VerificationOK, RecheckIsFresh, Verification
  <2> HIDE DEF verdict
  <2>5. /\ next \in Verification /\ next.phase = "done" /\ next.token = t
        /\ next.at = verify[v].at /\ next.failed = verify[v].failed /\ next.verdict = verdict
    BY <2>2, <2>3 DEF Verification
  <2> HIDE DEF next
  <2>6. VerificationOK(next)
    BY <2>2, <2>3, <2>4, <2>5 DEF VerificationOK, TimesArePast, AnswerIsRecent,
       RecheckIsFresh, KeyIsNamed, VerdictIsRecent
  <2>7. QED
    BY <2>1, <2>5, <2>6, OneVerifies
<1>8. ASSUME NEW v \in Verifiers, Return(v)
      PROVE  OidcInv'
  BY <1>8, <1>a, OneVerifies DEF Return
<1>9. ASSUME NEW k \in Kids, Rotate(k)
      PROVE  OidcInv'
  <2>1. /\ published' \subseteq Kids
        /\ \A j \in Kids : j # k => (j \in published' <=> j \in published) /\ changed'[j] = changed[j]
        /\ changed'[k] = now /\ changed' \in [Kids -> Nat]
        /\ UNCHANGED <<now, keys, expiresAt, verify>>
    BY <1>0, <1>9 DEF Rotate, OidcTypeOK
  <2>2. OidcTypeOK'
    BY <1>0, <2>1 DEF OidcTypeOK
  <2>3. CacheIsRecent'
    BY <1>0, <2>1 DEF OidcInv, CacheIsRecent, OidcTypeOK, MaxAge
  <2>4. ASSUME NEW w \in Verifiers
        PROVE  VerificationOK(verify[w])'
    <3>1. VerificationOK(verify[w]) /\ verify[w] \in Verification /\ verify[w].at <= now
          /\ verify[w].at \in Nat /\ now \in Nat /\ MaxAge \in Nat
      BY <1>0 DEF VerificationOK, TimesArePast, Verification, OidcTypeOK, MaxAge
    <3>2. TimesArePast(verify[w])' /\ RecheckIsFresh(verify[w])' /\ KeyIsNamed(verify[w])'
      BY <2>1, <3>1 DEF VerificationOK, TimesArePast, RecheckIsFresh, KeyIsNamed
    <3>3. AnswerIsRecent(verify[w])'
      BY <2>1, <3>1 DEF VerificationOK, AnswerIsRecent
    <3>4. VerdictIsRecent(verify[w])'
      BY <2>1, <3>1 DEF VerificationOK, VerdictIsRecent, KeyIsNamed, PublishedWithin
    <3>5. QED
      BY <3>2, <3>3, <3>4 DEF VerificationOK
  <2>5. QED
    BY <2>2, <2>3, <2>4 DEF OidcInv
<1>10. CASE Restart
  <2>1. OidcTypeOK' /\ CacheIsRecent'
    BY <1>0, <1>10, <1>a DEF Restart, OidcTypeOK, CacheIsRecent
  <2>2. ASSUME NEW w \in Verifiers
        PROVE  VerificationOK(verify[w])'
    <3>1. verify'[w] = NoVerification /\ now' \in Nat
      BY <1>0, <1>10 DEF Restart, OidcTypeOK
    <3>2. QED
      BY <3>1 DEF NoVerification, VerificationOK, TimesArePast, AnswerIsRecent,
       RecheckIsFresh, KeyIsNamed, VerdictIsRecent
  <2>3. QED
    BY <2>1, <2>2 DEF OidcInv
<1>11. CASE Tick
  <2>1. /\ now' = now + 1 /\ UNCHANGED <<published, changed, keys, expiresAt, verify>>
        /\ \A v \in Verifiers :
              verify[v].phase \in {"fetch", "store"} => now < verify[v].at + FetchTimeout
    BY <1>11 DEF Tick
  <2>2. OidcTypeOK' /\ CacheIsRecent'
    BY <1>0, <2>1 DEF OidcInv, OidcTypeOK, CacheIsRecent
  <2>3. ASSUME NEW w \in Verifiers
        PROVE  VerificationOK(verify[w])'
    <3>1. VerificationOK(verify[w]) /\ verify[w].at \in Nat /\ now \in Nat
      BY <1>0 DEF Verification, OidcTypeOK
    <3>2. TimesArePast(verify[w])'
      BY <2>1, <3>1 DEF VerificationOK, TimesArePast
    <3>3. QED
      BY <2>1, <3>1, <3>2 DEF VerificationOK, AnswerIsRecent, RecheckIsFresh, KeyIsNamed,
         VerdictIsRecent, PublishedWithin
  <2>4. QED
    BY <2>2, <2>3 DEF OidcInv
<1>12. CASE UNCHANGED oidcVars
  BY <1>12 DEF oidcVars, OidcInv, OidcTypeOK, CacheIsRecent, VerificationOK, TimesArePast,
     AnswerIsRecent, RecheckIsFresh, KeyIsNamed, VerdictIsRecent, PublishedWithin
<1>13. QED
  BY <1>1, <1>2, <1>3, <1>4, <1>5, <1>6, <1>7, <1>8, <1>9, <1>10, <1>11, <1>12
  DEF OidcNext, VerifyStep

\* The inductive invariant holds throughout.
THEOREM OidcInvariant == OidcSpec => []OidcInv
<1>1. OidcInit => OidcInv
  <2> SUFFICES ASSUME OidcInit PROVE OidcInv
    OBVIOUS
  <2>1. \A v \in Verifiers : verify[v] = NoVerification
    BY DEF OidcInit
  <2>2. OidcTypeOK /\ CacheIsRecent
    BY OidcAssumption DEF OidcInit, OidcTypeOK, CacheIsRecent, NoVerification, Verification
  <2>3. QED
    BY <2>1, <2>2 DEF OidcInv, OidcInit, NoVerification, VerificationOK, TimesArePast,
       AnswerIsRecent, RecheckIsFresh, KeyIsNamed, VerdictIsRecent
<1>2. QED
  BY <1>1, OidcStep, PTL DEF OidcSpec

\* However verifications, refreshes, failures and rotations interleave: a token
\* is accepted only for a key published within MaxAge, or after a failed refresh.
THEOREM WithdrawnKeysStop == OidcSpec => []WithdrawnKeysStopVerifying
<1>1. OidcInv => WithdrawnKeysStopVerifying
  BY DEF OidcInv, VerificationOK, VerdictIsRecent, WithdrawnKeysStopVerifying
<1>2. QED
  BY <1>1, OidcInvariant, PTL

\* And a key published for longer than MaxAge is unknown only after a failed
\* refresh.
THEOREM PublishedKeysKnown == OidcSpec => []PublishedKeysBecomeKnown
<1>1. OidcInv => PublishedKeysBecomeKnown
  BY DEF OidcInv, VerificationOK, VerdictIsRecent, PublishedKeysBecomeKnown
<1>2. QED
  BY <1>1, OidcInvariant, PTL
-----------------------------------------------------------------------------
(* UserAccess: the inductive invariant *)

\* The phases between taking the user's lock and giving it back.
Holding == {"recheck", "tokens", "refresh", "save", "list", "replace", "stamp", "failed"}

UserPhases == {"idle", "check", "lock", "canbind", "bind"} \union Holding
UserRequest ==
    [phase : UserPhases,
     repo : UserRepos \union {NoRepo}, start : Nat, now : Nat, synced : Nat, token : Nat,
     listing : SUBSET UserRepos, listed : Nat, stale : BOOLEAN]

AccessTypeOK ==
    /\ clock \in Nat
    /\ granted \subseteq UserRepos
    /\ revoked \in [UserRepos -> Nat]
    /\ usable \subseteq Nat /\ issued \in Nat
    /\ tokenRow \in [token : Nat, expiring : BOOLEAN]
    /\ access \subseteq UserRepos
    /\ asOf \in Nat /\ synced \in Nat
    /\ lock \in Requests \union {NoRequest}
    /\ request \in [Requests -> UserRequest]
    /\ lost \in BOOLEAN

\* The user could reach repository r at some time since t.
ReachableSince(r, t) == r \in granted \/ t <= revoked[r]

\* What the stored copy holds was so when GitHub answered, and the stamp on it
\* is not later than that by more than a request may take.
CopyIsStamped ==
    /\ asOf <= clock
    /\ synced <= asOf + RequestTimeout
    /\ \A r \in access : ReachableSince(r, asOf)

\* Whoever is between Lock and Unlock has the lock.
LockIsHeld == \A q \in Requests : request[q].phase \in Holding => lock = q

\* A request is not older than the server's time-out.
InTime(x) == x.phase # "idle" => x.start <= clock /\ clock <= x.start + RequestTimeout

\* The synced_at a request has read may have been replaced, but is no later.
ReadIsStamped(x) ==
    /\ x.synced <= asOf + RequestTimeout
    /\ x.phase \in Holding \ {"recheck"} => x.start <= x.now

\* A listing about to be stored is newer than the stored copy.
ListingIsNewer(x) ==
    x.phase = "replace" =>
       /\ x.start <= x.listed /\ x.listed <= clock /\ asOf <= x.listed
       /\ \A r \in x.listing : ReachableSince(r, x.listed)

MaxCopyAge(x) == IF x.stale THEN AccessMaxStaleness ELSE AccessCacheTTL

\* A request that goes on has a copy made by itself or not long before.
CopyIsRecent(x) ==
    /\ x.phase = "stamp" => x.start <= asOf
    /\ x.phase = "canbind" =>
          x.repo \in UserRepos /\ x.start <= asOf + RequestTimeout + MaxCopyAge(x)
    /\ x.phase = "bind" =>
          /\ x.repo \in UserRepos
          /\ \/ x.repo \in granted
             \/ x.start <= revoked[x.repo] + RequestTimeout + MaxCopyAge(x)

\* A refresh token about to be stored is one GitHub accepts.
TokenIsUsable(x) == x.phase = "save" => x.token \in usable

RequestOK(x) ==
    InTime(x) /\ ReadIsStamped(x) /\ ListingIsNewer(x) /\ CopyIsRecent(x) /\ TokenIsUsable(x)

AccessInv ==
    /\ AccessTypeOK
    /\ CopyIsStamped
    /\ LockIsHeld
    /\ \A q \in Requests : RequestOK(request[q])
    /\ StoredRefreshTokenIsUsable

-----------------------------------------------------------------------------
(* UserAccess: the invariant is inductive *)

\* A request that starts anew knows nothing.
LEMMA IdleIsOK ==
    ASSUME AccessTypeOK
    PROVE  /\ IdleRequest \in UserRequest /\ IdleRequest.phase = "idle" /\ RequestOK(IdleRequest)
<1>1. /\ IdleRequest \in UserRequest /\ IdleRequest.phase = "idle" /\ IdleRequest.synced = 0
  BY DEF IdleRequest, UserRequest, UserPhases, Never
<1>2. asOf + RequestTimeout \in Nat
  BY AccessAssumption DEF AccessTypeOK
<1>3. QED
  BY <1>1, <1>2 DEF RequestOK, InTime, ReadIsStamped, Holding, ListingIsNewer, CopyIsRecent,
     TokenIsUsable

\* A step of one request that leaves GitHub, the copy and the tokens alone.
LEMMA OneRequests ==
    ASSUME AccessInv, NEW q \in Requests, NEW next \in UserRequest, RequestOK(next),
           SetRequest(q, next), request[q].phase # "save",
           UNCHANGED <<clock, github, tokenRow, access, asOf, lost>>,
           synced' \in Nat, synced' <= asOf + RequestTimeout,
           \/ lock' = lock
           \/ lock = NoRequest /\ lock' = q
           \/ lock = q /\ lock' = NoRequest,
           next.phase \in Holding => lock' = q
    PROVE  AccessInv'
<1>0. AccessTypeOK /\ CopyIsStamped /\ LockIsHeld /\ \A w \in Requests : RequestOK(request[w])
  BY DEF AccessInv
<1>1. request'[q] = next /\ \A w \in Requests : w # q => request'[w] = request[w]
  BY <1>0 DEF SetRequest, AccessTypeOK
<1>2. AccessTypeOK'
  BY <1>0 DEF AccessTypeOK, SetRequest, github
<1>3. CopyIsStamped'
  BY <1>0 DEF CopyIsStamped, ReachableSince, github
<1>4. LockIsHeld'
  BY <1>0, <1>1, AccessAssumption DEF LockIsHeld
<1>5. ASSUME NEW w \in Requests
      PROVE  RequestOK(request[w])'
  <2>1. RequestOK(request'[w])
    BY <1>0, <1>1
  <2>2. QED
    BY <2>1 DEF RequestOK, github, InTime, ReadIsStamped, ListingIsNewer, ReachableSince,
       CopyIsRecent, TokenIsUsable
<1>6. StoredRefreshTokenIsUsable'
  <2>1. ASSUME NEW w \in Requests, request[w].phase = "save" /\ request[w].token \in usable
        PROVE  request'[w].phase = "save" /\ request'[w].token \in usable'
    BY <1>1, <2>1 DEF github
  <2>2. QED
    BY <2>1 DEF AccessInv, StoredRefreshTokenIsUsable, github
<1>7. QED
  BY <1>2, <1>3, <1>4, <1>5, <1>6 DEF AccessInv

\* ensureUserRepoAccess returns: the request ends, or goes on with a copy that is
\* not older than it may be.
LEMMA EnsuredIsRecent ==
    ASSUME AccessTypeOK, NEW q \in Requests, NEW stale \in BOOLEAN,
           RequestOK(request[q]), request[q].phase # "idle", Ensured(q, stale),
           request[q].start <= asOf + RequestTimeout
                                 + (IF stale THEN AccessMaxStaleness ELSE AccessCacheTTL)
    PROVE  \E next \in UserRequest :
              next.phase \in {"idle", "canbind"} /\ RequestOK(next) /\ SetRequest(q, next)
<1>1. CASE SetRequest(q, IdleRequest)
  BY <1>1, IdleIsOK
<1>2. ASSUME NEW r \in UserRepos,
             SetRequest(q, [IdleRequest EXCEPT !.phase = "canbind", !.repo = r,
                                               !.start = request[q].start, !.stale = stale])
      PROVE  \E next \in UserRequest :
                next.phase \in {"idle", "canbind"} /\ RequestOK(next) /\ SetRequest(q, next)
  <2> DEFINE next == [IdleRequest EXCEPT !.phase = "canbind", !.repo = r,
                                         !.start = request[q].start, !.stale = stale]
  <2>1. request[q].start \in Nat
    BY DEF AccessTypeOK, UserRequest
  <2>2. /\ next \in UserRequest /\ next.phase = "canbind" /\ next.repo = r
        /\ next.start = request[q].start /\ next.stale = stale /\ next.synced = 0
    BY <2>1 DEF IdleRequest, UserRequest, UserPhases, Never
  <2>3. SetRequest(q, next)
    BY <1>2
  <2> HIDE DEF next
  <2>4. InTime(next)
    BY <2>2 DEF RequestOK, InTime
  <2>5. CopyIsRecent(next)
    BY <2>2 DEF CopyIsRecent, MaxCopyAge
  <2>6. asOf + RequestTimeout \in Nat
    BY AccessAssumption DEF AccessTypeOK
  <2>7. ReadIsStamped(next) /\ ListingIsNewer(next) /\ TokenIsUsable(next)
    BY <2>2, <2>6 DEF ReadIsStamped, Holding, ListingIsNewer, TokenIsUsable
  <2>8. QED
    BY <2>2, <2>3, <2>4, <2>5, <2>7 DEF RequestOK
<1>3. QED
  BY <1>1, <1>2 DEF Ensured

\* To changes the phase only.
LEMMA ToEffect ==
    ASSUME AccessTypeOK, NEW q \in Requests, NEW phase \in UserPhases, To(q, phase)
    PROVE  \E next \in UserRequest :
              /\ SetRequest(q, next) /\ next.phase = phase /\ next.repo = request[q].repo
              /\ next.start = request[q].start /\ next.now = request[q].now
              /\ next.synced = request[q].synced /\ next.stale = request[q].stale
<1> DEFINE next == [request[q] EXCEPT !.phase = phase]
<1>1. /\ next \in UserRequest /\ next.phase = phase /\ next.repo = request[q].repo
      /\ next.start = request[q].start /\ next.now = request[q].now
      /\ next.synced = request[q].synced /\ next.stale = request[q].stale
  BY DEF AccessTypeOK, UserRequest
<1>2. SetRequest(q, next)
  BY DEF To
<1> HIDE DEF next
<1>3. QED
  BY <1>1, <1>2

\* Forget keeps when the request started and what it read of the last sync.
LEMMA ForgetEffect ==
    ASSUME AccessTypeOK, NEW q \in Requests, NEW phase \in UserPhases, Forget(q, phase)
    PROVE  \E next \in UserRequest :
              /\ SetRequest(q, next) /\ next.phase = phase
              /\ next.start = request[q].start /\ next.now = request[q].now
              /\ next.synced = request[q].synced
<1> DEFINE next == [request[q] EXCEPT !.phase = phase, !.token = 0, !.listing = {}, !.listed = 0]
<1>1. /\ next \in UserRequest /\ next.phase = phase
      /\ next.start = request[q].start /\ next.now = request[q].now
      /\ next.synced = request[q].synced
  BY DEF AccessTypeOK, UserRequest
<1>2. SetRequest(q, next)
  BY DEF Forget
<1> HIDE DEF next
<1>3. QED
  BY <1>1, <1>2

\* A request between Lock and Unlock that goes on to a phase about which nothing
\* more is known.
LEMMA StillHolding ==
    ASSUME NEW x, RequestOK(x), x.phase \in Holding \ {"recheck"}, NEW next,
           next.phase \in {"refresh", "list", "failed"}, next.start = x.start,
           next.now = x.now, next.synced = x.synced
    PROVE  RequestOK(next)
BY DEF RequestOK, Holding, InTime, ReadIsStamped, ListingIsNewer, CopyIsRecent, TokenIsUsable

\* A step that ends before it has changed anything leaves the stamp as it was.
LEMMA StampStays ==
    ASSUME AccessInv, UNCHANGED synced
    PROVE  synced' \in Nat /\ synced' <= asOf + RequestTimeout
BY DEF AccessInv, AccessTypeOK, CopyIsStamped

\* A copy found fresh is not older than its time to live and a request.
LEMMA FreshIsRecent ==
    ASSUME AccessInv, NEW q \in Requests, request[q].phase # "idle", Fresh
    PROVE  request[q].start <= asOf + RequestTimeout
                                 + (IF FALSE THEN AccessMaxStaleness ELSE AccessCacheTTL)
<1>1. request[q].start <= clock
  BY DEF AccessInv, RequestOK, InTime
<1>2. clock <= synced + AccessCacheTTL /\ synced <= asOf + RequestTimeout
  BY DEF Fresh, AccessInv, CopyIsStamped
<1>3. /\ request[q].start \in Nat /\ clock \in Nat /\ synced \in Nat /\ asOf \in Nat
      /\ AccessCacheTTL \in Nat /\ RequestTimeout \in Nat
  BY AccessAssumption DEF AccessInv, AccessTypeOK, UserRequest
<1>4. QED
  BY <1>1, <1>2, <1>3

\* A cache check that finds the copy fresh ends ensureUserRepoAccess.
LEMMA FreshEnds ==
    ASSUME AccessInv, NEW q \in Requests, request[q].phase \in {"check", "recheck"}, Fresh,
           Ensured(q, FALSE), UNCHANGED <<clock, github, tables, lost>>,
           (lock' = lock /\ request[q].phase = "check") \/ (lock = q /\ lock' = NoRequest)
    PROVE  AccessInv'
<1>1. PICK next \in UserRequest :
         next.phase \in {"idle", "canbind"} /\ RequestOK(next) /\ SetRequest(q, next)
  BY FreshIsRecent, EnsuredIsRecent DEF AccessInv
<1>2. next.phase \notin Holding
  BY <1>1 DEF Holding
<1>3. UNCHANGED <<clock, github, tokenRow, access, asOf, lost>> /\ UNCHANGED synced
  BY DEF tables
<1>4. QED
  BY <1>1, <1>2, <1>3, StampStays, OneRequests

\* The steps of ensureUserRepoAccess around a sync keep the inductive invariant.
LEMMA EnsureStep ==
    ASSUME AccessInv, NEW q \in Requests,
           StartRequest(q) \/ CheckCache(q) \/ Lock(q) \/ RecheckCache(q) \/ StampSync(q) \/ FallBack(q)
    PROVE  AccessInv'
<1> USE AccessAssumption
<1>0. /\ AccessTypeOK /\ RequestOK(request[q]) /\ request[q] \in UserRequest
      /\ request[q].phase \in Holding => lock = q
  BY DEF AccessInv, AccessTypeOK, LockIsHeld
<1>a. asOf + RequestTimeout \in Nat
  BY <1>0 DEF AccessTypeOK
<1>1. CASE StartRequest(q)
  <2> DEFINE next == [IdleRequest EXCEPT !.phase = "check", !.start = clock]
  <2>1. /\ next \in UserRequest /\ next.phase = "check" /\ next.start = clock
        /\ next.synced = 0
    BY <1>0 DEF AccessTypeOK, IdleRequest, UserRequest, UserPhases, Never
  <2>2. /\ SetRequest(q, next) /\ request[q].phase = "idle"
        /\ UNCHANGED <<clock, github, tokenRow, access, asOf, lost>>
        /\ UNCHANGED synced /\ UNCHANGED lock
    BY <1>1 DEF StartRequest, tables
  <2> HIDE DEF next
  <2>3. RequestOK(next)
    BY <1>0, <1>a, <2>1 DEF AccessTypeOK, RequestOK, InTime, ReadIsStamped, Holding, ListingIsNewer,
       CopyIsRecent, TokenIsUsable
  <2>4. QED
    BY <2>1, <2>2, <2>3, StampStays, OneRequests DEF Holding
<1>2. CASE CheckCache(q)
  <2>1. CASE Fresh
    <3>1. /\ request[q].phase = "check" /\ Ensured(q, FALSE) /\ lock' = lock
          /\ UNCHANGED <<clock, github, tables, lost>>
      BY <1>2, <2>1 DEF CheckCache
    <3>2. /\ request[q].phase \in {"check", "recheck"}
          /\ (lock' = lock /\ request[q].phase = "check") \/ (lock = q /\ lock' = NoRequest)
      BY <3>1
    <3>3. QED
      BY <2>1, <3>1, <3>2, FreshEnds
  <2>2. CASE ~Fresh
    <3>1. /\ To(q, "lock") /\ request[q].phase = "check"
          /\ UNCHANGED <<clock, github, tokenRow, access, asOf, lost>>
          /\ UNCHANGED synced /\ UNCHANGED lock
      BY <1>2, <2>2 DEF CheckCache, tables
    <3>2. PICK next \in UserRequest :
             /\ SetRequest(q, next) /\ next.phase = "lock"
             /\ next.start = request[q].start /\ next.synced = request[q].synced
      BY <1>0, <3>1, ToEffect DEF UserPhases
    <3>3. RequestOK(next)
      BY <1>0, <3>1, <3>2 DEF RequestOK, InTime, ReadIsStamped, Holding, ListingIsNewer,
         CopyIsRecent, TokenIsUsable
    <3>4. QED
      BY <3>1, <3>2, <3>3, StampStays, OneRequests DEF Holding
  <2>3. QED
    BY <2>1, <2>2
<1>3. CASE Lock(q)
  <2>1. /\ To(q, "recheck") /\ request[q].phase = "lock"
        /\ UNCHANGED <<clock, github, tokenRow, access, asOf, lost>>
        /\ UNCHANGED synced /\ lock = NoRequest /\ lock' = q
    BY <1>3 DEF Lock, tables
  <2>2. PICK next \in UserRequest :
           /\ SetRequest(q, next) /\ next.phase = "recheck"
           /\ next.start = request[q].start /\ next.synced = request[q].synced
    BY <1>0, <2>1, ToEffect DEF UserPhases, Holding
  <2>3. RequestOK(next)
    BY <1>0, <2>1, <2>2 DEF RequestOK, InTime, ReadIsStamped, Holding, ListingIsNewer,
       CopyIsRecent, TokenIsUsable
  <2>4. QED
    BY <2>1, <2>2, <2>3, StampStays, OneRequests
<1>4. CASE RecheckCache(q)
  <2>0. lock = q
    BY <1>0, <1>4 DEF RecheckCache, Holding
  <2>1. CASE Fresh
    BY <1>4, <2>0, <2>1, FreshEnds DEF RecheckCache, Unlock
  <2>2. CASE ~Fresh
    <3> DEFINE next == [request[q] EXCEPT !.phase = "tokens", !.now = clock, !.synced = synced]
    <3>1. /\ SetRequest(q, next) /\ request[q].phase = "recheck"
          /\ UNCHANGED <<clock, github, tokenRow, access, asOf, lost>>
          /\ UNCHANGED synced /\ UNCHANGED lock
      BY <1>4, <2>2 DEF RecheckCache, tables
    <3>2. /\ next \in UserRequest /\ next.phase = "tokens" /\ next.start = request[q].start
          /\ next.now = clock /\ next.synced = synced
      BY <1>0 DEF AccessTypeOK, UserRequest, UserPhases, Holding
    <3> HIDE DEF next
    <3>3. InTime(next) /\ next.start <= next.now
      BY <1>0, <3>1, <3>2 DEF RequestOK, InTime
    <3>4. ReadIsStamped(next)
      BY <3>2, <3>3 DEF AccessInv, CopyIsStamped, ReadIsStamped
    <3>5. RequestOK(next)
      BY <3>2, <3>3, <3>4 DEF RequestOK, ListingIsNewer, CopyIsRecent, TokenIsUsable
    <3>6. QED
      BY <2>0, <3>1, <3>2, <3>5, StampStays, OneRequests
  <2>3. QED
    BY <2>1, <2>2
<1>5. CASE StampSync(q)
  <2>0. /\ lock = q /\ lock' = NoRequest /\ request[q].phase = "stamp"
        /\ UNCHANGED <<clock, github, tokenRow, access, asOf, lost>>
    BY <1>0, <1>5 DEF StampSync, Holding, Unlock
  <2>1. /\ request[q].start <= asOf /\ clock <= request[q].start + RequestTimeout
        /\ request[q].start \in Nat /\ asOf \in Nat /\ clock \in Nat
    BY <1>0, <2>0 DEF RequestOK, CopyIsRecent, InTime, AccessTypeOK, UserRequest
  <2>2. CASE synced' = clock /\ Ensured(q, FALSE)
    <3>1. synced' \in Nat /\ synced' <= asOf + RequestTimeout
      BY <2>1, <2>2
    <3>2. request[q].start <= asOf + RequestTimeout
                                + (IF FALSE THEN AccessMaxStaleness ELSE AccessCacheTTL)
      BY <2>1
    <3>3. PICK next \in UserRequest :
             next.phase \in {"idle", "canbind"} /\ RequestOK(next) /\ SetRequest(q, next)
      BY <1>0, <2>0, <2>2, <3>2, EnsuredIsRecent
    <3>4. next.phase \notin Holding
      BY <3>3 DEF Holding
    <3>5. QED
      BY <2>0, <3>1, <3>3, <3>4, OneRequests
  <2>3. CASE UNCHANGED synced /\ SetRequest(q, IdleRequest)
    <3>1. /\ IdleRequest \in UserRequest /\ RequestOK(IdleRequest)
          /\ IdleRequest.phase \notin Holding
      BY <1>0, IdleIsOK DEF Holding
    <3>2. synced' \in Nat /\ synced' <= asOf + RequestTimeout
      BY <2>3, StampStays
    <3>3. QED
      BY <2>0, <2>3, <3>1, <3>2, OneRequests
  <2>4. QED
    BY <1>5, <2>2, <2>3 DEF StampSync
<1>6. CASE FallBack(q)
  <2> DEFINE s == request[q].synced
  <2>0. /\ lock = q /\ lock' = NoRequest /\ request[q].phase = "failed"
        /\ UNCHANGED <<clock, github, tokenRow, access, asOf, lost>>
    BY <1>0, <1>6 DEF FallBack, Holding, Unlock
  <2>1. /\ s <= asOf + RequestTimeout /\ request[q].start <= request[q].now
        /\ request[q].start \in Nat /\ request[q].now \in Nat /\ s \in Nat /\ asOf \in Nat
    BY <1>0, <2>0 DEF RequestOK, ReadIsStamped, Holding, AccessTypeOK, UserRequest
  <2>2. synced' \in Nat /\ synced' <= asOf + RequestTimeout
    BY <1>6, <2>1 DEF FallBack, AccessInv, AccessTypeOK, CopyIsStamped
  <2>3. CASE s # Never /\ request[q].now <= s + AccessMaxStaleness
    <3>1. Ensured(q, TRUE)
      BY <1>6, <2>3 DEF FallBack
    <3>2. request[q].start <= asOf + RequestTimeout
                                + (IF TRUE THEN AccessMaxStaleness ELSE AccessCacheTTL)
      BY <2>1, <2>3
    <3>3. PICK next \in UserRequest :
             next.phase \in {"idle", "canbind"} /\ RequestOK(next) /\ SetRequest(q, next)
      BY <1>0, <2>0, <3>1, <3>2, EnsuredIsRecent
    <3>4. next.phase \notin Holding
      BY <3>3 DEF Holding
    <3>5. QED
      BY <2>0, <2>2, <3>3, <3>4, OneRequests
  <2>4. CASE ~(s # Never /\ request[q].now <= s + AccessMaxStaleness)
    <3>1. SetRequest(q, IdleRequest)
      BY <1>6, <2>4 DEF FallBack
    <3>2. QED
      BY <1>0, <2>0, <2>2, <3>1, IdleIsOK, OneRequests DEF Holding
  <2>5. QED
    BY <2>3, <2>4
<1>7. QED
  BY <1>1, <1>2, <1>3, <1>4, <1>5, <1>6

\* The steps of syncUserRepoAccess keep the inductive invariant.
LEMMA SyncStep ==
    ASSUME AccessInv, NEW q \in Requests,
           \/ ReadTokens(q) \/ RefreshUserToken(q) \/ SaveTokens(q)
           \/ ListRepositories(q) \/ ReplaceUserRepoAccess(q) \/ SyncFails(q)
    PROVE  AccessInv'
<1> USE AccessAssumption
<1>0. /\ AccessTypeOK /\ RequestOK(request[q]) /\ request[q] \in UserRequest
      /\ request[q].phase \in Holding => lock = q
  BY DEF AccessInv, AccessTypeOK, LockIsHeld
<1>a. \A w \in Requests : w # q /\ lock = q => request[w].phase \notin Holding
  BY DEF AccessInv, LockIsHeld
<1>b. "failed" \in UserPhases /\ "list" \in UserPhases /\ "stamp" \in UserPhases
  BY DEF UserPhases, Holding
<1>1. CASE ReadTokens(q)
  <2> DEFINE next == [request[q] EXCEPT !.phase = IF tokenRow.expiring THEN "refresh" ELSE "list",
                                        !.token = IF tokenRow.expiring THEN tokenRow.token ELSE 0]
  <2>1. /\ SetRequest(q, next) /\ request[q].phase = "tokens" /\ lock = q
        /\ UNCHANGED <<clock, github, tokenRow, access, asOf, lost>>
        /\ UNCHANGED synced /\ UNCHANGED lock
    BY <1>0, <1>1 DEF ReadTokens, tables, Holding
  <2>2. tokenRow.token \in Nat
    BY <1>0 DEF AccessTypeOK
  <2>3. /\ next \in UserRequest /\ next.phase \in {"refresh", "list"}
        /\ next.start = request[q].start /\ next.now = request[q].now
        /\ next.synced = request[q].synced
    BY <1>0, <2>2 DEF UserRequest, UserPhases, Holding
  <2> HIDE DEF next
  <2>4. RequestOK(next)
    BY <1>0, <2>1, <2>3, StillHolding DEF Holding
  <2>5. QED
    BY <2>1, <2>3, <2>4, StampStays, OneRequests
<1>2. CASE RefreshUserToken(q)
  <2>0. /\ request[q].phase = "refresh" /\ lock = q
        /\ UNCHANGED <<clock, granted, revoked, tables, lock>>
    BY <1>0, <1>2 DEF RefreshUserToken, Refresh, Holding
  <2>1. CASE request[q].token \notin usable
    <3>1. Forget(q, "failed") /\ UNCHANGED <<issued, usable, lost>>
      BY <1>2, <2>1 DEF RefreshUserToken, Refresh
    <3>2. PICK next \in UserRequest :
             /\ SetRequest(q, next) /\ next.phase = "failed"
             /\ next.start = request[q].start /\ next.now = request[q].now
             /\ next.synced = request[q].synced
      BY <1>0, <1>b, <3>1, ForgetEffect
    <3>3. RequestOK(next)
      BY <1>0, <2>0, <3>2, StillHolding DEF Holding
    <3>4. UNCHANGED <<clock, github, tokenRow, access, asOf, lost>> /\ UNCHANGED synced
      BY <2>0, <3>1 DEF github, tables
    <3>5. QED
      BY <2>0, <3>2, <3>3, <3>4, StampStays, OneRequests
  <2>2. CASE request[q].token \in usable
    <3>1. PICK next \in UserRequest :
             /\ SetRequest(q, next) /\ next.phase \in {"save", "failed"}
             /\ next.start = request[q].start /\ next.now = request[q].now
             /\ next.synced = request[q].synced
             /\ next.phase = "save" => next.token \in usable'
             /\ next.phase = "failed" => lost'
             /\ \A n \in usable : n # request[q].token => n \in usable'
             /\ usable' \subseteq Nat /\ issued' \in Nat /\ lost' \in BOOLEAN
             /\ lost => lost'
      <4> DEFINE save(n) == [request[q] EXCEPT !.phase = "save", !.token = n]
      <4>a. ASSUME NEW n \in Nat
            PROVE  /\ save(n) \in UserRequest /\ save(n).phase = "save" /\ save(n).token = n
                   /\ save(n).start = request[q].start /\ save(n).now = request[q].now
                   /\ save(n).synced = request[q].synced
        BY <1>0 DEF UserRequest, UserPhases, Holding
      <4>b. usable \subseteq Nat /\ issued \in Nat /\ lost \in BOOLEAN /\ request[q].token \in Nat
        BY <1>0 DEF AccessTypeOK, UserRequest
      <4>1. CASE /\ issued' = issued + 1
                 /\ usable' = (usable \ {request[q].token}) \union {issued + 1}
                 /\ SetRequest(q, save(issued + 1)) /\ UNCHANGED lost
        <5>1. issued + 1 \in Nat
          BY <4>b
        <5>2. /\ save(issued + 1) \in UserRequest /\ save(issued + 1).phase = "save"
              /\ save(issued + 1).token = issued + 1
              /\ save(issued + 1).start = request[q].start
              /\ save(issued + 1).now = request[q].now
              /\ save(issued + 1).synced = request[q].synced
          BY <5>1, <4>a
        <5> HIDE DEF save
        <5>3. QED
          BY <4>1, <4>b, <5>1, <5>2
      <4>2. CASE /\ issued' = issued + 1
                 /\ usable' = (usable \ {request[q].token}) \union {issued + 1}
                 /\ Forget(q, "failed") /\ lost' = TRUE
        <5>1. PICK next \in UserRequest :
                 /\ SetRequest(q, next) /\ next.phase = "failed"
                 /\ next.start = request[q].start /\ next.now = request[q].now
                 /\ next.synced = request[q].synced
          BY <1>0, <1>b, <4>2, ForgetEffect
        <5>2. usable' \subseteq Nat /\ issued' \in Nat
          BY <4>2, <4>b
        <5>3. QED
          BY <4>2, <5>1, <5>2
      <4>3. CASE SetRequest(q, save(request[q].token)) /\ UNCHANGED <<issued, usable, lost>>
        <5>1. /\ save(request[q].token) \in UserRequest /\ save(request[q].token).phase = "save"
              /\ save(request[q].token).token = request[q].token
              /\ save(request[q].token).start = request[q].start
              /\ save(request[q].token).now = request[q].now
              /\ save(request[q].token).synced = request[q].synced
          BY <4>a, <4>b
        <5> HIDE DEF save
        <5>2. QED
          BY <2>2, <4>3, <4>b, <5>1
      <4>4. QED
        BY <1>2, <2>2, <4>1, <4>2, <4>3 DEF RefreshUserToken, Refresh
    <3>2. request'[q] = next /\ \A w \in Requests : w # q => request'[w] = request[w]
      BY <1>0, <3>1 DEF SetRequest, AccessTypeOK
    <3>3. AccessTypeOK'
      BY <1>0, <2>0, <3>1 DEF AccessTypeOK, SetRequest, tables
    <3>4. CopyIsStamped'
      BY <2>0 DEF AccessInv, CopyIsStamped, ReachableSince, tables
    <3>5. LockIsHeld'
      BY <2>0, <3>2 DEF AccessInv, LockIsHeld
    <3>6. ASSUME NEW w \in Requests
          PROVE  RequestOK(request[w])'
      <4>1. CASE w = q
        <5>1. InTime(next) /\ ReadIsStamped(next)
          BY <1>0, <2>0, <3>1 DEF RequestOK, InTime, ReadIsStamped, Holding
        <5>2. QED
          BY <2>0, <3>1, <3>2, <4>1, <5>1 DEF tables, RequestOK, InTime, ReadIsStamped,
             ListingIsNewer, CopyIsRecent, TokenIsUsable
      <4>2. CASE w # q
        <5>1. /\ RequestOK(request[w]) /\ request'[w] = request[w] /\ request[w].phase # "save"
          BY <1>a, <2>0, <3>2, <4>2 DEF AccessInv, Holding
        <5>2. QED
          BY <2>0, <5>1 DEF tables, RequestOK, InTime, ReadIsStamped, ListingIsNewer,
             ReachableSince, CopyIsRecent, TokenIsUsable
      <4>3. QED
        BY <4>1, <4>2
    <3>7. StoredRefreshTokenIsUsable'
      <4>1. CASE next.phase = "failed" \/ next.phase = "save"
        BY <3>1, <3>2, <4>1 DEF StoredRefreshTokenIsUsable
      <4>2. QED
        BY <3>1, <4>1
    <3>8. QED
      BY <3>3, <3>4, <3>5, <3>6, <3>7 DEF AccessInv
  <2>3. QED
    BY <2>1, <2>2
<1>3. CASE SaveTokens(q)
  <2>0. /\ request[q].phase = "save" /\ lock = q /\ request[q].token \in usable
        /\ UNCHANGED <<clock, github, access, asOf, synced, bound, lock>>
    BY <1>0, <1>3 DEF SaveTokens, Holding, RequestOK, TokenIsUsable
  <2>1. PICK next \in UserRequest :
           /\ SetRequest(q, next) /\ next.phase \in {"list", "failed"}
           /\ next.start = request[q].start /\ next.now = request[q].now
           /\ next.synced = request[q].synced
    <3>1. Forget(q, "list") \/ Forget(q, "failed")
      BY <1>3 DEF SaveTokens
    <3>2. QED
      BY <1>0, <1>b, <3>1, ForgetEffect
  <2>2. RequestOK(next)
    BY <1>0, <2>0, <2>1, StillHolding DEF Holding
  <2>3. /\ tokenRow' \in [token : Nat, expiring : BOOLEAN] /\ lost' \in BOOLEAN
        /\ tokenRow'.token \in usable \/ lost'
    <3>1. request[q].token \in Nat
      BY <1>0 DEF UserRequest
    <3>2. CASE tokenRow' = [token |-> request[q].token, expiring |-> FALSE] /\ UNCHANGED lost
      BY <1>0, <2>0, <3>1, <3>2 DEF AccessTypeOK
    <3>3. CASE lost' = TRUE /\ UNCHANGED tokenRow
      BY <1>0, <3>3 DEF AccessTypeOK
    <3>4. QED
      BY <1>3, <3>2, <3>3 DEF SaveTokens
  <2>4. request'[q] = next /\ \A w \in Requests : w # q => request'[w] = request[w]
    BY <1>0, <2>1 DEF SetRequest, AccessTypeOK
  <2>5. AccessTypeOK'
    BY <1>0, <2>0, <2>1, <2>3 DEF AccessTypeOK, SetRequest, github
  <2>6. CopyIsStamped'
    BY <2>0 DEF AccessInv, CopyIsStamped, ReachableSince, github
  <2>7. LockIsHeld'
    BY <2>0, <2>4 DEF AccessInv, LockIsHeld
  <2>8. ASSUME NEW w \in Requests
        PROVE  RequestOK(request[w])'
    <3>1. RequestOK(request'[w])
      BY <2>2, <2>4 DEF AccessInv
    <3>2. QED
      BY <2>0, <3>1 DEF RequestOK, github, InTime, ReadIsStamped, ListingIsNewer, ReachableSince,
         CopyIsRecent, TokenIsUsable
  <2>9. StoredRefreshTokenIsUsable'
    BY <2>0, <2>3 DEF StoredRefreshTokenIsUsable, github
  <2>10. QED
    BY <2>5, <2>6, <2>7, <2>8, <2>9 DEF AccessInv
<1>4. CASE ListRepositories(q)
  <2> DEFINE next == [request[q] EXCEPT !.phase = "replace", !.listing = granted, !.listed = clock]
  <2>1. /\ SetRequest(q, next) /\ request[q].phase = "list" /\ lock = q
        /\ UNCHANGED <<clock, github, tokenRow, access, asOf, lost>>
        /\ UNCHANGED synced /\ UNCHANGED lock
    BY <1>0, <1>4 DEF ListRepositories, tables, Holding
  <2>2. /\ next \in UserRequest /\ next.phase = "replace" /\ next.listing = granted
        /\ next.listed = clock /\ next.start = request[q].start /\ next.now = request[q].now
        /\ next.synced = request[q].synced
    BY <1>0 DEF AccessTypeOK, UserRequest, UserPhases, Holding
  <2> HIDE DEF next
  <2>3. InTime(next) /\ ReadIsStamped(next)
    BY <1>0, <2>1, <2>2 DEF RequestOK, InTime, ReadIsStamped, Holding
  <2>4. ListingIsNewer(next)
    BY <1>0, <2>2, <2>3 DEF AccessInv, AccessTypeOK, CopyIsStamped, ListingIsNewer, InTime,
       ReachableSince
  <2>5. RequestOK(next)
    BY <2>2, <2>3, <2>4 DEF RequestOK, CopyIsRecent, TokenIsUsable
  <2>6. QED
    BY <2>1, <2>2, <2>5, StampStays, OneRequests
<1>5. CASE ReplaceUserRepoAccess(q)
  <2> DEFINE x == request[q]
  <2>0. /\ x.phase = "replace" /\ lock = q /\ access' = x.listing /\ asOf' = x.listed
        /\ UNCHANGED <<clock, github, tokenRow, synced, bound, lock, lost>>
    BY <1>0, <1>5 DEF ReplaceUserRepoAccess, Holding
  <2>1. PICK next \in UserRequest :
           /\ SetRequest(q, next) /\ next.phase = "stamp"
           /\ next.start = x.start /\ next.now = x.now /\ next.synced = x.synced
    BY <1>0, <1>5, <1>b, ForgetEffect DEF ReplaceUserRepoAccess
  <2>2. /\ x.start <= asOf' /\ asOf' <= clock /\ asOf <= asOf'
        /\ asOf \in Nat /\ asOf' \in Nat /\ clock \in Nat /\ access' \subseteq UserRepos
        /\ \A r \in access' : ReachableSince(r, asOf')
    BY <1>0, <2>0 DEF RequestOK, ListingIsNewer, AccessTypeOK, UserRequest
  <2>3. request'[q] = next /\ \A w \in Requests : w # q => request'[w] = request[w]
    BY <1>0, <2>1 DEF SetRequest, AccessTypeOK
  <2>4. AccessTypeOK'
    BY <1>0, <2>0, <2>1, <2>2 DEF AccessTypeOK, SetRequest, github
  <2>5. CopyIsStamped'
    <3>1. synced <= asOf + RequestTimeout /\ synced \in Nat
      BY <1>0 DEF AccessInv, CopyIsStamped, AccessTypeOK
    <3>2. synced' <= asOf' + RequestTimeout
      BY <2>0, <2>2, <3>1
    <3>3. QED
      BY <2>0, <2>2, <3>2 DEF CopyIsStamped, ReachableSince, github
  <2>6. LockIsHeld'
    BY <2>0, <2>3 DEF AccessInv, LockIsHeld
  <2>7. ASSUME NEW w \in Requests
        PROVE  RequestOK(request[w])'
    <3>0. /\ request[w] \in UserRequest /\ RequestOK(request[w])
          /\ request[w].synced \in Nat /\ request[w].start \in Nat
      BY <1>0 DEF AccessInv, AccessTypeOK, UserRequest
    <3>1. request[w].synced <= asOf' + RequestTimeout
      BY <2>2, <3>0 DEF RequestOK, ReadIsStamped
    <3>2. CASE w = q
      <4>1. InTime(next) /\ next.start <= next.now
        BY <1>0, <2>0, <2>1 DEF RequestOK, InTime, ReadIsStamped, Holding
      <4>2. QED
        BY <2>0, <2>1, <2>2, <2>3, <3>1, <3>2, <4>1 DEF RequestOK, InTime, ReadIsStamped,
           ListingIsNewer, CopyIsRecent, TokenIsUsable
    <3>3. CASE w # q
      <4>1. request'[w] = request[w] /\ request[w].phase \notin Holding
        BY <1>a, <2>0, <2>3, <3>3
      <4>2. InTime(request[w])' /\ ReadIsStamped(request[w])' /\ ListingIsNewer(request[w])'
            /\ TokenIsUsable(request[w])'
        BY <2>0, <3>0, <3>1, <4>1 DEF RequestOK, InTime, ReadIsStamped, ListingIsNewer,
           TokenIsUsable, Holding, github
      <4>3. MaxCopyAge(request[w]) \in Nat
        BY DEF MaxCopyAge
      <4>4. CopyIsRecent(request[w])'
        <5>1. MaxCopyAge(request[w])' = MaxCopyAge(request[w])
          BY <4>1 DEF MaxCopyAge
        <5>2. request[w].start <= asOf + RequestTimeout + MaxCopyAge(request[w])
                 => request[w].start <= asOf' + RequestTimeout + MaxCopyAge(request[w])
          BY <2>2, <3>0, <4>3
        <5>3. QED
          BY <2>0, <3>0, <4>1, <5>1, <5>2 DEF RequestOK, CopyIsRecent, Holding, github
      <4>5. QED
        BY <4>2, <4>4 DEF RequestOK
    <3>4. QED
      BY <3>2, <3>3
  <2>8. StoredRefreshTokenIsUsable'
    <3>1. ASSUME NEW w \in Requests, request[w].phase = "save" /\ request[w].token \in usable
          PROVE  request'[w].phase = "save" /\ request'[w].token \in usable'
      BY <2>0, <2>3, <3>1 DEF github
    <3>2. QED
      BY <2>0, <3>1 DEF AccessInv, StoredRefreshTokenIsUsable, github
  <2>9. QED
    BY <2>4, <2>5, <2>6, <2>7, <2>8 DEF AccessInv
<1>6. CASE SyncFails(q)
  <2>1. /\ Forget(q, "failed") /\ request[q].phase \in {"tokens", "refresh", "list", "replace"}
        /\ UNCHANGED <<clock, github, tokenRow, access, asOf, lost>>
        /\ UNCHANGED synced /\ UNCHANGED lock /\ lock = q
    BY <1>0, <1>6 DEF SyncFails, tables, Holding
  <2>2. PICK next \in UserRequest :
           /\ SetRequest(q, next) /\ next.phase = "failed"
           /\ next.start = request[q].start /\ next.now = request[q].now
           /\ next.synced = request[q].synced
    BY <1>0, <1>b, <2>1, ForgetEffect
  <2>3. RequestOK(next)
    BY <1>0, <2>1, <2>2, StillHolding DEF Holding
  <2>4. QED
    BY <2>1, <2>2, <2>3, StampStays, OneRequests
<1>7. QED
  BY <1>1, <1>2, <1>3, <1>4, <1>5, <1>6

\* The rest of handleBindRepo, and a request cut off, keep the inductive invariant.
LEMMA BindStep ==
    ASSUME AccessInv, NEW q \in Requests,
           UserCanAccessRepoForBinding(q) \/ BindRepoToProject(q) \/ Cancel(q)
    PROVE  AccessInv'
<1> USE AccessAssumption
<1>0. /\ AccessTypeOK /\ RequestOK(request[q]) /\ request[q] \in UserRequest
      /\ request[q].phase \in Holding => lock = q
      /\ IdleRequest \in UserRequest /\ RequestOK(IdleRequest) /\ IdleRequest.phase = "idle"
      /\ IdleRequest.phase \notin Holding
  BY IdleIsOK DEF AccessInv, AccessTypeOK, LockIsHeld, Holding
<1>1. CASE UserCanAccessRepoForBinding(q)
  <2>0. /\ request[q].phase = "canbind"
        /\ UNCHANGED <<clock, github, tokenRow, access, asOf, lost>>
        /\ UNCHANGED synced /\ UNCHANGED lock
    BY <1>1 DEF UserCanAccessRepoForBinding, tables
  <2>1. CASE request[q].repo \notin access
    BY <1>0, <1>1, <2>0, <2>1, StampStays, OneRequests DEF UserCanAccessRepoForBinding
  <2>2. CASE request[q].repo \in access
    <3> DEFINE r == request[q].repo
    <3>1. PICK next \in UserRequest :
             /\ SetRequest(q, next) /\ next.phase = "bind" /\ next.repo = r
             /\ next.start = request[q].start /\ next.synced = request[q].synced
             /\ next.stale = request[q].stale
      BY <1>0, <1>1, <2>2, ToEffect DEF UserCanAccessRepoForBinding, UserPhases
    <3>2. /\ r \in UserRepos
          /\ request[q].start <= asOf + RequestTimeout + MaxCopyAge(request[q])
          /\ r \in granted \/ asOf <= revoked[r]
      BY <1>0, <2>0, <2>2 DEF AccessInv, RequestOK, CopyIsRecent, CopyIsStamped, ReachableSince
    <3>3. /\ revoked[r] \in Nat /\ asOf \in Nat /\ request[q].start \in Nat
          /\ MaxCopyAge(request[q]) \in Nat /\ MaxCopyAge(next) = MaxCopyAge(request[q])
      BY <1>0, <3>1, <3>2 DEF AccessTypeOK, UserRequest, MaxCopyAge
    <3>4. r \in granted \/ request[q].start <= revoked[r] + RequestTimeout + MaxCopyAge(request[q])
      BY <3>2, <3>3
    <3>5. CopyIsRecent(next)
      BY <3>1, <3>2, <3>3, <3>4 DEF CopyIsRecent
    <3>6. InTime(next) /\ ReadIsStamped(next) /\ ListingIsNewer(next) /\ TokenIsUsable(next)
      BY <1>0, <2>0, <3>1 DEF RequestOK, InTime, ReadIsStamped, Holding, ListingIsNewer,
         TokenIsUsable
    <3>7. next.phase \notin Holding
      BY <3>1 DEF Holding
    <3>8. QED
      BY <2>0, <3>1, <3>5, <3>6, <3>7, StampStays, OneRequests DEF RequestOK
  <2>3. QED
    BY <2>1, <2>2
<1>2. CASE BindRepoToProject(q)
  <2>1. /\ request[q].phase = "bind" /\ SetRequest(q, IdleRequest)
        /\ UNCHANGED <<clock, github, tokenRow, access, asOf, lost>>
        /\ UNCHANGED synced /\ UNCHANGED lock
    BY <1>2 DEF BindRepoToProject
  <2>2. QED
    BY <1>0, <2>1, StampStays, OneRequests
<1>3. CASE Cancel(q)
  <2>0. /\ SetRequest(q, IdleRequest) /\ UNCHANGED <<clock, github, tables>>
        /\ lock' = IF lock = q THEN NoRequest ELSE lock
        /\ lost' = (lost \/ request[q].phase = "save")
    BY <1>3 DEF Cancel
  <2>1. request'[q] = IdleRequest /\ \A w \in Requests : w # q => request'[w] = request[w]
    BY <1>0, <2>0 DEF SetRequest, AccessTypeOK
  <2>2. AccessTypeOK'
    <3>1. lock' \in Requests \union {NoRequest} /\ lost' \in BOOLEAN
      BY <1>0, <2>0 DEF AccessTypeOK
    <3>2. request' \in [Requests -> UserRequest]
      BY <1>0, <2>0 DEF SetRequest, AccessTypeOK
    <3>3. QED
      BY <1>0, <2>0, <3>1, <3>2 DEF AccessTypeOK, github, tables
  <2>3. CopyIsStamped'
    BY <2>0 DEF AccessInv, CopyIsStamped, ReachableSince, github, tables
  <2>4. LockIsHeld'
    BY <1>0, <2>0, <2>1 DEF AccessInv, LockIsHeld
  <2>5. ASSUME NEW w \in Requests
        PROVE  RequestOK(request[w])'
    <3>1. RequestOK(request'[w])
      BY <1>0, <2>1 DEF AccessInv
    <3>2. QED
      BY <2>0, <3>1 DEF RequestOK, github, tables, InTime, ReadIsStamped, ListingIsNewer,
         ReachableSince, CopyIsRecent, TokenIsUsable
  <2>6. StoredRefreshTokenIsUsable'
    <3>1. ASSUME NEW w \in Requests, request[w].phase = "save" /\ request[w].token \in usable
          PROVE  lost' \/ (request'[w].phase = "save" /\ request'[w].token \in usable')
      <4>1. CASE w = q
        BY <2>0, <3>1, <4>1
      <4>2. CASE w # q
        BY <2>0, <2>1, <3>1, <4>2 DEF github
      <4>3. QED
        BY <4>1, <4>2
    <3>2. lost => lost'
      BY <2>0
    <3>3. QED
      BY <2>0, <3>1, <3>2 DEF AccessInv, StoredRefreshTokenIsUsable, github, tables
  <2>7. QED
    BY <2>2, <2>3, <2>4, <2>5, <2>6 DEF AccessInv
<1>4. QED
  BY <1>1, <1>2, <1>3

\* So do the steps no request takes.
LEMMA OutsideStep ==
    ASSUME AccessInv,
           \/ \E r \in UserRepos : UnbindRepoFromProject(r) \/ GrantChanges(r)
           \/ Login \/ AccessTokenExpires \/ ClockTicks
    PROVE  AccessInv'
<1> USE AccessAssumption
<1>0. /\ AccessTypeOK /\ CopyIsStamped
      /\ \A q \in Requests : request[q] \in UserRequest /\ RequestOK(request[q])
  BY DEF AccessInv, AccessTypeOK
<1>1. ASSUME NEW r \in UserRepos, UnbindRepoFromProject(r)
      PROVE  AccessInv'
  BY <1>1 DEF UnbindRepoFromProject, github, AccessInv, AccessTypeOK, CopyIsStamped, ReachableSince,
     LockIsHeld, RequestOK, InTime, ReadIsStamped, ListingIsNewer, CopyIsRecent, MaxCopyAge,
     TokenIsUsable, StoredRefreshTokenIsUsable
<1>2. ASSUME NEW r \in UserRepos, GrantChanges(r)
      PROVE  AccessInv'
  <2>1. /\ granted' \subseteq UserRepos /\ revoked' \in [UserRepos -> Nat]
        /\ \A p \in UserRepos : p # r => (p \in granted' <=> p \in granted) /\ revoked'[p] = revoked[p]
        /\ r \in granted' \/ revoked'[r] = clock
        /\ UNCHANGED <<clock, usable, issued, tables, lock, request, lost>>
    BY <1>0, <1>2 DEF GrantChanges, AccessTypeOK
  <2>2. AccessTypeOK' /\ LockIsHeld' /\ StoredRefreshTokenIsUsable'
    BY <1>0, <2>1 DEF AccessInv, AccessTypeOK, LockIsHeld, StoredRefreshTokenIsUsable, tables
  <2>3. ASSUME NEW p \in UserRepos, NEW t \in Nat, t <= clock, ReachableSince(p, t)
        PROVE  p \in granted' \/ t <= revoked'[p]
    BY <2>1, <2>3 DEF ReachableSince
  <2>4. CopyIsStamped'
    <3>1. \A p \in access : p \in granted' \/ asOf <= revoked'[p]
      BY <1>0, <2>3 DEF AccessTypeOK, CopyIsStamped
    <3>2. QED
      BY <1>0, <2>1, <3>1 DEF CopyIsStamped, tables, ReachableSince
  <2>5. ASSUME NEW q \in Requests
        PROVE  RequestOK(request[q])'
    <3> DEFINE x == request[q]
    <3>1. /\ x \in UserRequest /\ RequestOK(x) /\ x.start \in Nat /\ x.listed \in Nat
          /\ x.listing \subseteq UserRepos /\ clock \in Nat /\ MaxCopyAge(x) \in Nat
      BY <1>0 DEF UserRequest, AccessTypeOK, MaxCopyAge
    <3>2. InTime(x)' /\ ReadIsStamped(x)' /\ TokenIsUsable(x)'
      BY <2>1, <3>1 DEF RequestOK, InTime, ReadIsStamped, TokenIsUsable, tables
    <3>3. ListingIsNewer(x)'
      <4>1. x.phase = "replace" =>
               \A p \in x.listing : p \in granted' \/ x.listed <= revoked'[p]
        BY <2>3, <3>1 DEF RequestOK, ListingIsNewer
      <4>2. QED
        BY <2>1, <3>1, <4>1 DEF RequestOK, ListingIsNewer, ReachableSince, tables
    <3>4. CopyIsRecent(x)'
      <4>1. x.phase = "bind" =>
               \/ x.repo \in granted'
               \/ x.start <= revoked'[x.repo] + RequestTimeout + MaxCopyAge(x)
        <5>1. SUFFICES ASSUME x.phase = "bind", x.repo \notin granted'
                       PROVE  x.start <= revoked'[x.repo] + RequestTimeout + MaxCopyAge(x)
          OBVIOUS
        <5>2. CASE x.repo = r
          <6>1. revoked'[x.repo] = clock /\ x.start <= clock
            BY <2>1, <3>1, <5>1, <5>2 DEF RequestOK, InTime
          <6>2. QED
            BY <3>1, <6>1
        <5>3. CASE x.repo # r
          BY <2>1, <3>1, <5>1, <5>3 DEF RequestOK, CopyIsRecent
        <5>4. QED
          BY <5>2, <5>3
      <4>2. QED
        BY <2>1, <3>1, <4>1 DEF RequestOK, CopyIsRecent, MaxCopyAge, tables
    <3>5. QED
      BY <3>2, <3>3, <3>4 DEF RequestOK
  <2>6. QED
    BY <2>2, <2>4, <2>5 DEF AccessInv
<1>3. CASE Login
  <2>1. /\ issued' \in Nat /\ usable' \subseteq Nat /\ usable \subseteq usable'
        /\ tokenRow' \in [token : Nat, expiring : BOOLEAN] /\ tokenRow'.token \in usable'
        /\ lost' \in BOOLEAN
        /\ UNCHANGED <<clock, granted, revoked, access, asOf, synced, bound, lock, request>>
    <3>1. issued + 1 \in Nat /\ usable \subseteq Nat
      BY <1>0 DEF AccessTypeOK
    <3>2. /\ issued' = issued + 1 /\ usable' = usable \union {issued + 1}
          /\ tokenRow' = [token |-> issued + 1, expiring |-> FALSE] /\ lost' = FALSE
          /\ UNCHANGED <<clock, granted, revoked, access, asOf, synced, bound, lock, request>>
      BY <1>3 DEF Login
    <3>3. QED
      BY <3>1, <3>2
  <2>2. AccessTypeOK' /\ LockIsHeld' /\ StoredRefreshTokenIsUsable' /\ CopyIsStamped'
    BY <1>0, <2>1 DEF AccessInv, AccessTypeOK, LockIsHeld, StoredRefreshTokenIsUsable,
       CopyIsStamped, ReachableSince
  <2>3. \A q \in Requests : RequestOK(request[q])'
    BY <1>0, <2>1 DEF RequestOK, InTime, ReadIsStamped, ListingIsNewer, ReachableSince, CopyIsRecent,
       MaxCopyAge, TokenIsUsable
  <2>4. QED
    BY <2>2, <2>3 DEF AccessInv
<1>4. CASE AccessTokenExpires
  <2>1. /\ tokenRow' \in [token : Nat, expiring : BOOLEAN] /\ tokenRow'.token = tokenRow.token
        /\ UNCHANGED <<clock, github, access, asOf, synced, bound, lock, request, lost>>
    BY <1>0, <1>4 DEF AccessTokenExpires, AccessTypeOK
  <2>2. AccessTypeOK' /\ LockIsHeld' /\ StoredRefreshTokenIsUsable' /\ CopyIsStamped'
    BY <1>0, <2>1 DEF AccessInv, AccessTypeOK, LockIsHeld, StoredRefreshTokenIsUsable,
       CopyIsStamped, ReachableSince, github
  <2>3. \A q \in Requests : RequestOK(request[q])'
    BY <1>0, <2>1 DEF RequestOK, InTime, ReadIsStamped, ListingIsNewer, ReachableSince, CopyIsRecent,
       MaxCopyAge, TokenIsUsable, github
  <2>4. QED
    BY <2>2, <2>3 DEF AccessInv
<1>5. CASE ClockTicks
  <2>1. /\ clock' = clock + 1 /\ clock \in Nat
        /\ \A q \in Requests :
              request[q].phase # "idle" => clock < request[q].start + RequestTimeout
        /\ UNCHANGED <<github, tables, lock, request, lost>>
    BY <1>0, <1>5 DEF ClockTicks, AccessTypeOK
  <2>2. AccessTypeOK' /\ LockIsHeld' /\ StoredRefreshTokenIsUsable'
    BY <1>0, <2>1 DEF AccessInv, AccessTypeOK, LockIsHeld, StoredRefreshTokenIsUsable,
       github, tables
  <2>3. CopyIsStamped'
    BY <1>0, <2>1 DEF AccessTypeOK, CopyIsStamped, ReachableSince, github, tables
  <2>4. ASSUME NEW q \in Requests
        PROVE  RequestOK(request[q])'
    <3>1. /\ RequestOK(request[q]) /\ request[q].start \in Nat /\ request[q].listed \in Nat
      BY <1>0 DEF UserRequest
    <3>2. InTime(request[q])'
      BY <2>1, <3>1 DEF RequestOK, InTime
    <3>3. ListingIsNewer(request[q])'
      BY <2>1, <3>1 DEF RequestOK, ListingIsNewer, ReachableSince, github, tables
    <3>4. QED
      BY <2>1, <3>1, <3>2, <3>3 DEF RequestOK, ReadIsStamped, CopyIsRecent, MaxCopyAge,
         TokenIsUsable, github, tables
  <2>5. QED
    BY <2>2, <2>3, <2>4 DEF AccessInv
<1>6. QED
  BY <1>1, <1>2, <1>3, <1>4, <1>5

\* Every step keeps the inductive invariant.
LEMMA AccessStep == AccessInv /\ [AccessNext]_accessVars => AccessInv'
<1> SUFFICES ASSUME AccessInv, [AccessNext]_accessVars
             PROVE  AccessInv'
  OBVIOUS
<1>1. CASE UNCHANGED accessVars
  BY <1>1 DEF accessVars, github, tables, AccessInv, AccessTypeOK, CopyIsStamped, ReachableSince,
     LockIsHeld, RequestOK, InTime, ReadIsStamped, ListingIsNewer, CopyIsRecent, MaxCopyAge,
     TokenIsUsable, StoredRefreshTokenIsUsable
<1>2. CASE AccessNext
  BY <1>2, EnsureStep, SyncStep, BindStep, OutsideStep DEF AccessNext, RequestStep
<1>3. QED
  BY <1>1, <1>2

\* The inductive invariant holds throughout.
THEOREM AccessInvariant == AccessSpec => []AccessInv
<1>1. AccessInit => AccessInv
  <2> SUFFICES ASSUME AccessInit PROVE AccessInv
    OBVIOUS
  <2>1. AccessTypeOK
    <3>1. IdleRequest \in UserRequest
      BY DEF IdleRequest, UserRequest, UserPhases, Never
    <3>2. request \in [Requests -> UserRequest]
      BY <3>1 DEF AccessInit
    <3>3. tokenRow \in [token : Nat, expiring : BOOLEAN] /\ usable \subseteq Nat
      BY DEF AccessInit
    <3>4. QED
      BY <3>2, <3>3 DEF AccessInit, AccessTypeOK, Never
  <2>2. \A q \in Requests : request[q] = IdleRequest
    BY DEF AccessInit
  <2>3. CopyIsStamped /\ StoredRefreshTokenIsUsable
    BY AccessAssumption DEF AccessInit, CopyIsStamped, StoredRefreshTokenIsUsable, Never
  <2>4. QED
    BY <2>1, <2>2, <2>3, IdleIsOK DEF AccessInv, LockIsHeld, Holding
<1>2. QED
  BY <1>1, AccessStep, PTL DEF AccessSpec

\* However syncs, failures, revocations and requests interleave, a repository is
\* bound only if the user could reach it not longer ago than the cache's time to
\* live, or the maximal staleness, and two requests.
THEOREM BindingsAreRecent == AccessSpec => []BindingsRestOnRecentAccess
<1>1. AccessInv => BindingsRestOnRecentAccess
  <2> SUFFICES ASSUME AccessInv, NEW q \in Requests, request[q].phase = "bind"
               PROVE  \/ request[q].repo \in granted
                      \/ clock <= revoked[request[q].repo] + MaxCopyAge(request[q]) + 2 * RequestTimeout
    BY DEF BindingsRestOnRecentAccess, MaxCopyAge
  <2>1. /\ request[q].repo \in UserRepos /\ clock <= request[q].start + RequestTimeout
        /\ \/ request[q].repo \in granted
           \/ request[q].start <= revoked[request[q].repo] + RequestTimeout + MaxCopyAge(request[q])
    BY DEF AccessInv, RequestOK, InTime, CopyIsRecent
  <2>2. /\ clock \in Nat /\ request[q].start \in Nat /\ revoked[request[q].repo] \in Nat
        /\ MaxCopyAge(request[q]) \in Nat /\ RequestTimeout \in Nat
    BY <2>1, AccessAssumption DEF AccessInv, AccessTypeOK, UserRequest, MaxCopyAge
  <2>3. QED
    BY <2>1, <2>2
<1>2. QED
  BY <1>1, AccessInvariant, PTL

\* The stored copy is never replaced by an older answer of GitHub, for any number
\* of requests that sync.
THEOREM CopiesAdvance == AccessSpec => CopiesNeverGoBack
<1>1. AccessInv /\ [AccessNext]_accessVars => [asOf' >= asOf]_accessVars
  <2> SUFFICES ASSUME AccessInv, AccessNext
               PROVE  asOf' >= asOf
    OBVIOUS
  <2>1. asOf \in Nat
    BY DEF AccessInv, AccessTypeOK
  <2>2. ASSUME NEW q \in Requests, ReplaceUserRepoAccess(q)
        PROVE  asOf' >= asOf
    <3>1. asOf' = request[q].listed /\ asOf <= request[q].listed /\ request[q].listed \in Nat
      BY <2>2 DEF ReplaceUserRepoAccess, AccessInv, AccessTypeOK, UserRequest, RequestOK,
         ListingIsNewer
    <3>2. QED
      BY <2>1, <3>1
  <2>3. CASE UNCHANGED asOf
    BY <2>1, <2>3
  <2>4. QED
    BY <2>2, <2>3 DEF AccessNext, RequestStep, StartRequest, CheckCache, Lock, RecheckCache,
       ReadTokens, RefreshUserToken, Refresh, SaveTokens, ListRepositories, SyncFails, StampSync,
       FallBack, UserCanAccessRepoForBinding, BindRepoToProject, Cancel, UnbindRepoFromProject,
       GrantChanges, Login, AccessTokenExpires, ClockTicks, tables
<1>2. QED
  BY <1>1, AccessInvariant, PTL DEF AccessSpec, CopiesNeverGoBack

\* The stored refresh token works, or its successor is about to be stored, unless
\* an answer or a write was lost.
THEOREM StoredTokenUsable == AccessSpec => []StoredRefreshTokenIsUsable
<1>1. AccessInv => StoredRefreshTokenIsUsable
  BY DEF AccessInv
<1>2. QED
  BY <1>1, AccessInvariant, PTL
-----------------------------------------------------------------------------
(* GithubListing: positions and pages *)

\* One more element.
LEMMA AtMostOneMore ==
    ASSUME NEW S, IsFiniteSet(S), NEW x, NEW T, T \subseteq S \cup {x}
    PROVE  IsFiniteSet(T) /\ Cardinality(T) <= Cardinality(S) + 1
<1>1. IsFiniteSet(S \cup {x}) /\ Cardinality(S \cup {x}) <= Cardinality(S) + 1
  <2>1. Cardinality(S) \in Nat
    BY FS_CardinalityType
  <2>2. /\ IsFiniteSet(S \cup {x})
        /\ Cardinality(S \cup {x}) = IF x \in S THEN Cardinality(S) ELSE Cardinality(S) + 1
    BY FS_AddElement
  <2>3. QED
    BY <2>1, <2>2
<1>2. IsFiniteSet(T) /\ Cardinality(T) <= Cardinality(S \cup {x})
  BY <1>1, FS_Subset
<1>3. Cardinality(T) \in Nat /\ Cardinality(S) \in Nat /\ Cardinality(S \cup {x}) \in Nat
  BY <1>1, <1>2, FS_CardinalityType
<1>4. QED
  BY <1>1, <1>2, <1>3

\* Positions are numbers from 1 to the length of the list, in the order of the ids.
LEMMA Positions ==
    ASSUME NEW S, S \subseteq Nat, IsFiniteSet(S)
    PROVE  /\ Cardinality(S) \in Nat
           /\ \A r \in Nat : Position(r, S) \in Nat
           /\ \A r \in S : Position(r, S) \in 1 .. Cardinality(S)
           /\ \A r, q \in S : r < q => Position(r, S) < Position(q, S)
           /\ \A r, q \in S : Position(r, S) = Position(q, S) => r = q
<1>0. Cardinality(S) \in Nat
  BY FS_CardinalityType
<1>1. ASSUME NEW r \in Nat
      PROVE  Position(r, S) \in Nat /\ Position(r, S) <= Cardinality(S)
  <2> DEFINE T == {x \in S : x <= r}
  <2>1. T \in SUBSET S
    OBVIOUS
  <2> HIDE DEF T
  <2>2. IsFiniteSet(T) /\ Cardinality(T) <= Cardinality(S) /\ Cardinality(T) \in Nat
    BY <2>1, FS_Subset, FS_CardinalityType
  <2>3. QED
    BY <2>2 DEF T, Position
<1>2. ASSUME NEW r \in S
      PROVE  Position(r, S) # 0
  <2> DEFINE T == {x \in S : x <= r}
  <2>1. r \in T
    OBVIOUS
  <2>2. IsFiniteSet(T)
    BY FS_Subset
  <2> HIDE DEF T
  <2>3. Cardinality(T) # 0
    BY <2>1, <2>2, FS_EmptySet
  <2>4. QED
    BY <2>3 DEF T, Position
<1>3. ASSUME NEW r \in S, NEW q \in S, r < q
      PROVE  Position(r, S) < Position(q, S)
  <2> DEFINE T == {x \in S : x <= r}
             U == {x \in S : x <= q}
  <2>1. T \in SUBSET U /\ q \in U /\ q \notin T
    <3>1. r \in Nat /\ q \in Nat /\ \A x \in S : x \in Nat
      OBVIOUS
    <3>2. \A x \in S : x <= r => x <= q
      BY <1>3, <3>1
    <3>3. q <= q /\ ~(q <= r)
      BY <1>3, <3>1
    <3>4. QED
      BY <3>2, <3>3
  <2>2. IsFiniteSet(U) /\ IsFiniteSet(T)
    <3>1. T \in SUBSET S /\ U \in SUBSET S
      OBVIOUS
    <3> HIDE DEF T, U
    <3>2. QED
      BY <3>1, FS_Subset
  <2> HIDE DEF T, U
  <2>3. Cardinality(T) <= Cardinality(U) /\ Cardinality(T) # Cardinality(U)
    BY <2>1, <2>2, FS_Subset
  <2>4. Cardinality(T) \in Nat /\ Cardinality(U) \in Nat
    BY <2>2, FS_CardinalityType
  <2>5. Cardinality(T) < Cardinality(U)
    BY <2>3, <2>4
  <2>6. QED
    BY <2>5 DEF T, U, Position
<1>4. ASSUME NEW r \in S, NEW q \in S, Position(r, S) = Position(q, S)
      PROVE  r = q
  <2>1. r \in Nat /\ q \in Nat /\ Position(r, S) \in Nat
    BY <1>1
  <2>2. ~(r < q) /\ ~(q < r)
    BY <1>3, <1>4, <2>1
  <2>3. QED
    BY <2>1, <2>2
<1>6. \A r \in S : Position(r, S) \in 1 .. Cardinality(S)
  BY <1>0, <1>1, <1>2
<1>7. QED
  BY <1>0, <1>1, <1>3, <1>4, <1>6

\* There is a repository at every position.
LEMMA RepoAtPosition ==
    ASSUME NEW S, S \subseteq Nat, IsFiniteSet(S), NEW i \in 1 .. Cardinality(S)
    PROVE  RepoAt(i, S) \in S /\ Position(RepoAt(i, S), S) = i
<1> DEFINE n == Cardinality(S)
           f == [r \in S |-> Position(r, S)]
<1>1. n \in Nat
  BY FS_CardinalityType
<1>2. f \in Injection(S, 1 .. n)
  BY Positions DEF Injection, IsInjective
<1>3. IsFiniteSet(1 .. n) /\ Cardinality(1 .. n) = n
  <2>1. 1 \in Int /\ n \in Int
    BY <1>1
  <2>2. IsFiniteSet(1 .. n) /\ Cardinality(1 .. n) = IF 1 > n THEN 0 ELSE n - 1 + 1
    BY <2>1, FS_Interval
  <2>3. QED
    BY <1>1, <2>2
<1>4. f \in Surjection(S, 1 .. n)
  BY <1>2, <1>3, FS_Injection
<1>5. \E r \in S : Position(r, S) = i
  BY <1>4 DEF Surjection
<1>6. QED
  BY <1>5 DEF RepoAt

\* A page holds the repositories at its positions, each once.
LEMMA PageIsComplete ==
    ASSUME repos \subseteq Nat, IsFiniteSet(repos), NEW n \in Nat \ {0}
    PROVE  /\ Page(n) \in Seq(repos)
           /\ Range(Page(n)) = OnPage(n, repos)
           /\ Len(Page(n)) = Cardinality(OnPage(n, repos))
           /\ Cardinality(OnPage(n, repos)) <= PageSize
           /\ Cardinality(OnPage(n, repos)) < PageSize =>
                 \A r \in repos : Position(r, repos) <= n * PageSize
<1> DEFINE m == (n - 1) * PageSize
           size == Cardinality(repos)
           end == IF m + PageSize <= size THEN m + PageSize ELSE IF m <= size THEN size ELSE m
           k == end - m
           P == OnPage(n, repos)
           f == [i \in 1 .. k |-> RepoAt(m + i, repos)]
<1>1. /\ m \in Nat /\ size \in Nat /\ PageSize \in Nat /\ PageSize > 0
      /\ n * PageSize = m + PageSize
  <2>1. n \in Nat /\ n - 1 \in Nat /\ PageSize \in Nat /\ PageSize > 0
    BY ListingAssumption
  <2>2. (n - 1) * PageSize \in Nat /\ n * PageSize = (n - 1) * PageSize + PageSize
    BY <2>1
  <2>3. QED
    BY <2>1, <2>2, FS_CardinalityType
<1>2. P = {r \in repos : m < Position(r, repos) /\ Position(r, repos) <= m + PageSize}
  BY <1>1 DEF OnPage
<1> HIDE DEF m, size, P
<1>3. /\ k \in Nat /\ k <= PageSize /\ m + k = end
      /\ k # 0 => end <= size
      /\ k < PageSize => size <= m + PageSize /\ size <= end
  BY <1>1
<1> HIDE DEF end, k
<1>4. \A r \in repos : Position(r, repos) \in 1 .. size
  BY Positions DEF size
<1>5. \A i \in 1 .. size : RepoAt(i, repos) \in repos /\ Position(RepoAt(i, repos), repos) = i
  BY RepoAtPosition DEF size
<1>6. ASSUME NEW i \in 1 .. k
      PROVE  m + i \in 1 .. size /\ m < m + i /\ m + i <= m + PageSize
  BY <1>1, <1>3
<1>7. \A i \in 1 .. k : f[i] \in P /\ Position(f[i], repos) = m + i
  BY <1>2, <1>5, <1>6
<1>8. ASSUME NEW r \in P
      PROVE  \E i \in 1 .. k : f[i] = r
  <2> DEFINE i == Position(r, repos) - m
  <2>1. r \in repos /\ Position(r, repos) \in 1 .. size /\ m < Position(r, repos)
        /\ Position(r, repos) <= m + PageSize
    BY <1>2, <1>4
  <2>2. i \in 1 .. k /\ m + i = Position(r, repos)
    BY <1>1, <1>3, <2>1 DEF k, end
  <2>3. f[i] \in repos /\ Position(f[i], repos) = Position(r, repos)
    BY <1>2, <1>7, <2>2
  <2>4. f[i] = r
    BY <2>1, <2>3, Positions
  <2>5. QED
    BY <2>2, <2>4
<1>9. f \in Bijection(1 .. k, P)
  <2>1. f \in [1 .. k -> P]
    BY <1>7
  <2>2. ASSUME NEW i \in 1 .. k, NEW j \in 1 .. k, f[i] = f[j]
        PROVE  i = j
    <3>1. m + i = m + j
      BY <1>7, <2>2
    <3>2. QED
      BY <1>1, <1>3, <3>1
  <2>3. QED
    BY <1>8, <2>1, <2>2 DEF Bijection, Injection, Surjection, IsInjective
<1>10. Cardinality(P) = k
  BY <1>3, <1>9, FS_CountingElements DEF ExistsBijection
<1>11. Page(n) = f
  BY <1>10 DEF Page, P, m
<1>12. /\ f \in Seq(repos) /\ Len(f) = k /\ Range(f) = P
  <2>1. f \in [1 .. k -> repos]
    BY <1>2, <1>7
  <2>2. f \in Seq(repos) /\ Len(f) = k /\ DOMAIN f = 1 .. k
    BY <1>3, <2>1
  <2>3. Range(f) = P
    BY <1>7, <1>8, <2>2 DEF Range
  <2>4. QED
    BY <2>2, <2>3
<1>13. k < PageSize => \A r \in repos : Position(r, repos) <= n * PageSize
  BY <1>1, <1>3, <1>4
<1>14. QED
  BY <1>3, <1>10, <1>11, <1>12, <1>13 DEF P

\* Without one repository, those after it move up by one.
LEMMA PositionsMove ==
    ASSUME NEW S, S \subseteq Nat, IsFiniteSet(S), NEW r \in S, NEW q \in S \ {r}
    PROVE  /\ q < r => Position(q, S \ {r}) = Position(q, S)
           /\ r < q => Position(q, S \ {r}) = Position(q, S) - 1
<1> DEFINE T == {x \in S : x <= q}
           U == {x \in S \ {r} : x <= q}
<1>1. T \in SUBSET S
  OBVIOUS
<1>2. IsFiniteSet(T)
  BY <1>1, FS_Subset
<1>3. q < r => U = T
  <2>1. q \in Nat /\ r \in Nat
    OBVIOUS
  <2>2. q < r => ~(r <= q)
    BY <2>1
  <2>3. QED
    BY <2>2
<1>4. r < q => r \in T /\ U = T \ {r}
  <2>1. q \in Nat /\ r \in Nat
    OBVIOUS
  <2>2. r < q => r <= q
    BY <2>1
  <2>3. QED
    BY <2>2
<1>5. Position(q, S) = Cardinality(T) /\ Position(q, S \ {r}) = Cardinality(U)
  BY DEF Position
<1> HIDE DEF T, U
<1>6. r < q => Cardinality(U) = Cardinality(T) - 1
  BY <1>2, <1>4, FS_RemoveElement
<1>7. QED
  BY <1>3, <1>5, <1>6

\* For a loop that has listed R from the first m positions of a list: the members of
\* K at those positions that it has not listed, and the listed ones after them.
Behind(K, list, m, R) == {q \in K : Position(q, list) <= m} \ R
InFront(list, m, R) == {q \in R \cap list : m < Position(q, list)}

\* A removal moves at most one repository to where the loop has been, and none ahead.
LEMMA RemovalMoves ==
    ASSUME NEW S, S \subseteq Nat, IsFiniteSet(S), NEW r \in S, NEW m \in Nat,
           NEW K, K \subseteq S, NEW R
    PROVE  /\ Cardinality(Behind(K \ {r}, S \ {r}, m, R)) <= Cardinality(Behind(K, S, m, R)) + 1
           /\ InFront(S \ {r}, m, R) \in SUBSET InFront(S, m, R)
<1> DEFINE T == S \ {r}
           before == {q \in K : Position(q, S) <= m} \ R
           after == {q \in K \ {r} : Position(q, T) <= m} \ R
           ahead == {q \in R \cap S : m < Position(q, S)}
<1>1. ASSUME NEW q \in T
      PROVE  /\ Position(q, S) \in Nat
             /\ Position(q, T) \in {Position(q, S), Position(q, S) - 1}
  <2>1. q \in Nat /\ r \in Nat /\ q # r /\ (q < r \/ r < q)
    OBVIOUS
  <2>2. Position(q, S) \in Nat
    BY Positions
  <2>3. /\ q < r => Position(q, S \ {r}) = Position(q, S)
        /\ r < q => Position(q, S \ {r}) = Position(q, S) - 1
    BY PositionsMove
  <2>4. QED
    BY <2>1, <2>2, <2>3
<1>2. ASSUME NEW q \in T, m < Position(q, T)
      PROVE  m < Position(q, S)
  BY <1>1, <1>2
<1>3. {q \in R \cap T : m < Position(q, T)} \in SUBSET ahead
  BY <1>2
<1>4. ASSUME NEW q \in after, q \notin before
      PROVE  q = RepoAt(m + 1, S)
  <2>1. q \in T /\ q \in S /\ Position(q, T) <= m /\ ~(Position(q, S) <= m)
    BY <1>4
  <2>2. Position(q, S) = m + 1
    <3>1. Position(q, S) \in Nat /\ Position(q, T) \in {Position(q, S), Position(q, S) - 1}
      BY <1>1, <2>1
    <3> HIDE DEF T
    <3>2. QED
      BY <2>1, <3>1
  <2>3. RepoAt(m + 1, S) \in S /\ Position(RepoAt(m + 1, S), S) = m + 1
    BY <2>1, <2>2 DEF RepoAt
  <2>4. QED
    BY <2>1, <2>2, <2>3, Positions
<1>5. IsFiniteSet(before)
  <2>1. before \in SUBSET S
    OBVIOUS
  <2> HIDE DEF before
  <2>2. QED
    BY <2>1, FS_Subset
<1>6. after \subseteq before \cup {RepoAt(m + 1, S)}
  <2> HIDE DEF after, before
  <2>1. QED
    BY <1>4
<1>7. Cardinality(after) <= Cardinality(before) + 1
  <2> HIDE DEF after, before
  <2>1. QED
    BY <1>5, <1>6, AtMostOneMore
<1>8. QED
  BY <1>3, <1>7 DEF Behind, InFront

\* An addition moves at most one listed repository ahead of the loop, the new one
\* included, and none to where the loop has been.
LEMMA AdditionMoves ==
    ASSUME NEW S, S \subseteq Nat, IsFiniteSet(S), NEW r \in Nat, r \notin S, NEW m \in Nat,
           NEW K, K \subseteq S, NEW R
    PROVE  /\ Behind(K, S \cup {r}, m, R) \in SUBSET Behind(K, S, m, R)
           /\ Cardinality(InFront(S \cup {r}, m, R)) <= Cardinality(InFront(S, m, R)) + 1
<1> DEFINE T == S \cup {r}
           missed == {q \in K : Position(q, S) <= m} \ R
           before == {q \in R \cap S : m < Position(q, S)}
           after == {q \in R \cap T : m < Position(q, T)}
<1>0. T \subseteq Nat /\ IsFiniteSet(T) /\ T \ {r} = S /\ r \in T
  BY FS_AddElement
<1>1. ASSUME NEW q \in S
      PROVE  /\ Position(q, S) \in Nat /\ Position(q, T) \in Nat
             /\ q < r => Position(q, T) = Position(q, S)
             /\ r < q => Position(q, T) = Position(q, S) + 1
             /\ q < r \/ r < q
  <2>1. q \in Nat /\ q # r /\ (q < r \/ r < q) /\ q \in T \ {r} /\ r \in T
    OBVIOUS
  <2>2. Position(q, S) \in Nat
    BY Positions
  <2>3. Position(q, T) \in Nat
    <3> HIDE DEF T
    <3>1. QED
      BY <1>0, <2>1, Positions
  <2>4. /\ q < r => Position(q, S) = Position(q, T)
        /\ r < q => Position(q, S) = Position(q, T) - 1
    <3> HIDE DEF T
    <3>1. /\ q < r => Position(q, T \ {r}) = Position(q, T)
          /\ r < q => Position(q, T \ {r}) = Position(q, T) - 1
      BY <1>0, <2>1, PositionsMove
    <3>2. QED
      BY <1>0, <3>1
  <2> HIDE DEF T
  <2>5. QED
    BY <2>1, <2>2, <2>3, <2>4
<1>2. {q \in K : Position(q, T) <= m} \ R \in SUBSET missed
  <2>1. ASSUME NEW q \in K, Position(q, T) <= m
        PROVE  Position(q, S) <= m
    <3> HIDE DEF T
    <3>1. q \in S
      OBVIOUS
    <3>2. QED
      BY <1>1, <2>1, <3>1
  <2> HIDE DEF T
  <2>2. QED
    BY <2>1
<1> DEFINE x == IF m < Position(r, T) THEN r ELSE RepoAt(m, S)
<1>3. ASSUME NEW q \in after, q \notin before
      PROVE  q = x
  <2>1. q \in T /\ m < Position(q, T) /\ (q \in S => ~(m < Position(q, S)))
    BY <1>3
  <2>2. CASE q = r
    BY <2>1, <2>2
  <2>3. CASE q # r
    <3>1. q \in S
      BY <2>1, <2>3
    <3> HIDE DEF T
    <3>2. r < q /\ Position(q, S) = m /\ Position(q, T) = m + 1
      BY <1>1, <2>1, <3>1
    <3>3. Position(r, T) < m + 1 /\ Position(r, T) \in Nat
      <4>1. r \in T /\ q \in T
        BY <1>0, <2>1
      <4>2. Position(r, T) < Position(q, T) /\ Position(r, T) \in Nat
        BY <1>0, <3>2, <4>1, Positions
      <4>3. QED
        BY <3>2, <4>2
    <3>4. ~(m < Position(r, T))
      BY <3>3
    <3>5. RepoAt(m, S) \in S /\ Position(RepoAt(m, S), S) = m
      BY <3>1, <3>2 DEF RepoAt
    <3>6. q = RepoAt(m, S)
      BY <3>1, <3>2, <3>5, Positions
    <3>7. QED
      BY <3>4, <3>6
  <2>4. QED
    BY <2>2, <2>3
<1>4. IsFiniteSet(before)
  <2>1. before \in SUBSET S
    OBVIOUS
  <2> HIDE DEF before
  <2>2. QED
    BY <2>1, FS_Subset
<1>5. Cardinality(after) <= Cardinality(before) + 1
  <2> HIDE DEF after, before, x
  <2>1. after \subseteq before \cup {x}
    BY <1>3
  <2>2. QED
    BY <1>4, <2>1, AtMostOneMore
<1>6. QED
  BY <1>2, <1>5 DEF Behind, InFront

-----------------------------------------------------------------------------
(* GithubListing: the inductive invariant *)

ListingTypeOK ==
    /\ repos \subseteq Repos
    /\ cache \in Nat
    /\ op \in [phase : {"idle", "token", "pages", "listed"}, ttl : Nat, page : Nat \ {0},
               out : Seq(Repos)]
    /\ seen \in [kept : SUBSET Repos, removed : Nat, added : Nat]

\* After the pages with the first m positions: the lasting repositories that have
\* moved to where the loop has already been, and the listed ones that have moved to
\* where it still comes.
Missed(m) == Behind(seen.kept, repos, m, Range(op.out))
Ahead(m) == InFront(repos, m, Range(op.out))

\* Each removal can make one repository missed, each addition can make one listed
\* again; the latter counts from then on, not only when it is.
PagesSoFar ==
    op.phase = "pages" =>
       LET m == (op.page - 1) * PageSize
       IN /\ Len(op.out) = m
          /\ seen.kept \subseteq repos
          /\ Cardinality(Missed(m)) <= seen.removed
          /\ m - Cardinality(Range(op.out)) + Cardinality(Ahead(m)) <= seen.added

ListingInv ==
    /\ ListingTypeOK
    /\ PagesSoFar
    /\ ListingErrorsAreBounded


-----------------------------------------------------------------------------
(* GithubListing: the invariant is inductive *)

\* The sets the invariant counts are finite.
LEMMA ListingIsFinite ==
    ASSUME ListingTypeOK
    PROVE  /\ repos \subseteq Nat /\ IsFiniteSet(repos)
           /\ Range(op.out) \subseteq Repos /\ IsFiniteSet(Range(op.out))
           /\ seen.kept \subseteq Repos /\ IsFiniteSet(seen.kept)
           /\ \A m : IsFiniteSet(Missed(m)) /\ IsFiniteSet(Ahead(m))
<1>1. Repos \subseteq Nat /\ IsFiniteSet(Repos)
  BY ListingAssumption
<1>2. Range(op.out) \subseteq Repos
  BY RangeOfSeq DEF ListingTypeOK
<1>3. repos \subseteq Repos /\ seen.kept \subseteq Repos
  BY DEF ListingTypeOK
<1>4. \A m : Missed(m) \subseteq Repos /\ Ahead(m) \subseteq Repos
  BY <1>3 DEF Missed, Behind, Ahead, InFront
<1>5. \A S : S \subseteq Repos => IsFiniteSet(S)
  BY <1>1, FS_Subset
<1>6. QED
  BY <1>1, <1>2, <1>3, <1>4, <1>5

\* A page is read.  What is on it and was listed before was ahead, so counts already;
\* what is at its positions is no longer missed.
LEMMA PageIsListed ==
    ASSUME ListingInv, ListPage
    PROVE  ListingInv'
<1> DEFINE m == (op.page - 1) * PageSize
           page == Page(op.page)
           P == OnPage(op.page, repos)
           R == Range(op.out)
           D == Ahead(m)
           last == IsLastPage(page)
<1>0. /\ op.phase = "pages"
      /\ op' = [op EXCEPT !.out = @ \o page,
                          !.page = IF last THEN @ ELSE @ + 1,
                          !.phase = IF last THEN "listed" ELSE @]
      /\ UNCHANGED <<repos, cache, seen>>
  BY DEF ListPage
<1>1. ListingTypeOK /\ op.page \in Nat \ {0} /\ op.out \in Seq(Repos)
  BY DEF ListingInv, ListingTypeOK
<1>2. /\ Len(op.out) = m /\ seen.kept \subseteq repos
      /\ Cardinality(Missed(m)) <= seen.removed
      /\ m - Cardinality(R) + Cardinality(D) <= seen.added
  BY <1>0 DEF ListingInv, PagesSoFar
<1>3. /\ repos \subseteq Nat /\ IsFiniteSet(repos) /\ IsFiniteSet(R) /\ IsFiniteSet(seen.kept)
      /\ IsFiniteSet(Missed(m)) /\ IsFiniteSet(D)
  BY <1>1, ListingIsFinite
<1>4. /\ page \in Seq(repos) /\ Range(page) = P /\ Len(page) = Cardinality(P)
      /\ Cardinality(P) <= PageSize
      /\ Cardinality(P) < PageSize => \A r \in repos : Position(r, repos) <= op.page * PageSize
  BY <1>1, <1>3, PageIsComplete
<1>5. page \in Seq(Repos)
  BY <1>1, <1>4 DEF ListingTypeOK
<1>6. /\ m \in Nat /\ PageSize \in Nat /\ op.page * PageSize = m + PageSize
      /\ (op.page + 1 - 1) * PageSize = m + PageSize
  <2>1. op.page \in Nat /\ op.page - 1 \in Nat /\ PageSize \in Nat
    BY <1>1, ListingAssumption
  <2>2. op.page + 1 - 1 = op.page
    BY <2>1
  <2>3. (op.page - 1) * PageSize \in Nat
        /\ op.page * PageSize = (op.page - 1) * PageSize + PageSize
    BY <2>1
  <2>4. QED
    BY <2>1, <2>2, <2>3
<1>7. P = {r \in repos : m < Position(r, repos) /\ Position(r, repos) <= m + PageSize}
  BY <1>6 DEF OnPage
<1>8. D = {r \in R \cap repos : m < Position(r, repos)}
  BY DEF Ahead, InFront
<1>9. last <=> Cardinality(P) < PageSize
  BY <1>4 DEF IsLastPage
<1>10. IsFiniteSet(P) /\ P \subseteq repos
  BY <1>3, <1>7, FS_Subset
<1>11. /\ Range(op.out \o page) = R \cup P
       /\ Len(op.out \o page) = m + Cardinality(P)
       /\ op.out \o page \in Seq(Repos)
  <2> HIDE DEF page, P, m
  <2>1. Range(op.out \o page) = R \cup Range(page)
    BY <1>1, <1>5, RangeConcatenation
  <2>2. Len(op.out \o page) = Len(op.out) + Len(page) /\ op.out \o page \in Seq(Repos)
    BY <1>1, <1>5, ConcatProperties
  <2>3. QED
    BY <1>2, <1>4, <2>1, <2>2
<1>12. /\ op'.out = op.out \o page
       /\ op'.phase = IF last THEN "listed" ELSE "pages"
       /\ op'.page = IF last THEN op.page ELSE op.page + 1
       /\ op' \in [phase : {"idle", "token", "pages", "listed"}, ttl : Nat, page : Nat \ {0},
                   out : Seq(Repos)]
  <2>1. op \in [phase : {"idle", "token", "pages", "listed"}, ttl : Nat, page : Nat \ {0},
                out : Seq(Repos)]
    BY <1>1 DEF ListingTypeOK
  <2>2. op.page + 1 \in Nat \ {0}
    BY <1>1
  <2> HIDE DEF page, last
  <2>3. QED
    BY <1>0, <1>11, <2>1, <2>2
<1>13. ListingTypeOK'
  BY <1>0, <1>1, <1>12 DEF ListingTypeOK
<1> HIDE DEF m, page, P, R, D, last
\* The numbers.
<1>14. /\ Cardinality(P) \in Nat /\ Cardinality(R) \in Nat /\ Cardinality(D) \in Nat
       /\ Cardinality(R \cap P) \in Nat /\ Cardinality(R \cup P) \in Nat
       /\ Cardinality(R \cup P) = Cardinality(R) + Cardinality(P) - Cardinality(R \cap P)
       /\ Cardinality(D \ P) \in Nat
       /\ Cardinality(D \ P) = Cardinality(D) - Cardinality(R \cap P)
  <2>1. IsFiniteSet(R \cap P) /\ IsFiniteSet(R \cup P) /\ IsFiniteSet(D \ P)
    BY <1>3, <1>10, FS_Intersection, FS_Union, FS_Difference
  <2>2. D \cap P = R \cap P
    BY <1>7, <1>8
  <2>3. Cardinality(D \ P) = Cardinality(D) - Cardinality(D \cap P)
    BY <1>3, FS_Difference
  <2>4. Cardinality(R \cup P) = Cardinality(R) + Cardinality(P) - Cardinality(R \cap P)
    BY <1>3, <1>10, FS_Union
  <2>5. QED
    BY <1>3, <1>10, <2>1, <2>2, <2>3, <2>4, FS_CardinalityType
<1>15. seen.added \in Nat /\ seen.removed \in Nat
  BY <1>1 DEF ListingTypeOK
<1>16. CASE last
  <2>1. seen.kept \ (R \cup P) \in SUBSET Missed(m)
    <3>1. \A r \in seen.kept : Position(r, repos) \in Nat /\ Position(r, repos) <= m + PageSize
      <4>1. \A r \in repos : r \in Nat /\ Position(r, repos) \in Nat
        BY <1>3, Positions
      <4>2. QED
        BY <1>2, <1>4, <1>6, <1>9, <1>16, <4>1
    <3>2. \A r \in seen.kept : r \notin P => Position(r, repos) <= m
      BY <1>2, <1>6, <1>7, <3>1
    <3>3. QED
      BY <3>2 DEF Missed, Behind, R
  <2>2. Cardinality(seen.kept \ (R \cup P)) <= seen.removed
    <3>1. Cardinality(seen.kept \ (R \cup P)) <= Cardinality(Missed(m))
      BY <1>3, <2>1, FS_Subset
    <3>2. Cardinality(seen.kept \ (R \cup P)) \in Nat /\ Cardinality(Missed(m)) \in Nat
      BY <1>3, FS_CardinalityType, FS_Difference
    <3>3. QED
      BY <1>2, <1>15, <3>1, <3>2
  <2>3. m + Cardinality(P) - Cardinality(R \cup P) <= seen.added
    BY <1>2, <1>6, <1>14, <1>15
  <2>4. op'.phase = "listed"
    BY <1>12, <1>16
  <2>5. ListingErrorsAreBounded'
    <3>1. /\ Range(op'.out) = R \cup P /\ Len(op'.out) = m + Cardinality(P)
          /\ seen' = seen
      BY <1>0, <1>11, <1>12
    <3>2. /\ Cardinality(seen'.kept \ Range(op'.out)) <= seen'.removed
          /\ Len(op'.out) - Cardinality(Range(op'.out)) <= seen'.added
      <4>1. seen'.kept \ Range(op'.out) = seen.kept \ (R \cup P)
        BY <3>1
      <4>2. seen'.removed = seen.removed /\ seen'.added = seen.added
        BY <3>1
      <4>3. Cardinality(seen'.kept \ Range(op'.out)) <= seen'.removed
        BY <2>2, <4>1, <4>2, Zenon
      <4>4. Len(op'.out) - Cardinality(Range(op'.out)) <= seen'.added
        <5>1. Cardinality(Range(op'.out)) = Cardinality(R \cup P)
          BY <3>1, Zenon
        <5>2. Len(op'.out) = m + Cardinality(P) /\ seen'.added = seen.added
          BY <3>1, <4>2
        <5>3. QED
          BY <1>6, <1>14, <1>15, <2>3, <5>1, <5>2
      <4>5. QED
        BY <4>3, <4>4
    <3>3. QED
      BY <3>2 DEF ListingErrorsAreBounded
  <2>6. PagesSoFar'
    BY <2>4 DEF PagesSoFar
  <2>7. QED
    BY <1>13, <2>5, <2>6 DEF ListingInv
<1>17. CASE ~last
  <2>0. PICK n \in Nat : n = m + PageSize
    BY <1>6
  <2>1. op'.phase = "pages" /\ op'.page = op.page + 1
    BY <1>12, <1>17
  <2>2. (op'.page - 1) * PageSize = n
    <3>1. op'.page - 1 = op.page + 1 - 1
      BY <1>1, <2>1
    <3>2. QED
      BY <1>6, <2>0, <3>1
  <2>3. Cardinality(P) = PageSize
    BY <1>4, <1>6, <1>9, <1>14, <1>17
  <2>4. \A r \in repos : r \in Nat /\ Position(r, repos) \in Nat
    BY <1>3, Positions
  <2>5. n \in Nat /\ n = m + PageSize /\ m <= n
    BY <1>6, <2>0
  <2>6. Missed(n)' \in SUBSET Missed(m)
    <3>0. Range(op'.out) = R \cup P /\ seen' = seen /\ repos' = repos
      BY <1>0, <1>11, <1>12
    <3>1. Missed(n)' = {r \in seen.kept : Position(r, repos) <= n} \ (R \cup P)
      BY <3>0 DEF Missed, Behind, Position
    <3>2. \A r \in seen.kept : Position(r, repos) <= n /\ r \notin P => Position(r, repos) <= m
      BY <1>2, <1>6, <1>7, <2>4, <2>5
    <3>3. QED
      BY <3>1, <3>2 DEF Missed, Behind, R
  <2>7. Ahead(n)' = D \ P
    <3>0. Range(op'.out) = R \cup P /\ repos' = repos
      BY <1>0, <1>11, <1>12
    <3>1. Ahead(n)' = {r \in (R \cup P) \cap repos : n < Position(r, repos)}
      BY <3>0 DEF Ahead, InFront, Position
    <3>2. \A r \in repos : n < Position(r, repos) => m < Position(r, repos) /\ r \notin P
      BY <1>6, <1>7, <2>4, <2>5
    <3>3. \A r \in repos : m < Position(r, repos) /\ r \notin P => n < Position(r, repos)
      BY <1>6, <1>7, <2>4, <2>5
    <3>4. QED
      BY <1>8, <3>1, <3>2, <3>3
  <2>8. Cardinality(Missed(n)') <= seen.removed
    <3>1. Cardinality(Missed(n)') <= Cardinality(Missed(m)) /\ IsFiniteSet(Missed(n)')
      BY <1>3, <2>6, FS_Subset
    <3>2. Cardinality(Missed(n)') \in Nat /\ Cardinality(Missed(m)) \in Nat
      BY <1>3, <3>1, FS_CardinalityType
    <3>3. QED
      BY <1>2, <1>15, <3>1, <3>2
  <2>9. n - Cardinality(R \cup P) + Cardinality(D \ P) <= seen.added
    BY <1>2, <1>6, <1>14, <1>15, <2>3, <2>5
  <2>10. Len(op'.out) = n
    BY <1>11, <1>12, <2>3, <2>5
  <2>11. PagesSoFar'
    <3>1. /\ Len(op'.out) = n /\ seen'.kept \subseteq repos'
          /\ Cardinality(Missed(n))' <= seen'.removed
          /\ n - Cardinality(Range(op'.out)) + Cardinality(Ahead(n))' <= seen'.added
      BY <1>0, <1>2, <1>11, <1>12, <2>7, <2>8, <2>9, <2>10
    <3>2. QED
      BY <2>2, <3>1 DEF PagesSoFar
  <2>12. ListingErrorsAreBounded'
    BY <2>1 DEF ListingErrorsAreBounded
  <2>13. QED
    BY <1>13, <2>11, <2>12 DEF ListingInv
<1>18. QED
  BY <1>16, <1>17

\* A repository is taken away while a listing is under way.
LEMMA RemovalIsCounted ==
    ASSUME ListingInv, NEW r \in Repos, RemoveRepo(r)
    PROVE  ListingInv'
<1>0. /\ r \in repos /\ repos' = repos \ {r} /\ UNCHANGED <<cache, op>>
      /\ seen' = IF op.phase = "pages" THEN [seen EXCEPT !.removed = @ + 1, !.kept = @ \ {r}] ELSE seen
  BY DEF RemoveRepo, Listing
<1>1. ListingTypeOK
  BY DEF ListingInv
<1>2. CASE op.phase # "pages"
  <2>1. UNCHANGED <<op, seen>>
    BY <1>0, <1>2
  <2>2. ListingTypeOK'
    BY <1>0, <1>1, <2>1 DEF ListingTypeOK
  <2>3. PagesSoFar' /\ ListingErrorsAreBounded'
    BY <1>2, <2>1 DEF ListingInv, PagesSoFar, ListingErrorsAreBounded
  <2>4. QED
    BY <2>2, <2>3 DEF ListingInv
<1>3. CASE op.phase = "pages"
  <2>1. /\ seen \in [kept : SUBSET Repos, removed : Nat, added : Nat]
        /\ seen' = [seen EXCEPT !.removed = @ + 1, !.kept = @ \ {r}]
    BY <1>0, <1>1, <1>3 DEF ListingTypeOK
  <2>2. /\ seen'.kept = seen.kept \ {r} /\ seen'.removed = seen.removed + 1 /\ seen'.added = seen.added
        /\ seen' \in [kept : SUBSET Repos, removed : Nat, added : Nat]
        /\ seen.removed \in Nat /\ seen.added \in Nat
    <3>1. seen.kept \ {r} \in SUBSET Repos /\ seen.removed + 1 \in Nat
          /\ seen.removed \in Nat /\ seen.added \in Nat
      BY <2>1
    <3>2. seen' = [kept |-> seen.kept \ {r}, removed |-> seen.removed + 1, added |-> seen.added]
      BY <2>1
    <3>3. QED
      BY <3>1, <3>2
  <2>3. ListingTypeOK'
    BY <1>0, <1>1, <2>2 DEF ListingTypeOK
  <2>4. PICK m \in Nat : m = (op.page - 1) * PageSize
    <3>1. op.page \in Nat /\ op.page - 1 \in Nat /\ PageSize \in Nat
      BY <1>1, ListingAssumption DEF ListingTypeOK
    <3>2. (op.page - 1) * PageSize \in Nat
      BY <3>1
    <3>3. QED
      BY <3>2
  <2> DEFINE R == Range(op.out)
  <2>5. /\ Len(op.out) = m /\ seen.kept \subseteq repos
        /\ Cardinality(Missed(m)) <= seen.removed
        /\ m - Cardinality(R) + Cardinality(Ahead(m)) <= seen.added
    BY <1>3, <2>4 DEF ListingInv, PagesSoFar
  <2>6. /\ repos \subseteq Nat /\ IsFiniteSet(repos) /\ IsFiniteSet(R)
        /\ IsFiniteSet(Missed(m)) /\ IsFiniteSet(Ahead(m))
    BY <1>1, ListingIsFinite
  <2>7. /\ Cardinality(Missed(m)') <= Cardinality(Missed(m)) + 1
        /\ Ahead(m)' \in SUBSET Ahead(m)
    <3>1. /\ Cardinality(Behind(seen.kept \ {r}, repos \ {r}, m, R))
              <= Cardinality(Behind(seen.kept, repos, m, R)) + 1
          /\ InFront(repos \ {r}, m, R) \in SUBSET InFront(repos, m, R)
      <4> HIDE DEF R
      <4>1. QED
        BY <1>0, <2>5, <2>6, RemovalMoves
    <3>2. Missed(m)' = Behind(seen.kept \ {r}, repos \ {r}, m, R)
      BY <1>0, <2>2 DEF Missed, Behind, Position
    <3>3. Ahead(m)' = InFront(repos \ {r}, m, R)
      BY <1>0 DEF Ahead, InFront, Position
    <3>4. QED
      BY <3>1, <3>2, <3>3 DEF Missed, Ahead
  <2>8. /\ Cardinality(Ahead(m)') <= Cardinality(Ahead(m)) /\ IsFiniteSet(Missed(m)')
        /\ Cardinality(Ahead(m)') \in Nat /\ Cardinality(Missed(m)') \in Nat
        /\ Cardinality(Ahead(m)) \in Nat /\ Cardinality(Missed(m)) \in Nat
        /\ Cardinality(R) \in Nat
    <3>1. IsFiniteSet(Ahead(m)') /\ Cardinality(Ahead(m)') <= Cardinality(Ahead(m))
      BY <2>6, <2>7, FS_Subset
    <3>2. IsFiniteSet(Missed(m)')
      <4>1. Missed(m)' \in SUBSET Repos
        BY <2>2 DEF Missed, Behind
      <4>2. QED
        BY <4>1, ListingAssumption, FS_Subset
    <3>3. QED
      BY <2>6, <3>1, <3>2, FS_CardinalityType
  <2> HIDE DEF R
  <2>9. Cardinality(Missed(m)') <= seen'.removed
    BY <2>2, <2>5, <2>7, <2>8
  <2>10. m - Cardinality(R) + Cardinality(Ahead(m)') <= seen'.added
    BY <2>2, <2>5, <2>8
  <2>11. PagesSoFar'
    <3>1. /\ Len(op'.out) = m /\ seen'.kept \subseteq repos' /\ (op'.page - 1) * PageSize = m
          /\ Cardinality(Missed(m))' <= seen'.removed
          /\ m - Cardinality(Range(op'.out)) + Cardinality(Ahead(m))' <= seen'.added
      BY <1>0, <2>2, <2>4, <2>5, <2>9, <2>10 DEF R
    <3>2. QED
      BY <3>1 DEF PagesSoFar
  <2>12. ListingErrorsAreBounded'
    BY <1>0, <1>3 DEF ListingErrorsAreBounded
  <2>13. QED
    BY <2>3, <2>11, <2>12 DEF ListingInv
<1>4. QED
  BY <1>2, <1>3

\* A repository is given to the installation while a listing is under way.
LEMMA AdditionIsCounted ==
    ASSUME ListingInv, NEW r \in Repos, AddRepo(r)
    PROVE  ListingInv'
<1>0. /\ r \notin repos /\ repos' = repos \cup {r} /\ UNCHANGED <<cache, op>>
      /\ seen' = IF op.phase = "pages" THEN [seen EXCEPT !.added = @ + 1] ELSE seen
  BY DEF AddRepo, Listing
<1>1. ListingTypeOK
  BY DEF ListingInv
<1>2. CASE op.phase # "pages"
  <2>1. UNCHANGED <<op, seen>>
    BY <1>0, <1>2
  <2>2. ListingTypeOK'
    BY <1>0, <1>1, <2>1 DEF ListingTypeOK
  <2>3. PagesSoFar' /\ ListingErrorsAreBounded'
    BY <1>2, <2>1 DEF ListingInv, PagesSoFar, ListingErrorsAreBounded
  <2>4. QED
    BY <2>2, <2>3 DEF ListingInv
<1>3. CASE op.phase = "pages"
  <2>1. /\ seen \in [kept : SUBSET Repos, removed : Nat, added : Nat]
        /\ seen' = [seen EXCEPT !.added = @ + 1]
    BY <1>0, <1>1, <1>3 DEF ListingTypeOK
  <2>2. /\ seen'.kept = seen.kept /\ seen'.removed = seen.removed /\ seen'.added = seen.added + 1
        /\ seen' \in [kept : SUBSET Repos, removed : Nat, added : Nat]
        /\ seen.removed \in Nat /\ seen.added \in Nat
    BY <2>1
  <2>3. ListingTypeOK'
    BY <1>0, <1>1, <2>2 DEF ListingTypeOK
  <2>4. PICK m \in Nat : m = (op.page - 1) * PageSize
    <3>1. op.page \in Nat /\ op.page - 1 \in Nat /\ PageSize \in Nat
      BY <1>1, ListingAssumption DEF ListingTypeOK
    <3>2. (op.page - 1) * PageSize \in Nat
      BY <3>1
    <3>3. QED
      BY <3>2
  <2> DEFINE R == Range(op.out)
  <2>5. /\ Len(op.out) = m /\ seen.kept \subseteq repos
        /\ Cardinality(Missed(m)) <= seen.removed
        /\ m - Cardinality(R) + Cardinality(Ahead(m)) <= seen.added
    BY <1>3, <2>4 DEF ListingInv, PagesSoFar
  <2>6. /\ repos \subseteq Nat /\ IsFiniteSet(repos) /\ IsFiniteSet(R) /\ r \in Nat
        /\ IsFiniteSet(Missed(m)) /\ IsFiniteSet(Ahead(m))
    BY <1>1, ListingIsFinite, ListingAssumption
  <2>7. /\ Cardinality(Ahead(m)') <= Cardinality(Ahead(m)) + 1
        /\ Missed(m)' \in SUBSET Missed(m)
    <3>1. /\ Behind(seen.kept, repos \cup {r}, m, R) \in SUBSET Behind(seen.kept, repos, m, R)
          /\ Cardinality(InFront(repos \cup {r}, m, R)) <= Cardinality(InFront(repos, m, R)) + 1
      <4> HIDE DEF R
      <4>1. QED
        BY <1>0, <2>5, <2>6, AdditionMoves
    <3>2. Missed(m)' = Behind(seen.kept, repos \cup {r}, m, R)
      BY <1>0, <2>2 DEF Missed, Behind, Position
    <3>3. Ahead(m)' = InFront(repos \cup {r}, m, R)
      BY <1>0 DEF Ahead, InFront, Position
    <3>4. QED
      BY <3>1, <3>2, <3>3 DEF Missed, Ahead
  <2>8. /\ Cardinality(Missed(m)') <= Cardinality(Missed(m))
        /\ Cardinality(Ahead(m)') \in Nat /\ Cardinality(Missed(m)') \in Nat
        /\ Cardinality(Ahead(m)) \in Nat /\ Cardinality(Missed(m)) \in Nat
        /\ Cardinality(R) \in Nat
    <3>1. IsFiniteSet(Missed(m)') /\ Cardinality(Missed(m)') <= Cardinality(Missed(m))
      BY <2>6, <2>7, FS_Subset
    <3>2. IsFiniteSet(Ahead(m)')
      <4>1. Ahead(m)' \in SUBSET Repos
        BY <2>3 DEF Ahead, InFront, ListingTypeOK
      <4>2. QED
        BY <4>1, ListingAssumption, FS_Subset
    <3>3. QED
      BY <2>6, <3>1, <3>2, FS_CardinalityType
  <2> HIDE DEF R
  <2>9. Cardinality(Missed(m)') <= seen'.removed
    BY <2>2, <2>5, <2>8
  <2>10. m - Cardinality(R) + Cardinality(Ahead(m)') <= seen'.added
    BY <2>2, <2>5, <2>7, <2>8
  <2>11. PagesSoFar'
    <3>1. /\ Len(op'.out) = m /\ seen'.kept \subseteq repos' /\ (op'.page - 1) * PageSize = m
          /\ Cardinality(Missed(m))' <= seen'.removed
          /\ m - Cardinality(Range(op'.out)) + Cardinality(Ahead(m))' <= seen'.added
      BY <1>0, <2>2, <2>4, <2>5, <2>9, <2>10 DEF R
    <3>2. QED
      BY <3>1 DEF PagesSoFar
  <2>12. ListingErrorsAreBounded'
    BY <1>0, <1>3 DEF ListingErrorsAreBounded
  <2>13. QED
    BY <2>3, <2>11, <2>12 DEF ListingInv
<1>4. QED
  BY <1>2, <1>3

\* A listing starts: no position has been read yet.
LEMMA ListingStarts ==
    ASSUME ListingInv, NEW ttl \in Nat, StartListing(ttl), repos' = repos, cache' \in Nat
    PROVE  ListingInv'
<1>1. /\ op' = [phase |-> "pages", ttl |-> ttl, page |-> 1, out |-> <<>>]
      /\ seen' = [kept |-> repos, removed |-> 0, added |-> 0]
  BY DEF StartListing
<1>2. ListingTypeOK
  BY DEF ListingInv
<1>3. ListingTypeOK'
  BY <1>1, <1>2 DEF ListingTypeOK
<1>4. Range(op'.out) = {} /\ Len(op'.out) = 0
  BY <1>1 DEF Range
<1>5. PICK m \in Nat : m = 0
  OBVIOUS
<1>6. Missed(m)' = {}
  <2>1. \A r \in repos : Position(r, repos) \in 1 .. Cardinality(repos) /\ Cardinality(repos) \in Nat
    BY <1>2, ListingIsFinite, Positions
  <2>2. \A r \in repos : ~(Position(r, repos) <= m)
    BY <1>5, <2>1
  <2>3. Missed(m)' = {q \in repos : Position(q, repos) <= m} \ Range(op'.out)
    BY <1>1 DEF Missed, Behind, Position
  <2>4. QED
    BY <2>2, <2>3
<1>7. Ahead(m)' = {}
  BY <1>4 DEF Ahead, InFront
<1>8. /\ (op'.page - 1) * PageSize = m
      /\ seen'.kept = repos /\ seen'.removed = 0 /\ seen'.added = 0
  <2>1. op'.page - 1 = 0 /\ PageSize \in Nat
    BY <1>1, ListingAssumption
  <2>2. QED
    BY <1>1, <1>5, <2>1
<1>9. PagesSoFar'
  <2>1. /\ Len(op'.out) = m /\ seen'.kept \subseteq repos'
        /\ Cardinality(Missed(m)') <= seen'.removed
        /\ m - Cardinality(Range(op'.out)) + Cardinality(Ahead(m)') <= seen'.added
    <3>1. Cardinality({}) = 0
      BY FS_EmptySet
    <3>2. /\ Cardinality(Missed(m)') = 0 /\ Cardinality(Ahead(m)') = 0
          /\ Cardinality(Range(op'.out)) = 0
      BY <1>4, <1>6, <1>7, <3>1, Zenon
    <3>3. QED
      BY <1>4, <1>5, <1>8, <3>2
  <2>2. QED
    <3>1. /\ Cardinality(Missed(m))' <= seen'.removed
          /\ m - Cardinality(Range(op'.out)) + Cardinality(Ahead(m))' <= seen'.added
      BY <2>1
    <3>2. QED
      BY <1>8, <2>1, <3>1 DEF PagesSoFar
<1>10. ListingErrorsAreBounded'
  BY <1>1 DEF ListingErrorsAreBounded
<1>11. QED
  BY <1>3, <1>9, <1>10 DEF ListingInv

\* Outside the loop and before its result is used there is nothing to count.
LEMMA NothingListed ==
    ASSUME ListingInv, repos' = repos, cache' \in Nat,
           op' \in [phase : {"idle", "token"}, ttl : Nat, page : {1}, out : {<<>>}],
           seen' \in {seen, NothingSeen}
    PROVE  ListingInv'
<1>1. ListingTypeOK
  BY DEF ListingInv
<1>2. NothingSeen \in [kept : SUBSET Repos, removed : Nat, added : Nat]
  BY DEF NothingSeen
<1>3. ListingTypeOK'
  <2>1. op' \in [phase : {"idle", "token", "pages", "listed"}, ttl : Nat, page : Nat \ {0},
                 out : Seq(Repos)]
    <3>1. 1 \in Nat \ {0} /\ <<>> \in Seq(Repos)
      OBVIOUS
    <3>2. {"idle", "token"} \in SUBSET {"idle", "token", "pages", "listed"}
      OBVIOUS
    <3>3. PICK p \in {"idle", "token"}, t \in Nat :
             op' = [phase |-> p, ttl |-> t, page |-> 1, out |-> <<>>]
      OBVIOUS
    <3>4. QED
      BY <3>1, <3>2, <3>3
  <2>2. seen' \in [kept : SUBSET Repos, removed : Nat, added : Nat]
    BY <1>1, <1>2 DEF ListingTypeOK
  <2>3. QED
    BY <1>1, <2>1, <2>2 DEF ListingTypeOK
<1>4. PagesSoFar' /\ ListingErrorsAreBounded'
  BY DEF PagesSoFar, ListingErrorsAreBounded
<1>5. QED
  BY <1>3, <1>4 DEF ListingInv

\* Every step preserves the invariant.
LEMMA ListingStep ==
    ASSUME ListingInv, [ListingNext]_listingVars
    PROVE  ListingInv'
<1>1. /\ ListingTypeOK /\ op.ttl \in Nat /\ cache \in Nat /\ TokenLife \in Nat
      /\ NoListing \in [phase : {"idle", "token"}, ttl : Nat, page : {1}, out : {<<>>}]
  BY ListingAssumption DEF ListingInv, ListingTypeOK, NoListing
<1>2. CASE TokenFromCache
  BY <1>1, <1>2, ListingStarts DEF TokenFromCache
<1>3. CASE RequestToken
  <2>1. op' = [phase |-> "token", ttl |-> TokenLife, page |-> 1, out |-> <<>>]
        /\ UNCHANGED <<repos, cache, seen>>
    BY <1>3 DEF RequestToken, NoListing
  <2>2. QED
    BY <1>1, <2>1, NothingListed
<1>4. CASE TokenArrives
  BY <1>1, <1>4, ListingStarts DEF TokenArrives
<1>5. CASE ListPage
  BY <1>5, PageIsListed
<1>6. CASE TokenExpired \/ RequestFails
  <2>1. op' = NoListing /\ seen' = NothingSeen /\ UNCHANGED <<repos, cache>>
    BY <1>6 DEF TokenExpired, RequestFails, AbandonListing
  <2>2. QED
    BY <1>1, <2>1, NothingListed
<1>7. CASE ReplaceInstallationRepos
  <2>1. op' = NoListing /\ seen' = NothingSeen /\ UNCHANGED <<repos, cache>>
    BY <1>7 DEF ReplaceInstallationRepos
  <2>2. QED
    BY <1>1, <2>1, NothingListed
<1>8. CASE \E r \in Repos : AddRepo(r) \/ RemoveRepo(r)
  BY <1>8, AdditionIsCounted, RemovalIsCounted
<1>9. CASE TokensAge \/ UNCHANGED listingVars
  <2>1. /\ cache' \in Nat /\ UNCHANGED <<repos, seen>>
        /\ \E t \in Nat : op' = [op EXCEPT !.ttl = t]
    <3>1. CASE TokensAge
      <4> DEFINE Aged(t) == IF t = 0 THEN 0 ELSE t - 1
      <4>1. /\ cache' = Aged(cache) /\ op' = [op EXCEPT !.ttl = Aged(op.ttl)]
            /\ UNCHANGED <<repos, seen>>
        BY <3>1 DEF TokensAge
      <4>2. Aged(cache) \in Nat /\ Aged(op.ttl) \in Nat
        BY <1>1
      <4> HIDE DEF Aged
      <4>3. QED
        BY <4>1, <4>2
    <3>2. CASE UNCHANGED listingVars
      <4>1. op' = [op EXCEPT !.ttl = op.ttl]
        BY <1>1, <3>2 DEF ListingTypeOK, listingVars
      <4>2. QED
        BY <1>1, <3>2, <4>1 DEF listingVars
    <3>3. QED
      BY <1>9, <3>1, <3>2
  <2>2. PICK t \in Nat : op' = [op EXCEPT !.ttl = t]
    BY <2>1
  <2>3. /\ op' \in [phase : {"idle", "token", "pages", "listed"}, ttl : Nat, page : Nat \ {0},
                    out : Seq(Repos)]
        /\ op'.phase = op.phase /\ op'.page = op.page /\ op'.out = op.out
    BY <1>1, <2>2 DEF ListingTypeOK
  <2>4. ListingTypeOK'
    BY <1>1, <2>1, <2>3 DEF ListingTypeOK
  <2>5. PagesSoFar'
    BY <2>1, <2>3 DEF ListingInv, PagesSoFar, Missed, Ahead, Behind, InFront, Position
  <2>6. ListingErrorsAreBounded'
    BY <2>1, <2>3 DEF ListingInv, ListingErrorsAreBounded
  <2>7. QED
    BY <2>4, <2>5, <2>6 DEF ListingInv
<1>10. QED
  BY <1>2, <1>3, <1>4, <1>5, <1>6, <1>7, <1>8, <1>9 DEF ListingNext, Work

\* The invariant holds when the server starts: nothing is being listed.
LEMMA ListingInitially == ListingInit => ListingInv
<1> SUFFICES ASSUME ListingInit PROVE ListingInv
  OBVIOUS
<1>1. ListingTypeOK
  BY DEF ListingInit, ListingTypeOK, NoListing, NothingSeen
<1>2. PagesSoFar /\ ListingErrorsAreBounded
  BY DEF ListingInit, NoListing, PagesSoFar, ListingErrorsAreBounded
<1>3. QED
  BY <1>1, <1>2 DEF ListingInv

\* ListInstallationRepositories, for any lists, page size and changes on GitHub: the
\* invariant that counts what the pages read so far can have missed or repeated.
THEOREM ListingInvariant == ListingSpec => []ListingInv
<1>1. ListingInit => ListingInv
  BY ListingInitially
<1>2. ListingInv /\ [ListingNext]_listingVars => ListingInv'
  BY ListingStep
<1>3. QED
  BY <1>1, <1>2, PTL DEF ListingSpec

\* A finished listing skips at most one lasting repository for each removed during
\* it and repeats at most one for each added, over any number of pages.
THEOREM ListingErrorsBounded == ListingSpec => []ListingErrorsAreBounded
<1>1. ListingInv => ListingErrorsAreBounded
  BY DEF ListingInv
<1>2. QED
  BY <1>1, ListingInvariant, PTL
=============================================================================
