--------------------------- MODULE RunIngestProofs ---------------------------
(***************************************************************************)
(* Theorems about RunIngest, for every set of repositories, owners,         *)
(* executions, payloads and goroutines and every quota, limit and duration. *)
(***************************************************************************)
EXTENDS RunIngest, FiniteSetTheorems, TLAPS

-----------------------------------------------------------------------------
(* Facts about the pieces the actions are made of *)

\* The limiter's counter keeps its type.
LEMMA AfterAllowType ==
    ASSUME NEW hit \in Hit, NEW t \in Nat
    PROVE  AfterAllow(hit, t) \in Hit
<1>1. CASE WindowOver(hit, t)
  BY <1>1 DEF AfterAllow, Hit, Allowed
<1>2. CASE ~WindowOver(hit, t) /\ ~Allowed(hit, t)
  BY <1>2 DEF AfterAllow
<1>3. CASE ~WindowOver(hit, t) /\ Allowed(hit, t)
  BY <1>3 DEF AfterAllow, Hit
<1>4. QED
  BY <1>1, <1>2, <1>3

\* A busy goroutine carries a token; Idle is told apart by its call.
LEMMA BusyHandler ==
    ASSUME TypeOK, NEW h \in Handlers, handler[h].call # "idle"
    PROVE  handler[h] \in [call : Calls \union {"replied"}, tok : Token, body : Payloads,
                           live : BOOLEAN, status : Statuses \union {0}]
BY DEF TypeOK, HandlerState, Idle

\* Replying and proceeding leave every goroutine in a legal state.
LEMMA ReplyType ==
    ASSUME TypeOK, NEW h \in Handlers, handler[h].call \in Calls,
           NEW status \in Statuses, Reply(h, status)
    PROVE  handler' \in [Handlers -> HandlerState]
<1>1. handler[h] \in [call : Calls \union {"replied"}, tok : Token, body : Payloads,
                      live : BOOLEAN, status : Statuses \union {0}]
  BY BusyHandler DEF Calls
<1>2. [handler[h] EXCEPT !.call = "replied", !.status = status] \in HandlerState
  BY <1>1 DEF HandlerState
<1>3. Idle \in HandlerState
  BY DEF HandlerState
<1>4. QED
  BY <1>2, <1>3 DEF Reply, TypeOK

LEMMA ProceedType ==
    ASSUME TypeOK, NEW h \in Handlers, handler[h].call \in Calls,
           NEW call \in Calls, Proceed(h, call)
    PROVE  handler' \in [Handlers -> HandlerState]
<1>1. handler[h] \in [call : Calls \union {"replied"}, tok : Token, body : Payloads,
                      live : BOOLEAN, status : Statuses \union {0}]
  BY BusyHandler DEF Calls
<1>2. [handler[h] EXCEPT !.call = call] \in HandlerState
  BY <1>1 DEF HandlerState
<1>3. Idle \in HandlerState
  BY DEF HandlerState
<1>4. QED
  BY <1>2, <1>3 DEF Proceed, TypeOK

LEMMA AllowOwnerType ==
    ASSUME TypeOK, NEW o \in Owners, AllowOwner(o)
    PROVE  hits' \in [Owners -> Hit]
<1>1. AfterAllow(hits[o], now) \in Hit
  BY AfterAllowType, IngestAssumption DEF TypeOK
<1>2. QED
  BY <1>1 DEF AllowOwner, TypeOK

\* The step of enrichment: rows come and go nowhere, and a row keeps its body
\* and its age.
LEMMA MatchEffect ==
    ASSUME TypeOK, NEW k \in RunKeys, MarkRunEnrichmentMatched(k)
    PROVE  /\ UNCHANGED <<now, hits, tokens, repos, handler>>
           /\ runs' \in [RunKeys -> Run \union {NoRun}]
           /\ \A l \in RunKeys : l # k => runs'[l] = runs[l]
           /\ \A l \in RunKeys : runs[l] = NoRun => runs'[l] = NoRun
           /\ \A l \in RunKeys : runs[l] # NoRun =>
                /\ runs'[l] # NoRun
                /\ runs'[l].body = runs[l].body
                /\ runs'[l].createdAt = runs[l].createdAt
                /\ runs'[l].job \in {runs[l].job, "shown"}
<1>1. runs[k] \in Run /\ runs[k] # NoRun
  BY DEF MarkRunEnrichmentMatched, TypeOK
<1>2. PICK old \in Run : old = runs[k]
  BY <1>1
<1>3. runs' = [runs EXCEPT ![k] = [old EXCEPT !.job = "shown"]]
  BY <1>2 DEF MarkRunEnrichmentMatched, TypeOK
<1>4. /\ [old EXCEPT !.job = "shown"] \in Run
      /\ [old EXCEPT !.job = "shown"] # NoRun
      /\ [old EXCEPT !.job = "shown"].body = old.body
      /\ [old EXCEPT !.job = "shown"].createdAt = old.createdAt
      /\ [old EXCEPT !.job = "shown"].job = "shown"
  BY DEF Run, NoRun
<1>5. /\ runs'[k] = [old EXCEPT !.job = "shown"]
      /\ \A l \in RunKeys : l # k => runs'[l] = runs[l]
  BY <1>3 DEF TypeOK
<1>6. runs' \in [RunKeys -> Run \union {NoRun}]
  BY <1>3, <1>4 DEF TypeOK
<1>7. UNCHANGED <<now, hits, tokens, repos, handler>>
  BY DEF MarkRunEnrichmentMatched
<1>8. QED
  BY <1>1, <1>2, <1>4, <1>5, <1>6, <1>7

-----------------------------------------------------------------------------
(* Type correctness *)

\* Every step keeps the types, one action at a time.
LEMMA TypeStep == TypeOK /\ [IngestNext]_ingestVars => TypeOK'
<1> SUFFICES ASSUME TypeOK, [IngestNext]_ingestVars
             PROVE  TypeOK'
  OBVIOUS
<1> USE IngestAssumption, RateAssumption
<1>1. ASSUME NEW r \in Repos, NEW e \in Executions, NEW p \in Payloads, NEW status,
             HandleRunsToken(r, e, p, status)
      PROVE  TypeOK'
  <2>1. OwnerOf[r] \in Owners
    OBVIOUS
  <2>2. NewToken(r, e, p) \in Token
    BY DEF NewToken, Token, TypeOK
  <2>3. hits' \in [Owners -> Hit]
    BY <1>1, <2>1, AllowOwnerType DEF HandleRunsToken, TypeOK
  <2>4. tokens' \subseteq Token
    BY <1>1, <2>2 DEF HandleRunsToken, TypeOK
  <2>5. QED
    BY <1>1, <2>3, <2>4 DEF HandleRunsToken, TypeOK
<1>2. ASSUME NEW h \in Handlers, NEW tok \in Token, NEW body \in Payloads,
             NEW dated \in BOOLEAN, ReceiveRun(h, tok, body, dated)
      PROVE  TypeOK'
  <2>1. OwnerOfToken(tok) \in Owners
    BY DEF OwnerOfToken, Token
  <2>2. hits' \in [Owners -> Hit]
    BY <1>2, <2>1, AllowOwnerType DEF ReceiveRun, TypeOK
  <2>3. handler' \in [Handlers -> HandlerState]
    <3>1. PICK call \in {"replied", "UpsertRepo"}, status \in {0, 400, 401, 429} :
             handler' = [handler EXCEPT ![h] =
                 [call |-> call, tok |-> tok, body |-> body, live |-> TRUE, status |-> status]]
      BY <1>2 DEF ReceiveRun
    <3>2. [call |-> call, tok |-> tok, body |-> body, live |-> TRUE, status |-> status] \in HandlerState
      BY DEF HandlerState, Calls, Statuses
    <3>3. QED
      BY <3>1, <3>2 DEF TypeOK
  <2>4. QED
    BY <1>2, <2>2, <2>3 DEF ReceiveRun, TypeOK
<1>3. ASSUME NEW h \in Handlers, HandleUpsertRepo(h)
      PROVE  TypeOK'
  <2>1. handler[h].tok.repo \in Repos
    BY <1>3, BusyHandler DEF HandleUpsertRepo, Token
  <2>2. handler' \in [Handlers -> HandlerState]
    BY <1>3, ProceedType DEF HandleUpsertRepo, Calls
  <2>3. QED
    BY <1>3, <2>1, <2>2 DEF HandleUpsertRepo, TypeOK
<1>4. ASSUME NEW h \in Handlers, HandleCountRuns(h)
      PROVE  TypeOK'
  <2>1. handler' \in [Handlers -> HandlerState]
    BY <1>4, ProceedType, ReplyType DEF HandleCountRuns, Calls, Statuses
  <2>2. QED
    BY <1>4, <2>1 DEF HandleCountRuns, TypeOK
<1>5. ASSUME NEW h \in Handlers, HandleUpsertRun(h)
      PROVE  TypeOK'
  <2>1. handler[h].tok \in Token /\ handler[h].body \in Payloads
    BY <1>5, BusyHandler DEF HandleUpsertRun
  <2>2. KeyOf(handler[h].tok) \in RunKeys
    BY <2>1 DEF KeyOf, RunKeys, Token
  <2>3. ASSUME NEW old \in Run \union {NoRun}
        PROVE  UpsertedRun(old, handler[h].body) \in Run
    BY <2>1, <2>3 DEF UpsertedRun, Run, Token, TypeOK
  <2>4. runs' \in [RunKeys -> Run \union {NoRun}]
    BY <1>5, <2>2, <2>3 DEF HandleUpsertRun, TypeOK
  <2>5. handler' \in [Handlers -> HandlerState]
    BY <1>5, ReplyType DEF HandleUpsertRun, Calls, Statuses
  <2>6. QED
    BY <1>5, <2>4, <2>5 DEF HandleUpsertRun, TypeOK
<1>6. ASSUME NEW h \in Handlers, HandleDatabaseError(h)
      PROVE  TypeOK'
  <2>1. handler' \in [Handlers -> HandlerState]
    BY <1>6, ReplyType DEF HandleDatabaseError, Statuses
  <2>2. QED
    BY <1>6, <2>1 DEF HandleDatabaseError, TypeOK
<1>7. ASSUME NEW h \in Handlers, CancelRun(h)
      PROVE  TypeOK'
  <2>1. handler[h] \in [call : Calls \union {"replied"}, tok : Token, body : Payloads,
                        live : BOOLEAN, status : Statuses \union {0}]
    BY <1>7, BusyHandler DEF CancelRun, Calls
  <2>2. [handler[h] EXCEPT !.live = FALSE] \in HandlerState
    BY <2>1 DEF HandlerState
  <2>3. handler' \in [Handlers -> HandlerState]
    BY <1>7, <2>2 DEF CancelRun, TypeOK
  <2>4. QED
    BY <1>7, <2>3 DEF CancelRun, TypeOK
<1>8. ASSUME NEW h \in Handlers, ResponseGone(h)
      PROVE  TypeOK'
  BY <1>8 DEF ResponseGone, TypeOK, HandlerState
<1>9. CASE Restart
  BY <1>9 DEF Restart, TypeOK, HandlerState, NoHit, Hit
<1>10. CASE Tick
  BY <1>10 DEF Tick, TypeOK
<1>11. ASSUME NEW k \in RunKeys, MarkRunEnrichmentMatched(k)
       PROVE  TypeOK'
  BY <1>11, MatchEffect DEF TypeOK
<1>12. CASE UNCHANGED ingestVars
  BY <1>12 DEF ingestVars, TypeOK
<1>13. QED
  BY <1>1, <1>2, <1>3, <1>4, <1>5, <1>6, <1>7, <1>8, <1>9, <1>10, <1>11, <1>12
  DEF IngestNext, HandlerStep

\* The variables of RunIngest always have their types.
THEOREM TypeCorrect == IngestSpec => []TypeOK
<1>1. IngestInit => TypeOK
  BY IngestAssumption DEF IngestInit, TypeOK, Hit, NoHit, HandlerState
<1>2. QED
  BY <1>1, TypeStep, PTL DEF IngestSpec

-----------------------------------------------------------------------------
(* Safety *)

\* What Reply and Proceed do to the goroutine, in the terms the invariants use.
LEMMA ReplyEffect ==
    ASSUME TypeOK, NEW h \in Handlers, handler[h].call \in Calls,
           NEW status \in Statuses, Reply(h, status)
    PROVE  /\ \A g \in Handlers : g # h => handler'[g] = handler[g]
           /\ handler'[h].call \in {"idle", "replied"}
           /\ handler'[h].call = "replied" =>
                /\ handler'[h].status = status
                /\ handler'[h].tok = handler[h].tok
<1>1. handler[h] \in [call : Calls \union {"replied"}, tok : Token, body : Payloads,
                      live : BOOLEAN, status : Statuses \union {0}]
  BY BusyHandler DEF Calls
<1>2. handler'[h] = IF handler[h].live
                    THEN [handler[h] EXCEPT !.call = "replied", !.status = status]
                    ELSE Idle
  BY DEF Reply, TypeOK
<1>3. \A g \in Handlers : g # h => handler'[g] = handler[g]
  BY DEF Reply, TypeOK
<1>4. QED
  BY <1>1, <1>2, <1>3 DEF Idle

LEMMA ProceedEffect ==
    ASSUME TypeOK, NEW h \in Handlers, handler[h].call \in Calls,
           NEW call \in Calls, Proceed(h, call)
    PROVE  /\ \A g \in Handlers : g # h => handler'[g] = handler[g]
           /\ handler'[h].call \in {"idle", call}
           /\ handler'[h].call = call =>
                /\ handler'[h].tok = handler[h].tok
                /\ handler'[h].body = handler[h].body
<1>1. handler[h] \in [call : Calls \union {"replied"}, tok : Token, body : Payloads,
                      live : BOOLEAN, status : Statuses \union {0}]
  BY BusyHandler DEF Calls
<1>2. handler'[h] = IF handler[h].live THEN [handler[h] EXCEPT !.call = call] ELSE Idle
  BY DEF Proceed, TypeOK
<1>3. \A g \in Handlers : g # h => handler'[g] = handler[g]
  BY DEF Proceed, TypeOK
<1>4. QED
  BY <1>1, <1>2, <1>3 DEF Idle, Calls

\* Every step keeps the inductive invariant, one action at a time.
LEMMA SafetyStep == IngestInv /\ [IngestNext]_ingestVars => IngestInv'
<1> SUFFICES ASSUME IngestInv, [IngestNext]_ingestVars
             PROVE  IngestInv'
  OBVIOUS
<1> USE IngestAssumption
<1>0. TypeOK /\ TypeOK'
  BY TypeStep DEF IngestInv
<1>1. ASSUME NEW r \in Repos, NEW e \in Executions, NEW p \in Payloads, NEW status,
             HandleRunsToken(r, e, p, status)
      PROVE  IngestInv'
  <2>1. tokens \subseteq tokens'
    BY <1>1 DEF HandleRunsToken
  <2>2. TokensAreRecent'
    BY <1>0, <1>1 DEF HandleRunsToken, IngestInv, TokensAreRecent, NewToken, TypeOK
  <2>3. WritersAreAuthorised'
    BY <1>1, <2>1 DEF HandleRunsToken, IngestInv, WritersAreAuthorised
  <2>4. StoredRunsWereAuthorised'
    BY <1>1, <2>1 DEF HandleRunsToken, IngestInv, StoredRunsWereAuthorised, KeyOf
  <2>5. AcceptedRunsAreStored' /\ RunWritersHaveTheirRepo'
    BY <1>1 DEF HandleRunsToken, IngestInv, AcceptedRunsAreStored, RunWritersHaveTheirRepo, KeyOf
  <2>6. QED
    BY <1>0, <2>2, <2>3, <2>4, <2>5 DEF IngestInv
<1>2. ASSUME NEW h \in Handlers, NEW tok \in Token, NEW body \in Payloads,
             NEW dated \in BOOLEAN, ReceiveRun(h, tok, body, dated)
      PROVE  IngestInv'
  <2>1. PICK call \in {"replied", "UpsertRepo"}, status \in {0, 400, 401, 429} :
           /\ handler' = [handler EXCEPT ![h] =
                 [call |-> call, tok |-> tok, body |-> body, live |-> TRUE, status |-> status]]
           /\ call = "UpsertRepo" => tok \in tokens /\ body = tok.sha /\ body \in ValidPayloads
    BY <1>2 DEF ReceiveRun, Verifies, Matches
  <2>2. /\ handler'[h] = [call |-> call, tok |-> tok, body |-> body,
                          live |-> TRUE, status |-> status]
        /\ \A g \in Handlers : g # h => handler'[g] = handler[g]
    BY <1>0, <2>1 DEF TypeOK
  <2>3. TokensAreRecent' /\ StoredRunsWereAuthorised'
    BY <1>2 DEF ReceiveRun, IngestInv, TokensAreRecent, StoredRunsWereAuthorised, KeyOf
  <2>4. WritersAreAuthorised'
    BY <1>2, <2>1, <2>2 DEF ReceiveRun, IngestInv, WritersAreAuthorised, Calls
  <2>5. AcceptedRunsAreStored'
    BY <1>2, <2>2 DEF ReceiveRun, IngestInv, AcceptedRunsAreStored, KeyOf
  <2>6. RunWritersHaveTheirRepo'
    BY <1>2, <2>2 DEF ReceiveRun, IngestInv, RunWritersHaveTheirRepo
  <2>7. QED
    BY <1>0, <2>3, <2>4, <2>5, <2>6 DEF IngestInv
<1>3. ASSUME NEW h \in Handlers, HandleUpsertRepo(h)
      PROVE  IngestInv'
  <2>1. /\ \A g \in Handlers : g # h => handler'[g] = handler[g]
        /\ handler'[h].call \in {"idle", "CountRuns"}
        /\ handler'[h].call = "CountRuns" =>
             handler'[h].tok = handler[h].tok /\ handler'[h].body = handler[h].body
    BY <1>0, <1>3, ProceedEffect DEF HandleUpsertRepo, Calls
  <2>2. TokensAreRecent' /\ StoredRunsWereAuthorised'
    BY <1>3 DEF HandleUpsertRepo, IngestInv, TokensAreRecent, StoredRunsWereAuthorised, KeyOf
  <2>3. WritersAreAuthorised'
    BY <1>3, <2>1 DEF HandleUpsertRepo, IngestInv, WritersAreAuthorised, Calls
  <2>4. AcceptedRunsAreStored' /\ RunWritersHaveTheirRepo'
    BY <1>3, <2>1
    DEF HandleUpsertRepo, IngestInv, AcceptedRunsAreStored, RunWritersHaveTheirRepo, KeyOf
  <2>5. QED
    BY <1>0, <2>2, <2>3, <2>4 DEF IngestInv
<1>4. ASSUME NEW h \in Handlers, HandleCountRuns(h)
      PROVE  IngestInv'
  <2>1. /\ \A g \in Handlers : g # h => handler'[g] = handler[g]
        /\ handler'[h].call \in {"idle", "UpsertRun", "replied"}
        /\ handler'[h].call = "UpsertRun" =>
             handler'[h].tok = handler[h].tok /\ handler'[h].body = handler[h].body
        /\ handler'[h].call = "replied" => handler'[h].status = 429
    <3>1. CASE Reply(h, 429)
      BY <1>0, <1>4, <3>1, ReplyEffect DEF HandleCountRuns, Calls, Statuses
    <3>2. CASE Proceed(h, "UpsertRun")
      BY <1>0, <1>4, <3>2, ProceedEffect DEF HandleCountRuns, Calls
    <3>3. QED
      BY <1>4, <3>1, <3>2 DEF HandleCountRuns
  <2>2. TokensAreRecent' /\ StoredRunsWereAuthorised'
    BY <1>4 DEF HandleCountRuns, IngestInv, TokensAreRecent, StoredRunsWereAuthorised, KeyOf
  <2>3. WritersAreAuthorised'
    BY <1>4, <2>1 DEF HandleCountRuns, IngestInv, WritersAreAuthorised, Calls
  <2>4. AcceptedRunsAreStored' /\ RunWritersHaveTheirRepo'
    BY <1>4, <2>1
    DEF HandleCountRuns, IngestInv, AcceptedRunsAreStored, RunWritersHaveTheirRepo, KeyOf
  <2>5. QED
    BY <1>0, <2>2, <2>3, <2>4 DEF IngestInv
<1>5. ASSUME NEW h \in Handlers, HandleUpsertRun(h)
      PROVE  IngestInv'
  <2> DEFINE tok == handler[h].tok
  <2>1. /\ \A g \in Handlers : g # h => handler'[g] = handler[g]
        /\ handler'[h].call \in {"idle", "replied"}
        /\ handler'[h].call = "replied" => handler'[h].tok = tok
    BY <1>0, <1>5, ReplyEffect DEF HandleUpsertRun, Calls, Statuses
  <2>2. /\ tok \in tokens
        /\ handler[h].body = tok.sha
        /\ handler[h].body \in ValidPayloads
    BY <1>5 DEF HandleUpsertRun, IngestInv, WritersAreAuthorised, Calls
  <2>3. KeyOf(tok) \in RunKeys
    BY <1>0, <2>2 DEF KeyOf, RunKeys, Token, TypeOK
  <2>4. /\ runs'[KeyOf(tok)] = UpsertedRun(runs[KeyOf(tok)], handler[h].body)
        /\ \A k \in RunKeys : k # KeyOf(tok) => runs'[k] = runs[k]
    BY <1>0, <1>5, <2>3 DEF HandleUpsertRun, TypeOK
  <2>5. /\ runs'[KeyOf(tok)] # NoRun
        /\ runs'[KeyOf(tok)].body = handler[h].body
    BY <2>4 DEF UpsertedRun, NoRun
  <2>6. TokensAreRecent'
    BY <1>5 DEF HandleUpsertRun, IngestInv, TokensAreRecent
  <2>7. WritersAreAuthorised'
    BY <1>5, <2>1 DEF HandleUpsertRun, IngestInv, WritersAreAuthorised, Calls
  <2>8. StoredRunsWereAuthorised'
    <3> SUFFICES ASSUME NEW k \in RunKeys, runs'[k] # NoRun
                 PROVE  /\ runs'[k].body \in ValidPayloads
                        /\ \E t \in tokens' : /\ KeyOf(t) = k
                                              /\ t.sha = runs'[k].body
                                              /\ t.exp <= now' + TokenTTL
      BY DEF StoredRunsWereAuthorised, KeyOf
    <3>1. tokens' = tokens /\ now' = now
      BY <1>5 DEF HandleUpsertRun
    <3>2. CASE k = KeyOf(tok)
      BY <2>2, <2>5, <3>1, <3>2 DEF IngestInv, TokensAreRecent
    <3>3. CASE k # KeyOf(tok)
      BY <2>4, <3>1, <3>3 DEF IngestInv, StoredRunsWereAuthorised
    <3>4. QED
      BY <3>2, <3>3
  <2>9. AcceptedRunsAreStored'
    <3> SUFFICES ASSUME NEW g \in Handlers, handler'[g].call = "replied", handler'[g].status = 202
                 PROVE  runs'[KeyOf(handler'[g].tok)] # NoRun
      BY DEF AcceptedRunsAreStored, KeyOf
    <3>1. CASE g = h
      BY <2>1, <2>5, <3>1
    <3>2. CASE g # h
      <4>1. handler'[g] = handler[g] /\ runs[KeyOf(handler[g].tok)] # NoRun
        BY <2>1, <3>2 DEF IngestInv, AcceptedRunsAreStored
      <4>2. handler[g].tok \in Token
        BY <1>0, <2>1, <3>2, BusyHandler
      <4>3. KeyOf(handler[g].tok) \in RunKeys
        BY <4>2 DEF KeyOf, RunKeys, Token
      <4>4. QED
        BY <2>4, <2>5, <4>1, <4>3
    <3>3. QED
      BY <3>1, <3>2
  <2>10. RunWritersHaveTheirRepo'
    BY <1>5, <2>1 DEF HandleUpsertRun, IngestInv, RunWritersHaveTheirRepo
  <2>11. QED
    BY <1>0, <2>6, <2>7, <2>8, <2>9, <2>10 DEF IngestInv
<1>6. ASSUME NEW h \in Handlers, HandleDatabaseError(h)
      PROVE  IngestInv'
  <2>1. /\ \A g \in Handlers : g # h => handler'[g] = handler[g]
        /\ handler'[h].call \in {"idle", "replied"}
        /\ handler'[h].call = "replied" => handler'[h].status = 500
    BY <1>0, <1>6, ReplyEffect DEF HandleDatabaseError, Statuses
  <2>2. TokensAreRecent' /\ StoredRunsWereAuthorised'
    BY <1>6 DEF HandleDatabaseError, IngestInv, TokensAreRecent, StoredRunsWereAuthorised, KeyOf
  <2>3. WritersAreAuthorised' /\ AcceptedRunsAreStored' /\ RunWritersHaveTheirRepo'
    BY <1>6, <2>1 DEF HandleDatabaseError, IngestInv, WritersAreAuthorised,
                      AcceptedRunsAreStored, RunWritersHaveTheirRepo, KeyOf, Calls
  <2>4. QED
    BY <1>0, <2>2, <2>3 DEF IngestInv
<1>7. ASSUME NEW h \in Handlers, CancelRun(h)
      PROVE  IngestInv'
  <2>1. handler[h] \in [call : Calls \union {"replied"}, tok : Token, body : Payloads,
                        live : BOOLEAN, status : Statuses \union {0}]
    BY <1>0, <1>7, BusyHandler DEF CancelRun, Calls
  <2>2. /\ \A g \in Handlers : g # h => handler'[g] = handler[g]
        /\ handler'[h] = [handler[h] EXCEPT !.live = FALSE]
    BY <1>0, <1>7 DEF CancelRun, TypeOK
  <2>3. /\ handler'[h].call = handler[h].call /\ handler'[h].tok = handler[h].tok
        /\ handler'[h].body = handler[h].body /\ handler'[h].status = handler[h].status
    BY <2>1, <2>2
  <2>4. TokensAreRecent' /\ StoredRunsWereAuthorised'
    BY <1>7 DEF CancelRun, IngestInv, TokensAreRecent, StoredRunsWereAuthorised, KeyOf
  <2>5. tokens' = tokens /\ repos' = repos /\ runs' = runs
    BY <1>7 DEF CancelRun
  <2>6. /\ WritersAreAuthorised /\ AcceptedRunsAreStored /\ RunWritersHaveTheirRepo
        /\ \A g \in Handlers : /\ handler'[g].call = handler[g].call
                               /\ handler'[g].tok = handler[g].tok
                               /\ handler'[g].body = handler[g].body
                               /\ handler'[g].status = handler[g].status
    BY <2>2, <2>3 DEF IngestInv
  <2>7. WritersAreAuthorised' /\ RunWritersHaveTheirRepo'
    BY <2>5, <2>6 DEF WritersAreAuthorised, RunWritersHaveTheirRepo
  <2>8. AcceptedRunsAreStored'
    BY <2>5, <2>6 DEF AcceptedRunsAreStored, KeyOf
  <2>9. QED
    BY <1>0, <2>4, <2>7, <2>8 DEF IngestInv
<1>8. ASSUME NEW h \in Handlers, ResponseGone(h)
      PROVE  IngestInv'
  <2>1. /\ \A g \in Handlers : g # h => handler'[g] = handler[g]
        /\ handler'[h].call = "idle"
    BY <1>0, <1>8 DEF ResponseGone, TypeOK, Idle
  <2>2. TokensAreRecent' /\ StoredRunsWereAuthorised'
    BY <1>8 DEF ResponseGone, IngestInv, TokensAreRecent, StoredRunsWereAuthorised, KeyOf
  <2>3. tokens' = tokens /\ repos' = repos /\ runs' = runs
    BY <1>8 DEF ResponseGone
  <2>4. WritersAreAuthorised' /\ RunWritersHaveTheirRepo'
    BY <2>1, <2>3 DEF IngestInv, WritersAreAuthorised, RunWritersHaveTheirRepo, Calls
  <2>5. AcceptedRunsAreStored'
    BY <2>1, <2>3 DEF IngestInv, AcceptedRunsAreStored, KeyOf
  <2>6. QED
    BY <1>0, <2>2, <2>4, <2>5 DEF IngestInv
<1>9. CASE Restart
  <2>1. \A g \in Handlers : handler'[g].call = "idle"
    BY <1>9 DEF Restart, Idle
  <2>2. TokensAreRecent' /\ StoredRunsWereAuthorised'
    BY <1>9 DEF Restart, IngestInv, TokensAreRecent, StoredRunsWereAuthorised, KeyOf
  <2>3. WritersAreAuthorised' /\ AcceptedRunsAreStored' /\ RunWritersHaveTheirRepo'
    BY <2>1 DEF WritersAreAuthorised, AcceptedRunsAreStored, RunWritersHaveTheirRepo, Calls
  <2>4. QED
    BY <1>0, <2>2, <2>3 DEF IngestInv
<1>10. CASE Tick
  <2>1. \A t \in tokens : t.exp <= now + TokenTTL => t.exp <= now' + TokenTTL
    BY <1>0, <1>10 DEF Tick, TypeOK, Token
  <2>2. TokensAreRecent' /\ StoredRunsWereAuthorised'
    BY <1>10, <2>1 DEF Tick, IngestInv, TokensAreRecent, StoredRunsWereAuthorised, KeyOf
  <2>3. WritersAreAuthorised' /\ AcceptedRunsAreStored' /\ RunWritersHaveTheirRepo'
    BY <1>10 DEF Tick, IngestInv, WritersAreAuthorised, AcceptedRunsAreStored,
                 RunWritersHaveTheirRepo, KeyOf
  <2>4. QED
    BY <1>0, <2>2, <2>3 DEF IngestInv
<1>11. ASSUME NEW k \in RunKeys, MarkRunEnrichmentMatched(k)
       PROVE  IngestInv'
  <2>1. /\ UNCHANGED <<now, tokens, repos, handler>>
        /\ \A l \in RunKeys : /\ runs'[l] # NoRun <=> runs[l] # NoRun
                              /\ runs[l] # NoRun => runs'[l].body = runs[l].body
    BY <1>0, <1>11, MatchEffect
  <2>2. TokensAreRecent' /\ WritersAreAuthorised' /\ RunWritersHaveTheirRepo'
    BY <2>1 DEF IngestInv, TokensAreRecent, WritersAreAuthorised, RunWritersHaveTheirRepo
  <2>3. StoredRunsWereAuthorised'
    BY <2>1 DEF IngestInv, StoredRunsWereAuthorised, KeyOf
  <2>4. AcceptedRunsAreStored'
    <3> SUFFICES ASSUME NEW g \in Handlers, handler[g].call = "replied", handler[g].status = 202
                 PROVE  runs'[KeyOf(handler[g].tok)] # NoRun
      BY <2>1 DEF AcceptedRunsAreStored, KeyOf
    <3>1. handler[g].tok \in Token
      BY <1>0, BusyHandler
    <3>2. KeyOf(handler[g].tok) \in RunKeys
      BY <3>1 DEF KeyOf, RunKeys, Token
    <3>3. QED
      BY <2>1, <3>2 DEF IngestInv, AcceptedRunsAreStored
  <2>5. QED
    BY <1>0, <2>2, <2>3, <2>4 DEF IngestInv
<1>12. CASE UNCHANGED ingestVars
  BY <1>0, <1>12 DEF ingestVars, IngestInv, TokensAreRecent, WritersAreAuthorised,
       StoredRunsWereAuthorised, AcceptedRunsAreStored, RunWritersHaveTheirRepo, KeyOf
<1>13. QED
  BY <1>1, <1>2, <1>3, <1>4, <1>5, <1>6, <1>7, <1>8, <1>9, <1>10, <1>11, <1>12
  DEF IngestNext, HandlerStep

\* The inductive invariant holds at the start.
LEMMA IngestInitially == IngestInit => IngestInv
<1> SUFFICES ASSUME IngestInit PROVE IngestInv
  OBVIOUS
<1>1. TypeOK
  BY IngestAssumption DEF IngestInit, TypeOK, Hit, NoHit, HandlerState
<1>2. QED
  BY <1>1 DEF IngestInit, IngestInv, TokensAreRecent, WritersAreAuthorised,
       StoredRunsWereAuthorised, AcceptedRunsAreStored, RunWritersHaveTheirRepo,
       Idle, Calls

\* The inductive invariant holds throughout.
THEOREM IngestInvariant == IngestSpec => []IngestInv
BY IngestInitially, SafetyStep, PTL DEF IngestSpec

\* Whatever is stored was authorised for its repository, execution and body
\* before, for any number of repositories, executions and goroutines.
THEOREM StoredRunsAuthorised == IngestSpec => []StoredRunsWereAuthorised
<1>1. IngestInv => StoredRunsWereAuthorised
  BY DEF IngestInv
<1>2. QED
  BY <1>1, IngestInvariant, PTL

\* A 202 answer is only ever given for a stored run.
THEOREM AcceptedRunsStored == IngestSpec => []AcceptedRunsAreStored
<1>1. IngestInv => AcceptedRunsAreStored
  BY DEF IngestInv
<1>2. QED
  BY <1>1, IngestInvariant, PTL

\* The foreign key of table runs never refuses an upload.
THEOREM RunWritersHaveRepo == IngestSpec => []RunWritersHaveTheirRepo
<1>1. IngestInv => RunWritersHaveTheirRepo
  BY DEF IngestInv
<1>2. QED
  BY <1>1, IngestInvariant, PTL

-----------------------------------------------------------------------------
(* What a step may do to table runs, and the refinement of RunStore *)

\* UpsertRun is the only statement of the ingestion side that writes table
\* runs; enrichment is the only other writer.
LEMMA OnlyUpsertRunWrites ==
    ASSUME [IngestNext]_ingestVars
    PROVE  \/ UNCHANGED runs
           \/ \E h \in Handlers : HandleUpsertRun(h)
           \/ \E k \in RunKeys : MarkRunEnrichmentMatched(k)
<1>1. CASE UNCHANGED ingestVars
  BY <1>1 DEF ingestVars
<1>2. CASE IngestNext
  BY <1>2 DEF IngestNext, HandlerStep, HandleRunsToken, ReceiveRun, HandleUpsertRepo,
       HandleCountRuns, HandleDatabaseError, CancelRun, ResponseGone, Restart, Tick
<1>3. QED
  BY <1>1, <1>2

\* What UpsertRun does to the table: one row, the one of the token's
\* repository and execution, and the goroutine moves on.
LEMMA UpsertRunEffect ==
    ASSUME TypeOK, NEW h \in Handlers, HandleUpsertRun(h)
    PROVE  LET k == KeyOf(handler[h].tok)
           IN /\ handler[h].tok \in Token
              /\ k \in RunKeys
              /\ runs'[k] = UpsertedRun(runs[k], handler[h].body)
              /\ \A l \in RunKeys : l # k => runs'[l] = runs[l]
              /\ handler'[h] # handler[h]
<1>1. handler[h].tok \in Token
  BY BusyHandler DEF HandleUpsertRun
<1>2. KeyOf(handler[h].tok) \in RunKeys
  BY <1>1 DEF KeyOf, RunKeys, Token
<1>3. handler[h].call = "UpsertRun" /\ handler'[h].call \in {"idle", "replied"}
  BY ReplyEffect DEF HandleUpsertRun, Calls, Statuses
<1>4. QED
  BY <1>1, <1>2, <1>3 DEF HandleUpsertRun, TypeOK

\* No upload deletes a run or moves its created_at.
THEOREM RunsAreNeverRedated == IngestSpec => UploadsNeverRedateRuns
<1> DEFINE A == \A k \in RunKeys : runs[k] # NoRun =>
                   /\ runs'[k] # NoRun
                   /\ runs'[k].createdAt = runs[k].createdAt
<1>1. ASSUME TypeOK, [IngestNext]_ingestVars
      PROVE  [A]_runs
  <2>1. CASE UNCHANGED runs
    BY <2>1
  <2>2. ASSUME NEW h \in Handlers, HandleUpsertRun(h)
        PROVE  A
    <3>1. ASSUME NEW k \in RunKeys, runs[k] # NoRun
          PROVE  runs'[k] # NoRun /\ runs'[k].createdAt = runs[k].createdAt
      <4>1. CASE k = KeyOf(handler[h].tok)
        <5>1. runs'[k] = UpsertedRun(runs[k], handler[h].body)
          BY <1>1, <2>2, <4>1, UpsertRunEffect
        <5>2. runs'[k] = [body |-> handler[h].body, createdAt |-> runs[k].createdAt,
                          job |-> "none"]
          BY <3>1, <5>1 DEF UpsertedRun
        <5>3. QED
          BY <5>2 DEF NoRun
      <4>2. CASE k # KeyOf(handler[h].tok)
        BY <1>1, <2>2, <3>1, <4>2, UpsertRunEffect
      <4>3. QED
        BY <4>1, <4>2
    <3>2. QED
      BY <3>1
  <2>3. ASSUME NEW k \in RunKeys, MarkRunEnrichmentMatched(k)
        PROVE  A
    BY <1>1, <2>3, MatchEffect
  <2>4. QED
    BY <1>1, <2>1, <2>2, <2>3, OnlyUpsertRunWrites
<1>2. QED
  BY <1>1, TypeCorrect, PTL DEF IngestSpec, UploadsNeverRedateRuns

\* A row of table runs changes only through enrichment or a request whose token
\* names the row's repository, for any number of repositories sharing execution ids.
THEOREM RunsAreWrittenByTheirRepo == IngestSpec => OnlyTheRepoWritesItsRuns
<1> DEFINE A == \A k \in RunKeys : runs'[k] # runs[k] =>
                   \/ MarkRunEnrichmentMatched(k)
                   \/ \E h \in Handlers : /\ handler[h].call = "UpsertRun"
                                          /\ handler[h].tok.repo = k[1]
                                          /\ handler'[h] # handler[h]
<1>1. ASSUME TypeOK, [IngestNext]_ingestVars
      PROVE  [A]_runs
  <2>1. CASE UNCHANGED runs
    BY <2>1
  <2>2. ASSUME NEW h \in Handlers, HandleUpsertRun(h)
        PROVE  A
    <3>1. ASSUME NEW k \in RunKeys, runs'[k] # runs[k]
          PROVE  /\ handler[h].call = "UpsertRun"
                 /\ handler[h].tok.repo = k[1]
                 /\ handler'[h] # handler[h]
      <4>1. k = KeyOf(handler[h].tok) /\ handler'[h] # handler[h]
        BY <1>1, <2>2, <3>1, UpsertRunEffect
      <4>2. QED
        BY <2>2, <4>1 DEF HandleUpsertRun, KeyOf
    <3>2. QED
      BY <3>1
  <2>3. ASSUME NEW l \in RunKeys, MarkRunEnrichmentMatched(l)
        PROVE  A
    <3>1. ASSUME NEW k \in RunKeys, runs'[k] # runs[k]
          PROVE  k = l
      BY <1>1, <2>3, <3>1, MatchEffect
    <3>2. QED
      BY <2>3, <3>1
  <2>4. QED
    BY <1>1, <2>1, <2>2, <2>3, OnlyUpsertRunWrites
<1>2. QED
  BY <1>1, TypeCorrect, PTL DEF IngestSpec, OnlyTheRepoWritesItsRuns

-----------------------------------------------------------------------------
(* Refinement *)

\* A step that changes neither tokens nor runs is a stutter of RunStore.
LEMMA StutterStep ==
    ASSUME UNCHANGED <<tokens, runs>>
    PROVE  UNCHANGED <<AuthorisedUploads, StoredPayloads>>
BY DEF AuthorisedUploads, StoredPayloads, KeyOf

\* Every step is a step of RunStore or a stutter.
LEMMA RefinementStep ==
    ASSUME IngestInv, [IngestNext]_ingestVars
    PROVE  [Abstract!StoreNext]_<<AuthorisedUploads, StoredPayloads>>
<1> USE IngestAssumption
<1>1. ASSUME NEW r \in Repos, NEW e \in Executions, NEW p \in Payloads, NEW status,
             HandleRunsToken(r, e, p, status)
      PROVE  [Abstract!StoreNext]_<<AuthorisedUploads, StoredPayloads>>
  <2>1. runs' = runs
    BY <1>1 DEF HandleRunsToken
  <2>2. CASE tokens' = tokens
    BY <2>1, <2>2, StutterStep
  <2>3. CASE tokens' = tokens \union {NewToken(r, e, p)}
    <3> DEFINE k == <<r, e>>
    <3>1. KeyOf(NewToken(r, e, p)) = k /\ NewToken(r, e, p).sha = p
      BY DEF KeyOf, NewToken
    <3>2. AuthorisedUploads' = AuthorisedUploads \union {<<k, p>>}
      BY <2>3, <3>1 DEF AuthorisedUploads, KeyOf
    <3>3. StoredPayloads' = StoredPayloads
      BY <2>1 DEF StoredPayloads
    <3>4. k \in RunKeys
      BY DEF RunKeys
    <3>5. Abstract!Authorise(k, p)
      BY <3>2, <3>3 DEF Abstract!Authorise
    <3>6. QED
      BY <3>4, <3>5 DEF Abstract!StoreNext
  <2>4. QED
    BY <1>1, <2>2, <2>3 DEF HandleRunsToken
<1>2. ASSUME NEW h \in Handlers, HandleUpsertRun(h)
      PROVE  [Abstract!StoreNext]_<<AuthorisedUploads, StoredPayloads>>
  <2> DEFINE k == KeyOf(handler[h].tok)
             b == handler[h].body
  <2>1. /\ handler[h].tok \in tokens
        /\ b = handler[h].tok.sha
        /\ b \in Payloads
    BY <1>2 DEF HandleUpsertRun, IngestInv, WritersAreAuthorised, Calls
  <2>2. /\ k \in RunKeys
        /\ runs'[k] # NoRun /\ runs'[k].body = b
        /\ \A l \in RunKeys : l # k => runs'[l] = runs[l]
    <3>1. /\ k \in RunKeys
          /\ runs'[k] = UpsertedRun(runs[k], b)
          /\ \A l \in RunKeys : l # k => runs'[l] = runs[l]
      BY <1>2, UpsertRunEffect DEF IngestInv
    <3>2. UpsertedRun(runs[k], b) # NoRun /\ UpsertedRun(runs[k], b).body = b
      BY DEF UpsertedRun, NoRun
    <3>3. QED
      BY <3>1, <3>2
  <2>3. <<k, b>> \in AuthorisedUploads
    BY <2>1 DEF AuthorisedUploads
  <2>4. AuthorisedUploads' = AuthorisedUploads
    BY <1>2 DEF HandleUpsertRun, AuthorisedUploads, KeyOf
  <2>5. StoredPayloads' = {kb \in StoredPayloads : kb[1] # k} \union {<<k, b>>}
    <3>1. StoredPayloads' = {<<l, runs'[l].body>> : l \in {ll \in RunKeys : runs'[ll] # NoRun}}
      BY DEF StoredPayloads
    <3>2. ASSUME NEW x \in StoredPayloads'
          PROVE  x \in {kb \in StoredPayloads : kb[1] # k} \union {<<k, b>>}
      <4>1. PICK l \in RunKeys : runs'[l] # NoRun /\ x = <<l, runs'[l].body>>
        BY <3>1, <3>2
      <4>2. CASE l = k
        BY <2>2, <4>1, <4>2
      <4>3. CASE l # k
        BY <2>2, <4>1, <4>3 DEF StoredPayloads
      <4>4. QED
        BY <4>2, <4>3
    <3>3. ASSUME NEW x \in StoredPayloads, x[1] # k
          PROVE  x \in StoredPayloads'
      <4>1. PICK l \in RunKeys : runs[l] # NoRun /\ x = <<l, runs[l].body>>
        BY DEF StoredPayloads
      <4>2. l # k
        BY <3>3, <4>1
      <4>3. QED
        BY <2>2, <3>1, <4>1, <4>2
    <3>4. <<k, b>> \in StoredPayloads'
      BY <2>2, <3>1
    <3>5. QED
      BY <3>2, <3>3, <3>4
  <2>6. Abstract!Store(k, b)
    BY <2>3, <2>4, <2>5 DEF Abstract!Store
  <2>7. QED
    BY <2>1, <2>2, <2>6 DEF Abstract!StoreNext
<1>3. CASE UNCHANGED <<tokens, runs>>
  BY <1>3, StutterStep
<1>4. ASSUME NEW k \in RunKeys, MarkRunEnrichmentMatched(k)
      PROVE  [Abstract!StoreNext]_<<AuthorisedUploads, StoredPayloads>>
  <2>1. /\ tokens' = tokens
        /\ \A l \in RunKeys : /\ runs'[l] # NoRun <=> runs[l] # NoRun
                              /\ runs[l] # NoRun => runs'[l].body = runs[l].body
    BY <1>4, MatchEffect DEF IngestInv
  <2>2. AuthorisedUploads' = AuthorisedUploads
    BY <2>1 DEF AuthorisedUploads, KeyOf
  <2>3. StoredPayloads' = StoredPayloads
    BY <2>1 DEF StoredPayloads
  <2>4. QED
    BY <2>2, <2>3
<1>5. QED
  <2>1. CASE UNCHANGED ingestVars
    BY <1>3, <2>1 DEF ingestVars
  <2>2. CASE IngestNext
    BY <1>1, <1>2, <1>3, <1>4, <2>2
    DEF IngestNext, HandlerStep, ReceiveRun, HandleUpsertRepo, HandleCountRuns,
        HandleDatabaseError, CancelRun, ResponseGone, Restart, Tick
  <2>3. QED
    BY <2>1, <2>2

\* RunIngest implements RunStore for every value of its constants: no order of
\* requests, cancellations, errors and restarts stores what was not authorised.
THEOREM IngestImplementsRunStore == IngestSpec => ImplementsRunStore
<1>1. IngestInit => Abstract!StoreInit
  BY DEF IngestInit, Abstract!StoreInit, AuthorisedUploads, StoredPayloads
<1>2. IngestInv /\ [IngestNext]_ingestVars
        => [Abstract!StoreNext]_<<AuthorisedUploads, StoredPayloads>>
  BY RefinementStep
<1>3. QED
  BY <1>1, <1>2, IngestInvariant, PTL DEF IngestSpec, ImplementsRunStore, Abstract!StoreSpec

-----------------------------------------------------------------------------
(* The quota *)

\* Both sets that QuotaInv counts are finite.
LEMMA QuotaSetsFinite ==
    ASSUME NEW o
    PROVE  /\ IsFiniteSet(RunsOfOwner(o)) /\ IsFiniteSet(PastQuotaCheck(o))
           /\ IsFiniteSet(RunsOfOwner(o)') /\ IsFiniteSet(PastQuotaCheck(o)')
<1>1. IsFiniteSet(RunKeys)
  BY IngestAssumption, FS_Product DEF RunKeys
<1>2. RunsOfOwner(o) \subseteq RunKeys /\ RunsOfOwner(o)' \subseteq RunKeys
  BY DEF RunsOfOwner
<1>3. PastQuotaCheck(o) \subseteq Handlers /\ PastQuotaCheck(o)' \subseteq Handlers
  BY DEF PastQuotaCheck
<1>4. QED
  BY <1>1, <1>2, <1>3, IngestAssumption, FS_Subset

\* The part of QuotaInv that is about one owner.
Within(o) == Cardinality(RunsOfOwner(o)) + Cardinality(PastQuotaCheck(o))
                <= Quota + Cardinality(Handlers) - 1

\* A step that adds no run and lets nobody past the check keeps the bound.
LEMMA QuotaMonotone ==
    ASSUME NEW o, Within(o),
           RunsOfOwner(o)' \subseteq RunsOfOwner(o),
           PastQuotaCheck(o)' \subseteq PastQuotaCheck(o)
    PROVE  Within(o)'
<1>1. /\ Cardinality(RunsOfOwner(o)') <= Cardinality(RunsOfOwner(o))
      /\ Cardinality(PastQuotaCheck(o)') <= Cardinality(PastQuotaCheck(o))
  BY QuotaSetsFinite, FS_Subset
<1>2. /\ Cardinality(RunsOfOwner(o)) \in Nat /\ Cardinality(RunsOfOwner(o)') \in Nat
      /\ Cardinality(PastQuotaCheck(o)) \in Nat /\ Cardinality(PastQuotaCheck(o)') \in Nat
      /\ Cardinality(Handlers) \in Nat
  BY QuotaSetsFinite, FS_CardinalityType, IngestAssumption
<1>3. Cardinality(RunsOfOwner(o)') + Cardinality(PastQuotaCheck(o)')
        <= Quota + Cardinality(Handlers) - 1
  BY <1>1, <1>2, IngestAssumption DEF Within
<1>4. QED
  BY <1>3 DEF Within

\* Runs only leave the set of an owner's recent runs while no row is written.
LEMMA RecentRunsAge ==
    ASSUME TypeOK, TypeOK', NEW o, UNCHANGED runs, now <= now'
    PROVE  RunsOfOwner(o)' \subseteq RunsOfOwner(o)
<1> SUFFICES ASSUME NEW k \in RunKeys, runs[k] # NoRun, runs[k].createdAt + Day >= now'
             PROVE  runs[k].createdAt + Day >= now
  BY DEF RunsOfOwner
<1>1. runs[k].createdAt \in Nat /\ now \in Nat /\ now' \in Nat
  BY IngestAssumption DEF TypeOK, Run
<1>2. QED
  BY <1>1, IngestAssumption

\* Every step keeps the bound, one action at a time.
LEMMA QuotaStep == TypeOK /\ QuotaInv /\ [IngestNext]_ingestVars => QuotaInv'
<1> SUFFICES ASSUME TypeOK, QuotaInv, [IngestNext]_ingestVars, Quota > 0,
                    NEW o \in Owners
             PROVE  Within(o)'
  BY DEF QuotaInv, Within
<1> USE IngestAssumption
<1>a. TypeOK' /\ Within(o)
  BY TypeStep DEF QuotaInv, Within
<1>b. now <= now
  BY DEF TypeOK
<1>1. ASSUME NEW r \in Repos, NEW e \in Executions, NEW p \in Payloads, NEW status,
             HandleRunsToken(r, e, p, status)
      PROVE  Within(o)'
  <2>1. now' = now /\ runs' = runs /\ handler' = handler
    BY <1>1 DEF HandleRunsToken
  <2>2. PastQuotaCheck(o)' \subseteq PastQuotaCheck(o)
    BY <2>1 DEF PastQuotaCheck, OwnerOfToken
  <2>3. QED
    BY <1>a, <1>b, <2>1, <2>2, RecentRunsAge, QuotaMonotone
<1>2. ASSUME NEW h \in Handlers, UNCHANGED <<now, runs>>,
             handler'[h].call # "UpsertRun",
             \A g \in Handlers : g # h => handler'[g] = handler[g]
      PROVE  Within(o)'
  <2>1. PastQuotaCheck(o)' \subseteq PastQuotaCheck(o)
    BY <1>2 DEF PastQuotaCheck, OwnerOfToken
  <2>2. QED
    BY <1>2, <1>a, <1>b, <2>1, RecentRunsAge, QuotaMonotone
<1>3. ASSUME NEW h \in Handlers, NEW tok \in Token, NEW body \in Payloads,
             NEW dated \in BOOLEAN, ReceiveRun(h, tok, body, dated)
      PROVE  Within(o)'
  <2>1. PICK call \in {"replied", "UpsertRepo"}, status \in {0, 400, 401, 429} :
           handler' = [handler EXCEPT ![h] =
              [call |-> call, tok |-> tok, body |-> body, live |-> TRUE, status |-> status]]
    BY <1>3 DEF ReceiveRun
  <2>2. handler'[h].call # "UpsertRun" /\ \A g \in Handlers : g # h => handler'[g] = handler[g]
    BY <2>1 DEF TypeOK
  <2>3. QED
    BY <1>2, <1>3, <2>2 DEF ReceiveRun
<1>4. ASSUME NEW h \in Handlers, HandleUpsertRepo(h)
      PROVE  Within(o)'
  <2>1. handler'[h].call # "UpsertRun" /\ \A g \in Handlers : g # h => handler'[g] = handler[g]
    BY <1>4, ProceedEffect DEF HandleUpsertRepo, Calls
  <2>2. QED
    BY <1>2, <1>4, <2>1 DEF HandleUpsertRepo
<1>5. ASSUME NEW h \in Handlers, HandleCountRuns(h)
      PROVE  Within(o)'
  <2> DEFINE own == OwnerOfToken(handler[h].tok)
  <2>1. now' = now /\ runs' = runs
    BY <1>5 DEF HandleCountRuns
  <2>2. CASE Reply(h, 429)
    <3>1. handler'[h].call # "UpsertRun" /\ \A g \in Handlers : g # h => handler'[g] = handler[g]
      BY <1>5, <2>2, ReplyEffect DEF HandleCountRuns, Calls, Statuses
    <3>2. QED
      BY <1>2, <2>1, <3>1
  <2>3. CASE Proceed(h, "UpsertRun") /\ ~QuotaReached(own)
    <3>1. /\ \A g \in Handlers : g # h => handler'[g] = handler[g]
          /\ handler'[h].call = "UpsertRun" => handler'[h].tok = handler[h].tok
      BY <1>5, <2>3, ProceedEffect DEF HandleCountRuns, Calls
    <3>2. CASE o # own
      <4>1. PastQuotaCheck(o)' \subseteq PastQuotaCheck(o)
        BY <3>1, <3>2 DEF PastQuotaCheck, OwnerOfToken
      <4>2. QED
        BY <1>a, <1>b, <2>1, <4>1, RecentRunsAge, QuotaMonotone
    <3>3. CASE o = own
      <4>1. RunsOfOwner(o)' = RunsOfOwner(o)
        BY <2>1 DEF RunsOfOwner
      <4>2. /\ Cardinality(RunsOfOwner(o)) \in Nat /\ Cardinality(Handlers) \in Nat
            /\ Cardinality(PastQuotaCheck(o)') \in Nat
        BY QuotaSetsFinite, FS_CardinalityType
      <4>3. Cardinality(PastQuotaCheck(o)') <= Cardinality(Handlers)
        <5>1. PastQuotaCheck(o)' \subseteq Handlers
          BY DEF PastQuotaCheck
        <5>2. QED
          BY <5>1, FS_Subset
      <4>4. Cardinality(RunsOfOwner(o)) < Quota
        BY <2>3, <3>3, <4>2 DEF QuotaReached
      <4>5. Cardinality(RunsOfOwner(o)') + Cardinality(PastQuotaCheck(o)')
              <= Quota + Cardinality(Handlers) - 1
        BY <4>1, <4>2, <4>3, <4>4
      <4>6. QED
        BY <4>5 DEF Within
    <3>4. QED
      BY <3>2, <3>3
  <2>4. QED
    BY <1>5, <2>2, <2>3 DEF HandleCountRuns
<1>6. ASSUME NEW h \in Handlers, HandleUpsertRun(h)
      PROVE  Within(o)'
  <2> DEFINE tok == handler[h].tok
             k == KeyOf(tok)
  <2>1. handler'[h].call # "UpsertRun" /\ \A g \in Handlers : g # h => handler'[g] = handler[g]
    BY <1>6, ReplyEffect DEF HandleUpsertRun, Calls, Statuses
  <2>2. tok \in Token
    BY <1>6, BusyHandler DEF HandleUpsertRun
  <2>3. k \in RunKeys /\ OwnerOf[k[1]] = OwnerOfToken(tok)
    BY <2>2 DEF KeyOf, RunKeys, Token, OwnerOfToken
  <2>4. now' = now /\ \A l \in RunKeys : l # k => runs'[l] = runs[l]
    BY <1>6, <2>3 DEF HandleUpsertRun, TypeOK
  <2>5. PastQuotaCheck(o)' = PastQuotaCheck(o) \ {h}
    BY <2>1 DEF PastQuotaCheck, OwnerOfToken
  <2>6. CASE o # OwnerOfToken(tok)
    <3>1. RunsOfOwner(o)' \subseteq RunsOfOwner(o)
      BY <2>3, <2>4, <2>6 DEF RunsOfOwner
    <3>2. QED
      BY <1>a, <2>5, <3>1, QuotaMonotone
  <2>7. CASE o = OwnerOfToken(tok)
    <3>1. h \in PastQuotaCheck(o)
      BY <1>6, <2>7 DEF HandleUpsertRun, PastQuotaCheck
    <3>2. Cardinality(PastQuotaCheck(o)') = Cardinality(PastQuotaCheck(o)) - 1
      BY <2>5, <3>1, QuotaSetsFinite, FS_RemoveElement
    <3>3. RunsOfOwner(o)' \subseteq RunsOfOwner(o) \union {k}
      BY <2>4 DEF RunsOfOwner
    <3>4. /\ IsFiniteSet(RunsOfOwner(o) \union {k})
          /\ Cardinality(RunsOfOwner(o) \union {k}) <= Cardinality(RunsOfOwner(o)) + 1
      <4>1. Cardinality(RunsOfOwner(o)) \in Nat
        BY QuotaSetsFinite, FS_CardinalityType
      <4>2. IsFiniteSet(RunsOfOwner(o))
        BY QuotaSetsFinite
      <4>3. /\ IsFiniteSet(RunsOfOwner(o) \union {k})
            /\ Cardinality(RunsOfOwner(o) \union {k}) =
                 IF k \in RunsOfOwner(o) THEN Cardinality(RunsOfOwner(o))
                                         ELSE Cardinality(RunsOfOwner(o)) + 1
        BY <4>2, FS_AddElement, Zenon
      <4>4. QED
        BY <4>1, <4>3
    <3>5. Cardinality(RunsOfOwner(o)') <= Cardinality(RunsOfOwner(o) \union {k})
      BY <3>3, <3>4, FS_Subset
    <3>6. /\ Cardinality(RunsOfOwner(o)) \in Nat /\ Cardinality(RunsOfOwner(o)') \in Nat
          /\ Cardinality(PastQuotaCheck(o)) \in Nat /\ Cardinality(PastQuotaCheck(o)') \in Nat
          /\ Cardinality(RunsOfOwner(o) \union {k}) \in Nat /\ Cardinality(Handlers) \in Nat
      BY <3>4, QuotaSetsFinite, FS_CardinalityType
    <3>7. Cardinality(RunsOfOwner(o)') + Cardinality(PastQuotaCheck(o)')
            <= Quota + Cardinality(Handlers) - 1
      BY <1>a, <3>2, <3>4, <3>5, <3>6 DEF Within
    <3>8. QED
      BY <3>7 DEF Within
  <2>8. QED
    BY <2>6, <2>7
<1>7. ASSUME NEW h \in Handlers, HandleDatabaseError(h)
      PROVE  Within(o)'
  <2>1. handler'[h].call # "UpsertRun" /\ \A g \in Handlers : g # h => handler'[g] = handler[g]
    BY <1>7, ReplyEffect DEF HandleDatabaseError, Statuses
  <2>2. QED
    BY <1>2, <1>7, <2>1 DEF HandleDatabaseError
<1>8. ASSUME NEW h \in Handlers, CancelRun(h)
      PROVE  Within(o)'
  <2>1. handler[h] \in [call : Calls \union {"replied"}, tok : Token, body : Payloads,
                        live : BOOLEAN, status : Statuses \union {0}]
    BY <1>8, BusyHandler DEF CancelRun, Calls
  <2>2. /\ \A g \in Handlers : g # h => handler'[g] = handler[g]
        /\ handler'[h] = [handler[h] EXCEPT !.live = FALSE]
    BY <1>8 DEF CancelRun, TypeOK
  <2>3. handler'[h].call = handler[h].call /\ handler'[h].tok = handler[h].tok
    BY <2>1, <2>2
  <2>4. PastQuotaCheck(o)' \subseteq PastQuotaCheck(o)
    BY <2>2, <2>3 DEF PastQuotaCheck, OwnerOfToken
  <2>5. now' = now /\ runs' = runs
    BY <1>8 DEF CancelRun
  <2>6. QED
    BY <1>a, <1>b, <2>4, <2>5, RecentRunsAge, QuotaMonotone
<1>9. ASSUME NEW h \in Handlers, ResponseGone(h)
      PROVE  Within(o)'
  <2>1. handler'[h].call # "UpsertRun" /\ \A g \in Handlers : g # h => handler'[g] = handler[g]
    BY <1>9 DEF ResponseGone, TypeOK, Idle
  <2>2. QED
    BY <1>2, <1>9, <2>1 DEF ResponseGone
<1>10. CASE Restart
  <2>1. now' = now /\ runs' = runs /\ \A g \in Handlers : handler'[g].call = "idle"
    BY <1>10 DEF Restart, Idle
  <2>2. PastQuotaCheck(o)' \subseteq PastQuotaCheck(o)
    BY <2>1 DEF PastQuotaCheck
  <2>3. QED
    BY <1>a, <1>b, <2>1, <2>2, RecentRunsAge, QuotaMonotone
<1>11. CASE Tick
  <2>1. now <= now' /\ runs' = runs /\ handler' = handler
    BY <1>11 DEF Tick, TypeOK
  <2>2. PastQuotaCheck(o)' \subseteq PastQuotaCheck(o)
    BY <2>1 DEF PastQuotaCheck, OwnerOfToken
  <2>3. QED
    BY <1>a, <2>1, <2>2, RecentRunsAge, QuotaMonotone
<1>12. ASSUME NEW k \in RunKeys, MarkRunEnrichmentMatched(k)
       PROVE  Within(o)'
  <2>1. now' = now /\ handler' = handler
    BY <1>12, MatchEffect
  <2>2. PastQuotaCheck(o)' \subseteq PastQuotaCheck(o)
    BY <2>1 DEF PastQuotaCheck, OwnerOfToken
  <2>3. RunsOfOwner(o)' \subseteq RunsOfOwner(o)
    BY <1>12, <2>1, MatchEffect DEF RunsOfOwner
  <2>4. QED
    BY <1>a, <2>2, <2>3, QuotaMonotone
<1>13. CASE UNCHANGED ingestVars
  <2>1. now' = now /\ runs' = runs /\ handler' = handler
    BY <1>13 DEF ingestVars
  <2>2. PastQuotaCheck(o)' \subseteq PastQuotaCheck(o)
    BY <2>1 DEF PastQuotaCheck, OwnerOfToken
  <2>3. QED
    BY <1>a, <1>b, <2>1, <2>2, RecentRunsAge, QuotaMonotone
<1>14. QED
  BY <1>1, <1>3, <1>4, <1>5, <1>6, <1>7, <1>8, <1>9, <1>10, <1>11, <1>12, <1>13
  DEF IngestNext, HandlerStep

\* The inductive form of the bound holds throughout.
THEOREM QuotaInvariant == IngestSpec => []QuotaInv
<1>1. IngestInit => QuotaInv
  <2> SUFFICES ASSUME IngestInit, Quota > 0, NEW o \in Owners
               PROVE  Cardinality(RunsOfOwner(o)) + Cardinality(PastQuotaCheck(o))
                        <= Quota + Cardinality(Handlers) - 1
    BY DEF QuotaInv
  <2>1. RunsOfOwner(o) = {} /\ PastQuotaCheck(o) = {}
    BY DEF IngestInit, RunsOfOwner, PastQuotaCheck, Idle
  <2>2. Cardinality(Handlers) \in Nat
    BY IngestAssumption, FS_CardinalityType
  <2>3. QED
    BY <2>1, <2>2, IngestAssumption, FS_EmptySet
<1>2. QED
  BY <1>1, TypeCorrect, QuotaStep, PTL DEF IngestSpec

\* An owner's runs of the last day exceed ownerRunQuotaPerDay by less than the
\* number of goroutines serving POST /runs.
THEOREM QuotaOvershootBounded == IngestSpec => []QuotaOvershootIsBounded
<1>1. QuotaInv => QuotaOvershootIsBounded
  <2> SUFFICES ASSUME QuotaInv, Quota > 0, NEW o \in Owners
               PROVE  Cardinality(RunsOfOwner(o)) <= Quota + Cardinality(Handlers) - 1
    BY DEF QuotaOvershootIsBounded
  <2>1. /\ Cardinality(RunsOfOwner(o)) \in Nat /\ Cardinality(PastQuotaCheck(o)) \in Nat
        /\ Cardinality(Handlers) \in Nat
    BY QuotaSetsFinite, FS_CardinalityType, IngestAssumption
  <2>2. QED
    BY <2>1, IngestAssumption DEF QuotaInv
<1>2. QED
  BY <1>1, QuotaInvariant, PTL
=============================================================================
