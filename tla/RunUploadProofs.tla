--------------------------- MODULE RunUploadProofs ---------------------------
(***************************************************************************)
(* Theorems about RunUpload: the post steps and the unreliable network       *)
(* composed with the server, for every number of post steps, goroutines,     *)
(* attempts and faults.                                                     *)
(***************************************************************************)
EXTENDS RunUpload, RunIngestProofs

-----------------------------------------------------------------------------
(* The inductive invariant *)

Phases == {"oidc", "token", "runs", "done", "failed"}

UploadTypeOK ==
    /\ post \in [Posts -> [phase : Phases, attempt : 1 .. MaxAttempts]]
    /\ conn \in [Posts -> Handlers \union {NoConn}]
    /\ held \in [Posts -> SUBSET Token]
    /\ faults \in Nat

\* The token was issued for the summary post step c uploads.
OwnToken(c, tok) == KeyOf(tok) = UploadKey(c) /\ tok.sha = Upload[c].sha

\* Nobody but the post steps asks for upload tokens, each for its own summary.
TokensNamePosts == \A tok \in tokens : \E c \in Posts : OwnToken(c, tok)
HeldTokensAreOwn == \A c \in Posts : \A tok \in held[c] : tok \in tokens /\ OwnToken(c, tok)

\* The goroutine a post step waits for serves its request and nobody else's.
Serves(h, c) == /\ handler[h].call # "idle"
                /\ handler[h].live
                /\ OwnToken(c, handler[h].tok)
ConnectionsAreServed ==
    \A c \in Posts : conn[c] # NoConn => post[c].phase = "runs" /\ Serves(conn[c], c)

DonePostsHaveTheirRow == \A c \in Posts : post[c].phase = "done" => runs[UploadKey(c)] # NoRun

\* A 500 on its way to the post step: its fault is counted, its retry is not.
RefusalUnderWay(c) == /\ conn[c] # NoConn
                      /\ handler[conn[c]].call = "replied"
                      /\ handler[conn[c]].status = 500
AttemptsAreFaults ==
    \A c \in Posts : /\ post[c].attempt <= faults + 1
                     /\ RefusalUnderWay(c) => post[c].attempt <= faults

UploadInv ==
    /\ IngestInv
    /\ UploadTypeOK
    /\ TokensNamePosts
    /\ HeldTokensAreOwn
    /\ ConnectionsAreServed
    /\ DonePostsHaveTheirRow
    /\ AttemptsAreFaults

-----------------------------------------------------------------------------
(* Facts about the pieces the actions are made of *)

\* What a post step uploads has its type.
LEMMA UploadIsTyped ==
    ASSUME NEW c \in Posts
    PROVE  /\ Upload[c].repo \in Repos
           /\ Upload[c].exec \in Executions
           /\ Upload[c].sha \in Payloads
           /\ UploadKey(c) \in RunKeys
BY UploadAssumption DEF UploadKey, RunKeys

\* Two post steps never share a key.
LEMMA OneKeyEach ==
    ASSUME NEW c \in Posts, NEW d \in Posts, UploadKey(c) = UploadKey(d)
    PROVE  c = d
BY UploadAssumption DEF UploadKey

\* So two post steps never wait for the same goroutine.
LEMMA OneServerEach ==
    ASSUME ConnectionsAreServed, NEW c \in Posts, NEW d \in Posts,
           conn[c] # NoConn, conn[d] = conn[c]
    PROVE  c = d
<1>1. KeyOf(handler[conn[c]].tok) = UploadKey(c) /\ KeyOf(handler[conn[d]].tok) = UploadKey(d)
  BY DEF ConnectionsAreServed, Serves, OwnToken
<1>2. QED
  BY <1>1, OneKeyEach

\* fetchWithRetry counts the attempt, or gives up after the last one.
LEMMA RetryEffect ==
    ASSUME NEW p \in [phase : Phases, attempt : 1 .. MaxAttempts]
    PROVE  /\ AfterRetryable(p) \in [phase : Phases, attempt : 1 .. MaxAttempts]
           /\ \/ /\ AfterRetryable(p).phase = p.phase
                 /\ AfterRetryable(p).attempt = p.attempt + 1
              \/ /\ AfterRetryable(p).phase = "failed"
                 /\ AfterRetryable(p).attempt = p.attempt
                 /\ p.attempt = MaxAttempts
<1> USE UploadAssumption DEF Phases
<1>1. CASE p.attempt < MaxAttempts
  BY <1>1 DEF AfterRetryable
<1>2. CASE ~(p.attempt < MaxAttempts)
  <2>1. p.attempt = MaxAttempts
    BY <1>2
  <2>2. QED
    BY <1>2, <2>1 DEF AfterRetryable
<1>3. QED
  BY <1>1, <1>2

\* GoTo and Retry as one assignment.
LEMMA PostGoes ==
    ASSUME NEW c \in Posts, NEW phase \in Phases, GoTo(c, phase)
    PROVE  \E p \in [phase : Phases, attempt : 1 .. MaxAttempts] :
              p.phase = phase /\ p.attempt = 1 /\ post' = [post EXCEPT ![c] = p]
<1> DEFINE p == [phase |-> phase, attempt |-> 1]
<1>1. p \in [phase : Phases, attempt : 1 .. MaxAttempts] /\ p.phase = phase /\ p.attempt = 1
  BY UploadAssumption
<1>2. post' = [post EXCEPT ![c] = p]
  BY DEF GoTo
<1> HIDE DEF p
<1>3. QED
  BY <1>1, <1>2

\* Retry keeps the attempt it is at, or counts one more, or gives up.
LEMMA PostRetries ==
    ASSUME UploadTypeOK, NEW c \in Posts, Retry(c)
    PROVE  \E p \in [phase : Phases, attempt : 1 .. MaxAttempts] :
              /\ p.phase \in {post[c].phase, "failed"}
              /\ p.attempt \in {post[c].attempt, post[c].attempt + 1}
              /\ post' = [post EXCEPT ![c] = p]
<1>1. post[c] \in [phase : Phases, attempt : 1 .. MaxAttempts]
  BY DEF UploadTypeOK
<1>2. QED
  BY <1>1, RetryEffect DEF Retry

\* The token POST /runs/token signs for post step c is its own.
LEMMA NewTokenIsOwn ==
    ASSUME TypeOK, NEW c \in Posts
    PROVE  /\ NewToken(Upload[c].repo, Upload[c].exec, Upload[c].sha) \in Token
           /\ OwnToken(c, NewToken(Upload[c].repo, Upload[c].exec, Upload[c].sha))
<1>1. NewToken(Upload[c].repo, Upload[c].exec, Upload[c].sha) \in Token
  BY IngestAssumption, UploadIsTyped DEF NewToken, Token, TypeOK
<1>2. OwnToken(c, NewToken(Upload[c].repo, Upload[c].exec, Upload[c].sha))
  BY DEF NewToken, OwnToken, KeyOf, UploadKey
<1>3. QED
  BY <1>1, <1>2

-----------------------------------------------------------------------------
(* The composition takes only steps of the server, or steps outside it *)

\* Every step of the composition is a step RunIngest allows or leaves the
\* server alone: the clients of RunIngest may do all a post step does.
LEMMA ServerStep == UploadInv /\ [UploadNext]_uploadVars => [IngestNext]_ingestVars
<1> SUFFICES ASSUME UploadInv, [UploadNext]_uploadVars
             PROVE  [IngestNext]_ingestVars
  OBVIOUS
<1>1. ASSUME NEW c \in Posts, NEW status \in {200, 400, 401, 429, 500, 503},
             HandleRunsToken(Upload[c].repo, Upload[c].exec, Upload[c].sha, status)
      PROVE  IngestNext
  BY <1>1, UploadIsTyped DEF IngestNext
<1>2. ASSUME NEW c \in Posts, RequestUploadToken(c) \/ LoseTokenExchange(c)
      PROVE  [IngestNext]_ingestVars
  BY <1>1, <1>2 DEF RequestUploadToken, LoseTokenExchange
<1>3. ASSUME NEW c \in Posts, SendRun(c)
      PROVE  IngestNext
  <2>1. PICK h \in Handlers, tok \in held[c] : ReceiveRun(h, tok, Upload[c].sha, TRUE)
    BY <1>3 DEF SendRun
  <2>2. tok \in Token
    BY DEF UploadInv, UploadTypeOK
  <2>3. QED
    BY <2>1, <2>2, UploadIsTyped DEF IngestNext
<1>4. ASSUME NEW c \in Posts, ReceiveReply(c) \/ LoseReply(c) \/ AbandonRun(c)
      PROVE  IngestNext
  <2>1. conn[c] \in Handlers
    BY <1>4 DEF UploadInv, UploadTypeOK, ReceiveReply, LoseReply, AbandonRun
  <2>2. ResponseGone(conn[c]) \/ CancelRun(conn[c])
    BY <1>4 DEF ReceiveReply, LoseReply, AbandonRun
  <2>3. QED
    BY <2>1, <2>2 DEF IngestNext
<1>5. ASSUME NEW c \in Posts, RequestOidcToken(c) \/ LoseRun(c)
      PROVE  UNCHANGED ingestVars
  BY <1>5 DEF RequestOidcToken, LoseRun
<1>6. ASSUME NEW h \in Handlers, ServeRun(h)
      PROVE  IngestNext
  BY <1>6 DEF ServeRun, IngestNext, HandlerStep
<1>7. RestartServer => IngestNext
  BY DEF RestartServer, IngestNext
<1>8. Tick \/ (\E k \in RunKeys : MarkRunEnrichmentMatched(k)) => IngestNext
  BY DEF IngestNext
<1>9. UNCHANGED uploadVars => UNCHANGED ingestVars
  BY DEF uploadVars
<1>10. QED
  BY <1>2, <1>3, <1>4, <1>5, <1>6, <1>7, <1>8, <1>9 DEF UploadNext, PostStep

-----------------------------------------------------------------------------
(* The invariant is inductive *)

\* A step that moves one post step, leaves the server alone and ends no
\* connection, as all steps before POST /runs do.
LEMMA PostMoves ==
    ASSUME UploadInv, IngestInv', NEW c \in Posts, conn[c] = NoConn,
           NEW p \in [phase : Phases, attempt : 1 .. MaxAttempts], p.phase # "done",
           post' = [post EXCEPT ![c] = p],
           faults' \in Nat, faults' >= faults, p.attempt <= faults' + 1,
           UNCHANGED <<conn, handler, runs>>,
           held' \in [Posts -> SUBSET Token], TokensNamePosts', HeldTokensAreOwn'
    PROVE  UploadInv'
<1> USE DEF UploadInv
<1>1. /\ post'[c] = p
      /\ \A d \in Posts : d # c => post'[d] = post[d]
  BY DEF UploadTypeOK
<1>2. UploadTypeOK'
  BY DEF UploadTypeOK
<1>3. ConnectionsAreServed'
  BY <1>1 DEF ConnectionsAreServed, Serves, OwnToken, KeyOf
<1>4. DonePostsHaveTheirRow'
  BY <1>1 DEF DonePostsHaveTheirRow, UploadKey
<1>5. AttemptsAreFaults'
  <2> SUFFICES ASSUME NEW d \in Posts
               PROVE  /\ post'[d].attempt <= faults' + 1
                      /\ RefusalUnderWay(d)' => post'[d].attempt <= faults'
    BY DEF AttemptsAreFaults
  <2>1. CASE d = c
    BY <1>1, <2>1 DEF RefusalUnderWay
  <2>2. CASE d # c
    <3>1. post[d].attempt \in Nat /\ faults \in Nat
      BY DEF UploadTypeOK
    <3>2. /\ post[d].attempt <= faults + 1
          /\ RefusalUnderWay(d) => post[d].attempt <= faults
      BY DEF AttemptsAreFaults
    <3>3. post'[d] = post[d] /\ (RefusalUnderWay(d)' <=> RefusalUnderWay(d))
      BY <1>1, <2>2 DEF RefusalUnderWay
    <3>4. QED
      BY <3>1, <3>2, <3>3
  <2>3. QED
    BY <2>1, <2>2
<1>6. QED
  BY <1>2, <1>3, <1>4, <1>5

\* A step that ends the connection of post step c, its goroutine being done
\* with it or cancelled, and moves c on.
LEMMA ConnectionEnds ==
    ASSUME UploadInv, IngestInv', NEW c \in Posts, conn[c] # NoConn,
           NEW p \in [phase : Phases, attempt : 1 .. MaxAttempts],
           post' = [post EXCEPT ![c] = p],
           conn' = [conn EXCEPT ![c] = NoConn],
           p.phase = "done" => runs[UploadKey(c)] # NoRun,
           faults' \in Nat, faults' >= faults, p.attempt <= faults' + 1,
           \A g \in Handlers : g # conn[c] => handler'[g] = handler[g],
           UNCHANGED <<held, runs, tokens>>
    PROVE  UploadInv'
<1> USE DEF UploadInv
<1>1. /\ post'[c] = p /\ conn'[c] = NoConn
      /\ \A d \in Posts : d # c => post'[d] = post[d] /\ conn'[d] = conn[d]
  BY DEF UploadTypeOK
<1>2. ASSUME NEW d \in Posts, d # c, conn[d] # NoConn
      PROVE  handler'[conn'[d]] = handler[conn[d]]
  <2>1. conn[d] \in Handlers /\ conn[d] # conn[c]
    BY <1>2, OneServerEach DEF UploadTypeOK
  <2>2. QED
    BY <1>1, <1>2, <2>1
<1>3. UploadTypeOK'
  BY DEF UploadTypeOK
<1>4. TokensNamePosts' /\ HeldTokensAreOwn'
  BY DEF TokensNamePosts, HeldTokensAreOwn, OwnToken, KeyOf, UploadKey
<1>5. ConnectionsAreServed'
  BY <1>1, <1>2 DEF ConnectionsAreServed, Serves, OwnToken, KeyOf
<1>6. DonePostsHaveTheirRow'
  BY <1>1 DEF DonePostsHaveTheirRow, UploadKey
<1>7. AttemptsAreFaults'
  <2> SUFFICES ASSUME NEW d \in Posts
               PROVE  /\ post'[d].attempt <= faults' + 1
                      /\ RefusalUnderWay(d)' => post'[d].attempt <= faults'
    BY DEF AttemptsAreFaults
  <2>1. CASE d = c
    BY <1>1, <2>1 DEF RefusalUnderWay
  <2>2. CASE d # c
    <3>1. post[d].attempt \in Nat /\ faults \in Nat
      BY DEF UploadTypeOK
    <3>2. /\ post[d].attempt <= faults + 1
          /\ RefusalUnderWay(d) => post[d].attempt <= faults
      BY DEF AttemptsAreFaults
    <3>3. post'[d] = post[d] /\ (RefusalUnderWay(d)' => RefusalUnderWay(d))
      BY <1>1, <1>2, <2>2 DEF RefusalUnderWay
    <3>4. QED
      BY <3>1, <3>2, <3>3
  <2>3. QED
    BY <2>1, <2>2
<1>8. QED
  BY <1>3, <1>4, <1>5, <1>6, <1>7

\* A step of the server alone that leaves goroutine h busy with the same
\* request, or ends a request whose client has gone.
LEMMA ServerMoves ==
    ASSUME UploadInv, IngestInv', NEW h \in Handlers,
           \A g \in Handlers : g # h => handler'[g] = handler[g],
           handler[h].call \in Calls,
           handler[h].live => /\ handler'[h].call # "idle"
                              /\ handler'[h].live
                              /\ handler'[h].tok = handler[h].tok,
           handler[h].live /\ handler'[h].call = "replied" /\ handler'[h].status = 500
               => faults' = faults + 1,
           \A k \in RunKeys : runs[k] # NoRun => runs'[k] # NoRun,
           faults' \in {faults, faults + 1}, UNCHANGED <<tokens, post, conn, held>>
    PROVE  UploadInv'
<1> USE DEF UploadInv
<1>1. ASSUME NEW c \in Posts, conn[c] # NoConn
      PROVE  \/ conn[c] # h /\ handler'[conn[c]] = handler[conn[c]]
             \/ conn[c] = h /\ handler[h].live
  BY <1>1 DEF UploadTypeOK, ConnectionsAreServed, Serves
<1>2. UploadTypeOK'
  BY DEF UploadTypeOK
<1>3. TokensNamePosts' /\ HeldTokensAreOwn'
  BY DEF TokensNamePosts, HeldTokensAreOwn, OwnToken, KeyOf, UploadKey
<1>4. ConnectionsAreServed'
  BY <1>1 DEF ConnectionsAreServed, Serves, OwnToken, KeyOf
<1>5. DonePostsHaveTheirRow'
  BY UploadIsTyped DEF DonePostsHaveTheirRow, UploadKey
<1>6. AttemptsAreFaults'
  <2> SUFFICES ASSUME NEW c \in Posts
               PROVE  /\ post[c].attempt <= faults' + 1
                      /\ RefusalUnderWay(c)' => post[c].attempt <= faults'
    BY DEF AttemptsAreFaults
  <2>1. post[c].attempt \in Nat /\ faults \in Nat
    BY DEF UploadTypeOK
  <2>2. /\ post[c].attempt <= faults + 1
        /\ RefusalUnderWay(c) => post[c].attempt <= faults
    BY DEF AttemptsAreFaults
  <2>3. RefusalUnderWay(c)' => RefusalUnderWay(c) \/ faults' = faults + 1
    BY <1>1 DEF RefusalUnderWay
  <2>4. QED
    BY <2>1, <2>2, <2>3
<1>7. QED
  BY <1>2, <1>3, <1>4, <1>5, <1>6

\* A goroutine whose client is there keeps its request, replying or proceeding.
LEMMA LiveHandlerGoesOn ==
    ASSUME TypeOK, NEW h \in Handlers, handler[h].call \in Calls, handler[h].live
    PROVE  /\ \A status \in Statuses : Reply(h, status) =>
                /\ handler'[h].call = "replied" /\ handler'[h].status = status
                /\ handler'[h].live /\ handler'[h].tok = handler[h].tok
           /\ \A call \in Calls : Proceed(h, call) =>
                /\ handler'[h].call = call
                /\ handler'[h].live /\ handler'[h].tok = handler[h].tok
<1>1. handler[h] \in [call : Calls \union {"replied"}, tok : Token, body : Payloads,
                      live : BOOLEAN, status : Statuses \union {0}]
  BY BusyHandler DEF Calls
<1>2. ASSUME NEW status \in Statuses, Reply(h, status)
      PROVE  handler'[h] = [handler[h] EXCEPT !.call = "replied", !.status = status]
  BY <1>2 DEF Reply, TypeOK
<1>3. ASSUME NEW call \in Calls, Proceed(h, call)
      PROVE  handler'[h] = [handler[h] EXCEPT !.call = call]
  BY <1>3 DEF Proceed, TypeOK
<1>4. QED
  BY <1>1, <1>2, <1>3

\* Storing a run takes no run away.
LEMMA StoredRunsStay ==
    ASSUME TypeOK, NEW h \in Handlers, HandleUpsertRun(h)
    PROVE  \A k \in RunKeys : runs[k] # NoRun => runs'[k] # NoRun
BY DEF HandleUpsertRun, TypeOK, UpsertedRun, NoRun

\* Every step keeps the inductive invariant, one action at a time.
LEMMA UploadStep == UploadInv /\ [UploadNext]_uploadVars => UploadInv'
<1> SUFFICES ASSUME UploadInv, [UploadNext]_uploadVars
             PROVE  UploadInv'
  OBVIOUS
<1> USE UploadAssumption
<1>0. IngestInv' /\ TypeOK
  BY ServerStep, SafetyStep DEF UploadInv, IngestInv
<1>a. ASSUME NEW c \in Posts
      PROVE  /\ AfterRetryable(post[c]) \in [phase : Phases, attempt : 1 .. MaxAttempts]
             /\ AfterRetryable(post[c]).phase \in {post[c].phase, "failed"}
             /\ AfterRetryable(post[c]).attempt \in {post[c].attempt, post[c].attempt + 1}
             /\ post[c].attempt \in Nat /\ post[c].attempt <= faults + 1 /\ faults \in Nat
             /\ conn[c] # NoConn => post[c].phase = "runs"
  <2>1. post[c] \in [phase : Phases, attempt : 1 .. MaxAttempts]
    BY DEF UploadInv, UploadTypeOK
  <2>2. post[c].attempt <= faults + 1 /\ faults \in Nat
    BY DEF UploadInv, UploadTypeOK, AttemptsAreFaults
  <2>3. QED
    BY <2>1, <2>2, RetryEffect DEF UploadInv, ConnectionsAreServed
<1>1. ASSUME NEW c \in Posts, RequestOidcToken(c) \/ LoseRun(c)
      PROVE  UploadInv'
  <2>1. PICK p \in [phase : Phases, attempt : 1 .. MaxAttempts] :
           /\ post' = [post EXCEPT ![c] = p]
           /\ p.phase # "done"
           /\ faults' \in Nat /\ faults' >= faults /\ p.attempt <= faults' + 1
    <3>1. CASE GoTo(c, "token") /\ UNCHANGED faults
      BY <1>a, <3>1, PostGoes DEF Phases
    <3>2. CASE GoTo(c, "failed") /\ UNCHANGED faults
      BY <1>a, <3>2, PostGoes DEF Phases
    <3>3. CASE Retry(c) /\ Fault
      <4>1. post[c].phase \in {"oidc", "runs"}
        BY <1>1 DEF RequestOidcToken, LoseRun
      <4>2. QED
        BY <1>a, <3>3, <4>1, PostRetries DEF Fault, UploadInv
    <3>4. QED
      BY <1>1, <3>1, <3>2, <3>3 DEF RequestOidcToken, LoseRun
  <2>2. UNCHANGED <<tokens, handler, runs, conn, held>> /\ conn[c] = NoConn
    BY <1>1, <1>a DEF RequestOidcToken, LoseRun, ingestVars
  <2>3. TokensNamePosts' /\ HeldTokensAreOwn'
    BY <2>2 DEF UploadInv, TokensNamePosts, HeldTokensAreOwn, OwnToken, KeyOf, UploadKey
  <2>4. QED
    BY <1>0, <2>1, <2>2, <2>3, PostMoves DEF UploadInv, UploadTypeOK
<1>2. ASSUME NEW c \in Posts, RequestUploadToken(c) \/ LoseTokenExchange(c)
      PROVE  UploadInv'
  <2> DEFINE new == NewToken(Upload[c].repo, Upload[c].exec, Upload[c].sha)
  <2>1. PICK p \in [phase : Phases, attempt : 1 .. MaxAttempts] :
           /\ post' = [post EXCEPT ![c] = p]
           /\ p.phase # "done"
           /\ faults' \in Nat /\ faults' >= faults /\ p.attempt <= faults' + 1
    <3>1. CASE GoTo(c, "runs") /\ UNCHANGED faults
      BY <1>a, <3>1, PostGoes DEF Phases
    <3>2. CASE GoTo(c, "failed") /\ UNCHANGED faults
      BY <1>a, <3>2, PostGoes DEF Phases
    <3>3. CASE Retry(c) /\ Fault
      <4>1. post[c].phase = "token"
        BY <1>2 DEF RequestUploadToken, LoseTokenExchange
      <4>2. QED
        BY <1>a, <3>3, <4>1, PostRetries DEF Fault, UploadInv
    <3>4. QED
      BY <1>2, <3>1, <3>2, <3>3 DEF RequestUploadToken, LoseTokenExchange
  <2>2. UNCHANGED <<handler, runs, conn>> /\ conn[c] = NoConn
    BY <1>2, <1>a DEF RequestUploadToken, LoseTokenExchange, HandleRunsToken, ingestVars
  <2>3. tokens' \in {tokens, tokens \union {new}}
    BY <1>2 DEF RequestUploadToken, LoseTokenExchange, HandleRunsToken, ingestVars
  <2>4. \/ held' = held
        \/ held' = [held EXCEPT ![c] = @ \union {new}] /\ new \in tokens'
    BY <1>2 DEF RequestUploadToken, LoseTokenExchange, HandleRunsToken
  <2>5. new \in Token /\ OwnToken(c, new)
    BY <1>0, NewTokenIsOwn
  <2>6. TokensNamePosts'
    BY <2>3, <2>5 DEF UploadInv, TokensNamePosts, OwnToken, KeyOf, UploadKey
  <2>7. held' \in [Posts -> SUBSET Token] /\ HeldTokensAreOwn'
    <3>1. held' \in [Posts -> SUBSET Token]
      BY <2>4, <2>5 DEF UploadInv, UploadTypeOK
    <3>2. ASSUME NEW d \in Posts, NEW tok \in held'[d]
          PROVE  tok \in tokens' /\ OwnToken(d, tok)
      <4>1. tok \in held[d] \/ (d = c /\ tok = new /\ new \in tokens')
        BY <2>4, <3>2 DEF UploadInv, UploadTypeOK
      <4>2. QED
        BY <2>3, <2>5, <4>1 DEF UploadInv, HeldTokensAreOwn
    <3>3. QED
      BY <3>1, <3>2 DEF HeldTokensAreOwn, OwnToken, KeyOf, UploadKey
  <2>8. QED
    BY <1>0, <2>1, <2>2, <2>6, <2>7, PostMoves
<1>3. ASSUME NEW c \in Posts, SendRun(c)
      PROVE  UploadInv'
  <2>1. PICK h \in Handlers, tok \in held[c] :
           ReceiveRun(h, tok, Upload[c].sha, TRUE) /\ conn' = [conn EXCEPT ![c] = h]
    BY <1>3 DEF SendRun
  <2>2. PICK call \in {"replied", "UpsertRepo"}, status \in {0, 400, 401, 429} :
           handler' = [handler EXCEPT ![h] = [call |-> call, tok |-> tok, body |-> Upload[c].sha,
                                              live |-> TRUE, status |-> status]]
    BY <2>1 DEF ReceiveRun
  <2>3. /\ handler'[h].call = call /\ handler'[h].tok = tok
        /\ handler'[h].live /\ handler'[h].status = status
        /\ \A g \in Handlers : g # h => handler'[g] = handler[g]
    BY <1>0, <2>2 DEF TypeOK
  <2>4. /\ conn'[c] = h
        /\ \A d \in Posts : d # c => conn'[d] = conn[d]
    BY <2>1 DEF UploadInv, UploadTypeOK
  <2>5. UNCHANGED <<tokens, runs, post, held, faults>> /\ post[c].phase = "runs"
    BY <1>3 DEF SendRun, ReceiveRun
  <2>6. ASSUME NEW d \in Posts, d # c, conn[d] # NoConn
        PROVE  handler'[conn'[d]] = handler[conn[d]]
    <3>1. handler[h].call = "idle" /\ handler[conn[d]].call # "idle" /\ conn[d] \in Handlers
      BY <2>1, <2>6 DEF UploadInv, UploadTypeOK, ConnectionsAreServed, Serves, ReceiveRun, Idle
    <3>2. QED
      BY <2>3, <2>4, <2>6, <3>1
  <2>7. UploadTypeOK'
    BY <2>1, <2>5 DEF UploadInv, UploadTypeOK
  <2>8. TokensNamePosts' /\ HeldTokensAreOwn'
    BY <2>5 DEF UploadInv, TokensNamePosts, HeldTokensAreOwn, OwnToken, KeyOf, UploadKey
  <2>9. ConnectionsAreServed'
    <3> SUFFICES ASSUME NEW d \in Posts, conn'[d] # NoConn
                 PROVE  /\ post[d].phase = "runs"
                        /\ handler'[conn'[d]].call # "idle"
                        /\ handler'[conn'[d]].live
                        /\ OwnToken(d, handler'[conn'[d]].tok)
      BY <2>5 DEF ConnectionsAreServed, Serves, OwnToken, KeyOf, UploadKey
    <3>1. CASE d = c
      BY <2>3, <2>4, <2>5, <3>1 DEF UploadInv, HeldTokensAreOwn
    <3>2. CASE d # c
      BY <2>4, <2>6, <3>2 DEF UploadInv, ConnectionsAreServed, Serves
    <3>3. QED
      BY <3>1, <3>2
  <2>10. DonePostsHaveTheirRow'
    BY <2>5 DEF UploadInv, DonePostsHaveTheirRow, UploadKey
  <2>11. AttemptsAreFaults'
    BY <2>3, <2>4, <2>5, <2>6 DEF UploadInv, AttemptsAreFaults, RefusalUnderWay
  <2>12. QED
    BY <1>0, <2>7, <2>8, <2>9, <2>10, <2>11 DEF UploadInv
<1>4. ASSUME NEW c \in Posts, ReceiveReply(c)
      PROVE  UploadInv'
  <2>1. conn[c] # NoConn /\ conn[c] \in Handlers /\ handler[conn[c]].call = "replied"
    BY <1>4 DEF ReceiveReply, UploadInv, UploadTypeOK
  <2>2. PICK p \in [phase : Phases, attempt : 1 .. MaxAttempts] :
           /\ post' = [post EXCEPT ![c] = p]
           /\ p.phase = "done" => handler[conn[c]].status = 202
           /\ p.attempt <= faults + 1
    <3>1. CASE handler[conn[c]].status = 202
      <4>1. GoTo(c, "done")
        BY <1>4, <3>1 DEF ReceiveReply
      <4>2. QED
        BY <1>a, <3>1, <4>1, PostGoes DEF Phases
    <3>2. CASE handler[conn[c]].status = 500
      <4>1. Retry(c)
        BY <1>4, <3>2 DEF ReceiveReply
      <4>2. post[c].attempt <= faults
        BY <2>1, <3>2 DEF UploadInv, AttemptsAreFaults, RefusalUnderWay
      <4>3. post[c].phase = "runs"
        BY <1>a, <2>1
      <4>4. QED
        BY <1>a, <4>1, <4>2, <4>3, PostRetries DEF UploadInv
    <3>3. CASE handler[conn[c]].status \notin {202, 500}
      <4>1. GoTo(c, "failed")
        BY <1>4, <3>3 DEF ReceiveReply
      <4>2. QED
        BY <1>a, <4>1, PostGoes DEF Phases
    <3>4. QED
      BY <3>1, <3>2, <3>3
  <2>3. p.phase = "done" => runs[UploadKey(c)] # NoRun
    BY <2>1, <2>2
    DEF UploadInv, IngestInv, AcceptedRunsAreStored, ConnectionsAreServed, Serves, OwnToken
  <2>4. UNCHANGED <<held, runs, tokens>> /\ faults' = faults /\ conn' = [conn EXCEPT ![c] = NoConn]
    BY <1>4 DEF ReceiveReply, ResponseGone
  <2>5. \A g \in Handlers : g # conn[c] => handler'[g] = handler[g]
    BY <1>0, <1>4 DEF ReceiveReply, ResponseGone, TypeOK
  <2>6. faults' \in Nat /\ faults' >= faults /\ p.attempt <= faults' + 1
    BY <1>a, <2>2, <2>4
  <2>7. /\ IngestInv' /\ conn[c] # NoConn
        /\ post' = [post EXCEPT ![c] = p] /\ conn' = [conn EXCEPT ![c] = NoConn]
        /\ UNCHANGED <<held, runs, tokens>>
    BY <1>0, <2>1, <2>2, <2>4
  <2>8. QED
    BY <2>3, <2>5, <2>6, <2>7, ConnectionEnds
<1>5. ASSUME NEW c \in Posts, LoseReply(c) \/ AbandonRun(c)
      PROVE  UploadInv'
  <2>1. /\ conn[c] # NoConn /\ conn[c] \in Handlers
        /\ Retry(c) /\ Fault /\ conn' = [conn EXCEPT ![c] = NoConn]
        /\ UNCHANGED <<held, runs, tokens>>
    BY <1>5 DEF LoseReply, AbandonRun, ResponseGone, CancelRun, UploadInv, UploadTypeOK
  <2>2. \A g \in Handlers : g # conn[c] => handler'[g] = handler[g]
    BY <1>0, <1>5 DEF LoseReply, AbandonRun, ResponseGone, CancelRun, TypeOK
  <2>3. post' = [post EXCEPT ![c] = AfterRetryable(post[c])]
    BY <2>1 DEF Retry
  <2>4. faults' = faults + 1
    BY <2>1 DEF Fault
  <2>5. AfterRetryable(post[c]).phase # "done"
    BY <1>a, <2>1
  <2>6. /\ AfterRetryable(post[c]).attempt <= faults' + 1
        /\ faults' \in Nat /\ faults' >= faults
    BY <1>a, <2>4
  <2>7. QED
    BY <1>0, <1>a, <2>1, <2>2, <2>3, <2>5, <2>6, ConnectionEnds
<1>6. ASSUME NEW h \in Handlers, ServeRun(h)
      PROVE  UploadInv'
  <2>1. handler[h].call \in Calls
    BY <1>6 DEF ServeRun, HandleUpsertRepo, HandleCountRuns, HandleUpsertRun,
                HandleDatabaseError, Calls
  <2>2. UNCHANGED <<tokens, post, conn, held>> /\ faults' \in {faults, faults + 1}
    BY <1>6 DEF ServeRun, Fault, HandleUpsertRepo, HandleCountRuns, HandleUpsertRun,
                HandleDatabaseError
  <2>3. \E status \in {202, 429} : Reply(h, status) \/ (\E call \in Calls : Proceed(h, call))
           \/ (Reply(h, 500) /\ (handler[h].live => faults' = faults + 1))
    BY <1>6 DEF ServeRun, Fault, HandleUpsertRepo, HandleCountRuns, HandleUpsertRun,
                HandleDatabaseError, Calls
  <2>4. \A g \in Handlers : g # h => handler'[g] = handler[g]
    BY <1>0, <2>3 DEF Reply, Proceed, TypeOK
  <2>5. handler[h].live =>
           /\ handler'[h].call # "idle"
           /\ handler'[h].live
           /\ handler'[h].tok = handler[h].tok
           /\ handler'[h].call = "replied" /\ handler'[h].status = 500 => faults' = faults + 1
    BY <1>0, <2>1, <2>3, LiveHandlerGoesOn DEF Statuses, Calls
  <2>6. \A k \in RunKeys : runs[k] # NoRun => runs'[k] # NoRun
    BY <1>0, <1>6, StoredRunsStay
    DEF ServeRun, HandleUpsertRepo, HandleCountRuns, HandleDatabaseError
  <2>7. QED
    BY <1>0, <2>1, <2>2, <2>4, <2>5, <2>6, ServerMoves
<1>7. CASE RestartServer
  <2>1. /\ \A c \in Posts : conn'[c] = NoConn
        /\ \A c \in Posts : post'[c] \in {post[c], AfterRetryable(post[c])}
        /\ UNCHANGED <<tokens, runs, held>> /\ faults' = faults + 1
    BY <1>7 DEF RestartServer, Restart, Fault
  <2>2. UploadTypeOK'
    <3>1. post' \in [Posts -> [phase : Phases, attempt : 1 .. MaxAttempts]]
      BY <1>7, <1>a DEF RestartServer, UploadInv, UploadTypeOK
    <3>2. QED
      BY <1>7, <2>1, <3>1 DEF RestartServer, UploadInv, UploadTypeOK
  <2>3. TokensNamePosts' /\ HeldTokensAreOwn'
    BY <2>1 DEF UploadInv, TokensNamePosts, HeldTokensAreOwn, OwnToken, KeyOf, UploadKey
  <2>4. ConnectionsAreServed'
    BY <2>1 DEF ConnectionsAreServed
  <2>5. DonePostsHaveTheirRow'
    BY <1>a, <2>1 DEF UploadInv, DonePostsHaveTheirRow, UploadKey
  <2>6. AttemptsAreFaults'
    BY <1>a, <2>1 DEF AttemptsAreFaults, RefusalUnderWay
  <2>7. QED
    BY <1>0, <2>2, <2>3, <2>4, <2>5, <2>6 DEF UploadInv
<1>8. CASE (Tick /\ UNCHANGED postVars) \/ UNCHANGED uploadVars
  <2>1. UNCHANGED <<tokens, runs, handler, post, conn, held, faults>>
    BY <1>8 DEF Tick, postVars, uploadVars, ingestVars
  <2>2. QED
    BY <1>0, <2>1 DEF UploadInv, UploadTypeOK, TokensNamePosts, HeldTokensAreOwn, OwnToken,
         KeyOf, UploadKey, ConnectionsAreServed, Serves, DonePostsHaveTheirRow,
         AttemptsAreFaults, RefusalUnderWay
<1>9. ASSUME NEW k \in RunKeys, MarkRunEnrichmentMatched(k), UNCHANGED postVars
      PROVE  UploadInv'
  <2>1. /\ UNCHANGED <<tokens, handler, post, conn, held, faults>>
        /\ \A l \in RunKeys : runs[l] # NoRun => runs'[l] # NoRun
    BY <1>0, <1>9, MatchEffect DEF postVars
  <2>2. DonePostsHaveTheirRow'
    BY <2>1, UploadIsTyped DEF UploadInv, DonePostsHaveTheirRow, UploadKey
  <2>3. QED
    BY <1>0, <2>1, <2>2 DEF UploadInv, UploadTypeOK, TokensNamePosts, HeldTokensAreOwn, OwnToken,
         KeyOf, UploadKey, ConnectionsAreServed, Serves, AttemptsAreFaults, RefusalUnderWay
<1>10. QED
  BY <1>1, <1>2, <1>3, <1>4, <1>5, <1>6, <1>7, <1>8, <1>9 DEF UploadNext, PostStep

\* The inductive invariant holds throughout.
THEOREM UploadInvariant == UploadSpec => []UploadInv
<1>1. UploadInit => UploadInv
  <2> SUFFICES ASSUME UploadInit PROVE UploadInv
    OBVIOUS
  <2>1. IngestInv
    BY IngestInitially DEF UploadInit
  <2>2. UploadTypeOK
    BY UploadAssumption DEF UploadInit, UploadTypeOK, Phases
  <2>3. TokensNamePosts /\ HeldTokensAreOwn
    BY DEF UploadInit, IngestInit, TokensNamePosts, HeldTokensAreOwn
  <2>4. ConnectionsAreServed /\ DonePostsHaveTheirRow
    BY DEF UploadInit, ConnectionsAreServed, DonePostsHaveTheirRow
  <2>5. AttemptsAreFaults
    BY DEF UploadInit, AttemptsAreFaults, RefusalUnderWay
  <2>6. QED
    BY <2>1, <2>2, <2>3, <2>4, <2>5 DEF UploadInv
<1>2. QED
  BY <1>1, UploadStep, PTL DEF UploadSpec

-----------------------------------------------------------------------------
(* Until the first POST /runs has been answered or given up, nobody else is   *)
(* at work under the post step's key.                                        *)

\* The goroutine that works under a post step's key is the one it waits for,
\* and its row, if there is one, is what that goroutine has just reported.
FirstAttempts ==
    \A c \in Posts : ~BeyondFirstAttempt(c) =>
        /\ \A h \in Handlers :
              handler[h].call # "idle" /\ KeyOf(handler[h].tok) = UploadKey(c) => conn[c] = h
        /\ runs[UploadKey(c)] # NoRun => /\ conn[c] # NoConn
                                         /\ handler[conn[c]].call = "replied"
                                         /\ handler[conn[c]].status = 202

\* A retry of POST /runs is no first attempt.
LEMMA RetriesAreLater ==
    ASSUME UploadTypeOK, NEW c \in Posts, post[c].phase = "runs",
           post'[c] = AfterRetryable(post[c])
    PROVE  BeyondFirstAttempt(c)'
<1>1. post[c] \in [phase : Phases, attempt : 1 .. MaxAttempts]
  BY DEF UploadTypeOK
<1>2. QED
  BY <1>1, RetryEffect DEF BeyondFirstAttempt

\* Nobody else disturbs what FirstAttempts says of post step c: no goroutine but
\* c's own takes up its key, c's own keeps its answer, and no row appears.
LEMMA Undisturbed ==
    ASSUME FirstAttempts, NEW c \in Posts, ~BeyondFirstAttempt(c), UNCHANGED conn[c],
           \A h \in Handlers : handler'[h].call # "idle" /\ KeyOf(handler'[h].tok) = UploadKey(c)
               => handler[h].call # "idle" /\ KeyOf(handler[h].tok) = UploadKey(c),
           conn[c] # NoConn => UNCHANGED handler[conn[c]],
           runs'[UploadKey(c)] # NoRun => runs[UploadKey(c)] # NoRun
    PROVE  /\ \A h \in Handlers :
                handler'[h].call # "idle" /\ KeyOf(handler'[h].tok) = UploadKey(c) => conn'[c] = h
           /\ runs'[UploadKey(c)] # NoRun => /\ conn'[c] # NoConn
                                             /\ handler'[conn'[c]].call = "replied"
                                             /\ handler'[conn'[c]].status = 202
BY DEF FirstAttempts

\* Every step keeps it, one action at a time.
LEMMA FirstAttemptsStep ==
    ASSUME UploadInv, FirstAttempts, [UploadNext]_uploadVars
    PROVE  FirstAttempts'
<1> SUFFICES ASSUME NEW c \in Posts, ~BeyondFirstAttempt(c)'
             PROVE  /\ \A h \in Handlers : handler'[h].call # "idle"
                         /\ KeyOf(handler'[h].tok) = UploadKey(c) => conn'[c] = h
                    /\ runs'[UploadKey(c)] # NoRun => /\ conn'[c] # NoConn
                                                      /\ handler'[conn'[c]].call = "replied"
                                                      /\ handler'[conn'[c]].status = 202
  BY DEF FirstAttempts, KeyOf, UploadKey
<1> DEFINE Goal == /\ \A h \in Handlers : handler'[h].call # "idle"
                         /\ KeyOf(handler'[h].tok) = UploadKey(c) => conn'[c] = h
                   /\ runs'[UploadKey(c)] # NoRun => /\ conn'[c] # NoConn
                                                     /\ handler'[conn'[c]].call = "replied"
                                                     /\ handler'[conn'[c]].status = 202
<1>0. /\ TypeOK /\ UploadTypeOK /\ UploadKey(c) \in RunKeys
      /\ conn[c] # NoConn => conn[c] \in Handlers /\ post[c].phase = "runs"
      /\ post \in [Posts -> [phase : Phases, attempt : 1 .. MaxAttempts]]
      /\ conn \in [Posts -> Handlers \union {NoConn}]
  BY UploadIsTyped DEF UploadInv, IngestInv, UploadTypeOK, ConnectionsAreServed
<1>a. ASSUME post'[c] = post[c]
      PROVE  ~BeyondFirstAttempt(c)
  BY <1>a DEF BeyondFirstAttempt
<1>b. ASSUME ~BeyondFirstAttempt(c), UNCHANGED <<conn, handler>>,
             runs'[UploadKey(c)] # NoRun => runs[UploadKey(c)] # NoRun
      PROVE  Goal
  BY <1>b, Undisturbed
<1>1. ASSUME NEW d \in Posts, RequestOidcToken(d) \/ RequestUploadToken(d) \/ LoseTokenExchange(d)
      PROVE  Goal
  <2>1. UNCHANGED <<conn, handler, runs>>
    BY <1>1 DEF RequestOidcToken, RequestUploadToken, LoseTokenExchange, HandleRunsToken, ingestVars
  <2>2. ~BeyondFirstAttempt(c)
    <3>1. CASE d = c
      BY <1>1, <3>1
      DEF RequestOidcToken, RequestUploadToken, LoseTokenExchange, BeyondFirstAttempt
    <3>2. CASE d # c
      <4>1. post'[c] = post[c]
        BY <1>0, <1>1, <3>2
        DEF RequestOidcToken, RequestUploadToken, LoseTokenExchange, GoTo, Retry
      <4>2. QED
        BY <1>a, <4>1
    <3>3. QED
      BY <3>1, <3>2
  <2>3. QED
    BY <1>b, <2>1, <2>2
<1>2. ASSUME NEW d \in Posts, LoseRun(d)
      PROVE  Goal
  <2>1. /\ post' = [post EXCEPT ![d] = AfterRetryable(@)] /\ post[d].phase = "runs"
        /\ UNCHANGED <<conn, handler, runs>>
    BY <1>2 DEF LoseRun, Retry, ingestVars
  <2>2. d # c
    BY <1>0, <2>1, RetriesAreLater
  <2>3. QED
    BY <1>0, <1>a, <1>b, <2>1, <2>2
<1>3. ASSUME NEW d \in Posts, SendRun(d)
      PROVE  Goal
  <2>1. PICK h \in Handlers, tok \in held[d] :
           ReceiveRun(h, tok, Upload[d].sha, TRUE) /\ conn' = [conn EXCEPT ![d] = h]
    BY <1>3 DEF SendRun
  <2>2. PICK call \in {"replied", "UpsertRepo"}, status \in {0, 400, 401, 429} :
           handler' = [handler EXCEPT ![h] = [call |-> call, tok |-> tok, body |-> Upload[d].sha,
                                              live |-> TRUE, status |-> status]]
    BY <2>1 DEF ReceiveRun
  <2>3. /\ handler[h].call = "idle" /\ handler'[h].tok = tok
        /\ \A g \in Handlers : g # h => handler'[g] = handler[g]
    BY <1>0, <2>1, <2>2 DEF TypeOK, ReceiveRun, Idle
  <2>4. KeyOf(tok) = UploadKey(d)
    BY DEF UploadInv, HeldTokensAreOwn, OwnToken
  <2>5. UNCHANGED <<post, runs>> /\ conn[d] = NoConn
    BY <1>3 DEF SendRun, ReceiveRun
  <2>6. ~BeyondFirstAttempt(c)
    BY <1>a, <2>5
  <2>7. CASE d = c
    <3>1. /\ \A g \in Handlers :
                handler[g].call # "idle" => KeyOf(handler[g].tok) # UploadKey(c)
          /\ runs[UploadKey(c)] = NoRun
      BY <1>0, <2>5, <2>6, <2>7, UploadAssumption DEF FirstAttempts
    <3>2. conn'[c] = h
      BY <1>0, <2>1, <2>7
    <3>3. QED
      BY <2>3, <2>5, <3>1, <3>2
  <2>8. CASE d # c
    <3>1. conn'[c] = conn[c]
      BY <1>0, <2>1, <2>8
    <3>2. KeyOf(tok) # UploadKey(c)
      BY <2>4, <2>8, OneKeyEach
    <3>3. conn[c] # NoConn => conn[c] # h
      BY <2>3 DEF UploadInv, ConnectionsAreServed, Serves
    <3>4. QED
      BY <1>0, <2>3, <2>5, <2>6, <3>1, <3>2, <3>3, Undisturbed
  <2>9. QED
    BY <2>7, <2>8
<1>4. ASSUME NEW d \in Posts, ReceiveReply(d) \/ LoseReply(d) \/ AbandonRun(d)
      PROVE  Goal
  <2>1. /\ conn[d] # NoConn /\ conn[d] \in Handlers /\ post[d].phase = "runs"
        /\ conn' = [conn EXCEPT ![d] = NoConn] /\ runs' = runs
    BY <1>0, <1>4
    DEF ReceiveReply, LoseReply, AbandonRun, ResponseGone, CancelRun, UploadInv, ConnectionsAreServed
  <2>2. \A g \in Handlers : /\ g # conn[d] => handler'[g] = handler[g]
                            /\ handler'[g].call # "idle" =>
                                 /\ handler[g].call # "idle"
                                 /\ handler'[g].tok = handler[g].tok
    <3>1. CASE handler' = [handler EXCEPT ![conn[d]] = Idle]
      BY <1>0, <2>1, <3>1 DEF TypeOK, Idle
    <3>2. CASE CancelRun(conn[d])
      <4>1. handler[conn[d]] \in [call : Calls \union {"replied"}, tok : Token, body : Payloads,
                                  live : BOOLEAN, status : Statuses \union {0}]
        BY <1>0, <2>1, <3>2, BusyHandler DEF CancelRun, Calls
      <4>2. handler' = [handler EXCEPT ![conn[d]] = [handler[conn[d]] EXCEPT !.live = FALSE]]
        BY <1>0, <2>1, <3>2 DEF CancelRun, TypeOK
      <4>3. handler'[conn[d]].tok = handler[conn[d]].tok /\ handler[conn[d]].call # "idle"
        BY <1>0, <2>1, <4>1, <4>2 DEF TypeOK, Calls
      <4>4. QED
        BY <1>0, <2>1, <4>2, <4>3 DEF TypeOK
    <3>3. QED
      BY <1>4, <3>1, <3>2 DEF ReceiveReply, LoseReply, AbandonRun, ResponseGone
  <2>3. \/ post' = [post EXCEPT ![d] = AfterRetryable(@)]
        \/ \E phase \in {"done", "failed"} : GoTo(d, phase)
    BY <1>4 DEF ReceiveReply, LoseReply, AbandonRun, Retry
  <2>4. d # c
    <3>1. CASE post' = [post EXCEPT ![d] = AfterRetryable(@)]
      BY <1>0, <2>1, <3>1, RetriesAreLater
    <3>2. CASE \E phase \in {"done", "failed"} : GoTo(d, phase)
      BY <1>0, <3>2 DEF GoTo, BeyondFirstAttempt
    <3>3. QED
      BY <2>3, <3>1, <3>2
  <2>5. post'[c] = post[c] /\ conn'[c] = conn[c]
    BY <1>0, <2>1, <2>3, <2>4 DEF GoTo
  <2>6. conn[c] # NoConn => conn[c] # conn[d]
    BY <2>4, OneServerEach DEF UploadInv
  <2>7. QED
    BY <1>0, <1>a, <2>1, <2>2, <2>5, <2>6, Undisturbed
<1>5. ASSUME NEW h \in Handlers, ServeRun(h)
      PROVE  Goal
  <2>1. handler[h].call \in Calls /\ UNCHANGED <<post, conn>>
    BY <1>5 DEF ServeRun, HandleUpsertRepo, HandleCountRuns, HandleUpsertRun,
                HandleDatabaseError, Calls
  <2>2. /\ \A g \in Handlers : g # h => handler'[g] = handler[g]
        /\ handler'[h].call # "idle" => handler'[h].tok = handler[h].tok
    <3>1. \/ \E status \in Statuses : Reply(h, status)
          \/ \E call \in {"CountRuns", "UpsertRun"} : Proceed(h, call)
      BY <1>5 DEF ServeRun, HandleUpsertRepo, HandleCountRuns, HandleUpsertRun,
                  HandleDatabaseError, Statuses
    <3>2. ASSUME NEW status \in Statuses, Reply(h, status)
          PROVE  /\ \A g \in Handlers : g # h => handler'[g] = handler[g]
                 /\ handler'[h].call # "idle" => handler'[h].tok = handler[h].tok
      BY <1>0, <2>1, <3>2, ReplyEffect
    <3>3. ASSUME NEW call \in {"CountRuns", "UpsertRun"}, Proceed(h, call)
          PROVE  /\ \A g \in Handlers : g # h => handler'[g] = handler[g]
                 /\ handler'[h].call # "idle" => handler'[h].tok = handler[h].tok
      BY <1>0, <2>1, <3>3, ProceedEffect DEF Calls
    <3>4. QED
      BY <3>1, <3>2, <3>3
  <2>3. ~BeyondFirstAttempt(c)
    BY <1>a, <2>1
  <2>4. handler[h].call # "idle" /\ handler[h].call # "replied"
    BY <2>1 DEF Calls
  <2>5. CASE HandleUpsertRun(h) /\ KeyOf(handler[h].tok) = UploadKey(c)
    <3>1. conn[c] = h /\ handler[h].live /\ conn[c] # NoConn
      <4>1. conn[c] = h /\ h # NoConn
        BY <1>0, <2>3, <2>4, <2>5, UploadAssumption DEF FirstAttempts
      <4>2. QED
        BY <4>1 DEF UploadInv, ConnectionsAreServed, Serves
    <3>2. handler'[h].call = "replied" /\ handler'[h].status = 202
      BY <1>0, <2>1, <2>5, <3>1, LiveHandlerGoesOn DEF HandleUpsertRun, Statuses
    <3>3. \A g \in Handlers :
             handler'[g].call # "idle" /\ KeyOf(handler'[g].tok) = UploadKey(c) => g = h
      BY <2>2, <2>3, <3>1 DEF FirstAttempts
    <3>4. QED
      BY <2>1, <3>1, <3>2, <3>3
  <2>6. CASE ~(HandleUpsertRun(h) /\ KeyOf(handler[h].tok) = UploadKey(c))
    <3>1. runs'[UploadKey(c)] = runs[UploadKey(c)]
      <4>1. CASE HandleUpsertRun(h)
        BY <1>0, <2>6, <4>1, UpsertRunEffect
      <4>2. CASE ~HandleUpsertRun(h)
        BY <1>5, <4>2 DEF ServeRun, HandleUpsertRepo, HandleCountRuns, HandleDatabaseError
      <4>3. QED
        BY <4>1, <4>2
    <3>2. CASE conn[c] # h
      BY <1>0, <2>1, <2>2, <2>3, <2>4, <3>1, <3>2, Undisturbed
    <3>3. CASE conn[c] = h
      <4>1. runs'[UploadKey(c)] = NoRun
        BY <2>3, <2>4, <3>1, <3>3 DEF FirstAttempts
      <4>2. \A g \in Handlers :
               handler'[g].call # "idle" /\ KeyOf(handler'[g].tok) = UploadKey(c) => conn'[c] = g
        BY <2>1, <2>2, <2>3, <2>4, <3>3 DEF FirstAttempts
      <4>3. QED
        BY <4>1, <4>2
    <3>4. QED
      BY <3>2, <3>3
  <2>7. QED
    BY <2>5, <2>6
<1>6. CASE RestartServer
  <2>1. /\ \A h \in Handlers : handler'[h].call = "idle"
        /\ runs' = runs
        /\ post'[c] = IF conn[c] = NoConn THEN post[c] ELSE AfterRetryable(post[c])
    BY <1>6 DEF RestartServer, Restart, Idle
  <2>2. conn[c] = NoConn
    BY <1>0, <2>1, RetriesAreLater
  <2>3. runs[UploadKey(c)] = NoRun
    BY <1>a, <2>1, <2>2 DEF FirstAttempts
  <2>4. QED
    BY <2>1, <2>3
<1>7. ASSUME NEW k \in RunKeys, MarkRunEnrichmentMatched(k), UNCHANGED postVars
      PROVE  Goal
  <2>1. /\ UNCHANGED <<post, conn, handler>>
        /\ runs'[UploadKey(c)] # NoRun => runs[UploadKey(c)] # NoRun
    BY <1>0, <1>7, MatchEffect DEF postVars
  <2>2. QED
    BY <1>a, <1>b, <2>1
<1>8. CASE (Tick /\ UNCHANGED postVars) \/ UNCHANGED uploadVars
  <2>1. UNCHANGED <<post, conn, handler, runs>>
    BY <1>8 DEF Tick, postVars, uploadVars, ingestVars
  <2>2. QED
    BY <1>a, <1>b, <2>1
<1>9. QED
  BY <1>1, <1>2, <1>3, <1>4, <1>5, <1>6, <1>7, <1>8 DEF UploadNext, PostStep

\* FirstAttempts holds throughout.
LEMMA FirstAttemptsInvariant == UploadSpec => []FirstAttempts
<1>1. UploadInit => FirstAttempts
  BY UploadIsTyped DEF UploadInit, IngestInit, FirstAttempts, Idle
<1>2. UploadInv /\ FirstAttempts /\ [UploadNext]_uploadVars => FirstAttempts'
  BY FirstAttemptsStep
<1>3. QED
  BY <1>1, <1>2, UploadInvariant, PTL DEF UploadSpec

-----------------------------------------------------------------------------
(* The theorems *)

\* A row under a post step's key holds that post step's summary: its token
\* was asked for by a post step with the same key, and no other has that key.
LEMMA RowsHoldTheirSummary ==
    ASSUME UploadInv, NEW c \in Posts, runs[UploadKey(c)] # NoRun
    PROVE  runs[UploadKey(c)].body = Upload[c].sha
<1>1. PICK tok \in tokens : KeyOf(tok) = UploadKey(c) /\ tok.sha = runs[UploadKey(c)].body
  BY UploadIsTyped DEF UploadInv, IngestInv, StoredRunsWereAuthorised
<1>2. PICK d \in Posts : OwnToken(d, tok)
  BY DEF UploadInv, TokensNamePosts
<1>3. QED
  BY <1>1, <1>2, OneKeyEach DEF OwnToken

\* Whatever is lost, retried, cancelled or restarted, and for any number of
\* post steps: a row holds its own post step's summary, and a post step that
\* reported success has its row.
THEOREM UploadsStored == UploadSpec => []UploadsStoreTheirOwnSummary
<1>1. UploadInv => UploadsStoreTheirOwnSummary
  BY RowsHoldTheirSummary DEF UploadInv, DonePostsHaveTheirRow, UploadsStoreTheirOwnSummary
<1>2. QED
  BY <1>1, UploadInvariant, PTL

\* No retry, however late, takes a stored run away, changes its summary or its
\* age; its job is only lost after the first attempt.
THEOREM RetriesKeepRuns == UploadSpec => RetriesKeepTheRun
<1> DEFINE Kept(c) ==
       LET old == runs[UploadKey(c)]
           new == runs'[UploadKey(c)]
       IN old # NoRun =>
            /\ new # NoRun /\ new.body = old.body /\ new.createdAt = old.createdAt
            /\ old.job = "shown" /\ new.job = "none" => BeyondFirstAttempt(c)
<1>1. UploadInv /\ FirstAttempts /\ [UploadNext]_uploadVars => [\A c \in Posts : Kept(c)]_runs
  <2> SUFFICES ASSUME UploadInv, FirstAttempts, [UploadNext]_uploadVars, runs' # runs,
                      NEW c \in Posts, runs[UploadKey(c)] # NoRun
               PROVE  /\ runs'[UploadKey(c)] # NoRun
                      /\ runs'[UploadKey(c)].body = runs[UploadKey(c)].body
                      /\ runs'[UploadKey(c)].createdAt = runs[UploadKey(c)].createdAt
                      /\ runs[UploadKey(c)].job = "shown" /\ runs'[UploadKey(c)].job = "none"
                            => BeyondFirstAttempt(c)
    OBVIOUS
  <2>1. TypeOK /\ UploadKey(c) \in RunKeys
    BY UploadIsTyped DEF UploadInv, IngestInv
  <2>2. ASSUME NEW k \in RunKeys, MarkRunEnrichmentMatched(k)
        PROVE  /\ runs'[UploadKey(c)] # NoRun
               /\ runs'[UploadKey(c)].body = runs[UploadKey(c)].body
               /\ runs'[UploadKey(c)].createdAt = runs[UploadKey(c)].createdAt
               /\ runs[UploadKey(c)].job = "shown" => runs'[UploadKey(c)].job = "shown"
    BY <2>1, <2>2, MatchEffect
  <2>3. ASSUME NEW h \in Handlers, HandleUpsertRun(h)
        PROVE  /\ runs'[UploadKey(c)] # NoRun
               /\ runs'[UploadKey(c)].body = runs[UploadKey(c)].body
               /\ runs'[UploadKey(c)].createdAt = runs[UploadKey(c)].createdAt
               /\ runs'[UploadKey(c)].job # runs[UploadKey(c)].job => BeyondFirstAttempt(c)
    <3> DEFINE tok == handler[h].tok
    <3>1. CASE KeyOf(tok) # UploadKey(c)
      BY <2>1, <2>3, <3>1, UpsertRunEffect
    <3>2. CASE KeyOf(tok) = UploadKey(c)
      <4>1. tok \in tokens /\ handler[h].body = tok.sha /\ handler[h].call = "UpsertRun"
        BY <2>3 DEF HandleUpsertRun, UploadInv, IngestInv, WritersAreAuthorised, Calls
      <4>2. PICK d \in Posts : OwnToken(d, tok)
        BY <4>1 DEF UploadInv, TokensNamePosts
      <4>3. d = c
        BY <3>2, <4>2, OneKeyEach DEF OwnToken
      <4>4. runs'[UploadKey(c)] = UpsertedRun(runs[UploadKey(c)], Upload[c].sha)
        BY <2>1, <2>3, <3>2, <4>1, <4>2, <4>3, UpsertRunEffect DEF OwnToken
      <4>5. runs'[UploadKey(c)] = [body |-> Upload[c].sha,
                                   createdAt |-> runs[UploadKey(c)].createdAt, job |-> "none"]
        BY <4>4 DEF UpsertedRun
      <4>6. runs[UploadKey(c)].body = Upload[c].sha
        BY RowsHoldTheirSummary
      <4>7. BeyondFirstAttempt(c)
        BY <3>2, <4>1 DEF FirstAttempts
      <4>8. QED
        BY <4>5, <4>6, <4>7 DEF NoRun
    <3>3. QED
      BY <3>1, <3>2
  <2>4. QED
    <3>1. [IngestNext]_ingestVars
      BY ServerStep
    <3>2. QED
      BY <2>2, <2>3, <3>1, OnlyUpsertRunWrites
<1>2. QED
  BY <1>1, UploadInvariant, FirstAttemptsInvariant, PTL DEF UploadSpec, RetriesKeepTheRun

\* The first POST /runs is answered as the table says, for any number of post
\* steps, quotas and limits: a stored run only ever fails in a later attempt.
THEOREM FirstAnswersTrue == UploadSpec => FirstAnswersAreTrue
<1>1. UploadInv /\ FirstAttempts /\ [UploadNext]_uploadVars
        => [\A c \in Posts :
              /\ post[c].phase # "failed" /\ post'[c].phase = "failed"
              /\ runs[UploadKey(c)] # NoRun
              => BeyondFirstAttempt(c) \/ faults' # faults]_uploadVars
  <2> SUFFICES ASSUME UploadInv, FirstAttempts, UploadNext, NEW c \in Posts,
                      post[c].phase # "failed", post'[c].phase = "failed",
                      runs[UploadKey(c)] # NoRun, ~BeyondFirstAttempt(c), faults' = faults
               PROVE  FALSE
    OBVIOUS
  <2>1. post \in [Posts -> [phase : Phases, attempt : 1 .. MaxAttempts]] /\ faults \in Nat
    BY DEF UploadInv, UploadTypeOK
  <2>2. /\ conn[c] # NoConn /\ handler[conn[c]].status = 202 /\ post[c].phase = "runs"
    BY DEF FirstAttempts, UploadInv, ConnectionsAreServed
  <2>3. ~Fault
    BY <2>1 DEF Fault
  <2>4. ASSUME NEW d \in Posts, RequestOidcToken(d) \/ RequestUploadToken(d)
        PROVE  FALSE
    <3>1. d # c
      BY <2>2, <2>4 DEF RequestOidcToken, RequestUploadToken
    <3>2. post'[c] = post[c]
      BY <2>1, <2>3, <2>4, <3>1 DEF RequestOidcToken, RequestUploadToken, GoTo
    <3>3. QED
      BY <3>2
  <2>5. ASSUME NEW d \in Posts, ReceiveReply(d)
        PROVE  FALSE
    <3>1. CASE d = c
      BY <2>1, <2>2, <2>5, <3>1 DEF ReceiveReply, GoTo
    <3>2. CASE d # c
      BY <2>1, <2>5, <3>2 DEF ReceiveReply, GoTo, Retry
    <3>3. QED
      BY <3>1, <3>2
  <2>6. /\ \A d \in Posts : /\ ~LoseTokenExchange(d) /\ ~LoseRun(d) /\ ~LoseReply(d)
                            /\ ~AbandonRun(d) /\ ~SendRun(d)
        /\ ~RestartServer /\ ~UNCHANGED postVars
        /\ \A h \in Handlers : ~ServeRun(h)
    BY <2>3 DEF LoseTokenExchange, LoseRun, LoseReply, AbandonRun, SendRun, RestartServer,
         ServeRun, postVars
  <2>7. QED
    BY <2>4, <2>5, <2>6 DEF UploadNext, PostStep
<1>2. QED
  BY <1>1, UploadInvariant, FirstAttemptsInvariant, PTL DEF UploadSpec, FirstAnswersAreTrue

\* A retry that ends a post step is its last attempt, and each attempt before
\* it was cut short by a fault of its own.
LEMMA LastAttempt ==
    ASSUME UploadInv, NEW c \in Posts, post[c].phase # "failed",
           AfterRetryable(post[c]).phase = "failed"
    PROVE  /\ faults \in Nat /\ faults + 1 >= MaxAttempts
           /\ RefusalUnderWay(c) => faults >= MaxAttempts
<1>1. post[c] \in [phase : Phases, attempt : 1 .. MaxAttempts] /\ faults \in Nat
  BY DEF UploadInv, UploadTypeOK
<1>2. post[c].attempt = MaxAttempts
  BY <1>1, RetryEffect
<1>3. /\ post[c].attempt <= faults + 1
      /\ RefusalUnderWay(c) => post[c].attempt <= faults
  BY DEF UploadInv, AttemptsAreFaults
<1>4. QED
  BY <1>1, <1>2, <1>3, UploadAssumption

\* No combination of fewer than MaxAttempts faults ends an upload, for any
\* number of post steps, although one restart may cost each of them an attempt.
THEOREM FaultsOutlasted == UploadSpec => FaultsAreOutlasted
<1>1. UploadInv /\ [UploadNext]_uploadVars
        => [\A c \in Posts :
              /\ post[c].phase # "failed" /\ post'[c].phase = "failed"
              /\ faults' # faults \/ (conn[c] # NoConn /\ handler[conn[c]].status = 500)
              => faults' >= MaxAttempts]_uploadVars
  <2> SUFFICES ASSUME UploadInv, UploadNext, NEW c \in Posts,
                      post[c].phase # "failed", post'[c].phase = "failed",
                      faults' # faults \/ (conn[c] # NoConn /\ handler[conn[c]].status = 500)
               PROVE  faults' >= MaxAttempts
    OBVIOUS
  <2>1. post \in [Posts -> [phase : Phases, attempt : 1 .. MaxAttempts]]
    BY DEF UploadInv, UploadTypeOK
  <2>2. conn[c] # NoConn => post[c].phase = "runs"
    BY DEF UploadInv, ConnectionsAreServed
  <2>3. ASSUME NEW d \in Posts, Retry(d), Fault
        PROVE  faults' >= MaxAttempts
    <3>1. post'[c] = AfterRetryable(post[c])
      BY <2>1, <2>3 DEF Retry
    <3>2. QED
      BY <2>3, <3>1, LastAttempt, UploadAssumption DEF Fault
  <2>4. ASSUME NEW d \in Posts, NEW phase, GoTo(d, phase), UNCHANGED faults,
               post[d].phase \in {"oidc", "token"} \/ handler[conn[d]].status # 500
        PROVE  FALSE
    <3>1. d = c
      BY <2>1, <2>4 DEF GoTo
    <3>2. QED
      BY <2>2, <2>4, <3>1
  <2>5. ASSUME NEW d \in Posts, RequestOidcToken(d) \/ RequestUploadToken(d)
        PROVE  faults' >= MaxAttempts
    <3>1. post[d].phase \in {"oidc", "token"}
      BY <2>5 DEF RequestOidcToken, RequestUploadToken
    <3>2. \/ Retry(d) /\ Fault
          \/ \E phase \in Phases : GoTo(d, phase) /\ UNCHANGED faults
      BY <2>5 DEF RequestOidcToken, RequestUploadToken, Phases
    <3>3. QED
      BY <2>3, <2>4, <3>1, <3>2
  <2>6. ASSUME NEW d \in Posts,
               LoseTokenExchange(d) \/ LoseRun(d) \/ LoseReply(d) \/ AbandonRun(d)
        PROVE  faults' >= MaxAttempts
    BY <2>3, <2>6 DEF LoseTokenExchange, LoseRun, LoseReply, AbandonRun
  <2>7. ASSUME NEW d \in Posts, ReceiveReply(d)
        PROVE  faults' >= MaxAttempts
    <3>1. UNCHANGED faults /\ conn[d] # NoConn /\ handler[conn[d]].call = "replied"
      BY <2>7 DEF ReceiveReply
    <3>2. CASE handler[conn[d]].status # 500
      <4>1. \E phase \in Phases : GoTo(d, phase)
        BY <2>7, <3>2 DEF ReceiveReply, Phases
      <4>2. QED
        BY <2>4, <3>1, <3>2, <4>1
    <3>3. CASE handler[conn[d]].status = 500
      <4>1. post' = [post EXCEPT ![d] = AfterRetryable(post[d])]
        BY <2>7, <3>3 DEF ReceiveReply, Retry
      <4>2. d = c /\ AfterRetryable(post[c]).phase = "failed"
        BY <2>1, <4>1
      <4>3. RefusalUnderWay(c)
        BY <3>1, <3>3, <4>2 DEF RefusalUnderWay
      <4>4. QED
        BY <3>1, <4>2, <4>3, LastAttempt
    <3>4. QED
      BY <3>2, <3>3
  <2>8. CASE RestartServer
    <3>1. faults' = faults + 1 /\ post'[c] \in {post[c], AfterRetryable(post[c])}
      BY <2>8 DEF RestartServer, Fault
    <3>2. AfterRetryable(post[c]).phase = "failed"
      BY <3>1
    <3>3. QED
      BY <3>1, <3>2, LastAttempt, UploadAssumption
  <2>9. /\ \A d \in Posts : ~SendRun(d)
        /\ \A h \in Handlers : ~ServeRun(h)
        /\ ~UNCHANGED postVars
    BY DEF SendRun, ServeRun, postVars
  <2>10. QED
    BY <2>5, <2>6, <2>7, <2>8, <2>9 DEF UploadNext, PostStep
<1>2. QED
  BY <1>1, UploadInvariant, PTL DEF UploadSpec, FaultsAreOutlasted
=============================================================================
