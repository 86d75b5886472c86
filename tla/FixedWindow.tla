----------------------------- MODULE FixedWindow -----------------------------
(***************************************************************************)
(* The decision table of fixedWindowLimiter.Allow in                       *)
(* server/web/handler/server.go, as pure operators on the counter kept for *)
(* one key.  A key with no entry in the `hits' map has the counter NoHit.   *)
(*                                                                         *)
(* The early returns of Allow for a nil limiter, an empty key, a           *)
(* non-positive limit and a non-positive window are decided by its two     *)
(* callers, which always pass a decimal owner id or a request address, a   *)
(* positive constant limit and time.Minute: the assumption below.          *)
(*                                                                         *)
(* A definition marked faulty is a variant of the one after it, used only  *)
(* to show that the properties of the limiter notice the fault.            *)
(***************************************************************************)
EXTENDS Integers

CONSTANTS RateLimit,    \* ownerIngestRatePerMinute or publicRouteRatePerMinute
          RateWindow    \* time.Minute, in ticks of the model's clock

ASSUME RateAssumption == RateLimit \in Nat \ {0} /\ RateWindow \in Nat \ {0}

\* fixedWindowCounter
Hit == [windowStart : Nat, count : Nat]

\* The key has no entry in l.hits.  A zero count distinguishes it: an entry
\* is created with count 1 and only ever incremented.
NoHit == [windowStart |-> 0, count |-> 0]

\* Faulty: a time before windowStart counts as past the window too.
WindowLeft(hit, now) == hit = NoHit \/ now - hit.windowStart \notin 0..(RateWindow - 1)

\* "!ok || now.Sub(hit.windowStart) >= window".  now may lie before
\* windowStart: the caller evaluates time.Now() before it takes the lock.
WindowOver(hit, now) == hit = NoHit \/ now - hit.windowStart >= RateWindow

\* The value Allow returns.
Allowed(hit, now) == WindowOver(hit, now) \/ hit.count < RateLimit

\* The entry Allow leaves behind.
AfterAllow(hit, now) ==
    CASE WindowOver(hit, now)    -> [windowStart |-> now, count |-> 1]
      [] ~Allowed(hit, now)      -> hit
      [] OTHER                   -> [hit EXCEPT !.count = @ + 1]
=============================================================================
