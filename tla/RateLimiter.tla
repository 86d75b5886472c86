----------------------------- MODULE RateLimiter -----------------------------
(***************************************************************************)
(* The fixed window limiter of server/web/handler/server.go as requests use *)
(* it: each caller reads the clock, then calls Allow, which takes the lock  *)
(* and decides with the time it was given.  Between the two other requests *)
(* may pass, so Allow sees times out of order and counts a late request in  *)
(* a window that began after it, or opens a window that began long ago.     *)
(* One key is modelled: the entries of the map do not touch each other.     *)
(* Requests are told apart only by the time they read, so they are counted. *)
(***************************************************************************)
EXTENDS FixedWindow, FiniteSets, FiniteSetsExt

CONSTANTS MaxWaiting, \* bound: requests between time.Now() and the lock at once
          MaxStall,   \* ticks a request may spend there
          MaxTime     \* bound: the last tick

ASSUME LimiterAssumption ==
    /\ MaxWaiting \in Nat
    /\ MaxStall \in 0..(RateWindow - 1)
    /\ MaxTime \in Nat

VARIABLES clock,     \* the process's clock
          hit,       \* l.hits[key]
          waiting,   \* waiting[t]: requests that read time t and have not decided
          admitted   \* admitted[t]: requests admitted at time t

limiterVars == <<clock, hit, waiting, admitted>>

Times == 0..MaxTime
NoCalls == [t \in Times |-> 0]
Total(f, S) == FoldSet(LAMBDA t, n : f[t] + n, 0, S)

LimiterInit ==
    /\ clock = 0
    /\ hit = NoHit
    /\ waiting = NoCalls /\ admitted = NoCalls

\* allowPublicRouteRequest and the ingest handlers evaluate time.Now() as an
\* argument of Allow.
ReadClock ==
    /\ Total(waiting, Times) < MaxWaiting
    /\ waiting' = [waiting EXCEPT ![clock] = @ + 1]
    /\ UNCHANGED <<clock, hit, admitted>>

\* Allow, decided under l.mu: an admitted request goes on, a refused one is
\* answered 429.
Allow(now) ==
    /\ waiting[now] > 0
    /\ waiting' = [waiting EXCEPT ![now] = @ - 1]
    /\ hit' = AfterAllow(hit, now)
    /\ admitted' = IF Allowed(hit, now) THEN [admitted EXCEPT ![clock] = @ + 1] ELSE admitted
    /\ UNCHANGED clock

\* Time passes, but no request waits for the lock longer than MaxStall.
LimiterTick ==
    /\ clock < MaxTime
    /\ \A t \in Times : waiting[t] > 0 => clock - t < MaxStall
    /\ clock' = clock + 1
    /\ UNCHANGED <<hit, waiting, admitted>>

LimiterNext == \/ ReadClock
               \/ \E now \in Times : Allow(now)
               \/ LimiterTick

LimiterSpec == LimiterInit /\ [][LimiterNext]_limiterVars
-----------------------------------------------------------------------------
(* Properties *)

\* However the requests overtake each other, any stretch of time of one window's
\* length sees at most two windows' worth of admitted requests when every request
\* decides at the moment it reads the clock, and at most three when requests may
\* stall before the lock: the limit the constant names is not the most that a
\* minute can bring.
BurstsAreBounded ==
    LET windows == IF MaxStall = 0 THEN 2 ELSE 3
    IN \A from \in 0..(MaxTime + 1 - RateWindow) :
           Total(admitted, from..(from + RateWindow - 1)) <= windows * RateLimit
=============================================================================
