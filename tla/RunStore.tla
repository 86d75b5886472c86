------------------------------ MODULE RunStore ------------------------------
(***************************************************************************)
(* What the control-plane promises about uploaded runs, without handlers,   *)
(* tokens, clocks or retries: a run is first authorised, under a key and    *)
(* for one payload, and only an authorised payload is ever stored under     *)
(* that key.  Storing again under the same key replaces the payload.        *)
(* RunIngest is shown to implement this specification.                      *)
(***************************************************************************)
EXTENDS Naturals

CONSTANTS Keys, Bodies

VARIABLES authorised,  \* the <<key, body>> pairs an upload may store
          stored       \* the <<key, body>> pairs that are stored

\* POST /runs/token, seen from outside.
Authorise(k, b) ==
    /\ authorised' = authorised \union {<<k, b>>}
    /\ UNCHANGED stored

\* POST /runs, seen from outside.
Store(k, b) ==
    /\ <<k, b>> \in authorised
    /\ stored' = {kb \in stored : kb[1] # k} \union {<<k, b>>}
    /\ UNCHANGED authorised

StoreInit == authorised = {} /\ stored = {}
StoreNext == \E k \in Keys, b \in Bodies : Authorise(k, b) \/ Store(k, b)
StoreSpec == StoreInit /\ [][StoreNext]_<<authorised, stored>>
=============================================================================
