---------------------------- MODULE MCEnrichment ----------------------------
(***************************************************************************)
(* Two back-to-back jobs of one attempt on one runner, closer together than *)
(* the slack, and a job of a second attempt.  Two runs: the tokens of one   *)
(* name the first job's window, or that of the second attempt on the same   *)
(* or on another runner, those of the other one name the second job's       *)
(* window or none.                                                          *)
(***************************************************************************)
EXTENDS Enrichment

CONSTANTS e1, e2, c1, c2, c3, c4, c5, j1, j2, j3

MCCapture == [c \in Captures |->
    CASE c = c1 -> [attempt |-> 1, runner |-> 1, start |-> 1, end |-> 2]
      [] c = c2 -> [attempt |-> 1, runner |-> 1, start |-> 3, end |-> 3]
      [] c = c3 -> [attempt |-> 2, runner |-> 2, start |-> 1, end |-> 2]
      [] c = c4 -> [attempt |-> 2, runner |-> 1, start |-> 1, end |-> 2]
      [] c = c5 -> [attempt |-> 1, runner |-> 1, start |-> 1, end |-> 2]]
MCNamed == [e \in Executions |-> IF e = e1 THEN {c1, c3, c4} ELSE {c2, c5}]
MCJob == [j \in Jobs |->
    CASE j = j1 -> [attempt |-> 1, runner |-> 1, start |-> 1, end |-> 2]
      [] j = j2 -> [attempt |-> 1, runner |-> 1, start |-> 3, end |-> 3]
      [] j = j3 -> [attempt |-> 2, runner |-> 1, start |-> 1, end |-> 2]]
=============================================================================
