------------------------------ MODULE Lineage ------------------------------
(***************************************************************************)
(* The processes behind the events of agent/src/main.rs: lineage_for_pid    *)
(* and its ProcessCache, which read /proc while processes come and go, and  *)
(* build_process_lineage_tree, which merges the lineages of all events into *)
(* the forest that the summary shows.                                       *)
(*                                                                         *)
(* An event is handled some time after its process made the connection, so  *)
(* the process may be gone, and the chain to the first process is read one  *)
(* file at a time.  A process that ends leaves its children to process 1.   *)
(* Process ids are not used twice: within a job the kernel's counter does   *)
(* not come round.  A process that is read while it ends has no start time, *)
(* and is another node than the same process read before.                   *)
(*                                                                         *)
(* Right before some definitions stands a faulty variant of them, used only *)
(* to show that the properties notice the fault.                            *)
(***************************************************************************)
EXTENDS Naturals, Sequences, SequencesExt, FiniteSets, FiniteSetsExt

CONSTANTS MaxPid,           \* bound: processes that are ever started
          MaxLineageDepth,  \* MAX_LINEAGE_DEPTH
          MaxTraced         \* cfg.max_events

ASSUME LineageAssumption == {MaxPid, MaxLineageDepth, MaxTraced} \subseteq Nat \ {0}

VARIABLES lastPid,   \* the kernel's counter
          alive,     \* the processes that /proc shows
          ppid,      \* ppid[p]: the parent of p, or what it last was
          cache,     \* ProcessCache: what was last read of each process
          walk,      \* lineage_for_pid under way
          events,    \* the lineages of the events so far, the first process first
          parents    \* history: the <<parent, child>> pairs there ever were

lineageVars == <<lastPid, alive, ppid, cache, walk, events, parents>>

Pids == 1..MaxPid
\* A key stands for ProcessKey: the pid and whether the start time is known.
NotRead == [key |-> <<0, FALSE>>, ppid |-> 0]
NoWalk == [phase |-> "none", of |-> 0, pid |-> 0, ppid |-> 0, chain |-> <<>>]

LineageInit ==
    /\ lastPid = 1 /\ alive = {1}
    /\ ppid = [p \in Pids |-> 0]
    /\ cache = [p \in Pids |-> NotRead]
    /\ walk = NoWalk
    /\ events = <<>>
    /\ parents = {}
-----------------------------------------------------------------------------
(* The processes of the job *)

Fork(p) ==
    /\ p \in alive /\ lastPid < MaxPid
    /\ lastPid' = lastPid + 1
    /\ alive' = alive \cup {lastPid + 1}
    /\ ppid' = [ppid EXCEPT ![lastPid + 1] = p]
    /\ parents' = parents \cup {<<p, lastPid + 1>>}
    /\ UNCHANGED <<cache, walk, events>>

Exit(p) ==
    LET orphans == {c \in alive \ {p} : ppid[c] = p}
    IN /\ p \in alive \ {1}
       /\ alive' = alive \ {p}
       /\ ppid' = [c \in Pids |-> IF c \in orphans THEN 1 ELSE ppid[c]]
       /\ parents' = parents \cup {<<1, c>> : c \in orphans}
       /\ UNCHANGED <<lastPid, cache, walk, events>>
-----------------------------------------------------------------------------
(* lineage_for_pid *)

StartWalk(p) ==
    /\ walk = NoWalk /\ p <= lastPid /\ Len(events) < MaxTraced
    /\ walk' = [NoWalk EXCEPT !.phase = "status", !.of = p, !.pid = p]
    /\ UNCHANGED <<lastPid, alive, ppid, cache, events, parents>>

\* The loop is over: an event without a lineage gets the fall-back one.
EndWalk(chain) ==
    /\ events' = Append(events, IF chain = <<>> THEN <<<<walk.of, FALSE>>>> ELSE chain)
    /\ walk' = NoWalk

\* One round of the loop with what was read, up to the next one.
Push(info) ==
    LET chain == <<info.key>> \o walk.chain
    IN IF \/ info.ppid = 0 \/ Len(chain) = MaxLineageDepth
          \/ info.ppid \in {key[1] : key \in Range(chain)}
       THEN EndWalk(chain)
       ELSE /\ walk' = [walk EXCEPT !.phase = "status", !.pid = info.ppid, !.chain = chain]
            /\ UNCHANGED events

\* read_process_info: /proc/pid/status of a live process ...
ReadStatus ==
    /\ walk.phase = "status"
    /\ walk.pid \in alive
    /\ walk' = [walk EXCEPT !.phase = "stat", !.ppid = ppid[walk.pid]]
    /\ UNCHANGED <<lastPid, alive, ppid, cache, events, parents>>

\* ... and /proc/pid/stat, which is gone if the process has ended since.
ReadStat ==
    LET info == [key |-> <<walk.pid, walk.pid \in alive>>, ppid |-> walk.ppid]
    IN /\ walk.phase = "stat"
       /\ cache' = [cache EXCEPT ![walk.pid] = info]
       /\ Push(info)
       /\ UNCHANGED <<lastPid, alive, ppid, parents>>

\* Faulty: what cannot be read is taken for a child of process 1.
ReadAsOrphan ==
    /\ walk.phase = "status"
    /\ walk.pid \notin alive
    /\ Push([key |-> <<walk.pid, FALSE>>, ppid |-> 1])
    /\ UNCHANGED <<lastPid, alive, ppid, cache, parents>>

\* get_or_refresh of a process that is gone: what was read of it earlier, or the
\* end of the lineage.
ReadCached ==
    /\ walk.phase = "status"
    /\ walk.pid \notin alive
    /\ IF cache[walk.pid] = NotRead THEN EndWalk(walk.chain) ELSE Push(cache[walk.pid])
    /\ UNCHANGED <<lastPid, alive, ppid, cache, parents>>

LineageNext ==
    \/ \E p \in Pids : Fork(p) \/ Exit(p) \/ StartWalk(p)
    \/ ReadStatus \/ ReadStat \/ ReadCached

LineageSpec == LineageInit /\ [][LineageNext]_lineageVars
-----------------------------------------------------------------------------
(* build_process_lineage_tree: flat, its parent keys, the roots and what is *)
(* reached from them.                                                       *)

Flat == UNION {Range(events[i]) : i \in DOMAIN events}
NoKey == <<0, FALSE>>

\* The process before key in the first event that has one; parent_key is set once.
ParentKey(key) ==
    LET occurrences == {o \in (DOMAIN events) \X (2..MaxLineageDepth) :
                           o[2] <= Len(events[o[1]]) /\ events[o[1]][o[2]] = key}
        first == CHOOSE o \in occurrences : \A q \in occurrences : o[1] <= q[1]
    IN IF occurrences = {} THEN NoKey ELSE events[first[1]][first[2] - 1]

\* Faulty: only a process without a parent of its own is a root.
RootsAtTheTop == {key \in Flat : key[1] = 1}
Roots == {key \in Flat : ParentKey(key) \notin Flat}

\* build_node from every root.
Tree ==
    LET parent == [key \in Flat |-> ParentKey(key)]
        Level[n \in Nat] ==
            IF n = 0 THEN Roots
            ELSE LET above == Level[n - 1]
                 IN above \cup {key \in Flat : parent[key] \in above}
    IN Level[Cardinality(Flat)]
-----------------------------------------------------------------------------
(* Properties *)

\* No event is missing from the tree: the process of every event is reached from
\* a root, although the lineages it is merged from were cut short, taken from the
\* cache, or read while parents died and disagree with each other.
EventsAreInTheTree == {Last(events[i]) : i \in DOMAIN events} \subseteq Tree

\* The tree tells no false stories: a process is shown under another one only if
\* that one was really its parent at some time.
TreeEdgesWereParents ==
    \A key \in Flat : ParentKey(key) = NoKey \/ <<ParentKey(key)[1], key[1]>> \in parents
=============================================================================
