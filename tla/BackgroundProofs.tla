-------------------------- MODULE BackgroundProofs --------------------------
(***************************************************************************)
(* Theorems about what goes on without a request: Migrate, for every set of *)
(* processes and every number of files and faults, Enrichment, for every    *)
(* set of runs and jobs, and the agent in the job: AgentRun, for every      *)
(* number of lines and events, and Lineage, for every number of processes   *)
(* and events and every depth.                                              *)
(***************************************************************************)
EXTENDS Migrate, Enrichment, AgentRun, Lineage, FiniteSetTheorems, WellFoundedInduction, TLAPS

-----------------------------------------------------------------------------
(* Greatest and least numbers *)

\* The least number of a set that is not empty.
LEMMA MinOfNaturals ==
    ASSUME NEW S, S \subseteq Nat, S # {}
    PROVE  Min(S) \in S /\ \A y \in S : Min(S) <= y
<1> DEFINE R == OpToRel(<, Nat)
<1>1. IsWellFoundedOn(R, Nat)
  BY NatLessThanWellFounded
<1>2. \A x, y \in Nat : x < y <=> <<x, y>> \in R
  BY DEF OpToRel
<1> HIDE DEF R
<1>3. PICK x \in S : \A y \in S : ~(<<y, x>> \in R)
  BY <1>1, WFMin
<1>4. \A y \in S : x \in Nat /\ y \in Nat /\ ~(y < x)
  BY <1>2, <1>3, Zenon
<1>5. \A y \in S : x <= y
  BY <1>4
<1>6. QED
  BY <1>3, <1>5 DEF Min

\* The greatest number of a set that has a bound.
LEMMA MaxOfNaturals ==
    ASSUME NEW S, S \subseteq Nat, S # {}, NEW b \in Nat, \A y \in S : y <= b
    PROVE  Max(S) \in S /\ \A y \in S : y <= Max(S)
<1> DEFINE B == {c \in Nat : \A y \in S : y <= c}
<1>1. Min(B) \in B /\ \A c \in B : Min(B) <= c
  BY MinOfNaturals
<1> DEFINE m == Min(B)
<1> HIDE DEF m
<1>2. m \in Nat /\ (\A y \in S : y <= m) /\ \A c \in B : m <= c
  BY <1>1 DEF m
<1>3. m \in S
  <2>1. SUFFICES ASSUME m \notin S PROVE FALSE
    OBVIOUS
  <2>2. PICK y \in S : TRUE
    OBVIOUS
  <2>3. m # 0
    BY <1>2, <2>1, <2>2
  <2>4. m - 1 \in B
    BY <1>2, <2>1, <2>3
  <2>5. QED
    BY <1>2, <2>4
<1>4. \A y \in S : m >= y
  BY <1>2
<1>5. QED
  BY <1>3, <1>4 DEF Max

\* The numbers given to the members of a finite set have a bound.
LEMMA FinitelyManyAreBounded ==
    ASSUME NEW S, IsFiniteSet(S), NEW f \in [S -> Nat]
    PROVE  \E b \in Nat : \A s \in S : f[s] <= b
<1>1. PICK seq \in Seq(S) : \A s \in S : \E n \in 1 .. Len(seq) : seq[n] = s
  BY DEF IsFiniteSet
<1> DEFINE g == [i \in 1 .. Len(seq) |-> f[seq[i]]]
<1>2. Len(seq) \in Nat /\ g \in [1 .. Len(seq) -> Nat]
  OBVIOUS
<1>3. \A s \in S : \E i \in 1 .. Len(seq) : f[s] = g[i]
  BY <1>1
<1> DEFINE N == Len(seq)
<1> HIDE DEF g, N
<1>4. N \in Nat /\ g \in [1 .. N -> Nat] /\ \A s \in S : \E i \in 1 .. N : f[s] = g[i]
  BY <1>2, <1>3 DEF N
<1> DEFINE Bounded(n) == \E b \in Nat : \A i \in 1 .. n : g[i] <= b
           T == {n \in 0 .. N : ~Bounded(n)}
<1>5. Bounded(0)
  OBVIOUS
<1>6. ASSUME NEW n \in 1 .. N, Bounded(n - 1)
      PROVE  Bounded(n)
  <2>1. PICK b \in Nat : \A i \in 1 .. (n - 1) : g[i] <= b
    BY <1>6
  <2>2. g[n] \in Nat /\ b + g[n] \in Nat
    BY <1>4
  <2>3. \A i \in 1 .. n : g[i] <= b + g[n]
    <3>1. TAKE i \in 1 .. n
    <3>2. g[i] \in Nat
      BY <1>4
    <3>3. CASE i = n
      BY <2>2, <3>3
    <3>4. CASE i # n
      <4>1. g[i] <= b
        BY <2>1, <3>4
      <4>2. QED
        BY <2>2, <3>2, <4>1
    <3>5. QED
      BY <3>3, <3>4
  <2>4. QED
    BY <2>2, <2>3
<1> HIDE DEF Bounded
<1>7. T = {}
  <2>1. SUFFICES ASSUME T # {} PROVE FALSE
    OBVIOUS
  <2>2. T \subseteq Nat
    BY <1>4
  <2>3. PICK n \in T : \A k \in T : n <= k
    BY <2>1, <2>2, MinOfNaturals
  <2>4. n \in 1 .. N /\ n - 1 \in 0 .. N /\ n - 1 \notin T
    BY <1>4, <1>5, <2>3
  <2>5. QED
    BY <1>6, <2>3, <2>4
<1>8. Bounded(N)
  <2>1. N \in 0 .. N
    BY <1>4
  <2>2. QED
    BY <1>7, <2>1
<1>9. PICK b \in Nat : \A i \in 1 .. N : g[i] <= b
  BY <1>8 DEF Bounded
<1>10. QED
  BY <1>4, <1>9

-----------------------------------------------------------------------------
(* Migrate: the inductive invariant *)

ProcessState ==
    [phase : {"down", "next", "statements", "record", "commit", "done", "serving"},
     applied : SUBSET Versions,
     version : 0 .. Max({Files[p] : p \in Processes} \union {0})]

MigrateTypeOK ==
    /\ recorded \subseteq Versions
    /\ effects \in [Versions -> Nat]
    /\ order \in [Versions -> Nat]
    /\ process \in [Processes -> ProcessState]

\* What a process read of the table, and what it has gone past, is still
\* recorded; it is past everything before the version it works on.
PastIsRecorded(q) ==
    /\ q.applied \subseteq recorded
    /\ q.phase = "next" => 1 .. q.version \subseteq recorded
    /\ q.phase \in {"statements", "record", "commit"} =>
         q.version # 0 /\ 1 .. (q.version - 1) \subseteq recorded

\* The primary key: a version about to be committed is new, and in one hand.
KeyIsNew ==
    \A p \in Processes : process[p].phase = "commit" =>
       /\ process[p].version \notin recorded
       /\ \A q \in Processes : process[q].phase = "commit" /\ process[q].version = process[p].version
                               => q = p

MigrateInv ==
    /\ MigrateTypeOK
    /\ \A p \in Processes : PastIsRecorded(process[p])
    /\ KeyIsNew
    /\ MigrationsTakeEffectOnce
    /\ MigrationsAreInOrder

\* The files of a process are versions.
LEMMA FilesAreVersions ==
    /\ Max({Files[p] : p \in Processes} \union {0}) \in Nat
    /\ \A p \in Processes : 1 .. Files[p] \subseteq Versions
<1> DEFINE S == {Files[p] : p \in Processes} \union {0}
<1>1. IsFiniteSet(Processes) /\ Files \in [Processes -> Nat]
  BY MigrateAssumption
<1>2. PICK b \in Nat : \A p \in Processes : Files[p] <= b
  BY <1>1, FinitelyManyAreBounded
<1>3. S \subseteq Nat /\ S # {} /\ \A y \in S : y <= b
  BY <1>1, <1>2
<1>4. Max(S) \in S /\ \A y \in S : y <= Max(S)
  BY <1>3, MaxOfNaturals
<1>5. \A p \in Processes : Files[p] \in S
  OBVIOUS
<1>6. Versions = 1 .. Max(S)
  BY DEF Versions
<1> HIDE DEF S
<1>7. Max(S) \in Nat /\ \A p \in Processes : Files[p] \in Nat /\ Files[p] <= Max(S)
  BY <1>3, <1>4, <1>5
<1>8. \A p \in Processes : 1 .. Files[p] \subseteq Versions
  BY <1>6, <1>7
<1>9. QED
  BY <1>7, <1>8 DEF S

\* The recorded versions are the first ones.
LEMMA RecordedIsAPrefix ==
    ASSUME MigrateInv
    PROVE  \E n \in Nat : recorded = 1 .. n
<1>1. recorded \subseteq Nat /\ \A v \in recorded : v <= Max({Files[p] : p \in Processes} \union {0})
  BY FilesAreVersions DEF MigrateInv, MigrateTypeOK, Versions
<1>2. IsFiniteSet(recorded)
  BY <1>1, FilesAreVersions, FS_BoundedSetOfNaturals
<1>3. Cardinality(recorded) \in Nat
  BY <1>2, FS_CardinalityType
<1>4. QED
  BY <1>3 DEF MigrateInv, MigrationsAreInOrder

\* Nothing is recorded at first.
LEMMA MigrateInitially == MigrateInit => MigrateInv
<1> USE DEF ProcessState
<1> SUFFICES ASSUME MigrateInit PROVE MigrateInv
  OBVIOUS
<1> USE DEF MigrateInit
<1>1. MigrateTypeOK
  <2>1. 0 \in 0 .. Max({Files[p] : p \in Processes} \union {0})
    BY FilesAreVersions
  <2>2. QED
    BY <2>1 DEF MigrateTypeOK, Down
<1>2. \A p \in Processes : PastIsRecorded(process[p])
  BY DEF PastIsRecorded, Down
<1>3. KeyIsNew
  BY DEF KeyIsNew, Down
<1>4. MigrationsTakeEffectOnce
  BY DEF MigrationsTakeEffectOnce
<1>5. MigrationsAreInOrder
  <2>1. Cardinality(recorded) = 0
    BY FS_EmptySet
  <2>2. QED
    BY <2>1 DEF MigrationsAreInOrder
<1>6. QED
  BY <1>1, <1>2, <1>3, <1>4, <1>5 DEF MigrateInv

\* A step of a process that commits nothing: what is left to show is about it.
LEMMA ProcessMoves ==
    ASSUME MigrateInv, NEW p \in Processes, NEW next,
           process' = [process EXCEPT ![p] = next],
           UNCHANGED <<recorded, effects, order>>,
           next \in ProcessState,
           PastIsRecorded(next),
           next.phase = "commit" => next.version \notin recorded /\ ~Recording(next.version)
    PROVE  MigrateInv'
<1>1. /\ process'[p] = next
      /\ \A q \in Processes \ {p} : process'[q] = process[q]
  BY DEF MigrateInv, MigrateTypeOK
<1>2. MigrateTypeOK'
  BY DEF MigrateInv, MigrateTypeOK
<1>3. ASSUME NEW q \in Processes PROVE PastIsRecorded(process[q])'
  <2>1. PastIsRecorded(process'[q])
    BY <1>1 DEF MigrateInv
  <2>2. QED
    BY <2>1 DEF PastIsRecorded
<1>4. KeyIsNew'
  BY <1>1 DEF MigrateInv, KeyIsNew, Recording
<1>5. MigrationsTakeEffectOnce' /\ MigrationsAreInOrder'
  BY DEF MigrateInv, MigrationsTakeEffectOnce, MigrationsAreInOrder
<1>6. QED
  BY <1>2, <1>3, <1>4, <1>5 DEF MigrateInv

\* A process that ends keeps nothing.
LEMMA DownIsFine ==
    /\ Down \in ProcessState
    /\ PastIsRecorded(Down)
    /\ Down.phase = "down"
<1> USE DEF ProcessState
<1>1. 0 \in 0 .. Max({Files[p] : p \in Processes} \union {0})
  BY FilesAreVersions
<1>2. QED
  BY <1>1 DEF Down, PastIsRecorded

\* The loop of Migrate goes to a version whose predecessors are all recorded.
LEMMA NextKeeps ==
    ASSUME MigrateInv, NEW p \in Processes, NextMigration(p)
    PROVE  MigrateInv'
<1> USE DEF ProcessState
<1> DEFINE q == process[p]
           M == Missing(p, Files[p])
<1>1. q \in ProcessState /\ PastIsRecorded(q) /\ q.phase = "next"
  BY DEF MigrateInv, MigrateTypeOK, NextMigration, GoOn
<1>2. UNCHANGED <<recorded, effects, order>>
  BY DEF NextMigration, GoOn
<1>3. CASE M # {}
  <2>1. M \subseteq Nat /\ M \subseteq 1 .. Files[p] /\ Files[p] \in Nat
    BY MigrateAssumption DEF Missing
  <2>2. Min(M) \in M /\ \A y \in M : Min(M) <= y
    BY <1>3, <2>1, MinOfNaturals
  <2> DEFINE v == Min(M)
             next == [q EXCEPT !.phase = "statements", !.version = v]
  <2>3. process' = [process EXCEPT ![p] = next]
    BY <1>3 DEF NextMigration, GoOn, Step
  <2> HIDE DEF v
  <2>4. v \in M /\ (\A y \in M : v <= y) /\ v \in 1 .. Files[p] /\ v \in Nat
    BY <2>1, <2>2 DEF v
  <2>5. v \in Versions /\ v \in 0 .. Max({Files[r] : r \in Processes} \union {0})
    BY <2>4, FilesAreVersions DEF Versions
  <2>6. 1 .. (v - 1) \subseteq recorded
    <3>1. SUFFICES ASSUME NEW u \in 1 .. (v - 1) PROVE u \in recorded
      OBVIOUS
    <3>2. u \in Nat /\ u < v /\ u \in 1 .. Files[p] /\ u \notin M
      BY <2>1, <2>4
    <3>3. u <= q.version \/ u \in q.applied
      BY <1>1, <3>2 DEF Missing
    <3>4. CASE u \in q.applied
      BY <1>1, <3>4 DEF PastIsRecorded
    <3>5. CASE u <= q.version
      <4>1. u \in 1 .. q.version
        BY <1>1, <3>2, <3>5
      <4>2. QED
        BY <1>1, <4>1 DEF PastIsRecorded
    <3>6. QED
      BY <3>3, <3>4, <3>5
  <2>7. /\ next \in ProcessState /\ next.phase = "statements" /\ next.version = v
        /\ next.applied = q.applied
    BY <1>1, <2>5
  <2> HIDE DEF q, next
  <2>8. PastIsRecorded(next)
    BY <1>1, <2>4, <2>6, <2>7 DEF PastIsRecorded
  <2>9. QED
    BY <1>2, <2>3, <2>7, <2>8, ProcessMoves
<1>4. CASE M = {}
  <2> DEFINE next == [Down EXCEPT !.phase = IF p \in MigrateOnly THEN "done" ELSE "serving"]
  <2>1. process' = [process EXCEPT ![p] = next]
    BY <1>4 DEF NextMigration, GoOn, Step
  <2>2. next \in ProcessState /\ next.phase \in {"done", "serving"} /\ next.applied = {}
    BY DownIsFine DEF Down
  <2> HIDE DEF next
  <2>3. PastIsRecorded(next)
    BY <2>2 DEF PastIsRecorded
  <2>4. QED
    BY <1>2, <2>1, <2>2, <2>3, ProcessMoves
<1>5. QED
  BY <1>3, <1>4

\* Committing records the version that follows the recorded ones.
LEMMA CommitKeeps ==
    ASSUME MigrateInv, NEW p \in Processes, Commit(p)
    PROVE  MigrateInv'
<1> USE DEF ProcessState
<1> DEFINE q == process[p]
           v == q.version
           next == [q EXCEPT !.phase = "next"]
<1>1. /\ q \in ProcessState /\ PastIsRecorded(q) /\ q.phase = "commit"
      /\ q.version \notin recorded
      /\ \A r \in Processes : process[r].phase = "commit" /\ process[r].version = q.version => r = p
  BY DEF MigrateInv, MigrateTypeOK, KeyIsNew, Commit
<1>2. /\ recorded' = recorded \union {v}
      /\ effects' = [effects EXCEPT ![v] = @ + 1]
      /\ order' = [order EXCEPT ![v] = Max(recorded')]
      /\ process' = [process EXCEPT ![p] = next]
  BY DEF Commit, Step
<1>3. next \in ProcessState /\ next.phase = "next" /\ next.version = v /\ next.applied = q.applied
  BY <1>1
<1>4. PICK n \in Nat : recorded = 1 .. n
  BY RecordedIsAPrefix
<1>5. v \in Nat /\ v # 0 /\ 1 .. (v - 1) \subseteq recorded /\ q.applied \subseteq recorded
  BY <1>1, FilesAreVersions DEF PastIsRecorded
<1>6. v \in Versions
  BY <1>1, <1>5, FilesAreVersions DEF Versions
<1>7. /\ process'[p] = next
      /\ \A r \in Processes \ {p} : process'[r] = process[r] /\ process[r] \in ProcessState
  BY <1>2 DEF MigrateInv, MigrateTypeOK
<1> HIDE DEF q, v, next
<1>8. n = v - 1
  <2>1. v \notin 1 .. n /\ 1 .. (v - 1) \subseteq 1 .. n
    BY <1>1, <1>4, <1>5 DEF v
  <2>2. v > n
    BY <1>5, <2>1
  <2>3. v - 1 = 0 \/ v - 1 \in 1 .. (v - 1)
    BY <1>5
  <2>4. v - 1 = 0 \/ v - 1 <= n
    BY <2>1, <2>3
  <2>5. QED
    BY <1>5, <2>2, <2>4
<1>9. recorded' = 1 .. v /\ recorded = 1 .. (v - 1)
  BY <1>2, <1>4, <1>5, <1>8
<1>10. Max(recorded') = v
  <2>1. recorded' \subseteq Nat /\ v \in recorded' /\ \A y \in recorded' : y <= v
    BY <1>5, <1>9
  <2>2. Max(recorded') \in recorded' /\ \A y \in recorded' : y <= Max(recorded')
    BY <1>5, <2>1, MaxOfNaturals
  <2> DEFINE m == Max(recorded')
  <2> HIDE DEF m
  <2>3. m \in Nat /\ m <= v /\ v <= m
    BY <2>1, <2>2 DEF m
  <2>4. m = v
    BY <1>5, <2>3
  <2>5. QED
    BY <2>4 DEF m
<1>11. MigrateTypeOK'
  <2>1. recorded' \subseteq Versions
    BY <1>2, <1>6 DEF MigrateInv, MigrateTypeOK
  <2>2. effects' \in [Versions -> Nat]
    BY <1>2, <1>6 DEF MigrateInv, MigrateTypeOK
  <2>3. order' \in [Versions -> Nat]
    BY <1>2, <1>5, <1>6, <1>10 DEF MigrateInv, MigrateTypeOK
  <2>4. process' \in [Processes -> ProcessState]
    BY <1>2, <1>3 DEF MigrateInv, MigrateTypeOK
  <2>5. QED
    BY <2>1, <2>2, <2>3, <2>4 DEF MigrateTypeOK
<1>12. ASSUME NEW r \in Processes PROVE PastIsRecorded(process[r])'
  <2>1. CASE r = p
    <3>1. /\ process'[r] = next /\ next.applied \subseteq recorded'
          /\ 1 .. next.version \subseteq recorded'
      BY <1>2, <1>3, <1>5, <1>7, <1>9, <2>1
    <3>2. QED
      BY <1>3, <3>1 DEF PastIsRecorded
  <2>2. CASE r # p
    <3>1. process'[r] = process[r] /\ PastIsRecorded(process[r]) /\ recorded \subseteq recorded'
      BY <1>2, <1>7, <2>2 DEF MigrateInv
    <3>2. QED
      BY <3>1 DEF PastIsRecorded
  <2>3. QED
    BY <2>1, <2>2
<1>13. KeyIsNew'
  <2>1. SUFFICES ASSUME NEW r \in Processes, process'[r].phase = "commit"
                 PROVE  /\ process'[r].version \notin recorded'
                        /\ \A s \in Processes : process'[s].phase = "commit"
                               /\ process'[s].version = process'[r].version => s = r
    BY DEF KeyIsNew
  <2>2. r # p /\ process'[r] = process[r]
    BY <1>3, <1>7, <2>1
  <2>3. process[r].version # v
    BY <1>1, <2>1, <2>2 DEF v
  <2>4. ASSUME NEW s \in Processes, process'[s].phase = "commit",
               process'[s].version = process'[r].version
        PROVE  s = r
    <3>1. s # p /\ process'[s] = process[s]
      BY <1>3, <1>7, <2>4
    <3>2. QED
      BY <2>1, <2>2, <2>4, <3>1 DEF MigrateInv, KeyIsNew
  <2>5. QED
    BY <1>2, <2>1, <2>2, <2>3, <2>4 DEF MigrateInv, KeyIsNew
<1>14. MigrationsTakeEffectOnce'
  <2>1. \A u \in Versions : effects[u] = IF u \in recorded THEN 1 ELSE 0
    BY DEF MigrateInv, MigrationsTakeEffectOnce
  <2>2. v \notin recorded /\ effects \in [Versions -> Nat]
    BY <1>1 DEF v, MigrateInv, MigrateTypeOK
  <2>3. \A u \in Versions : effects'[u] = IF u \in recorded' THEN 1 ELSE 0
    BY <1>2, <1>6, <2>1, <2>2
  <2>4. QED
    BY <2>3 DEF MigrationsTakeEffectOnce
<1>15. MigrationsAreInOrder'
  <2>1. Cardinality(recorded') = v
    BY <1>5, <1>9, FS_Interval
  <2>2. order \in [Versions -> Nat] /\ recorded \subseteq Versions /\ \A u \in recorded : order[u] = u
    BY DEF MigrateInv, MigrateTypeOK, MigrationsAreInOrder
  <2>3. \A u \in recorded' : order'[u] = u
    BY <1>2, <1>6, <1>10, <2>2
  <2>4. QED
    BY <1>9, <2>1, <2>3 DEF MigrationsAreInOrder
<1>16. QED
  BY <1>11, <1>12, <1>13, <1>14, <1>15 DEF MigrateInv

\* Every step of a process keeps the invariant.
LEMMA MigrateInductive == MigrateInv /\ [MigrateNext]_migrateVars => MigrateInv'
<1> USE DEF ProcessState
<1> SUFFICES ASSUME MigrateInv, [MigrateNext]_migrateVars PROVE MigrateInv'
  OBVIOUS
<1>1. CASE UNCHANGED migrateVars
  BY <1>1 DEF migrateVars, MigrateInv, MigrateTypeOK, PastIsRecorded, KeyIsNew,
              MigrationsTakeEffectOnce, MigrationsAreInOrder
<1>2. CASE MigrateNext
  <2>1. PICK p \in Processes : ProcessStep(p) \/ Fail(p)
    BY <1>2 DEF MigrateNext
  <2> DEFINE q == process[p]
  <2>2. q \in ProcessState /\ PastIsRecorded(q)
    BY DEF MigrateInv, MigrateTypeOK
  <2>3. CASE StartProcess(p)
    <3> DEFINE next == [phase |-> "next", applied |-> recorded, version |-> 0]
    <3>1. process' = [process EXCEPT ![p] = next] /\ UNCHANGED <<recorded, effects, order>>
      BY <2>3 DEF StartProcess, Step
    <3>2. 0 \in 0 .. Max({Files[r] : r \in Processes} \union {0}) /\ recorded \subseteq Versions
      BY FilesAreVersions DEF MigrateInv, MigrateTypeOK
    <3>3. next \in ProcessState /\ next.phase = "next" /\ next.applied = recorded /\ next.version = 0
      BY <3>2
    <3> HIDE DEF next
    <3>4. PastIsRecorded(next)
      BY <3>3 DEF PastIsRecorded
    <3>5. QED
      BY <3>1, <3>3, <3>4, ProcessMoves
  <2>4. CASE NextMigration(p)
    BY <2>4, NextKeeps
  <2>5. CASE ExecStatements(p)
    <3> DEFINE next == [q EXCEPT !.phase = "record"]
    <3>1. /\ process' = [process EXCEPT ![p] = next] /\ UNCHANGED <<recorded, effects, order>>
          /\ q.phase = "statements"
      BY <2>5 DEF ExecStatements, Step
    <3>2. /\ next \in ProcessState /\ next.phase = "record"
          /\ next.applied = q.applied /\ next.version = q.version
      BY <2>2
    <3> HIDE DEF next, q
    <3>3. PastIsRecorded(next)
      BY <2>2, <3>1, <3>2 DEF PastIsRecorded
    <3>4. QED
      BY <3>1, <3>2, <3>3, ProcessMoves
  <2>6. CASE StatementsExist(p)
    <3>1. process' = [process EXCEPT ![p] = Down] /\ UNCHANGED <<recorded, effects, order>>
      BY <2>6 DEF StatementsExist, Step
    <3>2. QED
      BY <3>1, DownIsFine, ProcessMoves
  <2>7. CASE Record(p)
    <3>1. UNCHANGED <<recorded, effects, order>> /\ q.phase = "record" /\ ~Recording(q.version)
      BY <2>7 DEF Record
    <3>2. CASE q.version \in recorded
      <4>1. process' = [process EXCEPT ![p] = Down]
        BY <2>7, <3>2 DEF Record, Step
      <4>2. QED
        BY <3>1, <4>1, DownIsFine, ProcessMoves
    <3>3. CASE q.version \notin recorded
      <4> DEFINE next == [q EXCEPT !.phase = "commit"]
      <4>1. process' = [process EXCEPT ![p] = next]
        BY <2>7, <3>3 DEF Record, Step
      <4>2. /\ next \in ProcessState /\ next.phase = "commit"
            /\ next.applied = q.applied /\ next.version = q.version
        BY <2>2
      <4> HIDE DEF next, q
      <4>3. PastIsRecorded(next)
        BY <2>2, <3>1, <4>2 DEF PastIsRecorded
      <4>4. QED
        BY <3>1, <3>3, <4>1, <4>2, <4>3, ProcessMoves
    <3>4. QED
      BY <3>2, <3>3
  <2>8. CASE Commit(p)
    BY <2>8, CommitKeeps
  <2>9. CASE Fail(p)
    <3>1. process' = [process EXCEPT ![p] = Down] /\ UNCHANGED <<recorded, effects, order>>
      BY <2>9 DEF Fail, Step
    <3>2. QED
      BY <3>1, DownIsFine, ProcessMoves
  <2>10. QED
    BY <2>1, <2>3, <2>4, <2>5, <2>6, <2>7, <2>8, <2>9 DEF ProcessStep
<1>3. QED
  BY <1>1, <1>2

\* However many processes migrate at once, and wherever they fail and start again,
\* the invariant holds.
THEOREM MigrateInvariant == MigrateSpec => []MigrateInv
<1>1. QED
  BY MigrateInitially, MigrateInductive, PTL DEF MigrateSpec

\* No migration is applied twice, by any number of processes with any binaries,
\* and none takes effect without being recorded (applyMigration).
THEOREM MigrationsOnce == MigrateSpec => []MigrationsTakeEffectOnce
<1>1. MigrateInv => MigrationsTakeEffectOnce
  BY DEF MigrateInv
<1>2. QED
  BY <1>1, MigrateInvariant, PTL

\* Versions are recorded one after the other, without gaps, although each process
\* reads the table once, at its start (Migrate).
THEOREM MigrationsOrdered == MigrateSpec => []MigrationsAreInOrder
<1>1. MigrateInv => MigrationsAreInOrder
  BY DEF MigrateInv
<1>2. QED
  BY <1>1, MigrateInvariant, PTL

-----------------------------------------------------------------------------
(* Enrichment: the inductive invariant *)

Row == [state : States \union {"none", "purged"}, job : Jobs \union {NoJob},
        capture : Captures \union {NoCapture}]

PassState ==
    [stage : {"idle", "groups", "github", "mark"}, groups : SUBSET Attempts,
     listed : [Executions -> Captures \union {NoCapture}], unavailable : SUBSET Executions,
     ambiguous : SUBSET Executions, matched : SUBSET (Executions \X Jobs)]

EnrichmentTypeOK ==
    /\ rows \in [Executions -> Row]
    /\ \A e \in Executions : rows[e].state \in States => rows[e].capture \in Captures
    /\ completed \subseteq Jobs
    /\ worker \in PassState
    /\ overtaken \subseteq Executions

\* What is shown, or about to be written, fits the capture it was matched by; GitHub
\* does not take back that a job has ended.
IsJobOf(c, j) == Capture[c].attempt = Job[j].attempt /\ Fits(c, j)
ShownJobsFit ==
    \A e \in Executions : rows[e].job # NoJob =>
       /\ rows[e].state = "matched"
       /\ e \in overtaken \/ IsJobOf(rows[e].capture, rows[e].job)
VerdictsFit ==
    \A p \in worker.matched :
       worker.listed[p[1]] # NoCapture /\ IsJobOf(worker.listed[p[1]], p[2])

\* What the pass has read of a run is what is stored, but for the overtaken runs.
ListingIsCurrent ==
    \A e \in Executions : worker.listed[e] # NoCapture =>
       e \in overtaken \/ rows[e].capture = worker.listed[e]

\* The runs that a pass has listed, and those it is going to give a verdict
\* without a job, show none meanwhile: uploads only take jobs away, and the pass
\* itself gives jobs to other runs than these.
ListedShowNoJob ==
    /\ worker.stage = "github" =>
         \A e \in Listed : /\ rows[e].job = NoJob
                           /\ \A f \in Listed : Capture[worker.listed[f]].attempt
                                                  = Capture[worker.listed[e]].attempt
    /\ \A e \in worker.unavailable \union worker.ambiguous : rows[e].job = NoJob

\* The verdicts of a group are made at once, and are gone before the next group.
VerdictsOfOneGroup ==
    /\ worker.stage # "mark" =>
         worker.unavailable = {} /\ worker.ambiguous = {} /\ worker.matched = {}
    /\ worker.matched # {} => worker.unavailable = {}

EnrichmentInv ==
    /\ EnrichmentTypeOK
    /\ ShownJobsFit
    /\ VerdictsFit
    /\ ListingIsCurrent
    /\ ListedShowNoJob
    /\ VerdictsOfOneGroup

\* The pass after a verdict: the verdicts left are the same, and what the pass has
\* read is kept as long as there is a verdict; a group that is done with is not
\* asked GitHub for.
LEMMA AfterMarkKeeps ==
    ASSUME NEW w \in PassState
    PROVE  /\ AfterMark(w) \in PassState
           /\ AfterMark(w).unavailable = w.unavailable
           /\ AfterMark(w).ambiguous = w.ambiguous
           /\ AfterMark(w).matched = w.matched
           /\ AfterMark(w).listed = w.listed \/ AfterMark(w).listed = NothingListed
           /\ w.matched # {} => AfterMark(w).listed = w.listed
           /\ AfterMark(w).stage # "github"
           /\ AfterMark(w).stage # "mark" =>
                w.unavailable = {} /\ w.ambiguous = {} /\ w.matched = {}
<1>1. CASE w.unavailable # {} \/ w.ambiguous # {} \/ w.matched # {}
  <2>1. AfterMark(w) = [w EXCEPT !.stage = "mark"]
    BY <1>1 DEF AfterMark
  <2>2. QED
    BY <1>1, <2>1 DEF PassState
<1>2. CASE w.unavailable = {} /\ w.ambiguous = {} /\ w.matched = {}
  <2>1. AfterMark(w) = IF w.groups = {} THEN NoPass
                                        ELSE [w EXCEPT !.stage = "groups", !.listed = NothingListed]
    BY <1>2 DEF AfterMark
  <2>2. NothingListed \in [Executions -> Captures \union {NoCapture}]
    BY DEF NothingListed
  <2>3. CASE w.groups = {}
    BY <1>2, <2>1, <2>2, <2>3 DEF PassState, NoPass
  <2>4. CASE w.groups # {}
    <3>1. AfterMark(w) = [w EXCEPT !.stage = "groups", !.listed = NothingListed]
      BY <2>1, <2>4
    <3>2. QED
      BY <1>2, <2>2, <3>1 DEF PassState
  <2>5. QED
    BY <2>3, <2>4
<1>3. QED
  BY <1>1, <1>2

\* A step of the pass that writes no row.
LEMMA PassMoves ==
    ASSUME EnrichmentInv, UNCHANGED <<rows, completed>>,
           overtaken' \subseteq overtaken,
           \A e \in overtaken : e \in overtaken' \/ rows[e].job = NoJob,
           NEW w \in PassState, worker' = w,
           \A p \in w.matched : w.listed[p[1]] # NoCapture /\ IsJobOf(w.listed[p[1]], p[2]),
           \A e \in Executions : w.listed[e] # NoCapture =>
              e \in overtaken' \/ rows[e].capture = w.listed[e],
           w.stage = "github" =>
             \A e \in Executions : w.listed[e] # NoCapture =>
                /\ rows[e].job = NoJob
                /\ \A f \in Executions : w.listed[f] # NoCapture =>
                      Capture[w.listed[f]].attempt = Capture[w.listed[e]].attempt,
           \A e \in w.unavailable \union w.ambiguous : rows[e].job = NoJob,
           w.stage # "mark" => w.unavailable = {} /\ w.ambiguous = {} /\ w.matched = {},
           w.matched # {} => w.unavailable = {}
    PROVE  EnrichmentInv'
<1>1. EnrichmentTypeOK'
  BY DEF EnrichmentInv, EnrichmentTypeOK
<1>2. ShownJobsFit'
  BY DEF EnrichmentInv, EnrichmentTypeOK, ShownJobsFit, IsJobOf, Fits
<1>3. VerdictsFit'
  BY DEF VerdictsFit, IsJobOf, Fits
<1>4. ListingIsCurrent'
  BY DEF ListingIsCurrent
<1>5. ListedShowNoJob'
  BY DEF ListedShowNoJob, Listed
<1>6. VerdictsOfOneGroup'
  BY DEF VerdictsOfOneGroup
<1>7. QED
  BY <1>1, <1>2, <1>3, <1>4, <1>5, <1>6 DEF EnrichmentInv

\* A row that is written by anyone: what is left to show is about it.
LEMMA RowChanges ==
    ASSUME EnrichmentInv, NEW e \in Executions, NEW row \in Row,
           rows' = [rows EXCEPT ![e] = row], UNCHANGED completed,
           overtaken' \subseteq Executions,
           \A f \in Executions \ {e} : f \in overtaken' <=> f \in overtaken,
           row.state \in States => row.capture \in Captures,
           row.job # NoJob => /\ row.state = "matched"
                              /\ e \in overtaken' \/ IsJobOf(row.capture, row.job),
           NEW w \in PassState, worker' = w,
           w.listed = worker.listed \/ w.listed = NothingListed,
           w.matched # {} => w.listed = worker.listed,
           w.listed[e] # NoCapture => e \in overtaken' \/ row.capture = w.listed[e],
           w.matched \subseteq worker.matched,
           w.unavailable \subseteq worker.unavailable,
           w.ambiguous \subseteq worker.ambiguous,
           row.job # NoJob => e \notin w.unavailable \union w.ambiguous,
           w.stage = "github" => worker.stage = "github" /\ w.listed = worker.listed /\ row.job = NoJob,
           w.stage # "mark" => w.unavailable = {} /\ w.ambiguous = {} /\ w.matched = {}
    PROVE  EnrichmentInv'
<1>1. /\ rows'[e] = row
      /\ \A f \in Executions \ {e} : rows'[f] = rows[f]
  BY DEF EnrichmentInv, EnrichmentTypeOK
<1>2. EnrichmentTypeOK'
  <2>1. rows' \in [Executions -> Row]
    BY DEF EnrichmentInv, EnrichmentTypeOK
  <2>2. \A f \in Executions : rows'[f].state \in States => rows'[f].capture \in Captures
    BY <1>1 DEF EnrichmentInv, EnrichmentTypeOK
  <2>3. QED
    BY <2>1, <2>2 DEF EnrichmentInv, EnrichmentTypeOK
<1>3. ShownJobsFit'
  <2>1. SUFFICES ASSUME NEW f \in Executions, rows'[f].job # NoJob
                 PROVE  /\ rows'[f].state = "matched"
                        /\ f \in overtaken' \/ IsJobOf(rows'[f].capture, rows'[f].job)
    BY DEF ShownJobsFit, IsJobOf, Fits
  <2>2. CASE f = e
    BY <1>1, <2>1, <2>2
  <2>3. CASE f # e
    BY <1>1, <2>1, <2>3 DEF EnrichmentInv, ShownJobsFit
  <2>4. QED
    BY <2>2, <2>3
<1>4. VerdictsFit'
  <2>1. SUFFICES ASSUME NEW p \in w.matched
                 PROVE  w.listed[p[1]] # NoCapture /\ IsJobOf(w.listed[p[1]], p[2])
    BY DEF VerdictsFit, IsJobOf, Fits
  <2>2. w.listed = worker.listed /\ p \in worker.matched
    BY <2>1
  <2>3. QED
    BY <2>2 DEF EnrichmentInv, VerdictsFit
<1>5. ListingIsCurrent'
  <2>1. SUFFICES ASSUME NEW f \in Executions, w.listed[f] # NoCapture
                 PROVE  f \in overtaken' \/ rows'[f].capture = w.listed[f]
    BY DEF ListingIsCurrent
  <2>2. CASE f = e
    BY <1>1, <2>1, <2>2
  <2>3. CASE f # e
    <3>1. w.listed = worker.listed
      BY <2>1 DEF NothingListed
    <3>2. f \in overtaken \/ rows[f].capture = worker.listed[f]
      BY <2>1, <3>1 DEF EnrichmentInv, ListingIsCurrent
    <3>3. QED
      BY <1>1, <2>3, <3>1, <3>2
  <2>4. QED
    BY <2>2, <2>3
<1>6. ListedShowNoJob'
  <2>1. w.unavailable \subseteq Executions /\ w.ambiguous \subseteq Executions
    BY DEF PassState
  <2>2. ASSUME NEW f \in w.unavailable \union w.ambiguous PROVE rows'[f].job = NoJob
    <3>1. f \in Executions /\ rows[f].job = NoJob
      BY <2>1, <2>2 DEF EnrichmentInv, ListedShowNoJob
    <3>2. QED
      BY <1>1, <3>1, <2>2
  <2>3. ASSUME w.stage = "github", NEW f \in Executions, w.listed[f] # NoCapture
        PROVE  /\ rows'[f].job = NoJob
               /\ \A g \in Executions : w.listed[g] # NoCapture =>
                     Capture[w.listed[g]].attempt = Capture[w.listed[f]].attempt
    <3>1. worker.stage = "github" /\ w.listed = worker.listed /\ row.job = NoJob
      BY <2>3
    <3>2. f \in Listed
      BY <2>3, <3>1 DEF Listed
    <3>3. /\ rows[f].job = NoJob
          /\ \A g \in Listed : Capture[worker.listed[g]].attempt = Capture[worker.listed[f]].attempt
      BY <3>1, <3>2 DEF EnrichmentInv, ListedShowNoJob
    <3>4. rows'[f].job = NoJob
      BY <1>1, <3>1, <3>3
    <3>5. QED
      BY <3>1, <3>3, <3>4 DEF Listed
  <2>4. QED
    BY <2>2, <2>3 DEF ListedShowNoJob, Listed
<1>7. VerdictsOfOneGroup'
  BY DEF EnrichmentInv, VerdictsOfOneGroup
<1>8. QED
  BY <1>2, <1>3, <1>4, <1>5, <1>6, <1>7 DEF EnrichmentInv

\* matchJobsToRuns: the verdicts of an answer fit, are about the listed runs, and
\* a run without a verdict of its own is ambiguous.
LEMMA MatchingFits ==
    ASSUME EnrichmentTypeOK, NEW J, J \subseteq Jobs,
           \A e \in Listed, j \in J : Capture[worker.listed[e]].attempt = Job[j].attempt
    PROVE  /\ Matched(Listed, J) \subseteq Executions \X Jobs
           /\ \A p \in Matched(Listed, J) : /\ worker.listed[p[1]] # NoCapture
                                            /\ IsJobOf(worker.listed[p[1]], p[2])
           /\ Ambiguous(Listed, J) \subseteq Listed
<1>1. /\ Matched(Listed, J) \subseteq Listed \X J
      /\ \A p \in Matched(Listed, J) : Matches(p[1], J) = {p[2]}
  BY DEF Matched, Chosen
<1>2. ASSUME NEW p \in Matched(Listed, J)
      PROVE  worker.listed[p[1]] # NoCapture /\ IsJobOf(worker.listed[p[1]], p[2])
  <2>1. p[1] \in Listed /\ p[2] \in J /\ p[2] \in Matches(p[1], J)
    BY <1>1
  <2>2. QED
    BY <2>1 DEF Matches, IsJobOf, Listed
<1>3. Listed \subseteq Executions
  BY DEF Listed
<1>4. QED
  BY <1>1, <1>2, <1>3 DEF Ambiguous

\* Nothing is stored and no pass is under way at first.
LEMMA EnrichmentInitially == EnrichmentInit => EnrichmentInv
<1> SUFFICES ASSUME EnrichmentInit PROVE EnrichmentInv
  OBVIOUS
<1> USE DEF EnrichmentInit
<1>1. NoPass \in PassState
  BY DEF NoPass, PassState, NothingListed
<1>2. NoRow \in Row /\ NoRow.job = NoJob /\ NoRow.state \notin States
  BY DEF NoRow, Row, States
<1>3. EnrichmentTypeOK
  BY <1>1, <1>2 DEF EnrichmentTypeOK
<1>4. ShownJobsFit
  BY <1>2 DEF ShownJobsFit
<1>5. VerdictsFit /\ ListingIsCurrent /\ ListedShowNoJob /\ VerdictsOfOneGroup
  BY DEF VerdictsFit, ListingIsCurrent, ListedShowNoJob, VerdictsOfOneGroup, NoPass, NothingListed
<1>6. QED
  BY <1>3, <1>4, <1>5 DEF EnrichmentInv

\* A pass that ends, or that starts with its groups, keeps the invariant.
LEMMA NoPassIsFine ==
    /\ NoPass \in PassState
    /\ NoPass.stage = "idle" /\ NoPass.matched = {} /\ NoPass.listed = NothingListed
    /\ NoPass.unavailable = {} /\ NoPass.ambiguous = {}
BY DEF NoPass, PassState, NothingListed

\* A pending run shows no job, and its capture is known.
LEMMA PendingShowNoJob ==
    ASSUME EnrichmentInv
    PROVE  \A e \in Pending : e \in Executions /\ rows[e].job = NoJob /\ rows[e].capture \in Captures
BY DEF EnrichmentInv, EnrichmentTypeOK, ShownJobsFit, Pending, Stored

\* Reading a group, with an installation and without.
LEMMA ReadGroupKeeps ==
    ASSUME EnrichmentInv, NEW g \in Attempts, ListRunsForEnrichmentGroup(g)
    PROVE  EnrichmentInv'
<1> DEFINE R == PendingOf(g)
           listed == [e \in Executions |-> IF e \in R THEN rows[e].capture ELSE NoCapture]
           w == [worker EXCEPT !.groups = @ \ {g}, !.listed = listed]
<1>1. /\ worker \in PassState /\ worker.stage = "groups"
      /\ worker.unavailable = {} /\ worker.ambiguous = {} /\ worker.matched = {}
  BY DEF EnrichmentInv, EnrichmentTypeOK, VerdictsOfOneGroup, ListRunsForEnrichmentGroup
<1>2. /\ R \subseteq Executions
      /\ \A e \in R : /\ rows[e].job = NoJob /\ rows[e].capture \in Captures
                      /\ Capture[rows[e].capture].attempt = g
  BY PendingShowNoJob DEF PendingOf, AttemptOf
<1>3. /\ worker' = IF covered THEN [w EXCEPT !.stage = "github"]
                                ELSE AfterMark([w EXCEPT !.unavailable = R])
      /\ overtaken' = overtaken \ R
      /\ UNCHANGED <<rows, completed>>
  BY DEF ListRunsForEnrichmentGroup
<1> HIDE DEF R
<1>4. /\ listed \in [Executions -> Captures \union {NoCapture}]
      /\ \A e \in Executions : listed[e] # NoCapture => e \in R /\ listed[e] = rows[e].capture
  BY <1>2
<1> HIDE DEF listed
<1>5. /\ w \in PassState /\ w.listed = listed
      /\ w.unavailable = {} /\ w.ambiguous = {} /\ w.matched = {}
  BY <1>1, <1>4 DEF PassState
<1> HIDE DEF w
<1>6. /\ overtaken' \subseteq overtaken
      /\ \A e \in overtaken : e \in overtaken' \/ rows[e].job = NoJob
  BY <1>2, <1>3
<1>7. CASE covered
  <2> DEFINE x == [w EXCEPT !.stage = "github"]
  <2>1. /\ x \in PassState /\ x.stage = "github" /\ x.listed = listed
        /\ x.unavailable = {} /\ x.ambiguous = {} /\ x.matched = {}
    BY <1>5 DEF PassState
  <2>2. worker' = x
    BY <1>3, <1>7
  <2> HIDE DEF x
  <2>3. \A e \in Executions : listed[e] # NoCapture =>
           /\ rows[e].job = NoJob /\ rows[e].capture = listed[e]
           /\ Capture[listed[e]].attempt = g
    BY <1>2, <1>4
  <2>4. QED
    BY <1>3, <1>6, <2>1, <2>2, <2>3, PassMoves
<1>8. CASE ~covered
  <2> DEFINE x == [w EXCEPT !.unavailable = R]
             y == AfterMark(x)
  <2>1. /\ x \in PassState /\ x.listed = listed
        /\ x.unavailable = R /\ x.ambiguous = {} /\ x.matched = {}
    BY <1>2, <1>5 DEF PassState
  <2>2. worker' = y
    BY <1>3, <1>8
  <2> HIDE DEF x
  <2>3. /\ y \in PassState /\ y.unavailable = R /\ y.ambiguous = {} /\ y.matched = {}
        /\ y.listed = listed \/ y.listed = NothingListed
        /\ y.stage # "github" /\ (y.stage # "mark" => y.unavailable = {})
    BY <2>1, AfterMarkKeeps
  <2> HIDE DEF y
  <2>4. \A e \in Executions : y.listed[e] # NoCapture => rows[e].capture = y.listed[e]
    BY <1>4, <2>3 DEF NothingListed
  <2>5. QED
    BY <1>2, <1>3, <1>6, <2>2, <2>3, <2>4, PassMoves
<1>9. QED
  BY <1>7, <1>8

\* The answer of GitHub, or its error.
LEMMA AnswerKeeps ==
    ASSUME EnrichmentInv, ListRunAttemptJobs
    PROVE  EnrichmentInv'
<1> DEFINE R == Listed
           J == JobsOfTheGroup
<1>1. /\ worker \in PassState /\ worker.stage = "github" /\ R \subseteq Executions
      /\ worker.unavailable = {} /\ worker.ambiguous = {} /\ worker.matched = {}
      /\ \A e \in R : /\ rows[e].job = NoJob
                      /\ \A f \in R : Capture[worker.listed[f]].attempt
                                        = Capture[worker.listed[e]].attempt
  BY DEF EnrichmentInv, EnrichmentTypeOK, VerdictsOfOneGroup, ListedShowNoJob,
         ListRunAttemptJobs, Listed
<1>2. UNCHANGED <<rows, completed, overtaken>>
  BY DEF ListRunAttemptJobs
<1>3. \A e \in Executions : worker.listed[e] # NoCapture =>
         e \in overtaken \/ rows[e].capture = worker.listed[e]
  BY DEF EnrichmentInv, ListingIsCurrent
<1>4. CASE worker' = AfterMark([worker EXCEPT !.unavailable = R])
  <2> DEFINE x == [worker EXCEPT !.unavailable = R]
             y == AfterMark(x)
  <2>1. /\ x \in PassState /\ x.listed = worker.listed
        /\ x.unavailable = R /\ x.ambiguous = {} /\ x.matched = {}
    BY <1>1 DEF PassState
  <2>2. worker' = y
    BY <1>4
  <2> HIDE DEF x
  <2>3. /\ y \in PassState /\ y.unavailable = R /\ y.ambiguous = {} /\ y.matched = {}
        /\ y.listed = worker.listed \/ y.listed = NothingListed
        /\ y.stage # "github" /\ (y.stage # "mark" => y.unavailable = {})
    BY <2>1, AfterMarkKeeps
  <2> HIDE DEF y, R
  <2>4. \A e \in Executions : y.listed[e] # NoCapture =>
           e \in overtaken' \/ rows[e].capture = y.listed[e]
    BY <1>2, <1>3, <2>3 DEF NothingListed
  <2>5. QED
    BY <1>1, <1>2, <2>2, <2>3, <2>4, PassMoves
<1>5. CASE MatchJobsToRuns
  <2> DEFINE x == [worker EXCEPT !.ambiguous = Ambiguous(R, J), !.matched = Matched(R, J)]
             y == AfterMark(x)
  <2>1. J \subseteq Jobs /\ \A e \in R, j \in J : Capture[worker.listed[e]].attempt = Job[j].attempt
    BY <1>1 DEF JobsOfTheGroup
  <2>2. worker' = y
    BY <1>5 DEF MatchJobsToRuns
  <2> HIDE DEF J
  <2>3. /\ Matched(R, J) \subseteq Executions \X Jobs
        /\ \A p \in Matched(R, J) : /\ worker.listed[p[1]] # NoCapture
                                    /\ IsJobOf(worker.listed[p[1]], p[2])
        /\ Ambiguous(R, J) \subseteq R
    BY <2>1, MatchingFits DEF EnrichmentInv
  <2>4. /\ x \in PassState /\ x.listed = worker.listed
        /\ x.unavailable = {} /\ x.ambiguous = Ambiguous(R, J)
        /\ x.matched = Matched(R, J)
    BY <1>1, <2>3 DEF PassState
  <2> HIDE DEF x
  <2>5. /\ y \in PassState /\ y.unavailable = {} /\ y.ambiguous = Ambiguous(R, J)
        /\ y.matched = Matched(R, J) /\ y.stage # "github"
        /\ y.listed = worker.listed \/ y.listed = NothingListed
        /\ y.matched # {} => y.listed = worker.listed
        /\ y.stage # "mark" => y.unavailable = {} /\ y.ambiguous = {} /\ y.matched = {}
    BY <2>4, AfterMarkKeeps
  <2> HIDE DEF y, R
  <2>6. \A e \in Executions : y.listed[e] # NoCapture =>
           e \in overtaken' \/ rows[e].capture = y.listed[e]
    BY <1>2, <1>3, <2>5 DEF NothingListed
  <2>7. \A p \in y.matched : y.listed[p[1]] # NoCapture /\ IsJobOf(y.listed[p[1]], p[2])
    BY <2>3, <2>5
  <2>8. \A e \in y.unavailable \union y.ambiguous : rows[e].job = NoJob
    BY <1>1, <2>3, <2>5
  <2>9. QED
    BY <1>2, <2>2, <2>5, <2>6, <2>7, <2>8, PassMoves
<1>6. QED
  BY <1>4, <1>5 DEF ListRunAttemptJobs

\* A verdict without a job goes to a run that shows none.
LEMMA MarkKeeps ==
    ASSUME EnrichmentInv, NEW e \in Executions, MarkUnavailable(e) \/ MarkAmbiguous(e)
    PROVE  EnrichmentInv'
<1>1. /\ worker \in PassState /\ rows[e].job = NoJob /\ rows[e] \in Row
      /\ rows[e].state \in States => rows[e].capture \in Captures
  BY DEF EnrichmentInv, EnrichmentTypeOK, ListedShowNoJob, MarkUnavailable, MarkAmbiguous
<1>2. UNCHANGED <<completed, overtaken>> /\ overtaken \subseteq Executions
  BY DEF MarkUnavailable, MarkAmbiguous, EnrichmentInv, EnrichmentTypeOK
<1>3. PICK state \in {"unavailable", "ambiguous"} : SetState(e, state)
  BY DEF MarkUnavailable, MarkAmbiguous
<1> DEFINE row == IF e \in Stored THEN [rows[e] EXCEPT !.state = state] ELSE rows[e]
<1>4. rows' = [rows EXCEPT ![e] = row]
  BY <1>3 DEF SetState
<1>5. /\ row \in Row /\ row.job = NoJob /\ row.capture = rows[e].capture
      /\ row.state \in States => row.capture \in Captures
  BY <1>1 DEF States, Row, Stored
<1> HIDE DEF row
<1>6. PICK x \in PassState : /\ worker' = AfterMark(x)
                             /\ x.matched = worker.matched /\ x.listed = worker.listed
                             /\ x.unavailable \subseteq worker.unavailable
                             /\ x.ambiguous \subseteq worker.ambiguous
  <2>1. CASE MarkUnavailable(e)
    <3> DEFINE x == [worker EXCEPT !.unavailable = @ \ {e}]
    <3>1. /\ x \in PassState /\ worker' = AfterMark(x)
          /\ x.matched = worker.matched /\ x.listed = worker.listed
          /\ x.unavailable \subseteq worker.unavailable /\ x.ambiguous \subseteq worker.ambiguous
      BY <1>1, <2>1 DEF MarkUnavailable, PassState
    <3> HIDE DEF x
    <3>2. QED
      BY <3>1
  <2>2. CASE MarkAmbiguous(e)
    <3> DEFINE x == [worker EXCEPT !.ambiguous = @ \ {e}]
    <3>1. /\ x \in PassState /\ worker' = AfterMark(x)
          /\ x.matched = worker.matched /\ x.listed = worker.listed
          /\ x.unavailable \subseteq worker.unavailable /\ x.ambiguous \subseteq worker.ambiguous
      BY <1>1, <2>2 DEF MarkAmbiguous, PassState
    <3> HIDE DEF x
    <3>2. QED
      BY <3>1
  <2>3. QED
    BY <2>1, <2>2
<1> DEFINE y == AfterMark(x)
<1>7. /\ y \in PassState /\ worker' = y /\ y.matched \subseteq worker.matched
      /\ y.listed = worker.listed \/ y.listed = NothingListed
      /\ y.matched # {} => y.listed = worker.listed
      /\ y.unavailable \subseteq worker.unavailable /\ y.ambiguous \subseteq worker.ambiguous
      /\ y.stage # "github"
      /\ (y.stage # "mark" => y.unavailable = {} /\ y.ambiguous = {} /\ y.matched = {})
  BY <1>6, AfterMarkKeeps
<1> HIDE DEF y
<1>8. y.listed[e] # NoCapture => e \in overtaken' \/ row.capture = y.listed[e]
  BY <1>2, <1>5, <1>7 DEF NothingListed, EnrichmentInv, ListingIsCurrent
<1>9. QED
  BY <1>2, <1>4, <1>5, <1>7, <1>8, RowChanges

\* A job goes to a run it fits, or to one that was overtaken, when no other
\* verdicts are left for that run.
LEMMA MarkMatchedKeeps ==
    ASSUME EnrichmentInv, NEW e \in Executions, NEW j \in Jobs, MarkMatched(e, j)
    PROVE  EnrichmentInv'
<1>1. /\ worker \in PassState /\ worker.ambiguous = {} /\ worker.unavailable = {}
      /\ rows[e] \in Row /\ (rows[e].state \in States => rows[e].capture \in Captures)
      /\ UNCHANGED <<completed, overtaken>> /\ overtaken \subseteq Executions
  BY DEF EnrichmentInv, EnrichmentTypeOK, VerdictsOfOneGroup, MarkMatched
<1>2. /\ worker.listed[e] # NoCapture /\ IsJobOf(worker.listed[e], j)
      /\ e \in overtaken \/ rows[e].capture = worker.listed[e]
  BY DEF EnrichmentInv, VerdictsFit, ListingIsCurrent, MarkMatched
<1> DEFINE row == IF e \in Stored THEN [rows[e] EXCEPT !.state = "matched", !.job = j] ELSE rows[e]
           x == [worker EXCEPT !.matched = @ \ {<<e, j>>}]
           y == AfterMark(x)
<1>3. rows' = [rows EXCEPT ![e] = row] /\ worker' = y
  BY DEF MarkMatched
<1>4. CASE e \in Stored
  <2>1. /\ row \in Row /\ row.capture = rows[e].capture /\ row.job = j
        /\ row.state = "matched" /\ rows[e].capture \in Captures
    BY <1>1, <1>4 DEF States, Row, Stored
  <2> HIDE DEF row
  <2>2. x \in PassState /\ x.listed = worker.listed /\ x.matched \subseteq worker.matched
        /\ x.unavailable = {} /\ x.ambiguous = {}
    BY <1>1 DEF PassState
  <2> HIDE DEF x
  <2>3. /\ y \in PassState /\ y.matched \subseteq worker.matched
        /\ y.listed = worker.listed \/ y.listed = NothingListed
        /\ y.matched # {} => y.listed = worker.listed
        /\ y.unavailable = {} /\ y.ambiguous = {} /\ y.stage # "github"
        /\ (y.stage # "mark" => y.unavailable = {} /\ y.ambiguous = {} /\ y.matched = {})
    BY <2>2, AfterMarkKeeps
  <2> HIDE DEF y
  <2>4. y.listed[e] # NoCapture => e \in overtaken' \/ row.capture = y.listed[e]
    BY <1>1, <1>2, <2>1, <2>3 DEF NothingListed
  <2>5. e \in overtaken' \/ IsJobOf(row.capture, row.job)
    BY <1>1, <1>2, <2>1
  <2>6. QED
    BY <1>1, <1>3, <2>1, <2>3, <2>4, <2>5, RowChanges
<1>5. CASE e \notin Stored
  <2>1. row = rows[e] /\ (row.job # NoJob => row.state = "matched" /\ e \in Stored)
    BY <1>1, <1>5 DEF EnrichmentInv, ShownJobsFit, Stored, States
  <2> HIDE DEF row
  <2>2. x \in PassState /\ x.listed = worker.listed /\ x.matched \subseteq worker.matched
        /\ x.unavailable = {} /\ x.ambiguous = {}
    BY <1>1 DEF PassState
  <2> HIDE DEF x
  <2>3. /\ y \in PassState /\ y.matched \subseteq worker.matched
        /\ y.listed = worker.listed \/ y.listed = NothingListed
        /\ y.matched # {} => y.listed = worker.listed
        /\ y.unavailable = {} /\ y.ambiguous = {} /\ y.stage # "github"
        /\ (y.stage # "mark" => y.unavailable = {} /\ y.ambiguous = {} /\ y.matched = {})
    BY <2>2, AfterMarkKeeps
  <2> HIDE DEF y
  <2>4. y.listed[e] # NoCapture => e \in overtaken' \/ row.capture = y.listed[e]
    BY <1>1, <1>2, <2>1, <2>3 DEF NothingListed
  <2>5. QED
    BY <1>1, <1>3, <1>5, <2>1, <2>3, <2>4, RowChanges
<1>6. QED
  BY <1>4, <1>5

\* Uploads and the purge take a run's job away.  An upload that changes the capture
\* of a listed run overtakes the pass.
LEMMA UploadKeeps ==
    ASSUME EnrichmentInv, NEW e \in Executions, (\E c \in Captures : UpsertRun(e, c)) \/ PurgeRun(e)
    PROVE  EnrichmentInv'
<1>1. /\ worker \in PassState /\ UNCHANGED <<completed, worker>> /\ rows[e] \in Row
      /\ overtaken \subseteq Executions
      /\ worker.stage # "mark" =>
           worker.unavailable = {} /\ worker.ambiguous = {} /\ worker.matched = {}
  BY DEF EnrichmentInv, EnrichmentTypeOK, VerdictsOfOneGroup, UpsertRun, NameCapture, PurgeRun
<1>2. PICK row \in Row :
         /\ rows' = [rows EXCEPT ![e] = row] /\ row.job = NoJob
         /\ row.state \in States => row.capture \in Captures
         /\ worker.listed[e] # NoCapture => e \in overtaken' \/ row.capture = worker.listed[e]
         /\ overtaken' \in {overtaken \ {e}, overtaken \cup {e}}
  <2>1. ASSUME NEW c \in Captures, UpsertRun(e, c)
        PROVE  \E row \in Row :
                  /\ rows' = [rows EXCEPT ![e] = row] /\ row.job = NoJob
                  /\ row.state \in States => row.capture \in Captures
                  /\ worker.listed[e] # NoCapture => e \in overtaken' \/ row.capture = worker.listed[e]
                  /\ overtaken' \in {overtaken \ {e}, overtaken \cup {e}}
    <3> DEFINE row == IF e \in Stored THEN [rows[e] EXCEPT !.job = NoJob, !.capture = c]
                                      ELSE [state |-> "pending", job |-> NoJob, capture |-> c]
    <3>1. /\ row \in Row /\ row.capture = c
          /\ row.job = NoJob /\ rows' = [rows EXCEPT ![e] = row]
      BY <1>1, <2>1 DEF UpsertRun, States, Row
    <3> HIDE DEF row
    <3>2. overtaken' = IF worker.listed[e] \in {NoCapture, c} THEN overtaken \ {e} ELSE overtaken \cup {e}
      BY <2>1 DEF UpsertRun, NameCapture, Overtake
    <3>3. QED
      BY <2>1, <3>1, <3>2
  <2>2. CASE PurgeRun(e)
    <3>1. /\ Purged \in Row /\ Purged.job = NoJob /\ Purged.state \notin States
          /\ rows' = [rows EXCEPT ![e] = Purged] /\ overtaken' = overtaken \ {e}
      BY <2>2 DEF PurgeRun, Purged, Row, States
    <3>2. worker.listed[e] = NoCapture
      BY <2>2 DEF PurgeRun, NoPass, NothingListed
    <3>3. QED
      BY <3>1, <3>2
  <2>3. QED
    BY <2>1, <2>2
<1>3. worker' = worker
  BY <1>1
<1>4. overtaken' \subseteq Executions /\ \A f \in Executions \ {e} : f \in overtaken' <=> f \in overtaken
  BY <1>1, <1>2
<1>5. QED
  BY <1>1, <1>2, <1>3, <1>4, RowChanges

\* Every step of the pass, of an upload, of the earlier stages and of GitHub keeps
\* the invariant.
LEMMA EnrichmentInductive == EnrichmentInv /\ [EnrichmentNext]_enrichmentVars => EnrichmentInv'
<1> SUFFICES ASSUME EnrichmentInv, [EnrichmentNext]_enrichmentVars PROVE EnrichmentInv'
  OBVIOUS
<1>1. CASE UNCHANGED enrichmentVars \/ CoverageSync
  BY <1>1 DEF CoverageSync, enrichmentVars, EnrichmentInv, EnrichmentTypeOK, ShownJobsFit, VerdictsFit,
              ListingIsCurrent, ListedShowNoJob, Listed, VerdictsOfOneGroup, IsJobOf, Fits
<1>2. CASE ListPendingEnrichmentGroups
  <2>1. PICK G \in SUBSET {AttemptOf(e) : e \in Pending} :
            worker' = [NoPass EXCEPT !.stage = "groups", !.groups = G]
    BY <1>2 DEF ListPendingEnrichmentGroups
  <2>2. G \subseteq Attempts
    BY <2>1, PendingShowNoJob DEF Attempts, AttemptOf
  <2> DEFINE w == [NoPass EXCEPT !.stage = "groups", !.groups = G]
  <2>3. /\ w \in PassState /\ w.stage = "groups" /\ w.matched = {} /\ w.listed = NothingListed
        /\ w.unavailable = {} /\ w.ambiguous = {} /\ worker' = w
    BY <2>1, <2>2 DEF NoPass, PassState, NothingListed
  <2> HIDE DEF w
  <2>4. UNCHANGED <<rows, completed, overtaken>>
    BY <1>2 DEF ListPendingEnrichmentGroups
  <2>5. \A e \in Executions : w.listed[e] = NoCapture
    BY <2>3 DEF NothingListed
  <2>6. QED
    BY <2>3, <2>4, <2>5, PassMoves
<1>3. CASE \E g \in Attempts : ListRunsForEnrichmentGroup(g)
  BY <1>3, ReadGroupKeeps
<1>4. CASE ListRunAttemptJobs
  BY <1>4, AnswerKeeps
<1>5. CASE \E e \in Executions : MarkUnavailable(e) \/ MarkAmbiguous(e)
  BY <1>5, MarkKeeps
<1>6. CASE \E e \in Executions, j \in Jobs : MarkMatched(e, j)
  BY <1>6, MarkMatchedKeeps
<1>7. CASE AbortPass
  <2>1. worker' = NoPass /\ UNCHANGED <<rows, completed, overtaken>>
    BY <1>7 DEF AbortPass
  <2>2. \A e \in Executions : NoPass.listed[e] = NoCapture
    BY NoPassIsFine DEF NothingListed
  <2>3. QED
    BY <2>1, <2>2, NoPassIsFine, PassMoves
<1>8. CASE (\E e \in Executions, c \in Captures : UpsertRun(e, c)) \/ (\E e \in Executions : PurgeRun(e))
  BY <1>8, UploadKeeps
<1>9. CASE \E j \in Jobs : CompleteJob(j)
  <2>1. /\ completed \subseteq completed' /\ completed' \subseteq Jobs
        /\ UNCHANGED <<rows, worker, overtaken>>
    BY <1>9 DEF CompleteJob, EnrichmentInv, EnrichmentTypeOK
  <2>2. \A c, j : IsJobOf(c, j) => IsJobOf(c, j)'
    BY <2>1 DEF IsJobOf, Fits
  <2>3. EnrichmentTypeOK'
    BY <2>1 DEF EnrichmentInv, EnrichmentTypeOK
  <2>4. ShownJobsFit'
    BY <2>1 DEF EnrichmentInv, ShownJobsFit, IsJobOf, Fits
  <2>5. VerdictsFit'
    BY <2>1 DEF EnrichmentInv, VerdictsFit, IsJobOf, Fits
  <2>6. ListingIsCurrent' /\ ListedShowNoJob' /\ VerdictsOfOneGroup'
    BY <2>1 DEF EnrichmentInv, ListingIsCurrent, ListedShowNoJob, Listed, VerdictsOfOneGroup
  <2>7. QED
    BY <2>3, <2>4, <2>5, <2>6 DEF EnrichmentInv
<1>10. QED
  BY <1>1, <1>2, <1>3, <1>4, <1>5, <1>6, <1>7, <1>8, <1>9 DEF EnrichmentNext, PassStep

\* Whatever uploads, jobs and aborted passes come between the steps of a pass, the
\* invariant holds.
THEOREM EnrichmentInvariant == EnrichmentSpec => []EnrichmentInv
<1>1. QED
  BY EnrichmentInitially, EnrichmentInductive, PTL DEF EnrichmentSpec

\* A run never shows a job it was not captured in, unless an upload changed its
\* capture between the listing and the write, for every set of runs, captures and
\* jobs and every slack (matchJobsToRuns, MarkRunEnrichmentMatched, UpsertRun).
THEOREM ShownJobsAreRight == EnrichmentSpec => []MatchedRunsFitTheirJob
<1>1. EnrichmentInv => MatchedRunsFitTheirJob
  <2>1. SUFFICES ASSUME EnrichmentInv, NEW e \in Stored, rows[e].job # NoJob
                 PROVE  /\ rows[e].state = "matched"
                        /\ e \notin overtaken =>
                             /\ IsJobOf(rows[e].capture, rows[e].job)
                             /\ Job[rows[e].job].start <= Capture[rows[e].capture].start + Slack
    BY DEF MatchedRunsFitTheirJob, IsJobOf, Fits
  <2>2. e \in Executions /\ rows[e].job \in Jobs /\ rows[e].capture \in Captures
    BY <2>1 DEF Stored, EnrichmentInv, EnrichmentTypeOK, Row
  <2>3. /\ rows[e].state = "matched"
        /\ e \in overtaken \/ IsJobOf(rows[e].capture, rows[e].job)
    BY <2>1, <2>2 DEF EnrichmentInv, ShownJobsFit
  <2>4. CASE IsJobOf(rows[e].capture, rows[e].job)
    <3>1. /\ Job[rows[e].job].start \in Nat /\ Capture[rows[e].capture].start \in Nat /\ Slack \in Nat
          /\ Capture[rows[e].capture].start + Slack >= Job[rows[e].job].start
      BY <2>2, <2>4, EnrichmentAssumption DEF IsJobOf, Fits, Span
    <3>2. QED
      BY <2>3, <2>4, <3>1
  <2>5. QED
    BY <2>3, <2>4
<1>2. QED
  BY <1>1, EnrichmentInvariant, PTL

-----------------------------------------------------------------------------
(* AgentRun: the inductive invariant *)

LineCounts == [printed : Nat, pipe : Nat, queue : Nat, readers : SUBSET {"stdout", "stderr"}]

AgentTypeOK ==
    /\ agent \in {"launched", "starting", "check", "poll", "recv", "stop", "drain", "write", "exited"}
    /\ child \in {"none", "running", "exited"}
    /\ lines \in LineCounts
    /\ counts \in [events : Nat, dropped : Nat, errors : BOOLEAN, cut : BOOLEAN]
    /\ file \in {"absent", "partial", "complete"}

\* Every line is somewhere, unless an error has been noted.
LinesAreAccountedFor ==
    counts.errors \/ lines.printed = lines.pipe + lines.queue + counts.events + counts.dropped

\* The summary is written when the child has ended and its lines are taken, unless
\* the summary says otherwise: there is nobody to print another line.
WrittenWhenThrough ==
    /\ file # "absent" => agent \in {"write", "exited"}
    /\ agent = "write" \/ file # "absent" => counts.errors \/ counts.cut \/ Disconnected

AgentInv ==
    /\ AgentTypeOK
    /\ LinesAreAccountedFor
    /\ WrittenWhenThrough

\* A message taken from the queue is counted.
LEMMA TakenMessagesCount ==
    ASSUME AgentTypeOK, LinesAreAccountedFor, TakeMessage
    PROVE  /\ lines' \in LineCounts
           /\ counts' \in [events : Nat, dropped : Nat, errors : BOOLEAN, cut : BOOLEAN]
           /\ LinesAreAccountedFor'
<1>1. /\ lines.printed \in Nat /\ lines.pipe \in Nat /\ lines.queue \in Nat /\ lines.queue > 0
      /\ counts.events \in Nat /\ counts.dropped \in Nat
  BY DEF AgentTypeOK, TakeMessage, LineCounts
<1>2. lines.queue - 1 \in Nat /\ counts.events + 1 \in Nat /\ counts.dropped + 1 \in Nat
  BY <1>1
<1>3. /\ lines' \in LineCounts
      /\ lines'.printed = lines.printed /\ lines'.pipe = lines.pipe
      /\ lines'.queue = lines.queue - 1
  BY <1>2 DEF AgentTypeOK, TakeMessage, LineCounts
<1>4. /\ counts' \in [events : Nat, dropped : Nat, errors : BOOLEAN, cut : BOOLEAN]
      /\ counts'.errors = counts.errors
      /\ counts'.events + counts'.dropped = counts.events + counts.dropped + 1
  <2>1. CASE counts.events < MaxEvents
    <3>1. counts' = [counts EXCEPT !.events = @ + 1]
      BY <2>1 DEF TakeMessage
    <3>2. /\ counts' \in [events : Nat, dropped : Nat, errors : BOOLEAN, cut : BOOLEAN]
          /\ counts'.errors = counts.errors
          /\ counts'.events = counts.events + 1 /\ counts'.dropped = counts.dropped
      BY <1>2, <3>1 DEF AgentTypeOK
    <3>3. QED
      BY <1>1, <3>2
  <2>2. CASE ~(counts.events < MaxEvents)
    <3>1. counts' = [counts EXCEPT !.dropped = @ + 1]
      BY <2>2 DEF TakeMessage
    <3>2. /\ counts' \in [events : Nat, dropped : Nat, errors : BOOLEAN, cut : BOOLEAN]
          /\ counts'.errors = counts.errors
          /\ counts'.events = counts.events /\ counts'.dropped = counts.dropped + 1
      BY <1>2, <3>1 DEF AgentTypeOK
    <3>3. QED
      BY <1>1, <3>2
  <2>3. QED
    BY <2>1, <2>2
<1>5. LinesAreAccountedFor'
  BY <1>1, <1>3, <1>4 DEF LinesAreAccountedFor
<1>6. QED
  BY <1>3, <1>4, <1>5

\* Noting an error, or that the drain was cut short, takes nothing back.
LEMMA NotedErrors ==
    ASSUME AgentTypeOK
    PROVE  /\ [counts EXCEPT !.errors = TRUE] \in
                 [events : Nat, dropped : Nat, errors : BOOLEAN, cut : BOOLEAN]
           /\ [counts EXCEPT !.errors = TRUE].errors = TRUE
           /\ [counts EXCEPT !.cut = TRUE] \in
                 [events : Nat, dropped : Nat, errors : BOOLEAN, cut : BOOLEAN]
           /\ [counts EXCEPT !.cut = TRUE].cut = TRUE
           /\ [counts EXCEPT !.cut = TRUE].errors = counts.errors
           /\ [counts EXCEPT !.cut = TRUE].events = counts.events
           /\ [counts EXCEPT !.cut = TRUE].dropped = counts.dropped
BY DEF AgentTypeOK

\* The agent's own steps.
LEMMA AgentStepKeeps ==
    ASSUME AgentInv, AgentStep
    PROVE  AgentInv'
<1> USE DEF AgentInv
<1>1. CASE InstallHandlers
  BY <1>1 DEF InstallHandlers, action, AgentTypeOK, LinesAreAccountedFor, WrittenWhenThrough,
              Disconnected
<1>2. CASE StartBackend
  <2>1. file = "absent" /\ file' = file /\ lines' = lines
    BY <1>2 DEF StartBackend, WrittenWhenThrough
  <2>2. CASE agent' = "check" /\ child' = "running" /\ UNCHANGED counts
    BY <2>1, <2>2 DEF AgentTypeOK, LinesAreAccountedFor, WrittenWhenThrough
  <2>3. CASE agent' = "check" /\ child' = "running" /\ counts' = [counts EXCEPT !.errors = TRUE]
    BY <2>1, <2>3, NotedErrors DEF AgentTypeOK, LinesAreAccountedFor, WrittenWhenThrough
  <2>4. CASE agent' = "write" /\ child' = child /\ counts' = [counts EXCEPT !.errors = TRUE]
    BY <2>1, <2>4, NotedErrors DEF AgentTypeOK, LinesAreAccountedFor, WrittenWhenThrough
  <2>5. QED
    BY <1>2, <2>2, <2>3, <2>4 DEF StartBackend
<1>3. CASE CheckShutdown
  BY <1>3 DEF CheckShutdown, action, AgentTypeOK, LinesAreAccountedFor, WrittenWhenThrough, Disconnected
<1>4. CASE PollBackend
  <2>1. file = "absent" /\ file' = file /\ child' = child
    BY <1>4 DEF PollBackend, WrittenWhenThrough
  <2>2. CASE child = "exited"
    <3>1. /\ agent' = "write" /\ counts' = [counts EXCEPT !.errors = TRUE]
          /\ lines' = [lines EXCEPT !.queue = 0]
      BY <1>4, <2>2 DEF PollBackend
    <3>2. lines' \in LineCounts
      BY <3>1 DEF AgentTypeOK, LineCounts
    <3>3. QED
      BY <2>1, <3>1, <3>2, NotedErrors DEF AgentTypeOK, LinesAreAccountedFor, WrittenWhenThrough
  <2>3. CASE child # "exited"
    <3>1. agent' = "recv" /\ counts' = counts /\ lines' = lines
      BY <1>4, <2>3 DEF PollBackend
    <3>2. QED
      BY <2>1, <3>1 DEF AgentTypeOK, LinesAreAccountedFor, WrittenWhenThrough
  <2>4. QED
    BY <2>2, <2>3
<1>5. CASE RecvMessage
  <2>1. file = "absent" /\ file' = file /\ child' = child
    BY <1>5 DEF RecvMessage, WrittenWhenThrough
  <2>2. CASE TakeMessage /\ agent' = "check"
    BY <2>1, <2>2, TakenMessagesCount DEF AgentTypeOK, WrittenWhenThrough
  <2>3. CASE agent' = "check" /\ UNCHANGED <<lines, counts>>
    BY <2>1, <2>3 DEF AgentTypeOK, LinesAreAccountedFor, WrittenWhenThrough
  <2>4. CASE agent' = "write" /\ counts' = [counts EXCEPT !.errors = TRUE] /\ UNCHANGED lines
    BY <2>1, <2>4, NotedErrors DEF AgentTypeOK, LinesAreAccountedFor, WrittenWhenThrough
  <2>5. QED
    BY <1>5, <2>2, <2>3, <2>4 DEF RecvMessage
<1>6. CASE StopBackend
  <2>1. file = "absent" /\ file' = file /\ agent' = "drain" /\ lines' = lines
    BY <1>6 DEF StopBackend, WrittenWhenThrough
  <2>2. child' \in {"none", "running", "exited"}
    BY <1>6 DEF StopBackend, AgentTypeOK
  <2>3. CASE counts' = counts
    BY <2>1, <2>2, <2>3 DEF AgentTypeOK, LinesAreAccountedFor, WrittenWhenThrough
  <2>4. CASE counts' = [counts EXCEPT !.errors = TRUE]
    BY <2>1, <2>2, <2>4, NotedErrors DEF AgentTypeOK, LinesAreAccountedFor, WrittenWhenThrough
  <2>5. QED
    BY <1>6, <2>3, <2>4 DEF StopBackend
<1>7. CASE Drain
  <2>1. file = "absent" /\ file' = file /\ child' = child /\ agent = "drain"
    BY <1>7 DEF Drain, WrittenWhenThrough
  <2>2. CASE TakeMessage /\ UNCHANGED agent
    BY <2>1, <2>2, TakenMessagesCount DEF AgentTypeOK, WrittenWhenThrough
  <2>3. CASE Disconnected /\ agent' = "write" /\ UNCHANGED <<lines, counts>>
    BY <2>1, <2>3 DEF AgentTypeOK, LinesAreAccountedFor, WrittenWhenThrough, Disconnected
  <2>4. CASE agent' = "write" /\ counts' = [counts EXCEPT !.cut = TRUE] /\ UNCHANGED lines
    BY <2>1, <2>4, NotedErrors DEF AgentTypeOK, LinesAreAccountedFor, WrittenWhenThrough
  <2>5. QED
    BY <1>7, <2>2, <2>3, <2>4 DEF Drain
<1>8. CASE CreateSummary \/ FlushSummary
  BY <1>8 DEF CreateSummary, FlushSummary, AgentTypeOK, LinesAreAccountedFor, WrittenWhenThrough,
              Disconnected
<1>9. QED
  BY <1>1, <1>2, <1>3, <1>4, <1>5, <1>6, <1>7, <1>8 DEF AgentStep

\* The child and the readers move lines and lose none.
LEMMA ReadersKeep ==
    ASSUME AgentInv, PrintLine \/ ReadLine \/ ReaderFails \/ ChildExits
    PROVE  AgentInv'
<1> USE DEF AgentInv
<1>1. /\ lines.printed \in Nat /\ lines.pipe \in Nat /\ lines.queue \in Nat
      /\ counts.events \in Nat /\ counts.dropped \in Nat
  BY DEF AgentTypeOK, LineCounts
<1>2. CASE PrintLine
  <2>1. /\ lines' = [lines EXCEPT !.printed = @ + 1, !.pipe = @ + 1] /\ child = "running"
        /\ agent' = agent /\ child' = child /\ counts' = counts /\ file' = file
    BY <1>2 DEF PrintLine
  <2>2. lines.printed + 1 \in Nat /\ lines.pipe + 1 \in Nat
    BY <1>1
  <2>3. /\ lines' \in LineCounts
        /\ lines'.printed = lines.printed + 1 /\ lines'.pipe = lines.pipe + 1
        /\ lines'.queue = lines.queue /\ lines'.readers = lines.readers
    BY <2>1, <2>2 DEF AgentTypeOK, LineCounts
  <2>4. AgentTypeOK'
    BY <2>1, <2>3 DEF AgentTypeOK
  <2>5. LinesAreAccountedFor'
    BY <1>1, <2>1, <2>3 DEF LinesAreAccountedFor
  <2>6. Disconnected => Disconnected'
    BY <2>1, <2>3 DEF Disconnected
  <2>7. WrittenWhenThrough'
    BY <2>1, <2>6 DEF WrittenWhenThrough
  <2>8. QED
    BY <2>4, <2>5, <2>7
<1>3. CASE ReadLine
  <2>1. /\ lines' = [lines EXCEPT !.pipe = @ - 1, !.queue = @ + 1]
        /\ lines.pipe > 0 /\ "stdout" \in lines.readers
        /\ agent' = agent /\ child' = child /\ counts' = counts /\ file' = file
    BY <1>3 DEF ReadLine
  <2>2. lines.pipe - 1 \in Nat /\ lines.queue + 1 \in Nat
    BY <1>1, <2>1
  <2>3. /\ lines' \in LineCounts
        /\ lines'.printed = lines.printed /\ lines'.pipe = lines.pipe - 1
        /\ lines'.queue = lines.queue + 1
    BY <2>1, <2>2 DEF AgentTypeOK, LineCounts
  <2>4. AgentTypeOK'
    BY <2>1, <2>3 DEF AgentTypeOK
  <2>5. LinesAreAccountedFor'
    BY <1>1, <2>1, <2>3 DEF LinesAreAccountedFor
  <2>6. ~Disconnected
    BY <1>1, <2>1 DEF Disconnected
  <2>7. WrittenWhenThrough'
    BY <2>1, <2>6 DEF WrittenWhenThrough
  <2>8. QED
    BY <2>4, <2>5, <2>7
<1>4. CASE ReaderFails
  <2>1. PICK s \in lines.readers : lines' = [lines EXCEPT !.readers = @ \ {s}]
    BY <1>4 DEF ReaderFails
  <2>2. agent' = agent /\ child' = child /\ counts' = counts /\ file' = file
    BY <1>4 DEF ReaderFails
  <2>3. /\ lines' \in LineCounts
        /\ lines'.printed = lines.printed /\ lines'.pipe = lines.pipe
        /\ lines'.queue = lines.queue /\ lines'.readers \subseteq lines.readers
    BY <2>1 DEF AgentTypeOK, LineCounts
  <2>4. Disconnected => Disconnected'
    BY <2>2, <2>3 DEF Disconnected
  <2>5. WrittenWhenThrough'
    BY <2>2, <2>4 DEF WrittenWhenThrough
  <2>6. AgentTypeOK' /\ LinesAreAccountedFor'
    BY <2>2, <2>3 DEF AgentTypeOK, LinesAreAccountedFor
  <2>7. QED
    BY <2>5, <2>6
<1>5. CASE ChildExits
  BY <1>5 DEF ChildExits, AgentTypeOK, LinesAreAccountedFor, WrittenWhenThrough, Disconnected
<1>6. QED
  BY <1>2, <1>3, <1>4, <1>5

\* The action may end the agent, and touches nothing of its capture.
LEMMA ActionStepKeeps ==
    ASSUME AgentInv, ActionStep
    PROVE  AgentInv'
<1>1. /\ child' = child /\ lines' = lines /\ counts' = counts /\ file' = file
      /\ agent' \in {agent, "exited"}
  BY DEF ActionStep, WaitForAgentReadiness, StopAgent, WaitForProcessExitOrSummary, KillAgent,
         ReadSummary
<1>2. QED
  BY <1>1 DEF AgentInv, AgentTypeOK, LinesAreAccountedFor, WrittenWhenThrough, Disconnected

\* The agent, its child, its readers and the action keep the invariant between them.
THEOREM AgentInvariant == StuckAgentSpec => []AgentInv
<1>1. AgentInit => AgentInv
  BY DEF AgentInit, AgentInv, AgentTypeOK, LineCounts, LinesAreAccountedFor, WrittenWhenThrough
<1>2. AgentInv /\ [AgentNext]_agentVars => AgentInv'
  <2> SUFFICES ASSUME AgentInv, [AgentNext]_agentVars PROVE AgentInv'
    OBVIOUS
  <2>1. CASE UNCHANGED agentVars
    BY <2>1 DEF agentVars, AgentInv, AgentTypeOK, LinesAreAccountedFor, WrittenWhenThrough, Disconnected
  <2>2. CASE AgentStep
    BY <2>2, AgentStepKeeps
  <2>3. CASE PrintLine \/ ReadLine \/ ReaderFails \/ ChildExits
    BY <2>3, ReadersKeep
  <2>4. CASE ActionStep
    BY <2>4, ActionStepKeeps
  <2>5. QED
    BY <2>1, <2>2, <2>3, <2>4 DEF AgentNext
<1>3. QED
  BY <1>1, <1>2, PTL DEF StuckAgentSpec

\* A summary without errors lacks only lines that were left unread when the drain
\* ran out of time or a reader met an error, for every number of lines and every
\* limit on the events, whenever the agent is stopped or killed
\* (CaptureBackend::stop, stream_lines).
THEOREM OnlyUnreadLost == StuckAgentSpec => []OnlyUnreadLinesAreLost
<1>1. AgentInv => OnlyUnreadLinesAreLost
  <2>1. SUFFICES ASSUME AgentInv, file = "complete", ~counts.errors
                 PROVE  /\ counts.events + counts.dropped + lines.pipe + lines.queue = lines.printed
                        /\ lines.pipe + lines.queue > 0
                              => counts.cut \/ "stdout" \notin lines.readers
    BY DEF OnlyUnreadLinesAreLost
  <2>2. counts.cut \/ Disconnected
    BY <2>1 DEF AgentInv, WrittenWhenThrough
  <2>3. /\ counts.events \in Nat /\ counts.dropped \in Nat
        /\ lines.printed \in Nat /\ lines.pipe \in Nat /\ lines.queue \in Nat
    BY <2>1 DEF AgentInv, AgentTypeOK, LineCounts
  <2>4. lines.printed = lines.pipe + lines.queue + counts.events + counts.dropped
    BY <2>1 DEF AgentInv, LinesAreAccountedFor
  <2>5. CASE Disconnected
    <3>1. lines.queue = 0 /\ (lines.pipe = 0 \/ "stdout" \notin lines.readers)
      BY <2>5 DEF Disconnected
    <3>2. QED
      BY <2>3, <2>4, <3>1
  <2>6. QED
    BY <2>2, <2>3, <2>4, <2>5
<1>2. QED
  BY <1>1, AgentInvariant, PTL

-----------------------------------------------------------------------------
(* Lineage: the inductive invariant *)

ProcessKeys == Pids \X BOOLEAN

\* The processes: parents are older than their children, and a process has, or
\* last had, a parent it really had.
ProcessesOK ==
    /\ lastPid \in Pids
    /\ alive \subseteq 1 .. lastPid
    /\ ppid \in [Pids -> 0 .. MaxPid]
    /\ parents \subseteq Pids \X Pids
    /\ \A p, c \in Pids : <<p, c>> \in parents => p < c
    /\ \A c \in Pids : ppid[c] # 0 => <<ppid[c], c>> \in parents

\* What the cache says of a process was so at some time.
CacheOK(read, pairs) ==
    /\ read \in [Pids -> [key : (0 .. MaxPid) \X BOOLEAN, ppid : 0 .. MaxPid]]
    /\ \A p \in Pids : /\ read[p] # NotRead => read[p].key[1] = p
                       /\ read[p].ppid # 0 => <<read[p].ppid, p>> \in pairs

\* A lineage in which each process was the parent of the next.
Linked(chain, pairs) ==
    /\ chain \in Seq(ProcessKeys)
    /\ \A i \in 2 .. Len(chain) : <<chain[i - 1][1], chain[i][1]>> \in pairs

\* The walk has come from child to parent to the process it is at.
WalkOK(w, pairs) ==
    /\ w \in [phase : {"none", "status", "stat"}, of : 0 .. MaxPid, pid : 0 .. MaxPid,
              ppid : 0 .. MaxPid, chain : Seq(ProcessKeys)]
    /\ w.phase # "none" => w.of # 0 /\ w.pid # 0
    /\ w.phase = "stat" /\ w.ppid # 0 => <<w.ppid, w.pid>> \in pairs
    /\ Linked(w.chain, pairs)
    /\ w.chain # <<>> => <<w.pid, w.chain[1][1]>> \in pairs

EventsOK(lineages, pairs) ==
    /\ lineages \in Seq(Seq(ProcessKeys))
    /\ \A i \in DOMAIN lineages : lineages[i] # <<>> /\ Linked(lineages[i], pairs)

LineageInv ==
    /\ ProcessesOK
    /\ CacheOK(cache, parents)
    /\ WalkOK(walk, parents)
    /\ EventsOK(events, parents)

\* More parents take nothing back.
LEMMA MoreParents ==
    ASSUME NEW P, NEW Q, P \subseteq Q
    PROVE  /\ \A read : CacheOK(read, P) => CacheOK(read, Q)
           /\ \A w : WalkOK(w, P) => WalkOK(w, Q)
           /\ \A lineages : EventsOK(lineages, P) => EventsOK(lineages, Q)
<1>1. \A chain : Linked(chain, P) => Linked(chain, Q)
  BY DEF Linked
<1>2. QED
  BY <1>1 DEF CacheOK, WalkOK, EventsOK

\* A lineage stays one with the parent of its first process put before it.
LEMMA LinkedLonger ==
    ASSUME NEW pairs, NEW chain, Linked(chain, pairs), NEW key \in ProcessKeys,
           chain # <<>> => <<key[1], chain[1][1]>> \in pairs
    PROVE  /\ Linked(<<key>> \o chain, pairs)
           /\ (<<key>> \o chain)[1] = key
           /\ <<key>> \o chain # <<>>
<1> DEFINE long == <<key>> \o chain
<1>1. chain \in Seq(ProcessKeys) /\ Len(chain) \in Nat
  BY DEF Linked
<1>2. /\ long \in Seq(ProcessKeys) /\ Len(long) = Len(chain) + 1 /\ long[1] = key
      /\ \A i \in 2 .. Len(long) : long[i] = chain[i - 1]
  BY <1>1
<1> HIDE DEF long
<1>3. ASSUME NEW i \in 2 .. Len(long) PROVE <<long[i - 1][1], long[i][1]>> \in pairs
  <2>1. CASE i = 2
    <3>1. long[1] = key /\ long[2] = chain[1] /\ chain # <<>>
      BY <1>1, <1>2, <2>1
    <3>2. QED
      BY <2>1, <3>1
  <2>2. CASE i # 2
    <3>1. i - 1 \in 2 .. Len(chain) /\ i - 1 \in 2 .. Len(long)
      BY <1>1, <1>2, <2>2
    <3>2. long[i - 1] = chain[(i - 1) - 1] /\ long[i] = chain[i - 1]
      BY <1>2, <3>1
    <3>3. QED
      BY <3>1, <3>2 DEF Linked
  <2>3. QED
    BY <2>1, <2>2
<1>4. long # <<>>
  BY <1>1, <1>2
<1>5. QED
  BY <1>2, <1>3, <1>4 DEF Linked, long

\* The processes come and go.
LEMMA ProcessesKeep ==
    ASSUME LineageInv, NEW p \in Pids, Fork(p) \/ Exit(p)
    PROVE  LineageInv'
<1>1. MaxPid \in Nat \ {0}
  BY LineageAssumption
<1>2. parents \subseteq parents' /\ UNCHANGED <<cache, walk, events>>
  BY DEF Fork, Exit
<1>3. CacheOK(cache, parents)' /\ WalkOK(walk, parents)' /\ EventsOK(events, parents)'
  BY <1>2, MoreParents DEF LineageInv
<1>4. CASE Fork(p)
  <2> DEFINE c == lastPid + 1
  <2>1. c \in Pids /\ p <= lastPid /\ p < c /\ lastPid \in Nat
    BY <1>1, <1>4 DEF Fork, LineageInv, ProcessesOK, Pids
  <2>2. /\ lastPid' = c /\ alive' = alive \cup {c} /\ ppid' = [ppid EXCEPT ![c] = p]
        /\ parents' = parents \cup {<<p, c>>}
    BY <1>4 DEF Fork
  <2>3. alive' \subseteq 1 .. lastPid'
    BY <2>1, <2>2 DEF LineageInv, ProcessesOK, Pids
  <2> HIDE DEF c
  <2>4. /\ ppid' \in [Pids -> 0 .. MaxPid] /\ ppid'[c] = p
        /\ \A d \in Pids : d # c => ppid'[d] = ppid[d]
    BY <1>1, <2>1, <2>2 DEF LineageInv, ProcessesOK, Pids
  <2>5. parents' \subseteq Pids \X Pids
    BY <2>1, <2>2 DEF LineageInv, ProcessesOK
  <2>6. \A q, d \in Pids : <<q, d>> \in parents' => q < d
    BY <2>1, <2>2 DEF LineageInv, ProcessesOK
  <2>7. \A d \in Pids : ppid'[d] # 0 => <<ppid'[d], d>> \in parents'
    BY <2>2, <2>4 DEF LineageInv, ProcessesOK
  <2>8. ProcessesOK'
    BY <2>1, <2>2, <2>3, <2>4, <2>5, <2>6, <2>7 DEF ProcessesOK
  <2>9. QED
    BY <1>3, <2>8 DEF LineageInv
<1>5. CASE Exit(p)
  <2> DEFINE orphans == {c \in alive \ {p} : ppid[c] = p}
  <2>1. /\ lastPid' = lastPid /\ alive' = alive \ {p} /\ p # 1
        /\ ppid' = [c \in Pids |-> IF c \in orphans THEN 1 ELSE ppid[c]]
        /\ parents' = parents \cup {<<1, c>> : c \in orphans}
    BY <1>5 DEF Exit
  <2>2. 1 \in Pids /\ p \in Nat /\ p # 0
    BY <1>1 DEF Pids
  <2>3. ASSUME NEW c \in orphans PROVE c \in Pids /\ 1 < c
    <3>1. c \in Pids
      BY <1>1 DEF LineageInv, ProcessesOK, Pids
    <3>2. p < c
      BY <2>2, <3>1 DEF LineageInv, ProcessesOK
    <3>3. QED
      BY <2>1, <2>2, <3>1, <3>2 DEF Pids
  <2> HIDE DEF orphans
  <2>4. /\ ppid' \in [Pids -> 0 .. MaxPid]
        /\ \A c \in Pids : ppid'[c] = IF c \in orphans THEN 1 ELSE ppid[c]
    BY <1>1, <2>1 DEF LineageInv, ProcessesOK
  <2>5. parents' \subseteq Pids \X Pids
    BY <2>1, <2>2, <2>3 DEF LineageInv, ProcessesOK
  <2>6. \A q, d \in Pids : <<q, d>> \in parents' => q < d
    BY <2>1, <2>2, <2>3 DEF LineageInv, ProcessesOK
  <2>7. \A d \in Pids : ppid'[d] # 0 => <<ppid'[d], d>> \in parents'
    BY <2>1, <2>4 DEF LineageInv, ProcessesOK
  <2>8. ProcessesOK'
    BY <2>1, <2>4, <2>5, <2>6, <2>7 DEF LineageInv, ProcessesOK
  <2>9. QED
    BY <1>3, <2>8 DEF LineageInv
<1>6. QED
  BY <1>4, <1>5

\* The end of a walk appends a lineage.
LEMMA EndWalkKeeps ==
    ASSUME LineageInv, NEW chain, Linked(chain, parents), walk.phase # "none", EndWalk(chain)
    PROVE  WalkOK(walk', parents) /\ EventsOK(events', parents)
<1>1. MaxPid \in Nat \ {0}
  BY LineageAssumption
<1> DEFINE lineage == IF chain = <<>> THEN <<<<walk.of, FALSE>>>> ELSE chain
<1>2. events' = Append(events, lineage) /\ walk' = NoWalk
  BY DEF EndWalk
<1>3. lineage # <<>> /\ Linked(lineage, parents)
  <2>1. CASE chain = <<>>
    <3>1. walk.of \in 0 .. MaxPid /\ walk.of # 0
      BY DEF LineageInv, WalkOK
    <3> DEFINE of == walk.of
    <3> HIDE DEF of
    <3>2. of \in Pids
      BY <1>1, <3>1 DEF Pids, of
    <3>3. <<of, FALSE>> \in ProcessKeys
      BY <3>2 DEF ProcessKeys
    <3>4. <<walk.of, FALSE>> \in ProcessKeys
      BY <3>3 DEF of
    <3>5. Linked(<<<<walk.of, FALSE>>>>, parents)
      BY <3>4 DEF Linked
    <3>6. QED
      BY <2>1, <3>5
  <2>2. CASE chain # <<>>
    BY <2>2
  <2>3. QED
    BY <2>1, <2>2
<1> HIDE DEF lineage
<1>4. EventsOK(events', parents)
  <2>1. events \in Seq(Seq(ProcessKeys)) /\ lineage \in Seq(ProcessKeys)
    BY <1>3 DEF LineageInv, EventsOK, Linked
  <2>2. /\ events' \in Seq(Seq(ProcessKeys))
        /\ \A i \in DOMAIN events' :
             events'[i] = lineage \/ (i \in DOMAIN events /\ events'[i] = events[i])
    BY <1>2, <2>1
  <2>3. QED
    BY <1>3, <2>2 DEF LineageInv, EventsOK
<1>5. WalkOK(NoWalk, parents)
  BY <1>1 DEF WalkOK, NoWalk, Linked
<1>6. QED
  BY <1>2, <1>4, <1>5

\* One round of the walk, with what was read of the process it is at.
LEMMA PushKeeps ==
    ASSUME LineageInv, NEW info \in [key : (0 .. MaxPid) \X BOOLEAN, ppid : 0 .. MaxPid],
           walk.phase # "none", info.key[1] = walk.pid,
           info.ppid # 0 => <<info.ppid, walk.pid>> \in parents, Push(info)
    PROVE  WalkOK(walk', parents) /\ EventsOK(events', parents)
<1>1. MaxPid \in Nat \ {0}
  BY LineageAssumption
<1>2. info.key \in ProcessKeys
  BY <1>1 DEF LineageInv, WalkOK, ProcessKeys, Pids
<1> DEFINE chain == <<info.key>> \o walk.chain
<1>3. /\ Linked(chain, parents) /\ chain[1] = info.key /\ chain # <<>>
  BY <1>2, LinkedLonger DEF LineageInv, WalkOK
<1>4. \/ EndWalk(chain)
      \/ /\ info.ppid # 0 /\ UNCHANGED events
         /\ walk' = [walk EXCEPT !.phase = "status", !.pid = info.ppid, !.chain = chain]
  BY DEF Push
<1> HIDE DEF chain
<1>5. CASE EndWalk(chain)
  BY <1>3, <1>5, EndWalkKeeps
<1>6. CASE /\ info.ppid # 0 /\ UNCHANGED events
           /\ walk' = [walk EXCEPT !.phase = "status", !.pid = info.ppid, !.chain = chain]
  <2>1. chain \in Seq(ProcessKeys)
    BY <1>3 DEF Linked
  <2>2. /\ walk' \in [phase : {"none", "status", "stat"}, of : 0 .. MaxPid, pid : 0 .. MaxPid,
                      ppid : 0 .. MaxPid, chain : Seq(ProcessKeys)]
        /\ walk'.phase = "status" /\ walk'.pid = info.ppid /\ walk'.chain = chain
        /\ walk'.of = walk.of
    BY <1>6, <2>1 DEF LineageInv, WalkOK
  <2>3. <<walk'.pid, walk'.chain[1][1]>> \in parents
    BY <1>3, <1>6, <2>2
  <2>4. WalkOK(walk', parents)
    BY <1>3, <1>6, <2>2, <2>3 DEF LineageInv, WalkOK
  <2>5. EventsOK(events', parents)
    BY <1>6 DEF LineageInv
  <2>6. QED
    BY <2>4, <2>5
<1>7. QED
  BY <1>4, <1>5, <1>6

\* The walk itself.
LEMMA WalkKeeps ==
    ASSUME LineageInv,
           (\E p \in Pids : StartWalk(p)) \/ ReadStatus \/ ReadStat \/ ReadCached
    PROVE  LineageInv'
<1>1. MaxPid \in Nat \ {0}
  BY LineageAssumption
<1>2. ProcessesOK' /\ parents' = parents
  BY DEF StartWalk, ReadStatus, ReadStat, ReadCached, LineageInv, ProcessesOK
<1>3. SUFFICES CacheOK(cache', parents) /\ WalkOK(walk', parents) /\ EventsOK(events', parents)
  BY <1>2 DEF LineageInv
<1>4. CASE \E p \in Pids : StartWalk(p)
  <2>1. PICK p \in Pids : StartWalk(p)
    BY <1>4
  <2>2. walk' = [NoWalk EXCEPT !.phase = "status", !.of = p, !.pid = p] /\ UNCHANGED <<cache, events>>
    BY <2>1 DEF StartWalk
  <2>3. p \in 0 .. MaxPid /\ p # 0 /\ 0 \in 0 .. MaxPid
    BY <1>1 DEF Pids
  <2>4. /\ walk' \in [phase : {"none", "status", "stat"}, of : 0 .. MaxPid, pid : 0 .. MaxPid,
                      ppid : 0 .. MaxPid, chain : Seq(ProcessKeys)]
        /\ walk'.phase = "status" /\ walk'.of = p /\ walk'.pid = p /\ walk'.chain = <<>>
    <3>1. <<>> \in Seq(ProcessKeys)
      OBVIOUS
    <3>2. QED
      BY <2>2, <2>3, <3>1 DEF NoWalk
  <2>5. Linked(<<>>, parents)
    BY DEF Linked
  <2>6. WalkOK(walk', parents)
    BY <2>3, <2>4, <2>5 DEF WalkOK
  <2>7. QED
    BY <2>2, <2>6 DEF LineageInv
<1>5. CASE ReadStatus
  <2>1. /\ walk' = [walk EXCEPT !.phase = "stat", !.ppid = ppid[walk.pid]]
        /\ walk.phase = "status" /\ UNCHANGED <<cache, events>>
    BY <1>5 DEF ReadStatus
  <2>2. walk.pid \in Pids
    BY <1>1, <2>1 DEF LineageInv, WalkOK, Pids
  <2>3. /\ ppid[walk.pid] \in 0 .. MaxPid
        /\ ppid[walk.pid] # 0 => <<ppid[walk.pid], walk.pid>> \in parents
    BY <2>2 DEF LineageInv, ProcessesOK
  <2>4. /\ walk' \in [phase : {"none", "status", "stat"}, of : 0 .. MaxPid, pid : 0 .. MaxPid,
                      ppid : 0 .. MaxPid, chain : Seq(ProcessKeys)]
        /\ walk'.phase = "stat" /\ walk'.pid = walk.pid /\ walk'.chain = walk.chain
        /\ walk'.of = walk.of /\ walk'.ppid = ppid[walk.pid]
    BY <2>1, <2>3 DEF LineageInv, WalkOK
  <2>5. WalkOK(walk', parents)
    BY <2>1, <2>3, <2>4 DEF LineageInv, WalkOK
  <2>6. QED
    BY <2>1, <2>5 DEF LineageInv
<1>6. CASE ReadStat
  <2> DEFINE info == [key |-> <<walk.pid, walk.pid \in alive>>, ppid |-> walk.ppid]
  <2>1. walk.phase = "stat" /\ cache' = [cache EXCEPT ![walk.pid] = info] /\ Push(info)
    BY <1>6 DEF ReadStat
  <2>2. /\ walk.pid \in Pids /\ walk.pid \in 0 .. MaxPid /\ walk.ppid \in 0 .. MaxPid
        /\ walk.ppid # 0 => <<walk.ppid, walk.pid>> \in parents
    BY <1>1, <2>1 DEF LineageInv, WalkOK, Pids
  <2>3. (walk.pid \in alive) = TRUE \/ (walk.pid \in alive) = FALSE
    OBVIOUS
  <2>4. /\ info \in [key : (0 .. MaxPid) \X BOOLEAN, ppid : 0 .. MaxPid]
        /\ info.key[1] = walk.pid /\ info.ppid = walk.ppid
    BY <2>2, <2>3
  <2> HIDE DEF info
  <2>5. WalkOK(walk', parents) /\ EventsOK(events', parents)
    BY <2>1, <2>2, <2>4, PushKeeps
  <2>6. CacheOK(cache', parents)
    BY <2>1, <2>2, <2>4 DEF LineageInv, CacheOK
  <2>7. QED
    BY <2>5, <2>6
<1>7. CASE ReadCached
  <2>1. walk.phase = "status" /\ cache' = cache
    BY <1>7 DEF ReadCached
  <2>2. walk.pid \in Pids
    BY <1>1, <2>1 DEF LineageInv, WalkOK, Pids
  <2>3. CASE cache[walk.pid] = NotRead
    <3>1. EndWalk(walk.chain)
      BY <1>7, <2>3 DEF ReadCached
    <3>2. QED
      BY <2>1, <3>1, EndWalkKeeps DEF LineageInv, WalkOK
  <2>4. CASE cache[walk.pid] # NotRead
    <3> DEFINE info == cache[walk.pid]
    <3>1. Push(info)
      BY <1>7, <2>4 DEF ReadCached
    <3>2. info \in [key : (0 .. MaxPid) \X BOOLEAN, ppid : 0 .. MaxPid]
      BY <2>2 DEF LineageInv, CacheOK
    <3>3. /\ info.key[1] = walk.pid
          /\ info.ppid # 0 => <<info.ppid, walk.pid>> \in parents
      BY <2>2, <2>4 DEF LineageInv, CacheOK
    <3> HIDE DEF info
    <3>4. WalkOK(walk', parents) /\ EventsOK(events', parents)
      BY <2>1, <3>1, <3>2, <3>3, PushKeeps
    <3>5. QED
      BY <2>1, <3>4 DEF LineageInv
  <2>5. QED
    BY <2>3, <2>4
<1>8. QED
  BY <1>4, <1>5, <1>6, <1>7

\* Process 1 is alone at first.
LEMMA LineageInitially == LineageInit => LineageInv
<1> SUFFICES ASSUME LineageInit PROVE LineageInv
  OBVIOUS
<1> USE DEF LineageInit
<1>1. MaxPid \in Nat \ {0}
  BY LineageAssumption
<1>2. ProcessesOK
  BY <1>1 DEF ProcessesOK, Pids
<1>3. CacheOK(cache, parents)
  <2>1. NotRead \in [key : (0 .. MaxPid) \X BOOLEAN, ppid : 0 .. MaxPid] /\ NotRead.ppid = 0
    <3>1. 0 \in 0 .. MaxPid
      BY <1>1
    <3>2. QED
      BY <3>1 DEF NotRead
  <2>2. QED
    BY <2>1 DEF CacheOK
<1>4. WalkOK(walk, parents)
  BY <1>1 DEF WalkOK, NoWalk, Linked
<1>5. EventsOK(events, parents)
  BY DEF EventsOK
<1>6. QED
  BY <1>2, <1>3, <1>4, <1>5 DEF LineageInv

\* Whatever processes end while their lineage is read, the invariant holds.
THEOREM LineageInvariant == LineageSpec => []LineageInv
<1>1. LineageInv /\ [LineageNext]_lineageVars => LineageInv'
  <2> SUFFICES ASSUME LineageInv, [LineageNext]_lineageVars PROVE LineageInv'
    OBVIOUS
  <2>1. CASE UNCHANGED lineageVars
    BY <2>1 DEF lineageVars, LineageInv, ProcessesOK
  <2>2. CASE \E p \in Pids : Fork(p) \/ Exit(p)
    BY <2>2, ProcessesKeep
  <2>3. CASE (\E p \in Pids : StartWalk(p)) \/ ReadStatus \/ ReadStat \/ ReadCached
    BY <2>3, WalkKeeps
  <2>4. QED
    BY <2>1, <2>2, <2>3 DEF LineageNext
<1>2. QED
  BY <1>1, LineageInitially, PTL DEF LineageSpec

-----------------------------------------------------------------------------
(* Lineage: the tree *)

\* build_process_lineage_tree takes a process's parent from some lineage.
LEMMA ParentKeyIsInALineage ==
    ASSUME LineageInv, NEW key, ParentKey(key) # NoKey
    PROVE  \E i \in DOMAIN events : \E j \in 2 .. Len(events[i]) :
               events[i][j] = key /\ ParentKey(key) = events[i][j - 1]
<1> DEFINE occurrences == {o \in (DOMAIN events) \X (2 .. MaxLineageDepth) :
                              o[2] <= Len(events[o[1]]) /\ events[o[1]][o[2]] = key}
           first == CHOOSE o \in occurrences : \A q \in occurrences : o[1] <= q[1]
           T == {o[1] : o \in occurrences}
<1>1. occurrences # {} /\ ParentKey(key) = events[first[1]][first[2] - 1]
  BY DEF ParentKey
<1>2. T \subseteq Nat /\ T # {}
  <2>1. DOMAIN events \subseteq Nat
    BY DEF LineageInv, EventsOK
  <2>2. \A o \in occurrences : o[1] \in DOMAIN events
    OBVIOUS
  <2> HIDE DEF occurrences
  <2>3. QED
    BY <1>1, <2>1, <2>2
<1>3. Min(T) \in T /\ \A y \in T : Min(T) <= y
  BY <1>2, MinOfNaturals
<1>4. \E o \in occurrences : \A q \in occurrences : o[1] <= q[1]
  <2>1. \A q \in occurrences : q[1] \in T
    OBVIOUS
  <2>2. \A y \in T : \E o \in occurrences : y = o[1]
    OBVIOUS
  <2> HIDE DEF T, occurrences
  <2>3. PICK o \in occurrences : Min(T) = o[1]
    BY <1>3, <2>2
  <2>4. QED
    BY <1>3, <2>1, <2>3
<1>5. first \in occurrences
  BY <1>4
<1>6. /\ first[1] \in DOMAIN events /\ first[2] \in 2 .. Len(events[first[1]])
      /\ events[first[1]][first[2]] = key
  <2>1. /\ first \in (DOMAIN events) \X (2 .. MaxLineageDepth)
        /\ first[2] <= Len(events[first[1]]) /\ events[first[1]][first[2]] = key
    BY <1>5
  <2> HIDE DEF first
  <2>2. Len(events[first[1]]) \in Nat
    BY <2>1 DEF LineageInv, EventsOK
  <2>3. QED
    BY <2>1, <2>2
<1>7. QED
  BY <1>1, <1>6

\* The parent of a process in the tree is in some lineage too, and is older.
LEMMA ParentKeyIsOlder ==
    ASSUME LineageInv, NEW key \in Flat, ParentKey(key) # NoKey
    PROVE  /\ <<ParentKey(key)[1], key[1]>> \in parents
           /\ ParentKey(key) \in Flat
           /\ ParentKey(key)[1] < key[1]
<1>0. PICK i \in DOMAIN events : \E j \in 2 .. Len(events[i]) :
            events[i][j] = key /\ ParentKey(key) = events[i][j - 1]
  BY ParentKeyIsInALineage
<1>1. PICK j \in 2 .. Len(events[i]) : events[i][j] = key /\ ParentKey(key) = events[i][j - 1]
  BY <1>0
<1>2. events[i] \in Seq(ProcessKeys) /\ Linked(events[i], parents)
  BY DEF LineageInv, EventsOK
<1>3. j - 1 \in DOMAIN events[i] /\ j \in DOMAIN events[i]
  BY <1>2
<1>4. ParentKey(key) \in Flat
  BY <1>1, <1>3 DEF Flat, Range
<1>5. <<ParentKey(key)[1], key[1]>> \in parents
  BY <1>1, <1>2 DEF Linked
<1>6. ParentKey(key)[1] \in Pids /\ key[1] \in Pids
  BY <1>5 DEF LineageInv, ProcessesOK
<1>7. QED
  BY <1>4, <1>5, <1>6 DEF LineageInv, ProcessesOK

\* The tree shows no process under one that was not its parent, for every number of
\* processes and events and every depth (build_process_lineage_tree).
THEOREM TreeEdgesAreTrue == LineageSpec => []TreeEdgesWereParents
<1>1. LineageInv => TreeEdgesWereParents
  BY ParentKeyIsOlder DEF TreeEdgesWereParents
<1>2. QED
  BY <1>1, LineageInvariant, PTL

\* The processes of the lineages are finitely many, with ids.
LEMMA FlatIsFinite ==
    ASSUME LineageInv
    PROVE  IsFiniteSet(Flat) /\ Flat \subseteq ProcessKeys /\ \A key \in Flat : key[1] \in Nat
<1>1. MaxPid \in Nat
  BY LineageAssumption
<1>2. Flat \subseteq ProcessKeys
  BY DEF LineageInv, EventsOK, Flat, Range
<1>3. IsFiniteSet(Pids)
  BY <1>1, FS_Interval DEF Pids
<1>4. IsFiniteSet(BOOLEAN)
  <2>1. IsFiniteSet({TRUE})
    BY FS_Singleton
  <2>2. IsFiniteSet({TRUE} \cup {FALSE})
    BY <2>1, FS_AddElement
  <2>3. BOOLEAN = {TRUE} \cup {FALSE}
    OBVIOUS
  <2>4. QED
    BY <2>2, <2>3
<1>5. IsFiniteSet(ProcessKeys)
  BY <1>3, <1>4, FS_Product DEF ProcessKeys
<1>6. IsFiniteSet(Flat)
  BY <1>2, <1>5, FS_Subset
<1>7. \A key \in Flat : key[1] \in Nat
  BY <1>2 DEF ProcessKeys, Pids
<1>8. QED
  BY <1>2, <1>6, <1>7

\* The levels of a tree: roots, and with each level the children of the last.
IsLevels(L, roots, flat, parent) ==
    L = [n \in Nat |-> IF n = 0 THEN roots
                       ELSE L[n - 1] \cup {key \in flat : parent[key] \in L[n - 1]}]

\* What build_node reaches is the level that has everything.
LEMMA TreeIsALevel ==
    Tree = (CHOOSE L : IsLevels(L, Roots, Flat, [key \in Flat |-> ParentKey(key)]))[Cardinality(Flat)]
BY DEF Tree, IsLevels

\* There are such levels: a node is in one if a path that long leads to it.
LEMMA LevelsExist ==
    ASSUME NEW flat, NEW roots, roots \subseteq flat, NEW parent
    PROVE  \E L : IsLevels(L, roots, flat, parent)
<1> DEFINE Path(s, m, key) == /\ s \in [0 .. m -> flat] /\ s[0] \in roots /\ s[m] = key
                              /\ \A i \in 1 .. m : parent[s[i]] = s[i - 1]
           Reached(n) == {key \in flat : \E m \in 0 .. n : \E s : Path(s, m, key)}
           L == [n \in Nat |-> Reached(n)]
<1>1. Reached(0) = roots
  <2>1. ASSUME NEW key \in roots PROVE key \in Reached(0)
    <3> DEFINE s == [i \in 0 .. 0 |-> key]
    <3>1. Path(s, 0, key)
      OBVIOUS
    <3> HIDE DEF s, Path
    <3>2. key \in flat /\ 0 \in 0 .. 0
      OBVIOUS
    <3>3. QED
      BY <3>1, <3>2
  <2>2. ASSUME NEW key \in Reached(0) PROVE key \in roots
    OBVIOUS
  <2>3. QED
    BY <2>1, <2>2
<1>2. ASSUME NEW n \in Nat \ {0}
      PROVE  Reached(n) = Reached(n - 1) \cup {key \in flat : parent[key] \in Reached(n - 1)}
  <2>1. n - 1 \in Nat /\ 0 .. (n - 1) \subseteq 0 .. n
    OBVIOUS
  <2>2. Reached(n - 1) \subseteq Reached(n)
    BY <2>1
  <2>3. ASSUME NEW key \in flat, parent[key] \in Reached(n - 1)
        PROVE  key \in Reached(n)
    <3>0. PICK m \in 0 .. (n - 1) : \E s : Path(s, m, parent[key])
      BY <2>3
    <3>1. PICK s : Path(s, m, parent[key])
      BY <3>0
    <3> DEFINE r == [i \in 0 .. (m + 1) |-> IF i = m + 1 THEN key ELSE s[i]]
    <3>2. m \in Nat /\ m + 1 \in 0 .. n /\ 0 \in 0 .. m /\ m + 1 # 0
      BY <2>1
    <3>3. r \in [0 .. (m + 1) -> flat] /\ r[0] \in roots /\ r[m + 1] = key
      BY <3>1, <3>2
    <3>4. ASSUME NEW i \in 1 .. (m + 1) PROVE parent[r[i]] = r[i - 1]
      <4>1. CASE i = m + 1
        <5>1. r[i] = key /\ r[i - 1] = s[m]
          BY <3>2, <4>1
        <5>2. QED
          BY <3>1, <5>1
      <4>2. CASE i # m + 1
        <5>1. i \in 1 .. m /\ r[i] = s[i] /\ r[i - 1] = s[i - 1]
          BY <3>2, <4>2
        <5>2. QED
          BY <3>1, <5>1
      <4>3. QED
        BY <4>1, <4>2
    <3> HIDE DEF r
    <3>5. Path(r, m + 1, key)
      BY <3>3, <3>4
    <3> HIDE DEF Path
    <3>6. QED
      BY <3>2, <3>5
  <2>4. ASSUME NEW key \in Reached(n), key \notin Reached(n - 1)
        PROVE  key \in flat /\ parent[key] \in Reached(n - 1)
    <3>0. PICK m \in 0 .. n : \E s : Path(s, m, key)
      BY <2>4
    <3>1. PICK s : Path(s, m, key)
      BY <3>0
    <3>2. m = n
      <4> HIDE DEF Path
      <4>1. m \notin 0 .. (n - 1)
        BY <2>4, <3>1
      <4>2. QED
        BY <2>1, <4>1
    <3> DEFINE r == [i \in 0 .. (n - 1) |-> s[i]]
    <3>3. /\ s \in [0 .. n -> flat] /\ s[0] \in roots /\ s[n] = key
          /\ \A i \in 1 .. n : parent[s[i]] = s[i - 1]
      BY <3>1, <3>2
    <3>4. parent[key] = s[n - 1] /\ s[n - 1] \in flat
      BY <2>1, <3>3
    <3>5. r \in [0 .. (n - 1) -> flat] /\ r[0] = s[0] /\ r[n - 1] = s[n - 1]
      BY <2>1, <3>3
    <3>6. \A i \in 1 .. (n - 1) : parent[r[i]] = r[i - 1]
      <4>1. TAKE i \in 1 .. (n - 1)
      <4>2. r[i] = s[i] /\ r[i - 1] = s[i - 1] /\ i \in 1 .. n
        BY <2>1
      <4>3. QED
        BY <3>3, <4>2
    <3> HIDE DEF r
    <3>7. Path(r, n - 1, parent[key])
      BY <3>3, <3>4, <3>5, <3>6
    <3> HIDE DEF Path
    <3>8. n - 1 \in 0 .. (n - 1)
      BY <2>1
    <3>9. QED
      BY <3>4, <3>7, <3>8
  <2> HIDE DEF Reached
  <2>5. Reached(n) \subseteq flat
    BY DEF Reached
  <2>6. QED
    BY <2>2, <2>3, <2>4, <2>5
<1> HIDE DEF Reached
<1>3. ASSUME NEW n \in Nat
      PROVE  L[n] = IF n = 0 THEN roots ELSE L[n - 1] \cup {key \in flat : parent[key] \in L[n - 1]}
  <2>1. CASE n = 0
    BY <1>1, <2>1
  <2>2. CASE n # 0
    <3>1. n \in Nat \ {0} /\ n - 1 \in Nat
      BY <2>2
    <3>2. QED
      BY <1>2, <2>2, <3>1
  <2>3. QED
    BY <2>1, <2>2
<1>4. L = [n \in Nat |-> L[n]]
  OBVIOUS
<1> HIDE DEF L
<1>5. IsLevels(L, roots, flat, parent)
  BY <1>3, <1>4 DEF IsLevels
<1>6. QED
  BY <1>5

\* Levels grow.
LEMMA LevelsGrow ==
    ASSUME NEW L, NEW roots, NEW flat, NEW parent, IsLevels(L, roots, flat, parent),
           NEW a \in Nat, NEW b \in Nat, a <= b
    PROVE  L[a] \subseteq L[b]
<1> DEFINE T == {n \in Nat : a <= n /\ ~(L[a] \subseteq L[n])}
<1>1. \A n \in Nat \ {0} : L[n - 1] \subseteq L[n]
  <2>1. TAKE n \in Nat \ {0}
  <2>2. L[n] = L[n - 1] \cup {key \in flat : parent[key] \in L[n - 1]}
    BY DEF IsLevels
  <2>3. QED
    BY <2>2
<1>2. T = {}
  <2>1. SUFFICES ASSUME T # {} PROVE FALSE
    OBVIOUS
  <2>2. PICK n \in T : \A k \in T : n <= k
    <3>1. T \subseteq Nat
      OBVIOUS
    <3>2. QED
      BY <2>1, <3>1, MinOfNaturals
  <2>3. n \in Nat /\ n # a /\ a <= n
    BY <2>2
  <2>4. n - 1 \in Nat /\ a <= n - 1 /\ n \in Nat \ {0}
    BY <2>3
  <2>5. n - 1 \notin T
    BY <2>2, <2>4
  <2>6. L[a] \subseteq L[n - 1] /\ L[n - 1] \subseteq L[n]
    BY <1>1, <2>4, <2>5
  <2>7. QED
    BY <2>2, <2>6
<1>3. QED
  BY <1>2

\* Everything in the lineages is in the tree.  A process that is not a root has an
\* older parent; so it is at most as deep as there are older processes.
LEMMA TreeHasEverything ==
    ASSUME LineageInv
    PROVE  Flat \subseteq Tree
<1> DEFINE parent == [key \in Flat |-> ParentKey(key)]
           L == CHOOSE l : IsLevels(l, Roots, Flat, parent)
           Older(key) == {k \in Flat : k[1] < key[1]}
<1>1. Roots \subseteq Flat
  BY DEF Roots
<1>2. IsLevels(L, Roots, Flat, parent)
  <2>1. \E l : IsLevels(l, Roots, Flat, parent)
    BY <1>1, LevelsExist
  <2>2. QED
    BY <2>1
<1>3. Tree = L[Cardinality(Flat)]
  BY TreeIsALevel
<1>4. \A key \in Flat : parent[key] = ParentKey(key)
  OBVIOUS
<1> HIDE DEF L, parent
<1>5. /\ L[0] = Roots
      /\ \A n \in Nat \ {0} : L[n] = L[n - 1] \cup {key \in Flat : parent[key] \in L[n - 1]}
  BY <1>2 DEF IsLevels
<1>6. \A key \in Flat : /\ Cardinality(Older(key)) \in Nat
                        /\ Cardinality(Older(key)) <= Cardinality(Flat)
                        /\ IsFiniteSet(Older(key))
  <2>1. TAKE key \in Flat
  <2>2. Older(key) \in SUBSET Flat /\ IsFiniteSet(Flat)
    BY FlatIsFinite
  <2>3. QED
    BY <2>2, FS_Subset, FS_CardinalityType
<1>7. Cardinality(Flat) \in Nat
  BY FlatIsFinite, FS_CardinalityType
<1> DEFINE Wrong(key) == key \notin L[Cardinality(Older(key))]
           T == {n \in Nat : \E key \in Flat : key[1] = n /\ Wrong(key)}
<1>8. T = {}
  <2>1. SUFFICES ASSUME T # {} PROVE FALSE
    OBVIOUS
  <2>2. PICK n \in T : \A k \in T : n <= k
    <3>1. T \subseteq Nat
      OBVIOUS
    <3>2. QED
      BY <2>1, <3>1, MinOfNaturals
  <2>3. PICK key \in Flat : key[1] = n /\ Wrong(key)
    BY <2>2
  <2> DEFINE c == Cardinality(Older(key))
  <2>4. c \in Nat
    BY <1>6
  <2>5. key \notin Roots
    <3> HIDE DEF c
    <3>1. L[0] \subseteq L[c]
      <4>1. 0 \in Nat /\ 0 <= c
        BY <2>4
      <4>2. QED
        BY <1>2, <2>4, <4>1, LevelsGrow
    <3>2. QED
      BY <1>5, <2>3, <3>1 DEF c
  <2> DEFINE par == ParentKey(key)
  <2>6. par \in Flat /\ par[1] < key[1]
    <3>1. par \in Flat
      BY <2>5 DEF Roots
    <3>2. par # NoKey
      <4>1. par[1] \in Pids
        <5> HIDE DEF par
        <5>1. par \in Pids \X BOOLEAN
          BY <3>1, FlatIsFinite DEF ProcessKeys
        <5>2. QED
          BY <5>1
      <4>2. par[1] # 0
        BY <4>1 DEF Pids
      <4>3. NoKey[1] = 0
        BY DEF NoKey
      <4>4. QED
        BY <4>2, <4>3
    <3>3. QED
      BY <3>2, ParentKeyIsOlder
  <2> HIDE DEF par
  <2>7. ~Wrong(par)
    <3> HIDE DEF Wrong
    <3>1. par[1] \in Nat /\ key[1] \in Nat
      BY <2>6, FlatIsFinite
    <3>2. par[1] \notin T
      BY <2>2, <2>3, <2>6, <3>1
    <3>3. QED
      BY <2>6, <3>1, <3>2
  <2> DEFINE d == Cardinality(Older(par))
  <2>8. d \in Nat /\ d + 1 <= c
    <3>1. Older(par) \cup {par} \subseteq Older(key) /\ par \notin Older(par)
      <4>1. par[1] \in Nat /\ key[1] \in Nat /\ \A k \in Flat : k[1] \in Nat
        BY <2>6, FlatIsFinite
      <4>2. QED
        BY <2>6, <4>1
    <3>2. IsFiniteSet(Older(par)) /\ IsFiniteSet(Older(key)) /\ d \in Nat
      BY <1>6, <2>6
    <3> HIDE DEF Older
    <3>3. Cardinality(Older(par) \cup {par}) = d + 1
      BY <3>1, <3>2, FS_AddElement
    <3>4. Cardinality(Older(par) \cup {par}) <= c
      BY <3>1, <3>2, FS_Subset
    <3>5. QED
      BY <3>2, <3>3, <3>4
  <2>9. par \in L[d]
    BY <2>7
  <2> HIDE DEF d, c
  <2>10. c - 1 \in Nat /\ d <= c - 1 /\ c \in Nat \ {0}
    BY <2>4, <2>8
  <2>11. par \in L[c - 1]
    <3>1. L[d] \subseteq L[c - 1]
      BY <1>2, <2>8, <2>10, LevelsGrow
    <3>2. QED
      BY <2>9, <3>1
  <2>12. key \in L[c]
    BY <1>4, <1>5, <2>10, <2>11 DEF par
  <2>13. QED
    BY <2>3, <2>12 DEF c
<1>9. SUFFICES ASSUME NEW key \in Flat PROVE key \in Tree
  OBVIOUS
<1>10. key[1] \in Nat
  BY FlatIsFinite
<1>11. key \in L[Cardinality(Older(key))]
  BY <1>8, <1>10
<1>12. L[Cardinality(Older(key))] \subseteq L[Cardinality(Flat)]
  <2> HIDE DEF Older
  <2>1. QED
    BY <1>2, <1>6, <1>7, LevelsGrow
<1>13. QED
  BY <1>3, <1>11, <1>12

\* No event is lost from the tree, for every number of processes and events and every
\* depth: the lineages have no cycle (build_process_lineage_tree, build_node).
THEOREM EventsReachTheTree == LineageSpec => []EventsAreInTheTree
<1>1. LineageInv => EventsAreInTheTree
  <2>1. SUFFICES ASSUME LineageInv, NEW i \in DOMAIN events PROVE Last(events[i]) \in Tree
    BY DEF EventsAreInTheTree
  <2>2. events[i] \in Seq(ProcessKeys) /\ events[i] # <<>>
    BY <2>1 DEF LineageInv, EventsOK
  <2>3. Len(events[i]) \in DOMAIN events[i]
    BY <2>2
  <2>4. Last(events[i]) \in Flat
    BY <2>3 DEF Last, Flat, Range
  <2>5. QED
    BY <2>1, <2>4, TreeHasEverything
<1>2. QED
  BY <1>1, LineageInvariant, PTL

=============================================================================
