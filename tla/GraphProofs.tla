---------------------------- MODULE GraphProofs ----------------------------
(***************************************************************************)
(* Proofs about DagExecutor, GraphqlLimits and Idempotency, for every set  *)
(* of nodes and every graph, every set of calls and every limit, and any   *)
(* number of workers.                                                      *)
(***************************************************************************)
EXTENDS MCGraph, FiniteSetTheorems, SequenceTheorems, WellFoundedInduction, TLAPS

-----------------------------------------------------------------------------
(* The least of a set of naturals                                          *)

Lesser == {ss \in Nat \X Nat : ss[1] < ss[2]}

LEMMA LesserWellFounded == IsWellFoundedOn(Lesser, Nat)
    BY NatLessThanWellFounded DEF OpToRel, Lesser

LEMMA LeastNatural ==
    ASSUME NEW T \in SUBSET Nat, T # {}
    PROVE  \E x \in T : \A y \in T : x <= y
<1>1. \E x \in T : \A y \in T : ~ (<<y, x>> \in Lesser)
  <2>1. T \subseteq Nat /\ T # {}
      OBVIOUS
  <2> QED
      BY <2>1, WFMin, LesserWellFounded, ZenonT(60)
<1>2. ASSUME NEW x \in T, NEW y \in T, ~ (<<y, x>> \in Lesser)
      PROVE  x <= y
  <2>1. x \in Nat /\ y \in Nat
      OBVIOUS
  <2>2. ~ (y < x)
      BY <1>2, <2>1 DEF Lesser
  <2> QED
      BY <2>1, <2>2
<1> QED
    BY <1>1, <1>2

USE LimitsAssumption, DagAssumption

-----------------------------------------------------------------------------
(* DagExecutor                                                             *)

Last == Cardinality(Nodes) - 1

\* There is a node, so there is a level 0.
LEMMA LastLevel == Last \in Nat /\ Levels = 0 .. Last
<1>1. Cardinality(Nodes) \in Nat /\ Cardinality(Nodes) # 0
    BY FS_CardinalityType, FS_EmptySet
<1> QED
    BY <1>1 DEF Last, Levels

\* Running, or over with an answer: the levels are there.
Built == outcome \in {"running", "ok", "error"}

\* Before execute has spawned anything.
Untouched ==
    outcome \in {"new", "cyclic"} =>
        /\ wave = 0 /\ ~ joining /\ handles = <<>> /\ results = {}
        /\ \A n \in Nodes : task[n] = "none"

Stored == results = {n \in Nodes : task[n] = "stored"}

\* The waves that are over have all stored their outputs.
WavesStored ==
    outcome \in {"running", "ok"} =>
        \A n \in Nodes : level[n] < wave => n \in results

\* Of the wave being joined, what is not stored has its handle still there.
JoinRemains ==
    outcome = "running" /\ joining =>
        \A n \in Nodes : level[n] = wave => n \in results \/ \E i \in 1 .. Len(handles) : handles[i] = n

\* What is not spawned yet has no task.
Awaited ==
    outcome = "running" =>
        \A n \in Nodes : level[n] > wave \/ (~ joining /\ n \in ToSpawn) => task[n] = "none"

\* A wave is under way only if it has a node, and Ok comes after the last.
WaveHasNode ==
    /\ outcome = "running" => wave = 0 \/ \E n \in Nodes : level[n] >= wave
    /\ outcome = "ok" => \A n \in Nodes : level[n] < wave

DagInv ==
    /\ DagTypeOK
    /\ Untouched /\ Stored /\ WavesStored /\ JoinRemains /\ Awaited /\ WaveHasNode
    /\ Built => IsLevels(level)
    /\ \A n \in Nodes : task[n] # "none" => input[n] = Preds(n)

LEMMA DagInitInv == DagInit => DagInv
<1> SUFFICES ASSUME DagInit PROVE DagInv
    OBVIOUS
<1> USE DEF DagInit
<1>1. DagTypeOK
  <2>1. [n \in Nodes |-> 0] \in [Nodes -> Levels]
      BY LastLevel
  <2>2. 0 \in 0 .. Cardinality(Nodes)
      BY FS_CardinalityType
  <2>3. edges \in SUBSET (Nodes \X Nodes)
      OBVIOUS
  <2>4. handles \in Seq(Nodes)
      OBVIOUS
  <2>5. /\ task \in [Nodes -> {"none", "running", "ok", "stored", "failed"}]
        /\ input \in [Nodes -> SUBSET Nodes]
      OBVIOUS
  <2> QED
      BY <2>1, <2>2, <2>3, <2>4, <2>5 DEF DagTypeOK
<1> QED
    BY <1>1 DEF DagInv, Untouched, Stored, WavesStored, JoinRemains, Awaited, WaveHasNode, Built

LEMMA BuildInv == ASSUME DagInv, Build PROVE DagInv'
<1> USE DEF Build, DagInv, graph
<1>1. DagTypeOK'
    BY DEF DagTypeOK
<1>2. Untouched' /\ Stored' /\ JoinRemains' /\ Awaited'
    BY DEF Untouched, Stored, JoinRemains, Awaited
<1>3. WavesStored' /\ WaveHasNode'
  <2>1. wave' = 0
      BY DEF Untouched
  <2>2. outcome' \in {"running", "cyclic"}
      OBVIOUS
  <2>3. \A n \in Nodes : level'[n] \in Nat
      BY <1>1, LastLevel DEF DagTypeOK
  <2> QED
      BY <2>1, <2>2, <2>3 DEF WavesStored, WaveHasNode
<1>4. (Built => IsLevels(level))'
    BY DEF Built, IsLevels, Preds
<1> QED
    BY <1>1, <1>2, <1>3, <1>4 DEF Untouched, Preds

LEMMA SpawnInv == ASSUME DagInv, NEW n \in Nodes, Spawn(n) PROVE DagInv'
<1> USE DEF Spawn, DagInv, graph
<1>1. Preds(n) \subseteq results
  <2>1. \A p \in Preds(n) : level[p] < level[n]
      BY LastLevel DEF Built, IsLevels, DagTypeOK, Preds
  <2> QED
      BY <2>1 DEF WavesStored, ToSpawn, Preds
<1>2. task[n] = "none" /\ level[n] = wave
    BY DEF Awaited, ToSpawn
<1>3. /\ task' \in [Nodes -> {"none", "running", "ok", "stored", "failed"}]
      /\ task'[n] = "running" /\ \A m \in Nodes \ {n} : task'[m] = task[m]
    BY DEF DagTypeOK
<1>4. /\ input' \in [Nodes -> SUBSET Nodes]
      /\ input'[n] = Preds(n) /\ \A m \in Nodes \ {n} : input'[m] = input[m]
    BY <1>1 DEF DagTypeOK, Preds
<1>5. /\ handles' \in Seq(Nodes) /\ Len(handles') = Len(handles) + 1
      /\ handles'[Len(handles')] = n
      /\ \A i \in 1 .. Len(handles) : handles'[i] = handles[i]
    BY DEF DagTypeOK
<1>6. DagTypeOK'
    BY <1>3, <1>4, <1>5 DEF DagTypeOK
<1>7. Untouched' /\ Stored' /\ WavesStored' /\ JoinRemains' /\ WaveHasNode'
    BY <1>2, <1>3 DEF Untouched, Stored, WavesStored, JoinRemains, WaveHasNode
<1>8. Awaited'
  <2>1. ToSpawn' = ToSpawn \ {n}
    <3>1. Len(handles) \in Nat /\ Len(handles') \in Nat
        BY <1>5 DEF DagTypeOK
    <3> QED
        BY <1>2, <1>5, <3>1 DEF ToSpawn
  <2>2. wave \in Int /\ level[n] \in Int
      BY LastLevel DEF DagTypeOK
  <2> QED
      BY <1>2, <1>3, <2>1, <2>2 DEF Awaited
<1>9. (Built => IsLevels(level))' /\ (\A m \in Nodes : task[m] # "none" => input[m] = Preds(m))'
    BY <1>3, <1>4 DEF Built, IsLevels, Preds
<1> QED
    BY <1>6, <1>7, <1>8, <1>9

LEMMA NoServiceInv == ASSUME DagInv, NEW n \in Nodes, NoService(n) PROVE DagInv'
<1> USE DEF NoService, DagInv, graph
<1>1. DagTypeOK'
    BY DEF DagTypeOK
<1> QED
    BY <1>1 DEF Untouched, Stored, WavesStored, JoinRemains, Awaited, WaveHasNode, Built,
                IsLevels, Preds

LEMMA SpawnedInv == ASSUME DagInv, Spawned PROVE DagInv'
<1> USE DEF Spawned, DagInv, graph
<1>1. DagTypeOK'
    BY DEF DagTypeOK
<1>2. JoinRemains'
    BY DEF JoinRemains, ToSpawn
<1>3. Awaited'
    BY DEF Awaited
<1> QED
    BY <1>1, <1>2, <1>3 DEF Untouched, Stored, WavesStored, WaveHasNode, Built, IsLevels, Preds

LEMMA ServeInv == ASSUME DagInv, NEW n \in Nodes, Serve(n) PROVE DagInv'
<1> USE DEF Serve, DagInv, graph
<1>1. /\ task' \in [Nodes -> {"none", "running", "ok", "stored", "failed"}]
      /\ task'[n] \in {"ok", "failed"} /\ \A m \in Nodes \ {n} : task'[m] = task[m]
    BY DEF DagTypeOK
<1>2. DagTypeOK'
    BY <1>1 DEF DagTypeOK
<1>3. Untouched' /\ Stored' /\ WavesStored' /\ JoinRemains' /\ WaveHasNode'
    BY <1>1 DEF Untouched, Stored, WavesStored, JoinRemains, WaveHasNode
<1>4. Awaited'
    BY <1>1 DEF Awaited, ToSpawn
<1> QED
    BY <1>1, <1>2, <1>3, <1>4 DEF Built, IsLevels, Preds

LEMMA StoreInv == ASSUME DagInv, NEW n \in Nodes, Store(n) PROVE DagInv'
<1> USE DEF Store, DagInv, graph
<1>1. /\ task' \in [Nodes -> {"none", "running", "ok", "stored", "failed"}]
      /\ task'[n] = "stored" /\ \A m \in Nodes \ {n} : task'[m] = task[m]
    BY DEF DagTypeOK
<1>2. DagTypeOK'
    BY <1>1 DEF DagTypeOK
<1>3. Untouched' /\ Stored' /\ WavesStored' /\ JoinRemains' /\ WaveHasNode'
    BY <1>1 DEF Untouched, Stored, WavesStored, JoinRemains, WaveHasNode
<1>4. Awaited'
    BY <1>1 DEF Awaited, ToSpawn
<1> QED
    BY <1>1, <1>2, <1>3, <1>4 DEF Built, IsLevels, Preds

LEMMA JoinInv == ASSUME DagInv, Join PROVE DagInv'
<1> USE DEF Join, DagInv, graph
<1>1. CASE outcome' = "error" /\ UNCHANGED handles
  <2>1. DagTypeOK'
      BY <1>1 DEF DagTypeOK
  <2>2. Untouched' /\ WavesStored' /\ JoinRemains' /\ Awaited' /\ WaveHasNode'
      BY <1>1 DEF Untouched, WavesStored, JoinRemains, Awaited, WaveHasNode
  <2>3. Stored' /\ \A n \in Nodes : task'[n] # "none" => input'[n] = Preds(n)'
      BY DEF Stored, Preds
  <2>4. (Built => IsLevels(level))'
      BY <1>1 DEF Built, IsLevels, Preds
  <2> QED
      BY <1>1, <2>1, <2>2, <2>3, <2>4
<1>2. CASE task[Head(handles)] = "stored" /\ handles' = Tail(handles) /\ UNCHANGED outcome
  <2>1. /\ handles' \in Seq(Nodes) /\ Len(handles') = Len(handles) - 1
        /\ Len(handles) \in Nat \ {0}
        /\ Head(handles) = handles[1]
        /\ \A i \in 1 .. Len(handles') : handles'[i] = handles[i + 1]
      BY <1>2 DEF DagTypeOK
  <2>2. DagTypeOK'
      BY <1>2, <2>1 DEF DagTypeOK
  <2>3. JoinRemains'
    <3> SUFFICES ASSUME NEW n \in Nodes, level[n] = wave, n \notin results
                 PROVE \E i \in 1 .. Len(handles') : handles'[i] = n
        BY DEF JoinRemains
    <3>1. PICK i \in 1 .. Len(handles) : handles[i] = n
        BY DEF JoinRemains
    <3>2. i # 1
        BY <1>2, <2>1, <3>1 DEF Stored
    <3>3. i - 1 \in 1 .. Len(handles') /\ handles'[i - 1] = handles[(i - 1) + 1] /\ (i - 1) + 1 = i
        BY <2>1, <3>2
    <3> QED
        BY <3>1, <3>3
  <2>4. Awaited'
      BY <1>2 DEF Awaited
  <2> QED
      BY <1>2, <2>2, <2>3, <2>4 DEF Untouched, Stored, WavesStored, WaveHasNode, Built, IsLevels,
                                    Preds
<1> QED
    BY <1>1, <1>2

LEMMA NextWaveInv == ASSUME DagInv, NextWave PROVE DagInv'
<1> USE DEF NextWave, DagInv, graph
<1>1. \A n \in Nodes : level[n] \in 0 .. Last
    BY LastLevel DEF DagTypeOK
<1>2. wave \in Nat /\ wave <= Last
    BY <1>1, LastLevel DEF DagTypeOK, WaveHasNode
<1>3. wave' \in 0 .. Cardinality(Nodes)
    BY <1>2, LastLevel, FS_CardinalityType DEF Last
<1>4. outcome' \in {"running", "ok"}
    OBVIOUS
<1>5. DagTypeOK'
    BY <1>3, <1>4 DEF DagTypeOK
<1>6. WavesStored'
    BY <1>1, <1>2 DEF WavesStored, JoinRemains
<1>7. WaveHasNode'
    BY <1>1, <1>2 DEF WaveHasNode
<1>8. Awaited'
  <2> SUFFICES ASSUME outcome' = "running",
                      NEW n \in Nodes, level[n] > wave + 1 \/ n \in ToSpawn'
               PROVE task[n] = "none"
      BY DEF Awaited
  <2>1. level[n] > wave
      BY <1>1, <1>2 DEF ToSpawn
  <2> QED
      BY <2>1 DEF Awaited
<1>9. Untouched' /\ Stored' /\ JoinRemains'
    BY <1>4 DEF Untouched, Stored, JoinRemains
<1>10. (Built => IsLevels(level))' /\ (\A n \in Nodes : task[n] # "none" => input[n] = Preds(n))'
    BY DEF Built, IsLevels, Preds
<1> QED
    BY <1>5, <1>6, <1>7, <1>8, <1>9, <1>10

LEMMA DagNextInv == DagInv /\ [DagNext]_dag => DagInv'
<1> SUFFICES ASSUME DagInv, [DagNext]_dag PROVE DagInv'
    OBVIOUS
<1>1. CASE UNCHANGED dag
    BY ZenonT(30), <1>1 DEF dag, graph, DagInv, DagTypeOK, Untouched, Stored, WavesStored, JoinRemains,
                Awaited, ToSpawn, WaveHasNode, Built, IsLevels, Preds
<1> QED
    BY <1>1, BuildInv, SpawnInv, NoServiceInv, SpawnedInv, ServeInv, StoreInv, JoinInv,
       NextWaveInv DEF DagNext, Returned

LEMMA DagInvHolds == DagInv => InputsReady
    BY DEF DagInv, DagTypeOK, WavesStored, WaveHasNode, InputsReady

\* Whatever the graph and the order in which the tasks of a wave are spawned,
\* end and store, a task begins with the outputs of all its predecessors, and
\* Ok has the output of every node (DagExecutor::execute).
THEOREM DagInputsReady == DagSpec => []InputsReady
<1> QED
    BY DagInitInv, DagNextInv, DagInvHolds, PTL DEF DagSpec

\* build_execution_waves numbers the nodes in one pass; the model only says what
\* the numbers are.  That says it all: a graph has one numbering, or none.
LEMMA OneNumbering ==
    ASSUME NEW lv \in [Nodes -> Levels], NEW lw \in [Nodes -> Levels], IsLevels(lv), IsLevels(lw)
    PROVE  lv = lw
<1>0. \A n \in Nodes : lv[n] \in Nat /\ lw[n] \in Nat
    BY LastLevel
<1> DEFINE Differ == {n \in Nodes : lv[n] # lw[n]}
<1>1. SUFFICES ASSUME Differ # {} PROVE FALSE
    OBVIOUS
<1>2. PICK n \in Differ : \A m \in Differ : lv[n] <= lv[m]
  <2> DEFINE Heights == {lv[m] : m \in Differ}
  <2>1. Heights \in SUBSET Nat /\ Heights # {}
      BY <1>0, <1>1
  <2> HIDE DEF Heights
  <2>2. PICK h \in Heights : \A k \in Heights : h <= k
      BY <2>1, LeastNatural
  <2> USE DEF Heights
  <2> QED
      BY <2>2
<1>3. n \in Nodes /\ lv[n] # lw[n] /\ lv[n] \in Nat /\ lw[n] \in Nat
    BY <1>0, <1>2
<1>4. \A p \in Preds(n) : /\ p \in Nodes /\ lv[p] \in Nat /\ lw[p] = lv[p]
                          /\ lv[n] > lv[p] /\ lw[n] > lv[p]
  <2> SUFFICES ASSUME NEW p \in Preds(n)
               PROVE  /\ p \in Nodes /\ lv[p] \in Nat /\ lw[p] = lv[p]
                      /\ lv[n] > lv[p] /\ lw[n] > lv[p]
      OBVIOUS
  <2>1. p \in Nodes /\ lv[p] \in Nat /\ lv[n] > lv[p] /\ lw[n] > lw[p]
      BY <1>0, <1>3 DEF IsLevels, Preds
  <2>2. p \notin Differ
      BY <1>2, <1>3, <2>1
  <2> QED
      BY <2>1, <2>2
<1>5. lv[n] = 0 \/ \E p \in Preds(n) : lv[n] = lv[p] + 1
    BY <1>3 DEF IsLevels
<1>6. lw[n] = 0 \/ \E p \in Preds(n) : lw[n] = lv[p] + 1
    BY <1>3, <1>4 DEF IsLevels
<1> QED
    BY <1>3, <1>4, <1>5, <1>6

\* Every set of nodes has a node that none of them feeds: the graph has no cycle.
Acyclic == \A S \in SUBSET Nodes : S # {} => \E n \in S : Preds(n) \cap S = {}

\* DagExecutor::from_pipeline: a pipeline that execute has begun to run has no
\* cycle, so a node never waits for its own output.
NoCycleRuns == Built => Acyclic

LEMMA LevelsAcyclic == ASSUME DagTypeOK, IsLevels(level) PROVE Acyclic
<1> SUFFICES ASSUME NEW S \in SUBSET Nodes, S # {} PROVE \E n \in S : Preds(n) \cap S = {}
    BY DEF Acyclic
<1>1. \A n \in Nodes : level[n] \in Nat
    BY LastLevel DEF DagTypeOK
<1>2. PICK n \in S : \A m \in S : level[n] <= level[m]
  <2> DEFINE Heights == {level[m] : m \in S}
  <2>1. Heights \in SUBSET Nat /\ Heights # {}
      BY <1>1
  <2> HIDE DEF Heights
  <2>2. PICK h \in Heights : \A k \in Heights : h <= k
      BY <2>1, LeastNatural
  <2> USE DEF Heights
  <2> QED
      BY <2>2
<1>3. ASSUME NEW p \in Preds(n), p \in S PROVE FALSE
  <2>1. level[n] > level[p] /\ level[n] \in Nat /\ level[p] \in Nat
      BY <1>1, <1>3 DEF IsLevels
  <2> QED
      BY <1>2, <1>3, <2>1
<1> QED
    BY <1>3

\* A pipeline that runs has levels, and levels leave no room for a cycle.
THEOREM NoCycleRunsHolds == DagSpec => []NoCycleRuns
<1>1. DagInv => NoCycleRuns
    BY LevelsAcyclic DEF DagInv, NoCycleRuns
<1> QED
    BY <1>1, DagInitInv, DagNextInv, PTL DEF DagSpec

\* The types of the executor's state.
THEOREM DagTypes == DagSpec => []DagTypeOK
<1>1. DagInv => DagTypeOK
    BY DEF DagInv
<1> QED
    BY <1>1, DagInitInv, DagNextInv, PTL DEF DagSpec

-----------------------------------------------------------------------------
(* GraphqlLimits: the limiter. What a limiter keeps is tied to the history *)
(* of the slots it gave: the times it still has are the last of them, and  *)
(* the tokens it lacks account for each of them.                           *)

Limiters == [stamps : Seq(Nat), tokens : 0 .. Full, refilled : Nat]

LEMMA FullWindow == Full \in Nat /\ Full = MaxRequests * Window /\ Window <= Full
<1>1. MaxRequests \in Nat /\ Window \in Nat /\ MaxRequests >= 1
    OBVIOUS
<1>2. \A a, b \in Nat : a >= 1 => a * b >= b /\ a * b \in Nat
    OBVIOUS
<1> QED
    BY <1>1, <1>2 DEF Full

\* The loop that prunes stops: there is a first time that is in the window.
LEMMA PoppedOld ==
    ASSUME NEW times \in Seq(Nat), clock \in Nat
    PROVE  /\ Popped(times) \in 0 .. Len(times)
           /\ \A i \in 1 .. Popped(times) : clock - times[i] >= Window
<1> DEFINE In == {k \in 0 .. Len(times) : k < Len(times) => clock - times[k + 1] < Window}
           Stop(k) == /\ \A i \in 1 .. k : clock - times[i] >= Window
                      /\ k < Len(times) => clock - times[k + 1] < Window
<1>1. Len(times) \in In /\ In \in SUBSET Nat
    OBVIOUS
<1> HIDE DEF In
<1>2. PICK k \in In : \A j \in In : k <= j
    BY <1>1, LeastNatural
<1> USE DEF In
<1>3. Stop(k)
  <2> SUFFICES ASSUME NEW i \in 1 .. k PROVE clock - times[i] >= Window
      BY <1>2
  <2>1. i - 1 \in 0 .. Len(times) /\ i - 1 < Len(times) /\ ~ (k <= i - 1)
      BY <1>2
  <2>2. i - 1 \notin In
      BY <1>2, <2>1
  <2>3. (i - 1) + 1 = i
      OBVIOUS
  <2>4. times[i] \in Nat /\ Window \in Nat
      BY <1>2
  <2> QED
      BY <2>1, <2>2, <2>3, <2>4
<1>4. k \in 0 .. Len(times)
    OBVIOUS
<1>5. Popped(times) = CHOOSE m \in 0 .. Len(times) : Stop(m)
    BY DEF Popped
<1> HIDE DEF Stop, In
<1>6. Popped(times) \in 0 .. Len(times) /\ Stop(Popped(times))
    BY <1>3, <1>4, <1>5
<1> QED
    BY <1>6 DEF Stop

\* What limiter l keeps of the slots g given by time t.
Recent(l, g, t) ==
    /\ Len(l.stamps) <= MaxRequests /\ Len(l.stamps) <= Len(g)
    /\ \A i \in 1 .. Len(l.stamps) : l.stamps[i] = g[(Len(g) - Len(l.stamps)) + i]
    /\ \A i \in 1 .. Len(g) - Len(l.stamps) : t - g[i] >= Window

Paid(l, g) ==
    \A i \in 1 .. Len(g) :
        /\ g[i] <= l.refilled
        /\ (Len(g) - i + 1) * Window <= (Full - l.tokens) + (l.refilled - g[i]) * MaxRequests

Kept(l, g, t) == IF strategy = "Sliding" THEN Recent(l, g, t) ELSE Paid(l, g)

LEMMA Distributes ==
    ASSUME NEW a \in Int, NEW b \in Int, NEW m \in Int
    PROVE  (a + b) * m = a * m + b * m
OBVIOUS

LEMMA RefilledKept ==
    ASSUME NEW l \in Limiters, NEW g \in Seq(Nat), clock \in Nat, l.refilled <= clock, Paid(l, g)
    PROVE  /\ Refilled(l) \in Limiters
           /\ Refilled(l).refilled = clock
           /\ Paid(Refilled(l), g)
<1> DEFINE gone == (clock - l.refilled) * MaxRequests
           t == Smaller(l.tokens + gone, Full)
<1>1. gone \in Nat
  <2>1. clock - l.refilled \in Nat /\ MaxRequests \in Nat
      BY DEF Limiters
  <2>2. \A a, b \in Nat : a * b \in Nat
      OBVIOUS
  <2> QED
      BY <2>1, <2>2
<1>2. l.tokens \in Nat /\ l.tokens <= Full /\ l.refilled \in Nat
    BY FullWindow DEF Limiters
<1> HIDE DEF gone
<1>3. t \in 0 .. Full /\ t <= l.tokens + gone
    BY <1>1, <1>2, FullWindow DEF Smaller
<1>4. /\ Refilled(l) = [l EXCEPT !.tokens = t, !.refilled = clock]
    BY DEF Refilled, gone
<1> HIDE DEF t
<1>5. /\ Refilled(l) \in Limiters
      /\ Refilled(l).refilled = clock /\ Refilled(l).tokens = t
    BY <1>3, <1>4 DEF Limiters
<1>6. ASSUME NEW i \in 1 .. Len(g)
      PROVE  /\ g[i] <= clock
             /\ (Len(g) - i + 1) * Window <= (Full - t) + (clock - g[i]) * MaxRequests
  <2>1. g[i] \in Nat /\ g[i] <= l.refilled
      BY SMTT(30) DEF Paid
  <2>2. (clock - g[i]) * MaxRequests = gone + (l.refilled - g[i]) * MaxRequests
    <3>1. clock - g[i] = (clock - l.refilled) + (l.refilled - g[i])
        BY <1>2, <2>1
    <3>2. clock - l.refilled \in Int /\ l.refilled - g[i] \in Int /\ MaxRequests \in Int
        BY <1>2, <2>1
    <3>3. ((clock - l.refilled) + (l.refilled - g[i])) * MaxRequests
             = (clock - l.refilled) * MaxRequests + (l.refilled - g[i]) * MaxRequests
        BY <3>2, Distributes, SMTT(30)
    <3> QED
        BY <3>1, <3>3, Zenon DEF gone
  <2> DEFINE used == (Len(g) - i + 1) * Window
             since == (l.refilled - g[i]) * MaxRequests
  <2>3. used <= (Full - l.tokens) + since
      BY DEF Paid
  <2>4. used \in Int /\ since \in Int
    <3>1. \A a, b \in Int : a * b \in Int
        OBVIOUS
    <3>2. Len(g) - i + 1 \in Int /\ l.refilled - g[i] \in Int /\ Window \in Int /\ MaxRequests \in Int
        BY <1>2, <2>1
    <3> QED
        BY <3>1, <3>2
  <2>5. (clock - g[i]) * MaxRequests = gone + since
      BY <2>2
  <2> HIDE DEF used, since
  <2>6. used <= (Full - t) + (gone + since)
    <3> DEFINE had == l.tokens
               full == Full
    <3>1. full \in Int /\ t \in Int
        BY <1>3, FullWindow
    <3>2. had \in Int /\ gone \in Int /\ t <= had + gone
        BY <1>1, <1>2, <1>3
    <3>3. used <= (full - had) + since
        BY <2>3
    <3> HIDE DEF had, full
    <3>4. used <= (full - t) + (gone + since)
        BY <2>4, <3>1, <3>2, <3>3
    <3> QED
        BY <3>4 DEF full
  <2> QED
      BY <1>2, <2>1, <2>5, <2>6 DEF used
<1> QED
    BY <1>5, <1>6 DEF Paid

LEMMA InWindowKept ==
    ASSUME NEW l \in Limiters, NEW g \in Seq(Nat), clock \in Nat, Recent(l, g, clock)
    PROVE  LET p == [l EXCEPT !.stamps = InWindow(@)]
           IN  p \in Limiters /\ p.refilled = l.refilled /\ Recent(p, g, clock)
<1> DEFINE s == l.stamps
           k == Popped(s)
           p == [l EXCEPT !.stamps = InWindow(s)]
<1>1. s \in Seq(Nat) /\ Len(s) \in Nat
    BY DEF Limiters
<1>2. k \in 0 .. Len(s) /\ \A i \in 1 .. k : clock - s[i] >= Window
    BY <1>1, PoppedOld
<1>3. p.stamps = SubSeq(s, k + 1, Len(s)) /\ p.refilled = l.refilled
    BY DEF InWindow, Limiters
<1> HIDE DEF k
<1>4. /\ p.stamps \in Seq(Nat) /\ Len(p.stamps) = Len(s) - k
      /\ \A i \in 1 .. Len(s) - k : p.stamps[i] = s[k + i]
  <2>1. k \in 0 .. Len(s) /\ k + 1 \in 1 .. Len(s) + 1
      BY <1>1, <1>2
  <2>2. \A q \in Seq(Nat) : \A j \in 0 .. Len(q) :
            /\ SubSeq(q, j + 1, Len(q)) \in Seq(Nat)
            /\ Len(SubSeq(q, j + 1, Len(q))) = Len(q) - j
            /\ \A i \in 1 .. Len(q) - j : SubSeq(q, j + 1, Len(q))[i] = q[j + i]
      OBVIOUS
  <2>3. /\ SubSeq(s, k + 1, Len(s)) \in Seq(Nat)
        /\ Len(SubSeq(s, k + 1, Len(s))) = Len(s) - k
        /\ \A i \in 1 .. Len(s) - k : SubSeq(s, k + 1, Len(s))[i] = s[k + i]
      BY <1>1, <2>1, <2>2
  <2> QED
      BY <1>3, <2>3
<1>5. p \in Limiters
    BY <1>4, <1>3 DEF Limiters
<1> HIDE DEF p
<1>6. Len(g) \in Nat /\ Len(s) <= Len(g) /\ Len(s) <= MaxRequests
    BY DEF Recent
<1>7. ASSUME NEW i \in 1 .. Len(p.stamps)
      PROVE  p.stamps[i] = g[(Len(g) - Len(p.stamps)) + i]
  <2>1. k + i \in 1 .. Len(s) /\ p.stamps[i] = s[k + i]
      BY <1>1, <1>2, <1>4
  <2>2. s[k + i] = g[(Len(g) - Len(s)) + (k + i)]
      BY <2>1 DEF Recent
  <2>3. (Len(g) - Len(s)) + (k + i) = (Len(g) - Len(p.stamps)) + i
      BY SMTT(30), <1>1, <1>2, <1>4, <1>6
  <2> QED
      BY <2>1, <2>2, <2>3
<1>8. ASSUME NEW i \in 1 .. Len(g) - Len(p.stamps)
      PROVE  clock - g[i] >= Window
  <2>1. CASE i <= Len(g) - Len(s)
      BY <1>1, <1>6, <2>1 DEF Recent
  <2>2. CASE i > Len(g) - Len(s)
    <3>1. PICK m \in 1 .. k : m \in 1 .. Len(s) /\ (Len(g) - Len(s)) + m = i
      <4> DEFINE gl == Len(g)  sl == Len(s)  pl == Len(p.stamps)
      <4>1. gl \in Int /\ sl \in Int /\ pl = sl - k /\ k \in 0 .. sl
          BY <1>1, <1>2, <1>4, <1>6
      <4>2. i \in 1 .. gl - pl /\ i > gl - sl
          BY <2>2
      <4> HIDE DEF gl, sl, pl
      <4>3. i - (gl - sl) \in 1 .. k /\ i - (gl - sl) \in 1 .. sl
          BY <4>1, <4>2
      <4>4. (gl - sl) + (i - (gl - sl)) = i
          BY <4>1, <4>2
      <4>5. \E m \in 1 .. k : m \in 1 .. sl /\ (gl - sl) + m = i
          BY <4>3, <4>4
      <4> QED
          BY <4>5 DEF gl, sl
    <3>2. s[m] = g[i]
        BY <3>1 DEF Recent
    <3> QED
        BY <1>2, <3>1, <3>2
  <2> QED
      BY <1>1, <1>6, <2>1, <2>2
<1>9. Len(p.stamps) <= MaxRequests /\ Len(p.stamps) <= Len(g)
    BY SMTT(30), <1>1, <1>2, <1>4, <1>6
<1>10. Recent(p, g, clock)
    BY <1>7, <1>8, <1>9 DEF Recent
<1> QED
    BY <1>3, <1>5, <1>10 DEF p

LEMMA LookedKept ==
    ASSUME NEW l \in Limiters, NEW g \in Seq(Nat), clock \in Nat, l.refilled <= clock,
           Kept(l, g, clock)
    PROVE  /\ Looked(l) \in Limiters
           /\ Looked(l).refilled <= clock
           /\ strategy # "Sliding" => Looked(l).refilled = clock
           /\ Kept(Looked(l), g, clock)
<1>1. CASE strategy = "Sliding"
    BY <1>1, InWindowKept DEF Kept, Looked
<1>2. CASE strategy # "Sliding"
    BY <1>2, RefilledKept DEF Kept, Looked
<1> QED
    BY <1>1, <1>2

\* The slots given never come closer than the limit allows.
Spaced(g) ==
    IF strategy = "Sliding"
    THEN \A i \in 1 .. Len(g) : i + MaxRequests <= Len(g) => g[i + MaxRequests] - g[i] >= Window
    ELSE \A i, j \in 1 .. Len(g) :
             i <= j => (j - i + 1) * Window <= Full + (g[j] - g[i]) * MaxRequests

LEMMA Appended ==
    ASSUME NEW g \in Seq(Nat), NEW t \in Nat
    PROVE  /\ Append(g, t) \in Seq(Nat) /\ Len(g) \in Nat /\ Len(Append(g, t)) = Len(g) + 1
           /\ Append(g, t)[Len(g) + 1] = t
           /\ \A i \in 1 .. Len(g) : Append(g, t)[i] = g[i]
    OBVIOUS

LEMMA SlidingTaken ==
    ASSUME NEW l \in Limiters, NEW g \in Seq(Nat), clock \in Nat, strategy = "Sliding",
           Recent(l, g, clock), Spaced(g), HasSlot(l)
    PROVE  /\ Taken(l) \in Limiters /\ Taken(l).refilled = l.refilled
           /\ Recent(Taken(l), Append(g, clock), clock)
           /\ Spaced(Append(g, clock))
<1> DEFINE s == l.stamps
           q == Append(s, clock)
           h == Append(g, clock)
           gl == Len(g)
           sl == Len(s)
<1>1. s \in Seq(Nat) /\ sl \in Nat /\ gl \in Nat
    BY DEF Limiters
<1>2. sl < MaxRequests /\ sl <= gl
    BY DEF HasSlot, Recent
<1>3. Taken(l) \in Limiters /\ Taken(l).refilled = l.refilled /\ Taken(l).stamps = q
  <2>1. q \in Seq(Nat)
      BY <1>1
  <2> QED
      BY <2>1 DEF Taken, Limiters
<1>4. Len(q) = sl + 1 /\ q[sl + 1] = clock /\ \A i \in 1 .. sl : q[i] = s[i]
    BY <1>1, Appended
<1>5. Len(h) = gl + 1 /\ h[gl + 1] = clock /\ \A i \in 1 .. gl : h[i] = g[i]
    BY Appended
<1>6. /\ \A i \in 1 .. sl : s[i] = g[(gl - sl) + i]
      /\ \A i \in 1 .. gl - sl : clock - g[i] >= Window
    BY DEF Recent
<1>7. MaxRequests \in Nat /\ MaxRequests >= 1
    OBVIOUS
<1>8. Spaced(g) <=> \A i \in 1 .. gl : i + MaxRequests <= gl => g[i + MaxRequests] - g[i] >= Window
    BY DEF Spaced
<1>9. Spaced(h) <=> \A i \in 1 .. Len(h) : i + MaxRequests <= Len(h) => h[i + MaxRequests] - h[i] >= Window
    BY DEF Spaced
<1> HIDE DEF q, h, gl, sl, s
<1>10. ASSUME NEW i \in 1 .. Len(q)
       PROVE  q[i] = h[(Len(h) - Len(q)) + i]
  <2>1. (Len(h) - Len(q)) + i = (gl - sl) + i
      BY <1>1, <1>4, <1>5
  <2>2. CASE i = sl + 1
    <3>1. (gl - sl) + i = gl + 1
        BY <1>1, <2>2
    <3> QED
        BY <1>4, <1>5, <2>1, <2>2, <3>1
  <2>3. CASE i # sl + 1
    <3>1. i \in 1 .. sl /\ (gl - sl) + i \in 1 .. gl
        BY SMTT(30), <1>1, <1>2, <1>4, <2>3
    <3> QED
        BY <1>4, <1>5, <1>6, <2>1, <3>1
  <2> QED
      BY <2>2, <2>3
<1>11. ASSUME NEW i \in 1 .. Len(h) - Len(q)
       PROVE  clock - h[i] >= Window
  <2>1. i \in 1 .. gl - sl /\ i \in 1 .. gl
      BY <1>1, <1>2, <1>4, <1>5
  <2> QED
      BY <1>5, <1>6, <2>1
<1>12. Len(q) <= MaxRequests /\ Len(q) <= Len(h)
    BY <1>1, <1>2, <1>4, <1>5, <1>7
<1>13. Recent(Taken(l), h, clock)
    BY <1>3, <1>10, <1>11, <1>12 DEF Recent
<1>14. ASSUME NEW i \in 1 .. Len(h), i + MaxRequests <= Len(h)
       PROVE  h[i + MaxRequests] - h[i] >= Window
  <2>1. i \in 1 .. gl
      BY <1>1, <1>5, <1>7, <1>14
  <2>2. CASE i + MaxRequests = gl + 1
    <3>1. i \in 1 .. gl - sl
        BY <1>1, <1>2, <1>7, <2>1, <2>2
    <3> QED
        BY <1>5, <1>6, <2>1, <2>2, <3>1
  <2>3. CASE i + MaxRequests # gl + 1
    <3>1. i + MaxRequests \in 1 .. gl
      <4>1. i + MaxRequests \in Nat /\ i + MaxRequests >= 1
          BY <1>7, <2>1
      <4>2. i + MaxRequests <= gl + 1
          BY <1>5, <1>14
      <4> QED
          BY <1>1, <2>3, <4>1, <4>2
    <3>2. h[i] = g[i] /\ h[i + MaxRequests] = g[i + MaxRequests]
        BY <1>5, <2>1, <3>1
    <3>3. i + MaxRequests <= gl
        BY <1>1, <3>1
    <3>4. g[i + MaxRequests] - g[i] >= Window
        BY <1>8, <2>1, <3>3
    <3> QED
        BY <3>2, <3>4
  <2> QED
      BY <2>2, <2>3
<1> QED
    BY <1>3, <1>9, <1>13, <1>14 DEF h

LEMMA Linear ==
    /\ \A a, b \in Int : a * b \in Int
    /\ \A a, b, m \in Int : (a + b) * m = a * m + b * m
    /\ \A a, b, m \in Int : (a - b) * m = a * m - b * m
    /\ \A a \in Int : 0 * a = 0 /\ 1 * a = a
    OBVIOUS

LEMMA BucketTaken ==
    ASSUME NEW l \in Limiters, NEW g \in Seq(Nat), clock \in Nat, strategy # "Sliding",
           l.refilled = clock, Paid(l, g), Spaced(g), HasSlot(l)
    PROVE  /\ Taken(l) \in Limiters /\ Taken(l).refilled = l.refilled
           /\ Paid(Taken(l), Append(g, clock))
           /\ Spaced(Append(g, clock))
<1> DEFINE h == Append(g, clock)
           gl == Len(g)
           left == l.tokens - Window
           Since(i) == (clock - h[i]) * MaxRequests
<1>1. l.tokens \in 0 .. Full /\ l.tokens >= Window
    BY DEF HasSlot, Limiters
<1>2. left \in 0 .. Full /\ left \in Int /\ Window \in Int
    BY <1>1, FullWindow
<1>3. Taken(l) \in Limiters /\ Taken(l).refilled = clock /\ Taken(l).tokens = left
  <2>1. Taken(l) = [l EXCEPT !.tokens = left]
      BY DEF Taken
  <2> HIDE DEF left
  <2> QED
      BY <1>2, <2>1 DEF Limiters
<1>4. gl \in Nat /\ Len(h) = gl + 1 /\ h[gl + 1] = clock /\ \A i \in 1 .. gl : h[i] = g[i]
    BY Appended
<1>5. h \in Seq(Nat)
    OBVIOUS
<1>6. \A i \in 1 .. gl :
          g[i] <= clock /\ (gl - i + 1) * Window <= (Full - l.tokens) + (clock - g[i]) * MaxRequests
    BY DEF Paid
<1>7. Spaced(g) <=> \A i, j \in 1 .. gl : i <= j => (j - i + 1) * Window <= Full + (g[j] - g[i]) * MaxRequests
    BY DEF Spaced
<1>8. Spaced(h) <=> \A i, j \in 1 .. Len(h) : i <= j => (j - i + 1) * Window <= Full + (h[j] - h[i]) * MaxRequests
    BY DEF Spaced
<1> HIDE DEF h, gl
<1>9. ASSUME NEW i \in 1 .. gl + 1
      PROVE  /\ h[i] <= clock
             /\ Since(i) \in Int
             /\ (gl + 1 - i + 1) * Window <= (Full - left) + Since(i)
  <2>1. CASE i = gl + 1
    <3>1. h[i] = clock /\ clock - h[i] = 0 /\ gl + 1 - i + 1 = 1
        BY <1>4, <2>1
    <3>2. Since(i) = 0 /\ (gl + 1 - i + 1) * Window = Window
        BY <1>2, <3>1, Linear
    <3>3. Window <= Full - left
        BY <1>1, <1>2, FullWindow
    <3>4. h[i] <= clock /\ Since(i) \in Int
        BY <3>1, <3>2
    <3>5. Full - left = (Full - left) + 0
        BY <1>2, FullWindow
    <3> HIDE DEF left, Since
    <3> QED
        BY <3>2, <3>3, <3>4, <3>5
  <2>2. CASE i # gl + 1
    <3>1. i \in 1 .. gl /\ h[i] = g[i] /\ g[i] \in Nat
        BY <1>4, <2>2 DEF gl
    <3>2. gl + 1 - i + 1 = (gl - i + 1) + 1 /\ gl - i + 1 \in Int
        BY <1>4, <3>1
    <3>3. (gl + 1 - i + 1) * Window = (gl - i + 1) * Window + Window /\ (gl - i + 1) * Window \in Int
      <4> DEFINE k == gl - i + 1
      <4>1. k \in Int /\ gl + 1 - i + 1 = k + 1 /\ 1 \in Int
          BY <3>2
      <4> HIDE DEF k
      <4>2. (k + 1) * Window = k * Window + Window /\ k * Window \in Int
          BY <1>2, <4>1, Linear
      <4> QED
          BY <4>1, <4>2 DEF k
    <3>4. Since(i) \in Int /\ Since(i) = (clock - g[i]) * MaxRequests
      <4>1. clock - h[i] \in Int /\ MaxRequests \in Int
          BY <3>1
      <4> QED
          BY <3>1, <4>1, Linear
    <3> DEFINE before == (gl - i + 1) * Window
               past == Since(i)
               had == l.tokens
    <3>5. before <= (Full - had) + past /\ before \in Int /\ past \in Int
        BY <1>6, <3>1, <3>3, <3>4
    <3> HIDE DEF before, past, had
    <3>6. before + Window <= (Full - left) + past
      <4>1. Full \in Int /\ had \in Int /\ left = had - Window
          BY <1>1, FullWindow DEF had
      <4> HIDE DEF left
      <4> QED
          BY <1>2, <3>5, <4>1
    <3> QED
        BY <1>6, <3>1, <3>3, <3>4, <3>6 DEF before, past
  <2> QED
      BY <2>1, <2>2
<1>10. Paid(Taken(l), h)
    BY <1>3, <1>4, <1>9 DEF Paid
<1>11. ASSUME NEW i \in 1 .. Len(h), NEW j \in 1 .. Len(h), i <= j
       PROVE  (j - i + 1) * Window <= Full + (h[j] - h[i]) * MaxRequests
  <2>1. CASE j = gl + 1
    <3>1. (j - i + 1) * Window <= (Full - left) + Since(i)
        BY <1>4, <1>9, <2>1
    <3>2. h[j] = clock
        BY <1>4, <2>1
    <3>3. (j - i + 1) * Window \in Int
        BY <1>2, <1>4, Linear
    <3>4. Since(i) \in Int
        BY <1>4, <1>9
    <3> DEFINE used == (j - i + 1) * Window
               past == Since(i)
    <3>5. used <= (Full - left) + past /\ used \in Int /\ past \in Int
        BY <3>1, <3>3, <3>4
    <3> HIDE DEF used, past
    <3>6. used <= Full + past
      <4>1. Full \in Int /\ left \in Int /\ left >= 0
          BY <1>2, FullWindow
      <4> HIDE DEF left
      <4> QED
          BY <3>5, <4>1
    <3> QED
        BY <3>2, <3>6 DEF used, past
  <2>2. CASE j # gl + 1
    <3>1. i \in 1 .. gl /\ j \in 1 .. gl
        BY SMTT(30), <1>4, <1>11, <2>2
    <3> QED
        BY <1>4, <1>7, <1>11, <3>1
  <2> QED
      BY <2>1, <2>2
<1> QED
    BY <1>3, <1>8, <1>10, <1>11 DEF h

-----------------------------------------------------------------------------
(* GraphqlLimits: the invariant. Rate is about the limiter and what it has *)
(* granted, CallInv about the calls, Counted about the budget.             *)

Rate ==
    /\ clock \in 0 .. MaxTime
    /\ strategy \in {"Sliding", "TokenBucket"}
    /\ limiters \in Seq(Limiters)
    /\ Len(limiters) <= 1 /\ limiter = Len(limiters)
    /\ granted \in Seq(0 .. MaxTime)
    /\ \A i \in 1 .. Len(granted) : granted[i] <= clock
    /\ \A i, j \in 1 .. Len(granted) : i <= j => granted[i] <= granted[j]
    /\ Spaced(granted)
    /\ limiter = 0 => granted = <<>>
    /\ limiter = 1 => limiters[1].refilled <= clock /\ Kept(limiters[1], granted, clock)

WithBudget == {"limiter", "makeLimiter", "slot", "reserve", "delay", "post", "release"}
WithLimiter == {"slot", "reserve", "delay", "post", "release"}
InPage == {"reserve", "delay", "post", "release"}

CallTypes ==
    /\ budgets \in Seq(Nat)
    /\ Len(budgets) <= 1 /\ budget = Len(budgets)
    /\ limiter \in 0 .. 1
    /\ pc \in [Calls -> Sites]
    /\ mine \in [Calls -> [limiter : 0 .. 1, budget : 0 .. 1]]
    /\ paged \in SUBSET Calls
    /\ page \in [Calls -> 0 .. MaxPages]
    /\ releasing \in SUBSET Calls
    /\ lost \in SUBSET Calls

\* A call has found the budget and the limiter by the time it asks them.
Found(c) ==
    /\ mine[c].budget <= budget /\ mine[c].limiter <= limiter
    /\ pc[c] \in WithBudget \/ c \in releasing \/ c \in lost => mine[c].budget = 1
    /\ pc[c] \in WithLimiter => mine[c].limiter = 1
    /\ pc[c] \in InPage /\ c \in paged => page[c] < MaxPages

\* A reservation has one place to be released from.
Guarded(c) ==
    /\ c \in releasing => pc[c] \in {"failed", "dropped"}
    /\ c \in lost => pc[c] = "dropped"
    /\ ~ (c \in releasing /\ c \in lost)

CallInv == CallTypes /\ \A c \in Calls : Found(c) /\ Guarded(c)

LEMMA TimesNat == \A g \in Seq(0 .. MaxTime) : g \in Seq(Nat)
    BY SMT

\* A sequence of one element, or of none.
LEMMA One ==
    ASSUME NEW S, NEW q \in Seq(S), NEW x \in S
    PROVE  /\ Len(q) = 1 => /\ q[1] \in S
                            /\ [q EXCEPT ![1] = x] \in Seq(S)
                            /\ Len([q EXCEPT ![1] = x]) = 1
                            /\ [q EXCEPT ![1] = x][1] = x
           /\ Len(q) = 0 => /\ Append(q, x) \in Seq(S)
                            /\ Len(Append(q, x)) = 1
                            /\ Append(q, x)[1] = x
    OBVIOUS

LEMMA InitRate == Init => Rate
<1> SUFFICES ASSUME Init PROVE Rate
    OBVIOUS
<1>1. limiters = <<>> /\ limiter = 0 /\ granted = <<>> /\ clock = 0
    BY DEF Init
<1>2. Spaced(granted)
    BY <1>1 DEF Spaced
<1>3. strategy \in {"Sliding", "TokenBucket"} /\ 0 \in 0 .. MaxTime
    BY DEF Init
<1>4. limiters \in Seq(Limiters) /\ granted \in Seq(0 .. MaxTime)
    BY <1>1
<1> QED
    BY <1>1, <1>2, <1>3, <1>4 DEF Rate

LEMMA RateFrame ==
    Rate /\ UNCHANGED <<clock, strategy, limiters, limiter, granted>> => Rate'
    BY DEF Rate, Spaced, Kept, Recent, Paid

LEMMA MakeLimiterRate == ASSUME Rate, NEW c \in Calls, MakeLimiter(c) PROVE Rate' /\ limiter' = 1
<1> USE DEF MakeLimiter, Rate
<1>1. Spaced(granted)'
    BY DEF Spaced
<1>2. CASE limiter = 0
  <2>1. NewLimiter \in Limiters /\ NewLimiter.refilled = clock /\ NewLimiter.stamps = <<>>
    <3>1. Full \in 0 .. Full
        BY FullWindow
    <3> QED
        BY <3>1 DEF NewLimiter, Limiters
  <2>2. PICK n \in Limiters : n = NewLimiter
      BY <2>1
  <2>3. limiters' = Append(limiters, n) /\ limiter' = Len(limiters') /\ Len(limiters) = 0
      BY <1>2, <2>2
  <2>4. limiters' \in Seq(Limiters) /\ Len(limiters') = 1 /\ limiters'[1] = n /\ limiter' = 1
      BY <2>3, One
  <2>5. UNCHANGED <<clock, strategy, granted>> /\ granted = <<>> /\ clock \in Nat
      BY <1>2
  <2>6. n.refilled = clock /\ n.stamps = <<>> /\ Len(granted) = 0 /\ Len(n.stamps) = 0
      BY <2>1, <2>2, <2>5
  <2>7. Kept(n, <<>>, clock)
      BY <2>6 DEF Kept, Recent, Paid
  <2>8. Kept(limiters[1], granted, clock)'
      BY <2>4, <2>5, <2>7 DEF Kept, Recent, Paid
  <2> QED
      BY <1>1, <2>4, <2>5, <2>6, <2>8
<1>3. CASE limiter # 0
  <2>1. UNCHANGED <<clock, strategy, limiters, limiter, granted>>
      BY <1>3
  <2>2. limiter \in Nat /\ limiter <= 1
      OBVIOUS
  <2> QED
      BY <1>3, <2>1, <2>2, RateFrame
<1> QED
    BY <1>2, <1>3

LEMMA LookRate ==
    ASSUME Rate, NEW c \in Calls, mine[c].limiter = 1, limiter >= 1
    PROVE  /\ limiter = 1 /\ limiters[1] \in Limiters /\ granted \in Seq(Nat) /\ clock \in Nat
           /\ limiters[mine[c].limiter] = limiters[1]
           /\ Looked(limiters[1]) \in Limiters
           /\ Looked(limiters[1]).refilled <= clock
           /\ strategy # "Sliding" => Looked(limiters[1]).refilled = clock
           /\ Kept(Looked(limiters[1]), granted, clock)
<1>1. limiter = 1 /\ limiters[1] \in Limiters /\ granted \in Seq(Nat) /\ clock \in Nat
    BY TimesNat DEF Rate
<1>2. limiters[1].refilled <= clock /\ Kept(limiters[1], granted, clock)
    BY <1>1 DEF Rate
<1> QED
    BY <1>1, <1>2, LookedKept

LEMMA NoSlotRate == ASSUME Rate, CallInv, NEW c \in Calls, NoSlot(c) PROVE Rate'
<1> DEFINE l == Looked(limiters[1])
<1>1. mine[c].limiter = 1 /\ limiter >= 1
    BY DEF NoSlot, CallInv, CallTypes, Found, WithLimiter, Rate
<1>2. /\ limiter = 1 /\ l \in Limiters /\ l.refilled <= clock /\ Kept(l, granted, clock)
    BY <1>1, LookRate
<1>3. limiters' = [limiters EXCEPT ![1] = l]
    BY <1>1 DEF NoSlot
<1>4. UNCHANGED <<clock, strategy, limiter, granted>>
    BY DEF NoSlot
<1> HIDE DEF l
<1>5. limiters' \in Seq(Limiters) /\ Len(limiters') = 1 /\ limiters'[1] = l
  <2>1. limiters \in Seq(Limiters) /\ Len(limiters) = 1 /\ l \in Limiters
      BY <1>2 DEF Rate
  <2> QED
      BY <1>3, <2>1, One
<1>6. Kept(l, granted, clock) /\ Spaced(granted) => (Kept(limiters[1], granted, clock) /\ Spaced(granted))'
    BY <1>4, <1>5 DEF Kept, Recent, Paid, Spaced
<1> QED
    BY <1>2, <1>4, <1>5, <1>6 DEF Rate

LEMMA AcquireSlotRate == ASSUME Rate, CallInv, NEW c \in Calls, AcquireSlot(c) PROVE Rate'
<1> DEFINE l == Looked(limiters[1])
           h == Append(granted, clock)
<1>1. mine[c].limiter = 1 /\ limiter >= 1
    BY DEF AcquireSlot, Go, CallInv, CallTypes, Found, WithLimiter, Rate
<1>2. /\ limiter = 1 /\ granted \in Seq(Nat) /\ clock \in Nat
      /\ l \in Limiters /\ l.refilled <= clock /\ Kept(l, granted, clock)
      /\ strategy # "Sliding" => l.refilled = clock
    BY <1>1, LookRate
<1>3. limiters' = [limiters EXCEPT ![1] = Taken(l)] /\ HasSlot(l)
    BY <1>1 DEF AcquireSlot
<1>4. UNCHANGED <<clock, strategy, limiter>> /\ granted' = h
    BY DEF AcquireSlot
<1>5. /\ Taken(l) \in Limiters /\ Taken(l).refilled = l.refilled
      /\ Kept(Taken(l), h, clock) /\ Spaced(h)
  <2>1. CASE strategy = "Sliding"
      BY <1>2, <1>3, <2>1, SlidingTaken DEF Kept, Rate
  <2>2. CASE strategy # "Sliding"
      BY <1>2, <1>3, <2>2, BucketTaken DEF Kept, Rate
  <2> QED
      BY <2>1, <2>2
<1> DEFINE t == Taken(l)
<1> HIDE DEF t
<1>6. limiters' \in Seq(Limiters) /\ Len(limiters') = 1 /\ limiters'[1] = t
  <2>1. limiters \in Seq(Limiters) /\ Len(limiters) = 1 /\ t \in Limiters
      BY <1>2, <1>5 DEF Rate, t
  <2>2. limiters' = [limiters EXCEPT ![1] = t]
      BY <1>3 DEF t
  <2> QED
      BY <2>1, <2>2, One
<1>7. /\ granted' \in Seq(0 .. MaxTime)
      /\ \A i \in 1 .. Len(granted') : granted'[i] <= clock
      /\ \A i, j \in 1 .. Len(granted') : i <= j => granted'[i] <= granted'[j]
  <2>1. /\ Len(h) = Len(granted) + 1 /\ h[Len(granted) + 1] = clock
        /\ \A i \in 1 .. Len(granted) : h[i] = granted[i]
        /\ Len(granted) \in Nat
      BY <1>2, Appended
  <2>2. h \in Seq(0 .. MaxTime)
      BY DEF Rate
  <2>3. /\ \A i \in 1 .. Len(granted) : granted[i] <= clock
        /\ \A i, j \in 1 .. Len(granted) : i <= j => granted[i] <= granted[j]
      BY DEF Rate
  <2> HIDE DEF h
  <2>4. \A i \in 1 .. Len(h) : h[i] <= clock
    <3>1. \A i \in 1 .. Len(h) : i = Len(granted) + 1 \/ i \in 1 .. Len(granted)
        BY <2>1
    <3> QED
        BY SMTT(30), <1>2, <2>1, <2>3, <3>1
  <2>5. ASSUME NEW i \in 1 .. Len(h), NEW j \in 1 .. Len(h), i <= j
        PROVE  h[i] <= h[j]
    <3>1. CASE j = Len(granted) + 1
        BY <2>1, <2>4, <3>1
    <3>2. CASE j # Len(granted) + 1
      <4>1. i \in 1 .. Len(granted) /\ j \in 1 .. Len(granted)
          BY <2>1, <2>5, <3>2
      <4> QED
          BY <2>1, <2>3, <2>5, <4>1
    <3> QED
        BY <3>1, <3>2
  <2> QED
      BY <1>4, <2>2, <2>4, <2>5
<1> HIDE DEF h, l
<1>8. Kept(t, h, clock) /\ Spaced(h)
    BY <1>5 DEF t
<1>9. (Kept(limiters[1], granted, clock) /\ Spaced(granted))'
    BY <1>4, <1>6, <1>8 DEF Kept, Recent, Paid, Spaced
<1>10. limiters'[1].refilled <= clock
    BY <1>2, <1>5, <1>6 DEF t
<1> QED
    BY <1>2, <1>4, <1>6, <1>7, <1>9, <1>10 DEF Rate

LEMMA TickRate == ASSUME Rate, Tick PROVE Rate'
<1> USE DEF Tick, Rate, limits
<1>1. clock' \in 0 .. MaxTime /\ clock' = clock + 1 /\ clock \in Nat /\ Window \in Nat
    OBVIOUS
<1>2. UNCHANGED <<strategy, limiters, limiter, granted>>
    OBVIOUS
<1>3. Spaced(granted)'
    BY <1>2 DEF Spaced
<1>4. ASSUME limiter = 1
      PROVE  limiters'[1].refilled <= clock' /\ Kept(limiters[1], granted, clock)'
  <2>0. limiters[1] \in Limiters
    <3>1. limiters \in Seq(Limiters) /\ Len(limiters) = 1
        BY <1>4
    <3>2. 1 \in 1 .. Len(limiters)
        BY <3>1
    <3> QED
        BY <3>1, <3>2, ElementOfSeq
  <2>1. limiters[1].refilled \in Nat /\ limiters[1].stamps \in Seq(Nat)
      BY <2>0 DEF Limiters
  <2>2. limiters[1].refilled <= clock /\ Kept(limiters[1], granted, clock)
      BY <1>4
  <2>3. limiters'[1].refilled <= clock'
      BY <1>1, <1>2, <2>1, <2>2
  <2>4. \A i \in 1 .. Len(granted) : granted[i] \in Nat
      BY SMTT(30), TimesNat
  <2>5. Recent(limiters[1], granted, clock) => Recent(limiters[1], granted, clock')
    <3> SUFFICES ASSUME Recent(limiters[1], granted, clock),
                        NEW i \in 1 .. Len(granted) - Len(limiters[1].stamps)
                 PROVE  clock' - granted[i] >= Window
        BY DEF Recent
    <3>1. clock - granted[i] >= Window
        BY DEF Recent
    <3>2. i \in 1 .. Len(granted)
        BY <2>1
    <3> QED
        BY <1>1, <2>4, <3>1, <3>2
  <2>6. Recent(limiters[1], granted, clock') => Recent(limiters[1], granted, clock)'
      BY <1>2 DEF Recent
  <2>7. Paid(limiters[1], granted) => Paid(limiters[1], granted)'
      BY <1>2 DEF Paid
  <2> QED
      BY <1>2, <2>2, <2>3, <2>5, <2>6, <2>7 DEF Kept
<1>5. \A i \in 1 .. Len(granted) : granted[i] <= clock'
    BY <1>1, TimesNat
<1> QED
    BY <1>1, <1>2, <1>3, <1>4, <1>5

\* What the calls keep, action by action.

LEMMA InitCall == Init => CallInv
<1> SUFFICES ASSUME Init PROVE CallInv
    OBVIOUS
<1> USE DEF Init
<1>1. CallTypes
  <2>1. pc \in [Calls -> Sites]
      BY DEF Sites
  <2>2. mine \in [Calls -> [limiter : 0 .. 1, budget : 0 .. 1]]
      OBVIOUS
  <2>3. page \in [Calls -> 0 .. MaxPages]
      OBVIOUS
  <2>4. budgets \in Seq(Nat) /\ Len(budgets) <= 1 /\ budget = Len(budgets)
      OBVIOUS
  <2> QED
      BY <2>1, <2>2, <2>3, <2>4 DEF CallTypes
<1>2. \A c \in Calls : Found(c)
    BY DEF Found, WithBudget, WithLimiter, InPage
<1> QED
    BY <1>1, <1>2 DEF CallInv, Guarded

LEMMA Moved ==
    ASSUME CallInv, NEW c \in Calls, NEW to \in Sites, NEW from, Go(c, from, to)
    PROVE  /\ pc' \in [Calls -> Sites] /\ pc[c] = from /\ pc'[c] = to
           /\ \A d \in Calls \ {c} : pc'[d] = pc[d]
    BY DEF CallInv, CallTypes, Go

\* A step of one call has only that call to answer for.
LEMMA OneCall ==
    ASSUME CallInv, NEW c \in Calls, CallTypes', Found(c)', Guarded(c)',
           \A d \in Calls \ {c} :
               /\ pc'[d] = pc[d] /\ mine'[d] = mine[d] /\ page'[d] = page[d]
               /\ d \in releasing' <=> d \in releasing
               /\ d \in lost' <=> d \in lost
               /\ d \in paged' <=> d \in paged,
           budget' >= budget, limiter' >= limiter
    PROVE  CallInv'
<1>1. ASSUME NEW d \in Calls \ {c} PROVE Found(d)'
  <2>1. Found(d)
      BY DEF CallInv
  <2>2. mine[d].budget \in Int /\ mine[d].limiter \in Int /\ budget \in Int /\ limiter \in Int
      BY DEF CallInv, CallTypes
  <2>3. budget' \in Int /\ limiter' \in Int
      BY DEF CallTypes
  <2> QED
      BY <2>1, <2>2, <2>3 DEF Found
<1>2. ASSUME NEW d \in Calls \ {c} PROVE Guarded(d)'
    BY DEF CallInv, Guarded
<1> QED
    BY <1>1, <1>2 DEF CallInv

\* A step that leaves the budget, the limiter and what a call has found.
LEMMA Plain ==
    ASSUME CallInv, NEW c \in Calls, NEW from \in Sites, NEW to \in Sites, Go(c, from, to),
           UNCHANGED <<budgets, budget, limiter, mine, paged, page, releasing, lost>>,
           from \notin {"failed", "dropped"},
           to \in WithBudget => from \in WithBudget,
           to \in WithLimiter => from \in WithLimiter,
           to \in InPage /\ c \in paged => page[c] < MaxPages
    PROVE  CallInv'
<1>1. /\ pc' \in [Calls -> Sites] /\ pc[c] = from /\ pc'[c] = to
      /\ \A d \in Calls \ {c} : pc'[d] = pc[d]
    BY Moved
<1>2. CallTypes'
    BY <1>1 DEF CallInv, CallTypes
<1>3. Found(c)'
    BY <1>1 DEF CallInv, Found
<1>4. Guarded(c)'
    BY <1>1 DEF CallInv, Guarded
<1>5. budget' >= budget /\ limiter' >= limiter
    BY DEF CallInv, CallTypes
<1> QED
    BY <1>1, <1>2, <1>3, <1>4, <1>5, OneCall

\* A reservation changes the one budget there is.
LEMMA Charged ==
    ASSUME CallInv, NEW c \in Calls, mine[c].budget = 1, budget = 1, NEW x \in Nat,
           budgets' = [budgets EXCEPT ![mine[c].budget] = x]
    PROVE  /\ Len(budgets) = 1 /\ budgets[1] \in Nat
           /\ budgets' \in Seq(Nat) /\ Len(budgets') = 1 /\ budgets'[1] = x
<1>1. budgets \in Seq(Nat) /\ Len(budgets) = 1
    BY DEF CallInv, CallTypes
<1>2. 1 \in 1 .. Len(budgets)
    BY <1>1
<1>3. budgets[1] \in Nat
    BY <1>1, <1>2, ElementOfSeq
<1>4. budgets' = [budgets EXCEPT ![1] = x]
    OBVIOUS
<1> QED
    BY <1>1, <1>3, <1>4, One

LEMMA FoundBudget ==
    ASSUME CallInv, NEW c \in Calls, pc[c] \in WithBudget \/ c \in releasing
    PROVE  /\ mine[c].budget = 1 /\ budget = 1 /\ Len(budgets) = 1
           /\ budgets[mine[c].budget] \in Nat
<1>1. mine[c].budget = 1 /\ mine[c].budget <= budget /\ budget \in Nat /\ budget <= 1
    BY DEF CallInv, CallTypes, Found
<1>2. budgets \in Seq(Nat) /\ Len(budgets) = 1
    BY <1>1 DEF CallInv, CallTypes
<1>3. 1 \in 1 .. Len(budgets)
    BY <1>2
<1>4. budgets[1] \in Nat
    BY <1>2, <1>3, ElementOfSeq
<1> QED
    BY <1>1, <1>2, <1>4

LEMMA LessNat == ASSUME NEW x \in Nat PROVE Less(x) \in Nat
    BY DEF Less

LEMMA ExecuteCall == ASSUME CallInv, NEW c \in Calls, Execute(c) PROVE CallInv'
<1> USE DEF Execute, limits
<1>1. /\ pc' \in [Calls -> Sites] /\ pc[c] = "idle" /\ pc'[c] = "budget"
      /\ \A d \in Calls \ {c} : pc'[d] = pc[d]
    BY Moved DEF Sites
<1>2. CallTypes'
    BY <1>1 DEF CallInv, CallTypes
<1>3. Found(c)' /\ Guarded(c)'
    BY <1>1 DEF CallInv, Found, Guarded, WithBudget, WithLimiter, InPage
<1>4. budget' >= budget /\ limiter' >= limiter
    BY DEF CallInv, CallTypes
<1> QED
    BY <1>1, <1>2, <1>3, <1>4, OneCall

LEMMA LookBudgetCall == ASSUME CallInv, NEW c \in Calls, LookBudget(c) PROVE CallInv'
<1> USE DEF LookBudget, limits
<1>1. /\ pc' \in [Calls -> Sites] /\ pc[c] = "budget"
      /\ \/ budget # 0 /\ pc'[c] = "limiter"
         \/ budget = 0 /\ pc'[c] = "makeBudget"
      /\ \A d \in Calls \ {c} : pc'[d] = pc[d]
    BY Moved DEF Sites
<1>2. budget \in 0 .. 1
    BY DEF CallInv, CallTypes
<1>3. /\ mine' \in [Calls -> [limiter : 0 .. 1, budget : 0 .. 1]]
      /\ mine'[c].budget = budget /\ mine'[c].limiter = mine[c].limiter
      /\ \A d \in Calls \ {c} : mine'[d] = mine[d]
    BY <1>2 DEF CallInv, CallTypes
<1>4. CallTypes'
    BY <1>1, <1>3 DEF CallInv, CallTypes
<1>5. Found(c)' /\ Guarded(c)'
    BY <1>1, <1>2, <1>3 DEF CallInv, Found, Guarded, WithBudget, WithLimiter, InPage
<1>6. budget' >= budget /\ limiter' >= limiter
    BY DEF CallInv, CallTypes
<1> QED
    BY <1>1, <1>3, <1>4, <1>5, <1>6, OneCall

LEMMA MakeBudgetCall == ASSUME CallInv, NEW c \in Calls, MakeBudget(c) PROVE CallInv'
<1> USE DEF MakeBudget
<1>1. /\ pc' \in [Calls -> Sites] /\ pc[c] = "makeBudget" /\ pc'[c] = "limiter"
      /\ \A d \in Calls \ {c} : pc'[d] = pc[d]
    BY Moved DEF Sites
<1>2. budgets' \in Seq(Nat) /\ Len(budgets') = 1 /\ budget' = 1
  <2>1. budgets \in Seq(Nat) /\ Len(budgets) \in {0, 1} /\ budget = Len(budgets)
      BY DEF CallInv, CallTypes
  <2>2. budget = 0 => Append(budgets, 0) \in Seq(Nat) /\ Len(Append(budgets, 0)) = 1
    <3>1. 0 \in Nat
        OBVIOUS
    <3> QED
      <4> SUFFICES ASSUME Len(budgets) = 0
                   PROVE  Append(budgets, 0) \in Seq(Nat) /\ Len(Append(budgets, 0)) = 1
          BY <2>1
      <4> QED
          BY <2>1, <3>1, One
  <2> QED
      BY <2>1, <2>2
<1>3. /\ mine' \in [Calls -> [limiter : 0 .. 1, budget : 0 .. 1]]
      /\ mine'[c].budget = 1 /\ mine'[c].limiter = mine[c].limiter
      /\ \A d \in Calls \ {c} : mine'[d] = mine[d]
    BY SMTT(30), <1>2 DEF CallInv, CallTypes
<1>4. CallTypes'
    BY SMTT(30), <1>1, <1>2, <1>3 DEF CallInv, CallTypes
<1>5. Found(c)' /\ Guarded(c)'
    BY <1>1, <1>2, <1>3 DEF CallInv, Found, Guarded, WithBudget, WithLimiter, InPage
<1>6. budget' >= budget /\ limiter' >= limiter
    BY <1>2 DEF CallInv, CallTypes
<1> QED
    BY <1>1, <1>3, <1>4, <1>5, <1>6, OneCall

LEMMA LookLimiterCall == ASSUME CallInv, NEW c \in Calls, LookLimiter(c) PROVE CallInv'
<1> USE DEF LookLimiter, limits
<1>1. /\ pc' \in [Calls -> Sites] /\ pc[c] = "limiter"
      /\ \/ limiter # 0 /\ pc'[c] = "slot"
         \/ limiter = 0 /\ pc'[c] = "makeLimiter"
      /\ \A d \in Calls \ {c} : pc'[d] = pc[d]
    BY Moved DEF Sites
<1>2. limiter \in 0 .. 1
    BY DEF CallInv, CallTypes
<1>3. /\ mine' \in [Calls -> [limiter : 0 .. 1, budget : 0 .. 1]]
      /\ mine'[c].limiter = limiter /\ mine'[c].budget = mine[c].budget
      /\ \A d \in Calls \ {c} : mine'[d] = mine[d]
    BY <1>2 DEF CallInv, CallTypes
<1>4. CallTypes'
    BY <1>1, <1>3 DEF CallInv, CallTypes
<1>5. Found(c)' /\ Guarded(c)'
    BY <1>1, <1>2, <1>3 DEF CallInv, Found, Guarded, WithBudget, WithLimiter, InPage
<1>6. budget' >= budget /\ limiter' >= limiter
    BY DEF CallInv, CallTypes
<1> QED
    BY <1>1, <1>3, <1>4, <1>5, <1>6, OneCall

LEMMA MakeLimiterCall == ASSUME Rate, CallInv, NEW c \in Calls, MakeLimiter(c) PROVE CallInv'
<1>0. /\ Go(c, "makeLimiter", "slot")
      /\ mine' = [mine EXCEPT ![c].limiter = limiter']
      /\ UNCHANGED <<budgets, budget, paged, page, releasing, lost>>
    BY DEF MakeLimiter
<1>1. /\ pc' \in [Calls -> Sites] /\ pc[c] = "makeLimiter" /\ pc'[c] = "slot"
      /\ \A d \in Calls \ {c} : pc'[d] = pc[d]
    BY <1>0, Moved DEF Sites
<1>2. limiter' = 1
    BY MakeLimiterRate
<1>3. /\ mine' \in [Calls -> [limiter : 0 .. 1, budget : 0 .. 1]]
      /\ mine'[c].limiter = 1 /\ mine'[c].budget = mine[c].budget
      /\ \A d \in Calls \ {c} : mine'[d] = mine[d]
  <2>1. mine \in [Calls -> [limiter : 0 .. 1, budget : 0 .. 1]]
      BY DEF CallInv, CallTypes
  <2>2. mine' = [mine EXCEPT ![c].limiter = 1]
      BY <1>0, <1>2
  <2> QED
      BY <2>1, <2>2
<1>4. CallTypes'
    BY <1>0, <1>1, <1>2, <1>3 DEF CallInv, CallTypes
<1>5. Found(c)' /\ Guarded(c)'
    BY <1>0, <1>1, <1>2, <1>3 DEF CallInv, Found, Guarded, WithBudget, WithLimiter, InPage
<1>6. budget' >= budget /\ limiter' >= limiter
    BY <1>0, <1>2 DEF CallInv, CallTypes
<1> QED
    BY <1>0, <1>1, <1>3, <1>4, <1>5, <1>6, OneCall

LEMMA AcquireSlotCall == ASSUME CallInv, NEW c \in Calls, AcquireSlot(c) PROVE CallInv'
<1>1. /\ Go(c, "slot", "reserve")
      /\ c \in paged => page[c] < MaxPages
      /\ UNCHANGED <<budgets, budget, limiter, mine, paged, page, releasing, lost>>
    BY DEF AcquireSlot, MayAsk
<1> QED
    BY <1>1, Plain DEF Sites, WithBudget, WithLimiter

LEMMA SlotFailsCall == ASSUME CallInv, NEW c \in Calls, TooManyPages(c) PROVE CallInv'
<1>1. /\ Go(c, "slot", "failed")
      /\ UNCHANGED <<budgets, budget, limiter, mine, paged, page, releasing, lost>>
    BY DEF TooManyPages, limits
<1> QED
    BY <1>1, Plain DEF Sites, WithBudget, WithLimiter, InPage

LEMMA DelayedCall == ASSUME CallInv, NEW c \in Calls, Delayed(c) PROVE CallInv'
<1>1. /\ Go(c, "delay", "post")
      /\ UNCHANGED <<budgets, budget, limiter, mine, paged, page, releasing, lost>>
    BY DEF Delayed, limits
<1>2. c \in paged => page[c] < MaxPages
    BY <1>1 DEF Go, CallInv, Found, InPage
<1> QED
    BY <1>1, <1>2, Plain DEF Sites, WithBudget, WithLimiter

LEMMA AnsweredCall == ASSUME CallInv, NEW c \in Calls, Answered(c) PROVE CallInv'
<1>1. /\ Go(c, "post", "release")
      /\ UNCHANGED <<budgets, budget, limiter, mine, paged, page, releasing, lost>>
    BY DEF Answered, limits
<1>2. c \in paged => page[c] < MaxPages
    BY <1>1 DEF Go, CallInv, Found, InPage
<1> QED
    BY <1>1, <1>2, Plain DEF Sites, WithBudget, WithLimiter

\* Nothing of the calls changes.
LEMMA CallFrame ==
    CallInv /\ UNCHANGED <<budgets, budget, limiter, pc, mine, paged, page, releasing, lost>>
        => CallInv'
    BY DEF CallInv, CallTypes, Found, Guarded

LEMMA ReserveCall == ASSUME CallInv, NEW c \in Calls, Reserve(c) PROVE CallInv'
<1> USE DEF Reserve
<1>1. /\ pc' \in [Calls -> Sites] /\ pc[c] = "reserve" /\ pc'[c] \in {"post", "delay"}
      /\ \A d \in Calls \ {c} : pc'[d] = pc[d]
    BY Moved DEF Sites
<1>2. /\ mine[c].budget = 1 /\ budget = 1 /\ budgets[mine[c].budget] \in Nat
    BY <1>1, FoundBudget DEF WithBudget
<1>3. budgets' \in Seq(Nat) /\ Len(budgets') = 1
  <2>1. budgets[mine[c].budget] + Cost \in Nat
      BY <1>2
  <2> QED
      BY <1>2, <2>1, Charged
<1>4. CallTypes'
    BY <1>1, <1>2, <1>3 DEF CallInv, CallTypes
<1>5. Found(c)' /\ Guarded(c)'
    BY <1>1 DEF CallInv, Found, Guarded, WithBudget, WithLimiter, InPage
<1>6. budget' >= budget /\ limiter' >= limiter
    BY DEF CallInv, CallTypes
<1> QED
    BY <1>1, <1>4, <1>5, <1>6, OneCall

LEMMA RejectedCall == ASSUME CallInv, NEW c \in Calls, Rejected(c) PROVE CallInv'
<1> USE DEF Rejected, limits
<1>1. /\ pc' \in [Calls -> Sites] /\ pc[c] = "post" /\ pc'[c] = "failed"
      /\ \A d \in Calls \ {c} : pc'[d] = pc[d]
    BY Moved DEF Sites
<1>2. CallTypes'
    BY <1>1 DEF CallInv, CallTypes
<1>3. Found(c)' /\ Guarded(c)'
    BY <1>1 DEF CallInv, Found, Guarded, WithBudget, WithLimiter, InPage
<1>4. budget' >= budget /\ limiter' >= limiter
    BY DEF CallInv, CallTypes
<1> QED
    BY <1>1, <1>2, <1>3, <1>4, OneCall

LEMMA ReleaseCall == ASSUME CallInv, NEW c \in Calls, Release(c) PROVE CallInv'
<1> USE DEF Release
<1>1. /\ pc' \in [Calls -> Sites] /\ pc[c] = "release" /\ pc'[c] \in {"ok", "slot"}
      /\ \A d \in Calls \ {c} : pc'[d] = pc[d]
    BY Moved DEF Sites
<1>2. /\ mine[c].budget = 1 /\ budget = 1 /\ budgets[mine[c].budget] \in Nat
    BY <1>1, FoundBudget DEF WithBudget
<1>3. budgets' \in Seq(Nat) /\ Len(budgets') = 1
    BY <1>2, LessNat, Charged
<1>4. c \in paged => page[c] < MaxPages
    BY <1>1 DEF CallInv, Found, InPage
<1>5. page' \in [Calls -> 0 .. MaxPages] /\ \A d \in Calls \ {c} : page'[d] = page[d]
  <2>1. page \in [Calls -> 0 .. MaxPages] /\ MaxPages \in Nat
      BY DEF CallInv, CallTypes
  <2>2. c \in paged => page[c] + 1 \in 0 .. MaxPages
      BY <1>4, <2>1
  <2> QED
      BY <2>1, <2>2
<1>6. CallTypes'
    BY <1>1, <1>2, <1>3, <1>5 DEF CallInv, CallTypes
<1>7. Found(c)' /\ Guarded(c)'
    BY <1>1 DEF CallInv, Found, Guarded, WithBudget, WithLimiter, InPage
<1>8. budget' >= budget /\ limiter' >= limiter
    BY DEF CallInv, CallTypes
<1> QED
    BY <1>1, <1>5, <1>6, <1>7, <1>8, OneCall

LEMMA DropReleaseCall == ASSUME CallInv, NEW c \in Calls, DropRelease(c) PROVE CallInv'
<1> USE DEF DropRelease
<1>1. /\ mine[c].budget = 1 /\ budget = 1 /\ budgets[mine[c].budget] \in Nat
    BY FoundBudget
<1>2. budgets' \in Seq(Nat) /\ Len(budgets') = 1
    BY <1>1, LessNat, Charged
<1>3. CallTypes'
    BY <1>1, <1>2 DEF CallInv, CallTypes
<1>4. Found(c)' /\ Guarded(c)'
    BY DEF CallInv, Found, Guarded
<1>5. budget' >= budget /\ limiter' >= limiter
    BY DEF CallInv, CallTypes
<1> QED
    BY <1>3, <1>4, <1>5, OneCall

LEMMA DropCallCall == ASSUME CallInv, NEW c \in Calls, DropCall(c) PROVE CallInv'
<1> USE DEF DropCall, limits
<1>1. /\ pc' \in [Calls -> Sites] /\ pc'[c] = "dropped"
      /\ \A d \in Calls \ {c} : pc'[d] = pc[d]
    BY DEF CallInv, CallTypes, Sites
<1>2. /\ releasing' \in {releasing, releasing \cup {c}} /\ lost' \in {lost, lost \cup {c}}
      /\ releasing' = releasing \/ lost' = lost
      /\ c \in releasing' \/ c \in lost' => pc[c] \in WithBudget \/ c \in releasing \/ c \in lost
    BY DEF HasGuard, WithBudget
<1>3. CallTypes'
    BY <1>1, <1>2 DEF CallInv, CallTypes
<1>4. c \notin releasing /\ c \notin lost
    BY DEF CallInv, Guarded
<1>5. Found(c)' /\ Guarded(c)'
  <2>1. Found(c)'
      BY <1>1, <1>2 DEF CallInv, Found, WithBudget, WithLimiter, InPage
  <2>2. Guarded(c)'
      BY <1>1, <1>2, <1>4 DEF Guarded
  <2> QED
      BY <2>1, <2>2
<1>6. budget' >= budget /\ limiter' >= limiter
    BY DEF CallInv, CallTypes
<1> QED
    BY <1>1, <1>2, <1>3, <1>5, <1>6, OneCall

\* What the budget has pending, action by action.

Holding == Holders(1)

Counted == budget = 1 => budgets[1] = Cost * Cardinality(Holding)

LEMMA Holds ==
    \A c \in Calls : c \in Holding <=>
        /\ mine[c].budget = 1
        /\ pc[c] \in {"post", "release", "delay"} \/ c \in releasing \/ c \in lost
    BY DEF Holding, Holders, HasGuard

LEMMA HoldsNext ==
    \A c \in Calls : c \in Holding' <=>
        /\ mine'[c].budget = 1
        /\ pc'[c] \in {"post", "release", "delay"} \/ c \in releasing' \/ c \in lost'
    BY DEF Holding, Holders, HasGuard

LEMMA HoldingFinite == /\ Holding \subseteq Calls /\ Holding' \subseteq Calls
                       /\ IsFiniteSet(Holding) /\ Cardinality(Holding) \in Nat
<1>1. Holding \subseteq Calls /\ Holding' \subseteq Calls
    BY DEF Holding, Holders
<1> QED
    BY <1>1, FS_Subset, FS_CardinalityType

LEMMA SameSet ==
    ASSUME NEW S, NEW A, NEW B, A \subseteq S, B \subseteq S, \A d \in S : d \in A <=> d \in B
    PROVE  A = B
    OBVIOUS

LEMMA SameHolding ==
    ASSUME Counted, Holding' = Holding, UNCHANGED <<budgets, budget>>
    PROVE  Counted'
    BY DEF Counted

\* A step of call c that leaves the budget, and c with what it holds.
LEMMA OneHolds ==
    ASSUME Counted, NEW c \in Calls, UNCHANGED <<budgets, budget>>,
           \A d \in Calls \ {c} : d \in Holding' <=> d \in Holding,
           c \in Holding' <=> c \in Holding
    PROVE  Counted'
<1>1. \A d \in Calls : d \in Holding' <=> d \in Holding
    OBVIOUS
<1>2. Holding' = Holding
    BY <1>1, HoldingFinite, SameSet
<1> QED
    BY <1>2, SameHolding

LEMMA CountReserve ==
    ASSUME CallInv, Counted, NEW c \in Calls, Reserve(c) PROVE Counted'
<1> USE DEF Reserve
<1>1. /\ pc' \in [Calls -> Sites] /\ pc[c] = "reserve" /\ pc'[c] \in {"post", "delay"}
      /\ \A d \in Calls \ {c} : pc'[d] = pc[d]
    BY Moved DEF Sites
<1>2. /\ mine[c].budget = 1 /\ budget = 1 /\ budgets[mine[c].budget] \in Nat
    BY <1>1, FoundBudget DEF WithBudget
<1>3. budgets'[1] = budgets[1] + Cost
  <2>1. budgets[mine[c].budget] + Cost \in Nat
      BY <1>2
  <2> QED
      BY <1>2, <2>1, Charged
<1>4. c \notin releasing /\ c \notin lost
    BY <1>1 DEF CallInv, Guarded
<1>5. Holding' = Holding \cup {c} /\ c \notin Holding
    BY <1>1, <1>2, <1>4, Holds, HoldsNext, HoldingFinite
<1>6. Cardinality(Holding') = Cardinality(Holding) + 1
    BY <1>5, HoldingFinite, FS_AddElement
<1>7. budgets[1] = Cost * Cardinality(Holding)
    BY <1>2 DEF Counted
<1> DEFINE k == Cardinality(Holding)
<1>8. k \in Int /\ Cost \in Int
    BY HoldingFinite
<1> HIDE DEF k
<1>9. Cost * (k + 1) = Cost * k + Cost
    BY <1>8
<1> QED
    BY <1>3, <1>6, <1>7, <1>9 DEF Counted, k

\* One holder less, and what it had reserved given back.
LEMMA CountLess ==
    ASSUME CallInv, Counted, NEW c \in Calls, c \in Holding, Holding' = Holding \ {c},
           mine[c].budget = 1, budget = 1, UNCHANGED budget,
           budgets' = [budgets EXCEPT ![mine[c].budget] = Less(@)]
    PROVE  Counted'
<1> DEFINE k == Cardinality(Holding)
<1>1. budgets[1] = Cost * k /\ k \in Nat
    BY HoldingFinite DEF Counted
<1>2. k # 0 /\ Cardinality(Holding') = k - 1
    BY HoldingFinite, FS_RemoveElement, FS_EmptySet
<1>3. Cost \in Nat /\ Cost > 0
    OBVIOUS
<1> HIDE DEF k
<1>4. Cost * k = Cost * (k - 1) + Cost
    BY <1>1, <1>3
<1>5. Cost * (k - 1) \in Nat
  <2>1. k - 1 \in Nat
      BY <1>1, <1>2
  <2>2. \A a, b \in Nat : a * b \in Nat
      OBVIOUS
  <2> QED
      BY <1>3, <2>1, <2>2
<1>6. Less(budgets[1]) = Cost * (k - 1)
  <2> DEFINE p == Cost * (k - 1)
  <2>1. p \in Nat /\ budgets[1] = p + Cost
      BY <1>1, <1>4, <1>5
  <2> HIDE DEF p
  <2>2. Less(p + Cost) = p
      BY <1>3, <2>1 DEF Less
  <2> QED
      BY <2>1, <2>2 DEF p
<1>7. budgets'[1] = Less(budgets[1])
  <2>1. budgets[1] \in Nat
      BY <1>1, <1>4, <1>5, <1>3
  <2> QED
      BY <2>1, LessNat, Charged
<1> QED
    BY <1>2, <1>6, <1>7 DEF Counted

LEMMA CountRelease ==
    ASSUME CallInv, Counted, NEW c \in Calls, Release(c) PROVE Counted'
<1> USE DEF Release
<1>1. /\ pc' \in [Calls -> Sites] /\ pc[c] = "release" /\ pc'[c] \in {"ok", "slot"}
      /\ \A d \in Calls \ {c} : pc'[d] = pc[d]
    BY Moved DEF Sites
<1>2. mine[c].budget = 1 /\ budget = 1
    BY <1>1, FoundBudget DEF WithBudget
<1>3. c \notin releasing /\ c \notin lost
    BY <1>1 DEF CallInv, Guarded
<1>4. c \in Holding /\ Holding' = Holding \ {c}
    BY <1>1, <1>2, <1>3, Holds, HoldsNext, HoldingFinite
<1> QED
    BY <1>2, <1>4, CountLess

LEMMA CountDropRelease ==
    ASSUME CallInv, Counted, NEW c \in Calls, DropRelease(c) PROVE Counted'
<1> USE DEF DropRelease
<1>1. mine[c].budget = 1 /\ budget = 1
    BY FoundBudget
<1>2. c \notin lost /\ pc[c] \in {"failed", "dropped"}
    BY DEF CallInv, Guarded
<1>3. c \in Holding /\ Holding' = Holding \ {c}
    BY <1>1, <1>2, Holds, HoldsNext, HoldingFinite
<1> QED
    BY <1>1, <1>3, CountLess

LEMMA CountMakeBudget ==
    ASSUME CallInv, Counted, NEW c \in Calls, MakeBudget(c) PROVE Counted'
<1> USE DEF MakeBudget
<1>1. /\ pc' \in [Calls -> Sites] /\ pc[c] = "makeBudget" /\ pc'[c] = "limiter"
      /\ \A d \in Calls \ {c} : pc'[d] = pc[d]
    BY Moved DEF Sites
<1>2. c \notin releasing /\ c \notin lost
    BY <1>1 DEF CallInv, Guarded
<1>3. budget \in {0, 1} /\ budgets \in Seq(Nat) /\ Len(budgets) = budget
    BY DEF CallInv, CallTypes
<1>4. \A d \in Calls \ {c} : mine'[d] = mine[d]
    BY DEF CallInv, CallTypes
<1>5. Holding' = Holding
  <2>1. \A d \in Calls \ {c} : d \in Holding' <=> d \in Holding
      BY <1>1, <1>4, Holds, HoldsNext
  <2>2. c \notin Holding' /\ c \notin Holding
      BY <1>1, <1>2, Holds, HoldsNext
  <2>3. \A d \in Calls : d \in Holding' <=> d \in Holding
      BY <2>1, <2>2
  <2> QED
      BY <2>3, HoldingFinite, SameSet
<1>6. CASE budget = 1
    BY <1>3, <1>5, <1>6, SameHolding
<1>7. CASE budget = 0
  <2>1. Holding = {}
      BY <1>7, Holds, HoldingFinite DEF CallInv, CallTypes, Found
  <2>2. budgets'[1] = 0
    <3>1. 0 \in Nat /\ Len(budgets) = 0 /\ budgets' = Append(budgets, 0)
        BY <1>3, <1>7
    <3> QED
        BY <1>3, <3>1, One
  <2>3. Cardinality(Holding') = 0
      BY <1>5, <2>1, FS_EmptySet
  <2> QED
      BY <2>2, <2>3 DEF Counted
<1> QED
    BY <1>3, <1>6, <1>7

\* The other steps of a call leave the budget, and who holds of it.
LEMMA CountMoves ==
    ASSUME CallInv, CallInv', Counted, NEW c \in Calls,
           \/ Execute(c) \/ LookBudget(c) \/ LookLimiter(c) \/ MakeLimiter(c)
           \/ AcquireSlot(c) \/ NoSlot(c) \/ TooManyPages(c) \/ Delayed(c) \/ Answered(c)
           \/ Rejected(c) \/ DropCall(c)
    PROVE  Counted'
<1>1. /\ Guarded(c) /\ Guarded(c)' /\ Found(c) /\ Found(c)'
      /\ pc \in [Calls -> Sites] /\ mine \in [Calls -> [limiter : 0 .. 1, budget : 0 .. 1]]
    BY DEF CallInv, CallTypes
<1>2. /\ UNCHANGED <<budgets, budget>>
      /\ \A d \in Calls \ {c} :
             /\ pc'[d] = pc[d] /\ mine'[d] = mine[d]
             /\ d \in releasing' <=> d \in releasing
             /\ d \in lost' <=> d \in lost
  <2>1. CASE Execute(c) \/ LookBudget(c) \/ LookLimiter(c)
      BY <1>1, <2>1 DEF Execute, LookBudget, LookLimiter, Go, limits
  <2>2. CASE MakeLimiter(c) \/ AcquireSlot(c) \/ NoSlot(c)
      BY <1>1, <2>2 DEF MakeLimiter, AcquireSlot, NoSlot, Go, calls
  <2>3. CASE TooManyPages(c) \/ Delayed(c) \/ Answered(c) \/ Rejected(c)
      BY <1>1, <2>3 DEF TooManyPages, Delayed, Answered, Rejected, Go, limits
  <2>4. CASE DropCall(c)
      BY <1>1, <2>4 DEF DropCall, limits
  <2> QED
      BY <2>1, <2>2, <2>3, <2>4
<1>3. c \in Holding' <=> c \in Holding
  <2>1. CASE \/ Execute(c) \/ LookBudget(c) \/ LookLimiter(c) \/ MakeLimiter(c)
             \/ AcquireSlot(c) \/ TooManyPages(c)
    <3>1. pc[c] \in {"idle", "budget", "limiter", "makeLimiter", "slot"}
        BY <2>1 DEF Execute, LookBudget, LookLimiter, MakeLimiter, AcquireSlot, TooManyPages, Go
    <3>2. pc'[c] \in {"budget", "limiter", "makeBudget", "makeLimiter", "slot", "reserve", "failed"}
        BY <1>1, <2>1
           DEF Execute, LookBudget, LookLimiter, MakeLimiter, AcquireSlot, TooManyPages, Go
    <3>3. UNCHANGED <<releasing, lost>>
        BY <2>1 DEF Execute, LookBudget, LookLimiter, MakeLimiter, AcquireSlot, TooManyPages
    <3> QED
        BY <1>1, <3>1, <3>2, <3>3, Holds, HoldsNext DEF Guarded
  <2>2. CASE NoSlot(c)
      BY <2>2, Holds, HoldsNext DEF NoSlot, calls
  <2>3. CASE Delayed(c) \/ Answered(c)
    <3>1. pc[c] \in {"delay", "post"} /\ pc'[c] \in {"post", "release"} /\ UNCHANGED mine
        BY <1>1, <2>3 DEF Delayed, Answered, Go
    <3> QED
        BY <3>1, Holds, HoldsNext
  <2>4. CASE Rejected(c)
    <3>1. pc[c] = "post" /\ c \in releasing' /\ UNCHANGED mine
        BY <2>4 DEF Rejected, Go
    <3> QED
        BY <3>1, Holds, HoldsNext
  <2>5. CASE DropCall(c)
    <3>1. pc'[c] = "dropped" /\ UNCHANGED mine /\ c \notin releasing /\ c \notin lost
        BY <1>1, <2>5 DEF DropCall, limits, Guarded
    <3>2. c \in releasing' \/ c \in lost' <=> pc[c] \in {"post", "release", "delay"}
        BY <2>5, <3>1 DEF DropCall, HasGuard
    <3> QED
        BY <3>1, <3>2, Holds, HoldsNext
  <2> QED
      BY <2>1, <2>2, <2>3, <2>4, <2>5
<1>4. \A d \in Calls \ {c} : d \in Holding' <=> d \in Holding
    BY <1>2, Holds, HoldsNext
<1> QED
    BY <1>2, <1>3, <1>4, OneHolds

-----------------------------------------------------------------------------

LimInv == Rate /\ CallInv /\ Counted

LEMMA LimitsInit == Init => LimInv
<1> SUFFICES ASSUME Init PROVE LimInv
    OBVIOUS
<1>1. Counted
    BY DEF Init, Counted
<1> QED
    BY <1>1, InitRate, InitCall DEF LimInv

LEMMA CallStepInv == ASSUME LimInv, NEW c \in Calls, Execute(c) \/ CallStep(c) PROVE LimInv'
<1> USE DEF LimInv
<1>1. Rate'
  <2>1. CASE MakeLimiter(c) \/ AcquireSlot(c) \/ NoSlot(c)
      BY <2>1, MakeLimiterRate, AcquireSlotRate, NoSlotRate
  <2>2. CASE ~ (MakeLimiter(c) \/ AcquireSlot(c) \/ NoSlot(c))
    <3>1. UNCHANGED <<clock, strategy, limiters, limiter, granted>>
        BY <2>2 DEF CallStep, Execute, LookBudget, MakeBudget, LookLimiter, TooManyPages, Reserve,
                    Delayed, Answered, Rejected, Release, DropRelease, DropCall, limits
    <3> QED
        BY <3>1, RateFrame
  <2> QED
      BY <2>1, <2>2
<1>2. CallInv'
  <2>1. CASE NoSlot(c)
    <3>1. UNCHANGED <<budgets, budget, limiter, pc, mine, paged, page, releasing, lost>>
        BY <2>1 DEF NoSlot, calls
    <3> QED
        BY <3>1, CallFrame
  <2>2. CASE ~ NoSlot(c)
      BY <2>2, ExecuteCall, LookBudgetCall, MakeBudgetCall, LookLimiterCall, MakeLimiterCall,
         AcquireSlotCall, SlotFailsCall, ReserveCall, DelayedCall, AnsweredCall, RejectedCall,
         ReleaseCall, DropReleaseCall, DropCallCall DEF CallStep
  <2> QED
      BY <2>1, <2>2
<1>3. Counted'
    BY <1>2, CountMakeBudget, CountReserve, CountRelease, CountDropRelease, CountMoves DEF CallStep
<1> QED
    BY <1>1, <1>2, <1>3

LEMMA LimitsNext == LimInv /\ [Next]_vars => LimInv'
<1> SUFFICES ASSUME LimInv, [Next]_vars PROVE LimInv'
    OBVIOUS
<1>1. CASE \E c \in Calls : Execute(c) \/ CallStep(c)
    BY <1>1, CallStepInv
<1>2. CASE Tick
  <2>1. UNCHANGED <<budgets, budget, limiter, pc, mine, paged, page, releasing, lost>>
      BY <1>2 DEF Tick, limits, calls
  <2>2. Rate' /\ CallInv'
      BY <1>2, <2>1, TickRate, CallFrame DEF LimInv
  <2>3. Counted'
      BY <2>1 DEF LimInv, Counted, Holding, Holders
  <2> QED
      BY <2>2, <2>3 DEF LimInv
<1>3. CASE UNCHANGED vars
  <2>1. /\ UNCHANGED <<budgets, budget, limiter, pc, mine, paged, page, releasing, lost>>
        /\ UNCHANGED <<clock, strategy, limiters, limiter, granted>>
      BY <1>3 DEF vars, limits, calls
  <2>2. Rate' /\ CallInv'
      BY <2>1, RateFrame, CallFrame DEF LimInv
  <2>3. Counted'
      BY <2>1 DEF LimInv, Counted, Holding, Holders
  <2> QED
      BY <2>2, <2>3 DEF LimInv
<1> QED
    BY <1>1, <1>2, <1>3 DEF Next, Done

LEMMA LimInvTypes == LimInv => TypeOK
<1> SUFFICES ASSUME LimInv PROVE TypeOK
    OBVIOUS
<1> USE DEF LimInv, Rate, CallInv, CallTypes
<1>1. Len(limiters) \in 0 .. 1 /\ Len(budgets) \in 0 .. 1
    OBVIOUS
<1>2. ASSUME NEW c \in Calls
      PROVE  mine[c] \in [limiter : 0 .. Len(limiters), budget : 0 .. Len(budgets)]
  <2>1. mine[c] \in [limiter : 0 .. 1, budget : 0 .. 1]
      OBVIOUS
  <2>2. mine[c].budget <= Len(budgets) /\ mine[c].limiter <= Len(limiters)
      BY DEF Found
  <2> QED
      BY <1>1, <2>1, <2>2
<1>3. mine \in [Calls -> [limiter : 0 .. Len(limiters), budget : 0 .. Len(budgets)]]
    BY <1>2
<1>4. limiter \in 0 .. Len(limiters) /\ budget \in 0 .. Len(budgets)
    BY <1>1
<1> QED
    BY <1>3, <1>4 DEF TypeOK, Limiters

\* The types of the limits and the calls.
THEOREM LimitsTypes == Spec => []TypeOK
<1> QED
    BY LimitsInit, LimitsNext, LimInvTypes, PTL DEF Spec

\* However many calls look for the plugin's budget at once they share one,
\* and what it has pending is a reservation for each that holds one
\* (PluginBudget, BudgetGuard).
THEOREM LimitsReservedOnce == Spec => []ReservedOnce
<1>1. LimInv => ReservedOnce
  <2> SUFFICES ASSUME LimInv, NEW b \in 1 .. Len(budgets)
               PROVE  budgets[b] = Cost * Cardinality(Holders(b))
      BY DEF ReservedOnce, LimInv, CallInv, CallTypes
  <2>1. b = 1 /\ budget = 1
      BY DEF LimInv, CallInv, CallTypes
  <2> QED
      BY <2>1 DEF LimInv, Counted, Holding
<1> QED
    BY <1>1, LimitsInit, LimitsNext, PTL DEF Spec

LEMMA SpacedWithin == Rate => SlotsWithinRate
<1> SUFFICES ASSUME Rate PROVE SlotsWithinRate
    OBVIOUS
<1> DEFINE g == granted
<1>1. g \in Seq(Nat) /\ Len(g) \in Nat /\ \A i \in 1 .. Len(g) : g[i] \in Nat
    BY TimesNat DEF Rate
<1>2. Spaced(g) /\ \A i, j \in 1 .. Len(g) : i <= j => g[i] <= g[j]
    BY DEF Rate
<1>3. MaxRequests \in Nat /\ MaxRequests >= 1 /\ Window \in Nat /\ Window >= 1
    OBVIOUS
<1> SUFFICES ASSUME NEW i \in 1 .. Len(g), NEW j \in 1 .. Len(g), i <= j, g[j] - g[i] < Window
             PROVE  /\ strategy = "Sliding" => j - i < MaxRequests
                    /\ strategy # "Sliding" => j - i < 2 * MaxRequests - 1
    BY DEF SlotsWithinRate
<1>4. CASE strategy = "Sliding"
  <2> SUFFICES ASSUME j - i >= MaxRequests PROVE FALSE
      BY <1>3, <1>4
  <2>1. i + MaxRequests \in 1 .. Len(g) /\ i + MaxRequests <= j /\ i + MaxRequests <= Len(g)
      BY <1>1, <1>3
  <2>2. g[i + MaxRequests] - g[i] >= Window
      BY <1>2, <1>4, <2>1 DEF Spaced
  <2>3. g[i + MaxRequests] <= g[j]
      BY <1>2, <2>1
  <2>4. g[i] \in Nat /\ g[j] \in Nat /\ g[i + MaxRequests] \in Nat
      BY <1>1, <2>1
  <2> QED
      BY <1>3, <2>2, <2>3, <2>4
<1>5. CASE strategy # "Sliding"
  <2> DEFINE n == j - i + 1
             d == g[j] - g[i]
  <2>1. n * Window <= Full + d * MaxRequests
      BY <1>2, <1>5 DEF Spaced
  <2>2. d \in Int /\ d <= Window - 1 /\ n \in Int /\ n >= 1
      BY <1>1, <1>3
  <2> HIDE DEF n, d
  <2>3. d * MaxRequests <= (Window - 1) * MaxRequests
      BY <1>3, <2>2
  <2>4. (Window - 1) * MaxRequests = Full - MaxRequests
      BY <1>3 DEF Full
  <2>5. d * MaxRequests \in Int /\ n * Window \in Int /\ Full \in Int
      BY <1>3, <2>2, Linear, FullWindow
  <2>6. n * Window < 2 * Full
      BY <1>3, <2>1, <2>3, <2>4, <2>5
  <2>7. n < 2 * MaxRequests
    <3> SUFFICES ASSUME n >= 2 * MaxRequests PROVE FALSE
        BY <1>3, <2>2
    <3>1. n * Window >= (2 * MaxRequests) * Window
        BY <1>3, <2>2
    <3>2. (2 * MaxRequests) * Window = 2 * Full
        BY <1>3 DEF Full
    <3> QED
        BY <2>5, <2>6, <3>1, <3>2
  <2> QED
      BY <1>3, <1>5, <2>2, <2>7 DEF n
<1> QED
    BY <1>4, <1>5

\* The slots given to all the calls together stay in the plugin's limit, for
\* every limit and window (RequestWindow::acquire).
THEOREM LimitsSlotsWithinRate == Spec => []SlotsWithinRate
<1>1. LimInv => SlotsWithinRate
    BY SpacedWithin DEF LimInv
<1> QED
    BY <1>1, LimitsInit, LimitsNext, PTL DEF Spec

-----------------------------------------------------------------------------
(* Idempotency                                                             *)

LEMMA IdemTypesNext == IdemTypeOK /\ [IdemNext]_idem => IdemTypeOK'
<1> SUFFICES ASSUME IdemTypeOK, [IdemNext]_idem PROVE IdemTypeOK'
    OBVIOUS
<1> USE DEF IdemTypeOK, NoEntry, Record, Moves
<1>1. CASE UNCHANGED idem
    BY <1>1 DEF idem
<1>2. CASE Invalidate \/ Sweep
    BY <1>2 DEF Invalidate, Sweep
<1>3. CASE Expire
  <2>1. entry \in [status : {"Pending", "Completed", "Failed"}, live : BOOLEAN]
      BY <1>3 DEF Expire
  <2>2. [entry EXCEPT !.live = FALSE]
            \in [status : {"Pending", "Completed", "Failed"}, live : BOOLEAN]
      BY <2>1
  <2> QED
      BY <1>3, <2>2 DEF Expire
<1>4. ASSUME NEW w \in Workers, Exists(w) PROVE IdemTypeOK'
    BY <1>4 DEF Exists
<1>5. ASSUME NEW w \in Workers, RemoveExpired(w) PROVE IdemTypeOK'
    BY <1>5 DEF RemoveExpired
<1>6. ASSUME NEW w \in Workers, SetPending(w) PROVE IdemTypeOK'
  <2>1. entry' \in [status : {"Pending", "Completed", "Failed"}, live : BOOLEAN]
      BY <1>6 DEF SetPending
  <2>2. worker' = [worker EXCEPT ![w] = "claimed"] /\ claims' = claims + 1
      BY <1>6 DEF SetPending
  <2>3. claims' \in Nat
      BY <2>2
  <2> QED
      BY <2>1, <2>2, <2>3
<1>7. ASSUME NEW w \in Workers, StoreOutcome(w) PROVE IdemTypeOK'
  <2>1. entry' \in [status : {"Pending", "Completed", "Failed"}, live : BOOLEAN]
    <3>1. \/ entry' = [status |-> "Completed", live |-> TRUE]
          \/ entry' = [status |-> "Failed", live |-> TRUE]
        BY <1>7 DEF StoreOutcome
    <3>2. CASE entry' = [status |-> "Completed", live |-> TRUE]
        BY <3>2
    <3>3. CASE entry' = [status |-> "Failed", live |-> TRUE]
        BY <3>3
    <3> QED
        BY <3>1, <3>2, <3>3
  <2>2. worker' = [worker EXCEPT ![w] = "done"] /\ claims' = claims
      BY <1>7 DEF StoreOutcome
  <2> QED
      BY <2>1, <2>2
<1>8. ASSUME NEW w \in Workers, Get(w) PROVE IdemTypeOK'
    BY <1>8 DEF Get
<1> QED
    BY <1>1, <1>2, <1>3, <1>4, <1>5, <1>6, <1>7, <1>8 DEF IdemNext

\* The types of the store and its workers.
THEOREM IdemTypes == IdemSpec => []IdemTypeOK
<1>1. IdemInit => IdemTypeOK
    BY DEF IdemInit, IdemTypeOK
<1> QED
    BY <1>1, IdemTypesNext, PTL DEF IdemSpec

\* A worker between its look at the key and what it will do to the entry.
Between == {w \in Workers : worker[w] \in {"remove", "set", "removeRead"}}

\* No two workers are.
OneAtATime == \A v, w \in Between : v = w

\* A granted claim is backed by a live record, and whoever is about to change
\* the entry on the strength of a look still finds the key free.
ClaimBacked ==
    /\ claims <= 1
    /\ claims = 1 => entry.live
    /\ Between # {} => claims = 0

LEMMA ClaimBackedNext ==
    ASSUME IdemTypeOK, ClaimBacked, OneAtATime, [IdemNext]_idem
    PROVE  ClaimBacked'
<1> USE DEF IdemTypeOK, ClaimBacked, Between, NoEntry, Record, Moves
<1>0. claims \in {0, 1}
    OBVIOUS
<1>1. CASE UNCHANGED idem
    BY <1>1 DEF idem
<1>2. CASE Invalidate \/ Expire \/ Sweep
    BY <1>0, <1>2 DEF Invalidate, Expire, Sweep, Expired
<1>3. ASSUME NEW w \in Workers, Exists(w) PROVE ClaimBacked'
    BY <1>0, <1>3 DEF Exists, Expired
<1>4. ASSUME NEW w \in Workers, RemoveExpired(w) PROVE ClaimBacked'
    BY <1>0, <1>4 DEF RemoveExpired
<1>5. ASSUME NEW w \in Workers, SetPending(w) PROVE ClaimBacked'
    BY <1>0, <1>5 DEF SetPending, OneAtATime
<1>6. ASSUME NEW w \in Workers, StoreOutcome(w) PROVE ClaimBacked'
    BY <1>0, <1>6 DEF StoreOutcome
<1>7. ASSUME NEW w \in Workers, Get(w) PROVE ClaimBacked'
    BY <1>0, <1>7 DEF Get, Expired
<1> QED
    BY <1>1, <1>2, <1>3, <1>4, <1>5, <1>6, <1>7 DEF IdemNext

\* A key is granted twice only if two workers are between their look at it and
\* their change of it at once, one of them perhaps a mere reader that removes
\* what has expired (IdempotencyStore::claim, DashMapCache::get and exists).
THEOREM ClaimOnceOneAtATime == IdemSpec /\ []OneAtATime => []ClaimOnce
<1>1. IdemInit => ClaimBacked
    BY DEF IdemInit, ClaimBacked, Between
<1>2. IdemTypeOK /\ ClaimBacked /\ OneAtATime /\ [IdemNext]_idem => ClaimBacked'
    BY ClaimBackedNext
<1>3. ClaimBacked => ClaimOnce
    BY DEF ClaimBacked, ClaimOnce
<1> QED
    BY <1>1, <1>2, <1>3, IdemTypes, PTL DEF IdemSpec

-----------------------------------------------------------------------------
(* The three together                                                      *)

\* Each of the three goes its own way.
LEMMA EachItsOwn == MCSpec => Spec /\ DagSpec /\ IdemSpec
<1>1. MCInit => Init /\ DagInit /\ IdemInit
    BY DEF MCInit
<1>2. [MCNext]_<<vars, dag, idem, part>> => [Next]_vars /\ [DagNext]_dag /\ [IdemNext]_idem
    BY DEF MCNext
<1> QED
    BY <1>1, <1>2, PTL DEF MCSpec, Spec, DagSpec, IdemSpec

\* The types of all three.
THEOREM GraphTypes == MCSpec => []GraphTypeOK
<1>1. TypeOK /\ DagTypeOK /\ IdemTypeOK => GraphTypeOK
    BY DEF GraphTypeOK
<1> QED
    BY <1>1, EachItsOwn, LimitsTypes, DagTypes, IdemTypes, PTL

=============================================================================
