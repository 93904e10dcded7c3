---------------------------- MODULE DagExecutor ----------------------------
(***************************************************************************)
(* DagExecutor: a pipeline of nodes and edges is run in waves. The tasks   *)
(* of a wave are spawned together, each with the outputs its predecessors  *)
(* have stored, and joined in turn. An error ends execute; the tasks of    *)
(* the wave that are not joined yet run on, detached.                      *)
(***************************************************************************)
EXTENDS Integers, Sequences, FiniteSets

CONSTANTS
    Nodes,     \* the nodes of the pipeline, by their id
    Graphs     \* the edge sets to run it with, as sets of pairs

ASSUME DagAssumption ==
    /\ IsFiniteSet(Nodes)
    /\ Nodes # {}
    /\ Graphs \subseteq SUBSET (Nodes \X Nodes)

VARIABLES
    edges,     \* Pipeline::edges
    known,     \* the nodes whose service is registered
    level,     \* build_execution_waves: the wave of a node
    outcome,   \* of from_pipeline and execute
    wave,      \* the wave under way
    joining,   \* the wave is spawned, its handles are being awaited
    handles,   \* the tasks of the wave, in the order of their spawning
    task,      \* of a node: none, running, ok (not stored yet), stored, failed
    input,     \* the predecessors whose outputs a task was given
    results    \* the nodes whose output is in the result store

graph == <<edges, known>>
dag == <<graph, level, outcome, wave, joining, handles, task, input, results>>

Levels == 0 .. Cardinality(Nodes) - 1
Preds(n) == {p \in Nodes : <<p, n>> \in edges}

DagTypeOK ==
    /\ edges \in SUBSET (Nodes \X Nodes)
    /\ known \in SUBSET Nodes
    /\ level \in [Nodes -> Levels]
    /\ outcome \in {"new", "cyclic", "running", "ok", "error"}
    /\ wave \in 0 .. Cardinality(Nodes)
    /\ joining \in BOOLEAN
    /\ handles \in Seq(Nodes)
    /\ task \in [Nodes -> {"none", "running", "ok", "stored", "failed"}]
    /\ input \in [Nodes -> SUBSET Nodes]
    /\ results \in SUBSET Nodes

\* from_pipeline up to the cycles, with a pipeline that validate accepts (no
\* empty id or service) and whose edges name its nodes; any other is refused with
\* an error before there is an executor.
DagInit ==
    /\ edges \in Graphs
    /\ known \in SUBSET Nodes
    /\ level = [n \in Nodes |-> 0]
    /\ outcome = "new"
    /\ wave = 0 /\ joining = FALSE
    /\ handles = <<>>
    /\ task = [n \in Nodes |-> "none"]
    /\ input = [n \in Nodes |-> {}]
    /\ results = {}

\* A root is at level 0, any other node one above its highest predecessor.
\* There is such a function exactly if the graph has no cycle.
IsLevels(lv) ==
    \A n \in Nodes : (\A p \in Preds(n) : lv[n] > lv[p])
                  /\ (lv[n] = 0 \/ \E p \in Preds(n) : lv[n] = lv[p] + 1)

\* from_pipeline refuses a cycle; execute begins by grouping the nodes.
Build ==
    /\ outcome = "new"
    /\ \/ \E lv \in [Nodes -> Levels] :
              IsLevels(lv) /\ level' = lv /\ outcome' = "running"
       \/ /\ \A lv \in [Nodes -> Levels] : ~ IsLevels(lv)
          /\ outcome' = "cyclic" /\ UNCHANGED level
    /\ UNCHANGED <<graph, wave, joining, handles, task, input, results>>

ToSpawn == {n \in Nodes : level[n] = wave /\ \A i \in 1 .. Len(handles) : handles[i] # n}

\* Under the lock of the store the outputs are collected, then the task is
\* spawned. The nodes of a wave come in any order (they are hashed).
Spawn(n) ==
    /\ outcome = "running" /\ ~ joining
    /\ n \in ToSpawn \cap known
    /\ input' = [input EXCEPT ![n] = Preds(n) \cap results]
    /\ handles' = Append(handles, n)
    /\ task' = [task EXCEPT ![n] = "running"]
    /\ UNCHANGED <<graph, level, outcome, wave, joining, results>>

\* A service that is not registered ends execute; what was spawned runs on.
NoService(n) ==
    /\ outcome = "running" /\ ~ joining
    /\ n \in ToSpawn \ known
    /\ outcome' = "error"
    /\ UNCHANGED <<graph, level, wave, joining, handles, task, input, results>>

Spawned ==
    /\ outcome = "running" /\ ~ joining
    /\ ToSpawn = {}
    /\ joining' = TRUE
    /\ UNCHANGED <<graph, level, outcome, wave, handles, task, input, results>>

\* The service answers, or fails (or the task panics).
Serve(n) ==
    /\ task[n] = "running"
    /\ task' \in {[task EXCEPT ![n] = "ok"], [task EXCEPT ![n] = "failed"]}
    /\ UNCHANGED <<graph, level, outcome, wave, joining, handles, input, results>>

\* The task puts the output into the store.
Store(n) ==
    /\ task[n] = "ok"
    /\ task' = [task EXCEPT ![n] = "stored"]
    /\ results' = results \cup {n}
    /\ UNCHANGED <<graph, level, outcome, wave, joining, handles, input>>

JoinUnstored ==   \* mutant: a task is done before it has stored its output
    /\ outcome = "running" /\ joining /\ handles # <<>>
    /\ \/ task[Head(handles)] \in {"ok", "stored"} /\ handles' = Tail(handles) /\ UNCHANGED outcome
       \/ task[Head(handles)] = "failed" /\ outcome' = "error" /\ UNCHANGED handles
    /\ UNCHANGED <<graph, level, wave, joining, task, input, results>>

\* The next handle is awaited: an output, or the first error.
Join ==
    /\ outcome = "running" /\ joining /\ handles # <<>>
    /\ \/ task[Head(handles)] = "stored" /\ handles' = Tail(handles) /\ UNCHANGED outcome
       \/ task[Head(handles)] = "failed" /\ outcome' = "error" /\ UNCHANGED handles
    /\ UNCHANGED <<graph, level, wave, joining, task, input, results>>

\* All joined: the next wave, or, after the last, the results.
NextWave ==
    /\ outcome = "running" /\ joining /\ handles = <<>>
    /\ joining' = FALSE
    /\ wave' = wave + 1
    /\ outcome' = IF \E n \in Nodes : level[n] > wave THEN "running" ELSE "ok"
    /\ UNCHANGED <<graph, level, handles, task, input, results>>

Returned ==
    /\ outcome \in {"cyclic", "ok", "error"}
    /\ \A n \in Nodes : task[n] \in {"none", "stored", "failed"}
    /\ UNCHANGED dag

DagNext ==
    \/ Build \/ Returned \/ Spawned \/ Join \/ NextWave
    \/ \E n \in Nodes : Spawn(n) \/ NoService(n) \/ Serve(n) \/ Store(n)

DagSpec == DagInit /\ [][DagNext]_dag

-----------------------------------------------------------------------------
(* Properties                                                              *)

\* Every task that begins has the output of each predecessor, and a pipeline
\* that returns Ok has the output of every node, whatever the order in which
\* the tasks of its waves were spawned, ended and stored.
InputsReady ==
    /\ \A n \in Nodes : task[n] # "none" => input[n] = Preds(n)
    /\ outcome = "ok" => results = Nodes

=============================================================================
