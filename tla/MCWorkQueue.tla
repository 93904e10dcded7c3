----------------------------- MODULE MCWorkQueue -----------------------------
(***************************************************************************)
(* WorkQueue for TLC: two waves that share one queue. The pipeline id of   *)
(* the first is a prefix of that of the second ("p1", "p10").              *)
(***************************************************************************)
EXTENDS WorkQueue, TLC

CONSTANTS w1, w2, a1, a2, b1

MCBatch   == (w1 :> <<a1, a2>>) @@ (w2 :> <<b1>>)
MCMatches == (w1 :> {a1, a2, b1}) @@ (w2 :> {b1})

\* distributed.rs:15: "collect_results when all tasks in wave are
\* Completed", and execute_wave "Returns `(node_name, output)` pairs for all
\* tasks in the wave" (line 267). The wave waits for its own workers only,
\* and a worker of the other wave may still be running one of its tasks.
CollectsFinished ==
    \A w \in Waves : stage[w] = "collect" => \A t \in Elements(Batch[w]) : status[t] \in Finished

=============================================================================
