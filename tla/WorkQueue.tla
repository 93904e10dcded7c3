------------------------------ MODULE WorkQueue ------------------------------
(***************************************************************************)
(* The in-process work queue of stygian-graph (LocalWorkQueue) and the     *)
(* executor that drains it (DistributedDagExecutor::execute_wave), both in *)
(* adapters/distributed.rs.                                                *)
(*                                                                         *)
(* A wave is one call of execute_wave: it enqueues its tasks one by one,   *)
(* spawns workers, waits for all of them and collects the results. All     *)
(* waves share one queue, so the workers of a wave also run the tasks of   *)
(* the others. Task ids are unique: a task is in the batch of one wave.    *)
(***************************************************************************)
EXTENDS Naturals, Sequences

CONSTANTS
    Tasks,
    Waves,
    Batch,          \* the tasks of each wave, in the order of the Vec
    Matches,        \* the tasks whose id starts with the wave's pipeline id
    Concurrency,    \* worker_concurrency
    MaxRetries,     \* max_retries
    MayDrop,        \* whether futures may be dropped and services panic
    NoTask

Elements(s) == {s[i] : i \in DOMAIN s}

ASSUME QueueAssumption ==
    /\ Batch \in [Waves -> Seq(Tasks)]
    /\ \A w \in Waves : \A i, j \in DOMAIN Batch[w] : Batch[w][i] = Batch[w][j] => i = j
    /\ \A v, w \in Waves : v # w => Elements(Batch[v]) \cap Elements(Batch[w]) = {}
    /\ Matches \in [Waves -> SUBSET Tasks]
    /\ \A w \in Waves : Batch[w] # <<>> /\ Elements(Batch[w]) \subseteq Matches[w]
    /\ Concurrency \in Nat \ {0}
    /\ MaxRetries \in Nat
    /\ MayDrop \in BOOLEAN
    /\ NoTask \notin Tasks

\* The workers a wave spawns; no more than it has tasks.
Spawned(w) == {<<w, i>> : i \in {n \in 1..Concurrency : n <= Len(Batch[w])}}
Workers    == UNION {Spawned(w) : w \in Waves}
Owner(k)   == k[1]

VARIABLES
    pending,        \* the queue
    status,         \* the status of each task
    attempt,        \* the attempt of a failed status
    stage,          \* where a wave is
    next,           \* the index of the task a wave enqueues next
    unseen,         \* the tasks that collect_results has still to look at
    results,        \* the tasks whose output a wave returns
    pc, hand,       \* where a worker is, and the task it has dequeued
    ranBy           \* history: the worker that has dequeued each task

waveVars   == <<stage, next, unseen, results>>
workerVars == <<pc, hand, ranBy>>
vars == <<pending, status, attempt, waveVars, workerVars>>

NoWorker == <<>>

Finished == {"completed", "failed", "dead_letter"}
Statuses == {"absent", "pending", "in_progress"} \cup Finished

TypeOK ==
    /\ pending \in Seq(Tasks)
    /\ status \in [Tasks -> Statuses]
    /\ attempt \in [Tasks -> 0..MaxRetries]
    /\ stage \in [Waves -> {"idle", "announce", "push", "join", "collect", "returned", "dropped"}]
    /\ next \in [Waves -> Nat]
    /\ \A w \in Waves : /\ next[w] \in 1..(Len(Batch[w]) + 1)
                        /\ stage[w] = "idle" => next[w] = 1
                        /\ stage[w] \in {"announce", "push"} => next[w] <= Len(Batch[w])
    /\ unseen \in [Waves -> SUBSET Tasks]
    /\ results \in [Waves -> SUBSET Tasks]
    /\ pc \in [Workers -> {"off", "poll", "mark", "run", "done", "dead"}]
    /\ hand \in [Workers -> Tasks \cup {NoTask}]
    /\ ranBy \in [Tasks -> Workers \cup {NoWorker}]

Init ==
    /\ pending = <<>>
    /\ status = [t \in Tasks |-> "absent"]
    /\ attempt = [t \in Tasks |-> 0]
    /\ stage = [w \in Waves |-> "idle"]
    /\ next = [w \in Waves |-> 1]
    /\ unseen = [w \in Waves |-> {}]
    /\ results = [w \in Waves |-> {}]
    /\ pc = [k \in Workers |-> "off"]
    /\ hand = [k \in Workers |-> NoTask]
    /\ ranBy = [t \in Tasks |-> NoWorker]

----------------------------------------------------------------------------
(* execute_wave *)

\* The task that w is enqueuing.
Current(w) == Batch[w][next[w]]

Enter(w, s) == stage' = [stage EXCEPT ![w] = s]

SetStatus(t, s) ==
    /\ status' = [status EXCEPT ![t] = s]
    /\ attempt' = [attempt EXCEPT ![t] = 0]

Start(w) ==
    /\ stage[w] = "idle"
    /\ Enter(w, "announce")
    /\ UNCHANGED <<pending, status, attempt, next, unseen, results, workerVars>>

\* enqueue: the status first, then the queue, under its lock.
Announce(w) ==
    /\ stage[w] = "announce"
    /\ SetStatus(Current(w), "pending")
    /\ Enter(w, "push")
    /\ UNCHANGED <<pending, next, unseen, results, workerVars>>

\* Mutant: one task too many.
PushOneMore(w) ==
    /\ stage[w] = "push"
    /\ pending' = Append(pending, Current(w))
    /\ next' = [next EXCEPT ![w] = @ + 1]
    /\ IF next[w] <= Len(Batch[w])
       THEN Enter(w, "announce") /\ UNCHANGED pc
       ELSE /\ Enter(w, "join")
            /\ pc' = [k \in Workers |-> IF k \in Spawned(w) THEN "poll" ELSE pc[k]]
    /\ UNCHANGED <<status, attempt, unseen, results, hand, ranBy>>

\* Mutant: the push is skipped when the lock of the queue is taken.
PushTry(w) ==
    /\ stage[w] = "push"
    /\ pending' \in {pending, Append(pending, Current(w))}
    /\ next' = [next EXCEPT ![w] = @ + 1]
    /\ IF next[w] < Len(Batch[w])
       THEN Enter(w, "announce") /\ UNCHANGED pc
       ELSE /\ Enter(w, "join")
            /\ pc' = [k \in Workers |-> IF k \in Spawned(w) THEN "poll" ELSE pc[k]]
    /\ UNCHANGED <<status, attempt, unseen, results, hand, ranBy>>

\* After the last task the workers are spawned.
Push(w) ==
    /\ stage[w] = "push"
    /\ pending' = Append(pending, Current(w))
    /\ next' = [next EXCEPT ![w] = @ + 1]
    /\ IF next[w] < Len(Batch[w])
       THEN Enter(w, "announce") /\ UNCHANGED pc
       ELSE /\ Enter(w, "join")
            /\ pc' = [k \in Workers |-> IF k \in Spawned(w) THEN "poll" ELSE pc[k]]
    /\ UNCHANGED <<status, attempt, unseen, results, hand, ranBy>>

Ended(k) == pc[k] \in {"done", "dead"}

\* Mutant: the wave goes on as soon as one worker has ended.
JoinFirst(w) ==
    /\ stage[w] = "join"
    /\ \E k \in Spawned(w) : Ended(k)
    /\ Enter(w, "collect")
    /\ unseen' = [unseen EXCEPT ![w] = Matches[w]]
    /\ UNCHANGED <<pending, status, attempt, next, results, workerVars>>

\* join_next has returned for every worker, aborted and panicked ones included.
Join(w) ==
    /\ stage[w] = "join"
    /\ \A k \in Spawned(w) : Ended(k)
    /\ Enter(w, "collect")
    /\ unseen' = [unseen EXCEPT ![w] = Matches[w]]
    /\ UNCHANGED <<pending, status, attempt, next, results, workerVars>>

\* collect_results walks the map entry by entry, in any order, while the
\* workers of other waves go on; it skips the ids without its prefix.
Look(w) ==
    /\ stage[w] = "collect"
    /\ \E t \in unseen[w] :
         /\ unseen' = [unseen EXCEPT ![w] = @ \ {t}]
         /\ results' = [results EXCEPT ![w] =
                          IF status[t] = "completed" THEN @ \cup {t} ELSE @]
    /\ UNCHANGED <<pending, status, attempt, stage, next, workerVars>>

Return(w) ==
    /\ stage[w] = "collect"
    /\ unseen[w] = {}
    /\ Enter(w, "returned")
    /\ UNCHANGED <<pending, status, attempt, next, unseen, results, workerVars>>

\* The future of execute_wave is dropped where it waits: for the lock of the
\* queue, with the task it would push, or for the workers.
Drop(w) ==
    /\ MayDrop
    /\ stage[w] \in {"push", "join"}
    /\ Enter(w, "dropped")
    /\ UNCHANGED <<pending, status, attempt, next, unseen, results, workerVars>>

----------------------------------------------------------------------------
(* The workers *)

Goto(k, l) == pc' = [pc EXCEPT ![k] = l]

\* Mutant: the task is left in the queue until its status is set.
DequeuePeek(k) ==
    /\ pc[k] = "poll" /\ pending # <<>>
    /\ hand' = [hand EXCEPT ![k] = Head(pending)]
    /\ ranBy' = [ranBy EXCEPT ![Head(pending)] = k]
    /\ Goto(k, "mark")
    /\ UNCHANGED <<pending, status, attempt, waveVars>>

Dequeue(k) ==
    /\ pc[k] = "poll" /\ pending # <<>>
    /\ pending' = Tail(pending)
    /\ hand' = [hand EXCEPT ![k] = Head(pending)]
    /\ ranBy' = [ranBy EXCEPT ![Head(pending)] = k]
    /\ Goto(k, "mark")
    /\ UNCHANGED <<status, attempt, waveVars>>

\* try_dequeue sets the status when the lock of the queue is free again.
Mark(k) ==
    /\ pc[k] = "mark"
    /\ SetStatus(hand[k], "in_progress")
    /\ Goto(k, "run")
    /\ UNCHANGED <<pending, waveVars, hand, ranBy>>

\* Mutant: the worker goes on polling an empty queue.
FindEmptyAgain(k) ==
    /\ pc[k] = "poll" /\ pending = <<>>
    /\ UNCHANGED vars

\* Mutant: a worker leaves after its own share although tasks are queued.
FindEmptyEarly(k) ==
    /\ pc[k] = "poll"
    /\ pending = <<>> \/ \E t \in Tasks : ranBy[t] = k
    /\ Goto(k, "done")
    /\ UNCHANGED <<pending, status, attempt, waveVars, hand, ranBy>>

FindEmpty(k) ==
    /\ pc[k] = "poll" /\ pending = <<>>
    /\ Goto(k, "done")
    /\ UNCHANGED <<pending, status, attempt, waveVars, hand, ranBy>>

LetGo(k) ==
    /\ Goto(k, "poll")
    /\ hand' = [hand EXCEPT ![k] = NoTask]
    /\ UNCHANGED <<pending, waveVars, ranBy>>

\* The service answers and the task is acknowledged.
Acknowledge(k) ==
    /\ pc[k] = "run"
    /\ SetStatus(hand[k], "completed")
    /\ LetGo(k)

\* The service answers an error, or the wave of this worker has no service
\* for the node. A task that has not failed before counts as attempt 0.
Fail(k) ==
    /\ pc[k] = "run"
    /\ LET t == hand[k]
           n == IF status[t] = "failed" THEN attempt[t] ELSE 0
       IN  IF n >= MaxRetries
           THEN SetStatus(t, "dead_letter")
           ELSE /\ status' = [status EXCEPT ![t] = "failed"]
                /\ attempt' = [attempt EXCEPT ![t] = n + 1]
    /\ LetGo(k)

\* The service panics; or the wave was dropped and the worker, aborted with
\* its JoinSet, ends where it waits.
Die(k) ==
    /\ MayDrop
    /\ pc[k] = "run" \/ (pc[k] = "poll" /\ stage[Owner(k)] = "dropped")
    /\ Goto(k, "dead")
    /\ UNCHANGED <<pending, status, attempt, waveVars, hand, ranBy>>

----------------------------------------------------------------------------
WaveStep(w)   == Announce(w) \/ Push(w) \/ Join(w) \/ Look(w) \/ Return(w)
WorkerStep(k) == Dequeue(k) \/ Mark(k) \/ FindEmpty(k) \/ Acknowledge(k) \/ Fail(k)

Next ==
    \/ \E w \in Waves : Start(w) \/ WaveStep(w) \/ Drop(w)
    \/ \E k \in Workers : WorkerStep(k) \/ Die(k)

Spec == Init /\ [][Next]_vars

\* The runtime polls every task that can go on, and services answer in time:
\* the code puts no timeout on them.
Fairness ==
    /\ \A w \in Waves : WF_vars(WaveStep(w))
    /\ \A k \in Workers : WF_vars(WorkerStep(k))

FairSpec == Spec /\ Fairness

----------------------------------------------------------------------------
(* Properties *)

Queued(t) == t \in Elements(pending)

\* A task whose status is neither absent nor final is somewhere: on its way
\* into the queue, in the queue, or with a worker; and never in two places.
\* A wave or a worker that died keeps what it had.
OnItsWay(t) == \E w \in Waves : stage[w] \in {"push", "dropped"} /\ next[w] <= Len(Batch[w]) /\ t = Current(w)
HeldBy(t)   == {k \in Workers : hand[k] = t}

Accounted ==
    \A t \in Tasks :
      /\ status[t] \in {"pending", "in_progress"} => OnItsWay(t) \/ Queued(t) \/ HeldBy(t) # {}
      /\ Queued(t) \/ OnItsWay(t) => HeldBy(t) = {} /\ status[t] = "pending"
      /\ \A j, k \in HeldBy(t) : j = k
      /\ HeldBy(t) # {} => status[t] \in {"pending", "in_progress"}

\* No task is run twice, and no status goes back: enqueue has set Pending
\* before any worker can see the task, and only the worker that took it
\* moves it on.
Rank(s) == IF s = "absent" THEN 0 ELSE IF s = "pending" THEN 1
           ELSE IF s = "in_progress" THEN 2 ELSE 3

StatusForward ==
    [][\A t \in Tasks : /\ status'[t] # status[t] => Rank(status[t]) < Rank(status'[t])
                        /\ ranBy[t] # NoWorker => ranBy'[t] = ranBy[t]]_vars

\* A wave one of whose workers has found the queue empty has none of its
\* tasks left in the queue: its tasks were all enqueued before the spawn,
\* and nobody puts one back.
NothingLeftQueued ==
    \A w \in Waves :
      (\E k \in Spawned(w) : pc[k] = "done") => \A t \in Elements(Batch[w]) : ~Queued(t)

\* What a wave's own workers have completed is among the results it returns,
\* though the map is walked while other workers write to it; and it returns
\* only what has been completed.
OwnWorkReturned ==
    \A w \in Waves : stage[w] = "returned" =>
      /\ \A t \in Matches[w] :
           status[t] = "completed" /\ ranBy[t] \in Spawned(w) => t \in results[w]
      /\ \A t \in results[w] : status[t] = "completed"

\* A wave that has begun returns, or is dropped.
WaveEnds ==
    \A w \in Waves : (stage[w] = "announce") ~> (stage[w] \in {"returned", "dropped"})

=============================================================================
