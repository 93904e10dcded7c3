--------------------------- MODULE WorkQueueProofs ---------------------------
(***************************************************************************)
(* The inductive invariant of WorkQueue: every task that has been pushed   *)
(* is in the queue, in one hand, or finished, and nobody but the one who   *)
(* has it changes its status.                                              *)
(***************************************************************************)
EXTENDS WorkQueue, TLAPS

\* The task has been put in the queue.
Pushed(t) == \E w \in Waves : \E i \in 1..Len(Batch[w]) : i < next[w] /\ Batch[w][i] = t

StagesOK ==
    /\ \A w \in Waves : stage[w] \in {"join", "collect", "returned"} => next[w] = Len(Batch[w]) + 1
    /\ \A w \in Waves : stage[w] \in {"collect", "returned"} =>
          \A k \in Workers : Owner(k) = w => Ended(k)
    /\ \A k \in Workers : pc[k] # "off" =>
          /\ stage[Owner(k)] \notin {"idle", "announce", "push"}
          /\ next[Owner(k)] = Len(Batch[Owner(k)]) + 1

QueueOK ==
    /\ \A i, j \in 1..Len(pending) : pending[i] = pending[j] => i = j
    /\ \A i \in 1..Len(pending) :
          /\ Pushed(pending[i])
          /\ ranBy[pending[i]] = NoWorker
          /\ status[pending[i]] = "pending"

HandsOK ==
    \A k \in Workers :
      /\ hand[k] # NoTask => ranBy[hand[k]] = k /\ status[hand[k]] \in {"pending", "in_progress"}
      /\ pc[k] \in {"mark", "run"} => hand[k] # NoTask
      /\ pc[k] \in {"off", "poll", "done"} => hand[k] = NoTask
      /\ pc[k] = "mark" => status[hand[k]] = "pending"

TasksOK ==
    \A t \in Tasks :
      /\ ranBy[t] # NoWorker => Pushed(t)
      /\ status[t] # "absent" => Pushed(t) \/ OnItsWay(t)
      /\ OnItsWay(t) => status[t] = "pending"
      /\ status[t] \in {"pending", "in_progress"} => OnItsWay(t) \/ Queued(t) \/ HeldBy(t) # {}

CollectOK ==
    \A w \in Waves :
      /\ stage[w] \in {"collect", "returned"} => \A t \in Matches[w] :
           status[t] = "completed" /\ ranBy[t] \in Workers /\ Owner(ranBy[t]) = w
             => t \in results[w] \cup unseen[w]
      /\ stage[w] = "returned" => unseen[w] = {}
      /\ \A t \in results[w] : status[t] = "completed"

IInv == /\ TypeOK /\ StagesOK /\ QueueOK /\ HandsOK /\ TasksOK /\ CollectOK
        /\ NothingLeftQueued

----------------------------------------------------------------------------
(* Workers and batches *)

LEMMA WorkerIsPair == ASSUME NEW k \in Workers
                      PROVE  /\ Owner(k) \in Waves
                             /\ k # NoWorker
                             /\ k \in Spawned(Owner(k))
BY DEF Workers, Spawned, Owner, NoWorker

LEMMA SpawnedOwned == ASSUME NEW w \in Waves, NEW k \in Spawned(w)
                      PROVE  k \in Workers /\ Owner(k) = w
BY DEF Workers, Spawned, Owner

\* The task a wave is at is not pushed yet, and no other wave is at it.
LEMMA CurrentIsNew ==
  ASSUME TypeOK, NEW w \in Waves, next[w] <= Len(Batch[w])
  PROVE  /\ Current(w) \in Tasks
         /\ ~Pushed(Current(w))
         /\ \A v \in Waves : next[v] <= Len(Batch[v]) /\ Current(v) = Current(w) => v = w
<1>1. \A v \in Waves : Batch[v] \in Seq(Tasks)
  BY QueueAssumption
<1>2. \A v \in Waves : next[v] \in Nat /\ 1 <= next[v]
  BY <1>1 DEF TypeOK
<1>3. \A v \in Waves : \A i \in 1..Len(Batch[v]) : \A j \in 1..Len(Batch[w]) :
        Batch[v][i] = Batch[w][j] => v = w /\ i = j
  <2> SUFFICES ASSUME NEW v \in Waves, NEW i \in 1..Len(Batch[v]), NEW j \in 1..Len(Batch[w]),
                      Batch[v][i] = Batch[w][j]
               PROVE  v = w /\ i = j
    OBVIOUS
  <2>1. i \in DOMAIN Batch[v] /\ j \in DOMAIN Batch[w]
    BY <1>1
  <2>2. Batch[v][i] \in Elements(Batch[v]) /\ Batch[w][j] \in Elements(Batch[w])
    BY <2>1 DEF Elements
  <2>3. v = w
    BY <2>2, QueueAssumption
  <2>4. i = j
    BY <2>1, <2>3, QueueAssumption
  <2> QED BY <2>3, <2>4
<1>4. next[w] \in 1..Len(Batch[w])
  BY <1>1, <1>2
<1> QED BY <1>1, <1>2, <1>3, <1>4 DEF Current, Pushed

----------------------------------------------------------------------------
(* The actions, one by one *)

LEMMA NextCases ==
  ASSUME Next, NEW P,
         \A w \in Waves : Start(w) => P, \A w \in Waves : Announce(w) => P,
         \A w \in Waves : Push(w) => P, \A w \in Waves : Join(w) => P,
         \A w \in Waves : Look(w) => P, \A w \in Waves : Return(w) => P,
         \A w \in Waves : Drop(w) => P,
         \A k \in Workers : Dequeue(k) => P, \A k \in Workers : Mark(k) => P,
         \A k \in Workers : FindEmpty(k) => P, \A k \in Workers : Acknowledge(k) => P,
         \A k \in Workers : Fail(k) => P, \A k \in Workers : Die(k) => P
  PROVE  P
BY DEF Next, WaveStep, WorkerStep

LEMMA TypeStep ==
  ASSUME TypeOK, Next
  PROVE  TypeOK'
<1>a. MaxRetries \in Nat /\ 0 \in 0..MaxRetries
  BY QueueAssumption
<1>1. ASSUME NEW w \in Waves, Start(w) PROVE TypeOK'
  <2>1. Len(Batch[w]) \in Nat /\ Len(Batch[w]) >= 1
    BY QueueAssumption
  <2> QED BY <1>1, <2>1 DEF TypeOK, Start, Enter, workerVars
<1>2. ASSUME NEW w \in Waves, Announce(w) PROVE TypeOK'
  BY <1>a, <1>2, CurrentIsNew DEF TypeOK, Announce, Enter, SetStatus, workerVars, Statuses
<1>3. ASSUME NEW w \in Waves, Push(w) PROVE TypeOK'
  <2>1. Len(Batch[w]) \in Nat
    BY QueueAssumption
  <2>2. next[w] <= Len(Batch[w]) /\ Current(w) \in Tasks
    BY <1>3, CurrentIsNew DEF TypeOK, Push
  <2>3. pending' \in Seq(Tasks)
    BY <1>3, <2>2 DEF TypeOK, Push
  <2>4. next' \in [Waves -> Nat]
    BY <1>3 DEF TypeOK, Push
  <2>5. pc' \in [Workers -> {"off", "poll", "mark", "run", "done", "dead"}]
    BY <1>3 DEF TypeOK, Push
  <2>6. stage' \in [Waves -> {"idle", "announce", "push", "join", "collect", "returned", "dropped"}]
    BY ZenonT(30), <1>3 DEF TypeOK, Push, Enter
  <2>7. /\ \A v \in Waves : /\ next'[v] \in 1..(Len(Batch[v]) + 1)
                            /\ stage'[v] = "idle" => next'[v] = 1
                            /\ stage'[v] \in {"announce", "push"} => next'[v] <= Len(Batch[v])
    BY SMTT(30), <1>3, <2>1, <2>2 DEF TypeOK, Push, Enter
  <2> QED BY <1>3, <2>3, <2>4, <2>5, <2>6, <2>7 DEF TypeOK, Push
<1>4. ASSUME NEW w \in Waves, Join(w) PROVE TypeOK'
  BY <1>4, QueueAssumption DEF TypeOK, Join, Enter, workerVars
<1>5. ASSUME NEW w \in Waves, Look(w) PROVE TypeOK'
  BY <1>5 DEF TypeOK, Look, workerVars
<1>6. ASSUME NEW w \in Waves, Return(w) PROVE TypeOK'
  BY <1>6 DEF TypeOK, Return, Enter, workerVars
<1>7. ASSUME NEW w \in Waves, Drop(w) PROVE TypeOK'
  BY <1>7 DEF TypeOK, Drop, Enter, workerVars
<1>8. ASSUME NEW k \in Workers, Dequeue(k) PROVE TypeOK'
  BY <1>8 DEF TypeOK, Dequeue, Goto, waveVars
<1>9. ASSUME NEW k \in Workers, Mark(k) PROVE TypeOK'
  BY <1>a, <1>9 DEF TypeOK, Mark, Goto, SetStatus, waveVars, Statuses
<1>10. ASSUME NEW k \in Workers, FindEmpty(k) PROVE TypeOK'
  BY <1>10 DEF TypeOK, FindEmpty, Goto, waveVars
<1>11. ASSUME NEW k \in Workers, Acknowledge(k) PROVE TypeOK'
  BY <1>a, <1>11 DEF TypeOK, Acknowledge, LetGo, Goto, SetStatus, waveVars, Statuses, Finished
<1>12. ASSUME NEW k \in Workers, Fail(k) PROVE TypeOK'
  <2>1. hand[k] \in Tasks => attempt[hand[k]] \in 0..MaxRetries
    BY DEF TypeOK
  <2>2. status' \in [Tasks -> Statuses]
    BY <1>12 DEF TypeOK, Fail, SetStatus, Statuses, Finished
  <2>3. attempt' \in [Tasks -> 0..MaxRetries]
    <3>1. \A n \in 0..MaxRetries : ~(n >= MaxRetries) => n + 1 \in 0..MaxRetries
      BY <1>a
    <3>2. attempt \in [Tasks -> 0..MaxRetries]
      BY DEF TypeOK
    <3>3. PICK n : attempt' = [attempt EXCEPT ![hand[k]] = n] /\ (hand[k] \in Tasks => n \in 0..MaxRetries)
      BY <1>a, <1>12, <2>1, <3>1 DEF Fail, SetStatus
    <3> QED BY <3>2, <3>3
  <2> QED BY <1>12, <2>2, <2>3 DEF TypeOK, Fail, LetGo, Goto, waveVars
<1>13. ASSUME NEW k \in Workers, Die(k) PROVE TypeOK'
  BY <1>13 DEF TypeOK, Die, Goto, waveVars
<1> QED
  BY NextCases, <1>1, <1>2, <1>3, <1>4, <1>5, <1>6, <1>7, <1>8, <1>9, <1>10, <1>11, <1>12, <1>13

----------------------------------------------------------------------------
(* Where a step leaves the tasks *)

LEMMA AppendElements ==
  ASSUME NEW s \in Seq(Tasks), NEW e \in Tasks
  PROVE  /\ Elements(Append(s, e)) = Elements(s) \cup {e}
         /\ Len(Append(s, e)) = Len(s) + 1
         /\ Append(s, e)[Len(s) + 1] = e
         /\ \A i \in 1..Len(s) : Append(s, e)[i] = s[i]
<1>1. Len(s) \in Nat /\ DOMAIN s = 1..Len(s) /\ DOMAIN Append(s, e) = 1..(Len(s) + 1)
  OBVIOUS
<1>2. Append(s, e)[Len(s) + 1] = e /\ \A i \in 1..Len(s) : Append(s, e)[i] = s[i]
  OBVIOUS
<1>3. \A x : x \in Elements(Append(s, e)) <=> \E i \in 1..(Len(s) + 1) : Append(s, e)[i] = x
  BY <1>1 DEF Elements
<1>4. \A x : x \in Elements(s) <=> \E i \in 1..Len(s) : s[i] = x
  BY <1>1 DEF Elements
<1>5. \A i \in 1..(Len(s) + 1) : i \in 1..Len(s) \/ i = Len(s) + 1
  BY <1>1
<1>6. 1..Len(s) \subseteq 1..(Len(s) + 1) /\ Len(s) + 1 \in 1..(Len(s) + 1)
  BY <1>1
<1>7. \A x : x \in Elements(Append(s, e)) <=> x \in Elements(s) \cup {e}
  BY <1>2, <1>3, <1>4, <1>5, <1>6
<1> QED BY <1>2, <1>7

LEMMA TailElements ==
  ASSUME NEW s \in Seq(Tasks), s # <<>>
  PROVE  /\ Tail(s) \in Seq(Tasks)
         /\ Head(s) \in Tasks /\ Head(s) = s[1] /\ 1 \in 1..Len(s)
         /\ Elements(s) = {Head(s)} \cup Elements(Tail(s))
         /\ \A i \in 1..Len(Tail(s)) : i + 1 \in 1..Len(s) /\ Tail(s)[i] = s[i + 1] /\ i + 1 # 1
<1>1. Len(s) \in Nat /\ Len(s) >= 1 /\ DOMAIN s = 1..Len(s)
  OBVIOUS
<1>2. Len(Tail(s)) = Len(s) - 1 /\ DOMAIN Tail(s) = 1..(Len(s) - 1)
  OBVIOUS
<1>3. \A i \in 1..(Len(s) - 1) : Tail(s)[i] = s[i + 1]
  OBVIOUS
<1>4. \A x : x \in Elements(s) <=> \E i \in 1..Len(s) : s[i] = x
  BY <1>1 DEF Elements
<1>5. \A x : x \in Elements(Tail(s)) <=> \E i \in 1..(Len(s) - 1) : s[i + 1] = x
  BY <1>2, <1>3 DEF Elements
<1>6. \A i \in 1..Len(s) : i = 1 \/ (i - 1 \in 1..(Len(s) - 1) /\ (i - 1) + 1 = i)
  BY <1>1
<1>7. \A i \in 1..(Len(s) - 1) : i + 1 \in 1..Len(s)
  BY <1>1
<1>8. Head(s) = s[1] /\ Head(s) \in Tasks /\ 1 \in 1..Len(s)
  BY <1>1
<1>9. \A x : x \in Elements(s) <=> x \in {Head(s)} \cup Elements(Tail(s))
  BY <1>4, <1>5, <1>6, <1>7, <1>8
<1> QED BY <1>1, <1>2, <1>3, <1>7, <1>8, <1>9

LEMMA QueuedAt ==
  ASSUME NEW s \in Seq(Tasks)
  PROVE  \A x : x \in Elements(s) <=> \E i \in 1..Len(s) : s[i] = x
BY DEF Elements

LEMMA PushedPush ==
  ASSUME TypeOK, NEW w \in Waves, Push(w), NEW t
  PROVE  Pushed(t)' <=> Pushed(t) \/ t = Current(w)
<1>1. \A v \in Waves : Len(Batch[v]) \in Nat
  BY QueueAssumption
<1>2. next[w] \in 1..Len(Batch[w]) /\ Current(w) = Batch[w][next[w]]
  BY <1>1 DEF TypeOK, Push, Current
<1>3. \A v \in Waves : next'[v] = IF v = w THEN next[v] + 1 ELSE next[v]
  BY DEF TypeOK, Push
<1>4. \A v \in Waves : next[v] \in Nat
  BY DEF TypeOK
<1>5. ASSUME Pushed(t)' PROVE Pushed(t) \/ t = Current(w)
  <2>1. PICK v \in Waves : \E i \in 1..Len(Batch[v]) : i < next'[v] /\ Batch[v][i] = t
    BY <1>5 DEF Pushed
  <2>2. PICK i \in 1..Len(Batch[v]) : i < next'[v] /\ Batch[v][i] = t
    BY <2>1
  <2>3. i < next[v] \/ (v = w /\ i = next[w])
    BY <1>1, <1>3, <1>4, <2>2
  <2> QED BY <1>2, <2>2, <2>3 DEF Pushed
<1>6. ASSUME Pushed(t) PROVE Pushed(t)'
  <2>1. PICK v \in Waves : \E i \in 1..Len(Batch[v]) : i < next[v] /\ Batch[v][i] = t
    BY <1>6 DEF Pushed
  <2>2. PICK i \in 1..Len(Batch[v]) : i < next[v] /\ Batch[v][i] = t
    BY <2>1
  <2>3. i < next'[v]
    BY <1>1, <1>3, <1>4, <2>2
  <2> QED BY <2>2, <2>3 DEF Pushed
<1>7. ASSUME t = Current(w) PROVE Pushed(t)'
  <2>1. next[w] < next'[w]
    BY <1>3, <1>4
  <2> QED BY <1>2, <1>7, <2>1 DEF Pushed
<1> QED BY <1>5, <1>6, <1>7

LEMMA PushedKept ==
  ASSUME next' = next, NEW t
  PROVE  Pushed(t)' <=> Pushed(t)
BY DEF Pushed

\* A step of a wave that is not at a push leaves OnItsWay alone.
LEMMA OnItsWayKept ==
  ASSUME TypeOK, NEW w \in Waves, next' = next, NEW s, Enter(w, s),
         stage[w] \notin {"push", "dropped"}, s \notin {"push", "dropped"}, NEW t
  PROVE  OnItsWay(t)' <=> OnItsWay(t)
<1>1. \A v \in Waves : stage'[v] = IF v = w THEN s ELSE stage[v]
  BY DEF TypeOK, Enter
<1> QED BY <1>1 DEF OnItsWay, Current

LEMMA OnItsWayStill ==
  ASSUME next' = next, stage' = stage, NEW t
  PROVE  OnItsWay(t)' <=> OnItsWay(t)
BY DEF OnItsWay, Current

LEMMA OnItsWayAnnounce ==
  ASSUME TypeOK, NEW w \in Waves, Announce(w), NEW t
  PROVE  OnItsWay(t)' <=> OnItsWay(t) \/ t = Current(w)
<1>1. \A v \in Waves : stage'[v] = IF v = w THEN "push" ELSE stage[v]
  BY DEF TypeOK, Announce, Enter
<1>2. next' = next /\ stage[w] = "announce" /\ next[w] <= Len(Batch[w])
  BY DEF TypeOK, Announce
<1> QED BY <1>1, <1>2 DEF OnItsWay, Current

LEMMA OnItsWayPush ==
  ASSUME TypeOK, NEW w \in Waves, Push(w), NEW t
  PROVE  /\ OnItsWay(Current(w))
         /\ OnItsWay(t)' => OnItsWay(t) /\ t # Current(w)
         /\ OnItsWay(t) => OnItsWay(t)' \/ t = Current(w)
<1>1. \A v \in Waves : v # w => stage'[v] = stage[v] /\ next'[v] = next[v]
  BY DEF TypeOK, Push, Enter
<1>2. stage'[w] \in {"announce", "join"} /\ stage[w] = "push" /\ next[w] <= Len(Batch[w])
  BY DEF TypeOK, Push, Enter
<1>3. \A v \in Waves : next[v] <= Len(Batch[v]) /\ Current(v) = Current(w) => v = w
  BY <1>2, CurrentIsNew
<1> QED BY <1>1, <1>2, <1>3 DEF OnItsWay, Current

LEMMA OnItsWayDrop ==
  ASSUME TypeOK, StagesOK, NEW w \in Waves, Drop(w), NEW t
  PROVE  OnItsWay(t)' <=> OnItsWay(t)
<1>1. \A v \in Waves : stage'[v] = IF v = w THEN "dropped" ELSE stage[v]
  BY DEF TypeOK, Drop, Enter
<1>2. next' = next /\ stage[w] \in {"push", "join"}
  BY DEF Drop
<1>3. stage[w] = "join" => ~(next[w] <= Len(Batch[w]))
  BY QueueAssumption DEF StagesOK
<1> QED BY <1>1, <1>2, <1>3 DEF OnItsWay, Current

----------------------------------------------------------------------------
(* The parts of the invariant, each through every action *)

LEMMA StagesStep ==
  ASSUME TypeOK, StagesOK, Next
  PROVE  StagesOK'
<1>1. ASSUME NEW w \in Waves, Start(w) PROVE StagesOK'
  BY <1>1 DEF TypeOK, StagesOK, Start, Enter, workerVars, Ended
<1>2. ASSUME NEW w \in Waves, Announce(w) PROVE StagesOK'
  BY <1>2 DEF TypeOK, StagesOK, Announce, Enter, workerVars, Ended
<1>3. ASSUME NEW w \in Waves, Push(w) PROVE StagesOK'
  <2>1. Len(Batch[w]) \in Nat /\ next[w] \in Nat /\ next[w] <= Len(Batch[w])
    BY <1>3, QueueAssumption DEF TypeOK, Push
  <2>2. \A v \in Waves : v # w => stage'[v] = stage[v] /\ next'[v] = next[v]
    BY <1>3 DEF TypeOK, Push, Enter
  <2>3. stage[w] = "push" /\ next'[w] = next[w] + 1
    BY <1>3 DEF TypeOK, Push
  <2>4. \A k \in Workers : Owner(k) \in Waves
    BY WorkerIsPair
  <2>5. CASE next[w] < Len(Batch[w])
    <3>1. stage'[w] = "announce" /\ pc' = pc
      BY <1>3, <2>5 DEF TypeOK, Push, Enter
    <3> QED BY <2>2, <2>3, <2>4, <3>1 DEF StagesOK, Ended
  <2>6. CASE ~(next[w] < Len(Batch[w]))
    <3>1. stage'[w] = "join" /\ next'[w] = Len(Batch[w]) + 1
      BY <1>3, <2>1, <2>3, <2>6 DEF TypeOK, Push, Enter
    <3>2. \A k \in Workers : pc'[k] = IF k \in Spawned(w) THEN "poll" ELSE pc[k]
      BY <1>3, <2>6 DEF Push
    <3>3. \A k \in Workers : k \in Spawned(w) => Owner(k) = w
      BY SpawnedOwned
    <3> QED BY <2>2, <2>3, <2>4, <3>1, <3>2, <3>3 DEF StagesOK, Ended
  <2> QED BY <2>5, <2>6
<1>4. ASSUME NEW w \in Waves, Join(w) PROVE StagesOK'
  <2>1. \A k \in Workers : Owner(k) = w => Ended(k)
    BY <1>4, WorkerIsPair DEF Join
  <2> QED BY <1>4, <2>1 DEF TypeOK, StagesOK, Join, Enter, workerVars, Ended
<1>5. ASSUME NEW w \in Waves, Look(w) PROVE StagesOK'
  BY <1>5 DEF TypeOK, StagesOK, Look, workerVars, Ended
<1>6. ASSUME NEW w \in Waves, Return(w) PROVE StagesOK'
  BY <1>6 DEF TypeOK, StagesOK, Return, Enter, workerVars, Ended
<1>7. ASSUME NEW w \in Waves, Drop(w) PROVE StagesOK'
  BY <1>7 DEF TypeOK, StagesOK, Drop, Enter, workerVars, Ended
<1>8. ASSUME NEW k \in Workers, Dequeue(k) PROVE StagesOK'
  BY <1>8 DEF TypeOK, StagesOK, Dequeue, Goto, waveVars, Ended
<1>9. ASSUME NEW k \in Workers, Mark(k) PROVE StagesOK'
  BY <1>9 DEF TypeOK, StagesOK, Mark, Goto, waveVars, Ended
<1>10. ASSUME NEW k \in Workers, FindEmpty(k) PROVE StagesOK'
  BY <1>10 DEF TypeOK, StagesOK, FindEmpty, Goto, waveVars, Ended
<1>11. ASSUME NEW k \in Workers, Acknowledge(k) PROVE StagesOK'
  BY <1>11 DEF TypeOK, StagesOK, Acknowledge, LetGo, Goto, waveVars, Ended
<1>12. ASSUME NEW k \in Workers, Fail(k) PROVE StagesOK'
  BY <1>12 DEF TypeOK, StagesOK, Fail, LetGo, Goto, waveVars, Ended
<1>13. ASSUME NEW k \in Workers, Die(k) PROVE StagesOK'
  BY <1>13 DEF TypeOK, StagesOK, Die, Goto, waveVars, Ended
<1> QED
  BY NextCases, <1>1, <1>2, <1>3, <1>4, <1>5, <1>6, <1>7, <1>8, <1>9, <1>10, <1>11, <1>12, <1>13

LEMMA QueueStep ==
  ASSUME TypeOK, QueueOK, HandsOK, TasksOK, Next
  PROVE  QueueOK'
<1>1. ASSUME NEW w \in Waves, Start(w) PROVE QueueOK'
  <2>1. pending' = pending /\ ranBy' = ranBy /\ status' = status /\ next' = next
    BY <1>1 DEF Start, workerVars
  <2> QED BY <2>1, PushedKept DEF QueueOK
<1>2. ASSUME NEW w \in Waves, Announce(w) PROVE QueueOK'
  <2>1. pending' = pending /\ ranBy' = ranBy /\ next' = next
    BY <1>2 DEF Announce, workerVars
  <2>2. \A t \in Tasks : t # Current(w) => status'[t] = status[t]
    BY <1>2 DEF TypeOK, Announce, SetStatus
  <2>3. ~Pushed(Current(w))
    BY <1>2, CurrentIsNew DEF TypeOK, Announce
  <2>4. \A i \in 1..Len(pending) : pending[i] \in Tasks
    BY DEF TypeOK
  <2> QED BY <2>1, <2>2, <2>3, <2>4, PushedKept DEF QueueOK
<1>3. ASSUME NEW w \in Waves, Push(w) PROVE QueueOK'
  <2>1. Current(w) \in Tasks /\ ~Pushed(Current(w))
    BY <1>3, CurrentIsNew DEF TypeOK, Push
  <2>2. pending \in Seq(Tasks) /\ pending' = Append(pending, Current(w)) /\ Len(pending) \in Nat
    BY <1>3 DEF TypeOK, Push
  <2>3. ranBy' = ranBy /\ status' = status
    BY <1>3 DEF Push
  <2>4. ranBy[Current(w)] = NoWorker
    BY <2>1 DEF TasksOK
  <2>5. status[Current(w)] = "pending"
    BY <1>3, <2>1, OnItsWayPush DEF TasksOK
  <2>6. /\ Len(pending') = Len(pending) + 1
        /\ pending'[Len(pending) + 1] = Current(w)
        /\ \A i \in 1..Len(pending) : pending'[i] = pending[i]
    BY <2>1, <2>2, AppendElements
  <2>7. \A i \in 1..(Len(pending) + 1) : i \in 1..Len(pending) \/ i = Len(pending) + 1
    BY <2>2
  <2>8. \A i \in 1..Len(pending) : pending[i] # Current(w)
    BY <2>1 DEF QueueOK
  <2>9. \A t : Pushed(t)' <=> Pushed(t) \/ t = Current(w)
    BY <1>3, PushedPush
  <2> QED BY <2>3, <2>4, <2>5, <2>6, <2>7, <2>8, <2>9 DEF QueueOK
<1>4. ASSUME NEW w \in Waves, Join(w) PROVE QueueOK'
  <2>1. pending' = pending /\ ranBy' = ranBy /\ status' = status /\ next' = next
    BY <1>4 DEF Join, workerVars
  <2> QED BY <2>1, PushedKept DEF QueueOK
<1>5. ASSUME NEW w \in Waves, Look(w) PROVE QueueOK'
  <2>1. pending' = pending /\ ranBy' = ranBy /\ status' = status /\ next' = next
    BY <1>5 DEF Look, workerVars
  <2> QED BY <2>1, PushedKept DEF QueueOK
<1>6. ASSUME NEW w \in Waves, Return(w) PROVE QueueOK'
  <2>1. pending' = pending /\ ranBy' = ranBy /\ status' = status /\ next' = next
    BY <1>6 DEF Return, workerVars
  <2> QED BY <2>1, PushedKept DEF QueueOK
<1>7. ASSUME NEW w \in Waves, Drop(w) PROVE QueueOK'
  <2>1. pending' = pending /\ ranBy' = ranBy /\ status' = status /\ next' = next
    BY <1>7 DEF Drop, workerVars
  <2> QED BY <2>1, PushedKept DEF QueueOK
<1>8. ASSUME NEW k \in Workers, Dequeue(k) PROVE QueueOK'
  <2>1. pending \in Seq(Tasks) /\ pending # <<>> /\ pending' = Tail(pending)
    BY <1>8 DEF TypeOK, Dequeue
  <2>2. status' = status /\ next' = next
    BY <1>8 DEF Dequeue, waveVars
  <2>3. /\ Head(pending) = pending[1] /\ 1 \in 1..Len(pending)
        /\ \A i \in 1..Len(pending') : i + 1 \in 1..Len(pending) /\ pending'[i] = pending[i + 1] /\ i + 1 # 1
    BY <2>1, TailElements
  <2>4. \A i, j \in 1..Len(pending') : i + 1 = j + 1 => i = j
    OBVIOUS
  <2>5. \A t \in Tasks : t # Head(pending) => ranBy'[t] = ranBy[t]
    BY <1>8 DEF TypeOK, Dequeue
  <2>6. \A i \in 1..Len(pending) : pending[i] \in Tasks
    BY <2>1
  <2>7. \A i \in 1..Len(pending') : pending'[i] # Head(pending)
    BY <2>3 DEF QueueOK
  <2> QED BY <2>2, <2>3, <2>4, <2>5, <2>6, <2>7, PushedKept DEF QueueOK
<1>9. ASSUME NEW k \in Workers, Mark(k) PROVE QueueOK'
  <2>1. pending' = pending /\ ranBy' = ranBy /\ next' = next
    BY <1>9 DEF Mark, waveVars
  <2>2. hand[k] \in Tasks /\ ranBy[hand[k]] # NoWorker
    BY <1>9, WorkerIsPair DEF TypeOK, HandsOK, Mark
  <2>3. \A t \in Tasks : t # hand[k] => status'[t] = status[t]
    BY <1>9 DEF TypeOK, Mark, SetStatus
  <2>4. \A i \in 1..Len(pending) : pending[i] \in Tasks /\ pending[i] # hand[k]
    BY <2>2 DEF TypeOK, QueueOK
  <2> QED BY <2>1, <2>3, <2>4, PushedKept DEF QueueOK
<1>10. ASSUME NEW k \in Workers, FindEmpty(k) PROVE QueueOK'
  <2>1. pending' = pending /\ ranBy' = ranBy /\ status' = status /\ next' = next
    BY <1>10 DEF FindEmpty, waveVars
  <2> QED BY <2>1, PushedKept DEF QueueOK
<1>11. ASSUME NEW k \in Workers, Acknowledge(k) PROVE QueueOK'
  <2>1. pending' = pending /\ ranBy' = ranBy /\ next' = next
    BY <1>11 DEF Acknowledge, LetGo, waveVars
  <2>2. hand[k] \in Tasks /\ ranBy[hand[k]] # NoWorker
    BY <1>11, WorkerIsPair DEF TypeOK, HandsOK, Acknowledge
  <2>3. \A t \in Tasks : t # hand[k] => status'[t] = status[t]
    BY <1>11 DEF TypeOK, Acknowledge, SetStatus
  <2>4. \A i \in 1..Len(pending) : pending[i] \in Tasks /\ pending[i] # hand[k]
    BY <2>2 DEF TypeOK, QueueOK
  <2> QED BY <2>1, <2>3, <2>4, PushedKept DEF QueueOK
<1>12. ASSUME NEW k \in Workers, Fail(k) PROVE QueueOK'
  <2>1. pending' = pending /\ ranBy' = ranBy /\ next' = next
    BY <1>12 DEF Fail, LetGo, waveVars
  <2>2. hand[k] \in Tasks /\ ranBy[hand[k]] # NoWorker
    BY <1>12, WorkerIsPair DEF TypeOK, HandsOK, Fail
  <2>3. \A t \in Tasks : t # hand[k] => status'[t] = status[t]
    BY <1>12 DEF TypeOK, Fail, SetStatus
  <2>4. \A i \in 1..Len(pending) : pending[i] \in Tasks /\ pending[i] # hand[k]
    BY <2>2 DEF TypeOK, QueueOK
  <2> QED BY <2>1, <2>3, <2>4, PushedKept DEF QueueOK
<1>13. ASSUME NEW k \in Workers, Die(k) PROVE QueueOK'
  <2>1. pending' = pending /\ ranBy' = ranBy /\ status' = status /\ next' = next
    BY <1>13 DEF Die, waveVars
  <2> QED BY <2>1, PushedKept DEF QueueOK
<1> QED
  BY NextCases, <1>1, <1>2, <1>3, <1>4, <1>5, <1>6, <1>7, <1>8, <1>9, <1>10, <1>11, <1>12, <1>13

LEMMA HandsStep ==
  ASSUME TypeOK, StagesOK, QueueOK, HandsOK, TasksOK, Next
  PROVE  HandsOK'
<1>1. ASSUME NEW w \in Waves, Start(w) PROVE HandsOK'
  BY <1>1 DEF HandsOK, Start, workerVars
<1>2. ASSUME NEW w \in Waves, Announce(w) PROVE HandsOK'
  <2>1. hand' = hand /\ pc' = pc /\ ranBy' = ranBy
    BY <1>2 DEF Announce, workerVars
  <2>2. \A t \in Tasks : t # Current(w) => status'[t] = status[t]
    BY <1>2 DEF TypeOK, Announce, SetStatus
  <2>3. Current(w) \in Tasks /\ ~Pushed(Current(w))
    BY <1>2, CurrentIsNew DEF TypeOK, Announce
  <2>4. \A k \in Workers : hand[k] # NoTask => hand[k] \in Tasks /\ hand[k] # Current(w)
    BY <2>3, WorkerIsPair DEF TypeOK, HandsOK, TasksOK
  <2> QED BY <2>1, <2>2, <2>4 DEF HandsOK
<1>3. ASSUME NEW w \in Waves, Push(w) PROVE HandsOK'
  <2>1. hand' = hand /\ ranBy' = ranBy /\ status' = status
    BY <1>3 DEF Push
  <2>2. \A k \in Workers : pc'[k] = pc[k] \/ (pc'[k] = "poll" /\ Owner(k) = w)
    BY <1>3, SpawnedOwned DEF Push
  <2>3. \A k \in Workers : Owner(k) = w => pc[k] = "off"
    BY <1>3 DEF StagesOK, Push
  <2> QED BY <2>1, <2>2, <2>3 DEF HandsOK
<1>4. ASSUME NEW w \in Waves, Join(w) PROVE HandsOK'
  BY <1>4 DEF HandsOK, Join, workerVars
<1>5. ASSUME NEW w \in Waves, Look(w) PROVE HandsOK'
  BY <1>5 DEF HandsOK, Look, workerVars
<1>6. ASSUME NEW w \in Waves, Return(w) PROVE HandsOK'
  BY <1>6 DEF HandsOK, Return, workerVars
<1>7. ASSUME NEW w \in Waves, Drop(w) PROVE HandsOK'
  BY <1>7 DEF HandsOK, Drop, workerVars
<1>8. ASSUME NEW k \in Workers, Dequeue(k) PROVE HandsOK'
  <2>1. Head(pending) \in Tasks /\ Head(pending) = pending[1] /\ 1 \in 1..Len(pending)
    BY <1>8, TailElements DEF TypeOK, Dequeue
  <2>2. ranBy[Head(pending)] = NoWorker /\ status[Head(pending)] = "pending"
    BY <2>1 DEF QueueOK
  <2>3. Head(pending) # NoTask
    BY <2>1, QueueAssumption
  <2>4. /\ hand' = [hand EXCEPT ![k] = Head(pending)]
        /\ ranBy' = [ranBy EXCEPT ![Head(pending)] = k]
        /\ pc' = [pc EXCEPT ![k] = "mark"]
        /\ status' = status
    BY <1>8 DEF Dequeue, Goto
  <2>5. \A j \in Workers : hand[j] # NoTask => hand[j] \in Tasks /\ hand[j] # Head(pending)
    BY <2>2, WorkerIsPair DEF TypeOK, HandsOK
  <2> QED BY <2>1, <2>2, <2>3, <2>4, <2>5 DEF TypeOK, HandsOK
<1>9. ASSUME NEW k \in Workers, Mark(k) PROVE HandsOK'
  <2>1. hand' = hand /\ ranBy' = ranBy /\ pc' = [pc EXCEPT ![k] = "run"]
    BY <1>9 DEF Mark, Goto
  <2>2. hand[k] \in Tasks /\ status' = [status EXCEPT ![hand[k]] = "in_progress"]
    BY <1>9 DEF TypeOK, HandsOK, Mark, SetStatus
  <2>3. \A j \in Workers : j # k => hand[j] # hand[k]
    BY <1>9, <2>2, QueueAssumption DEF HandsOK
  <2>4. \A j \in Workers : j # k /\ hand[j] # NoTask => status'[hand[j]] = status[hand[j]]
    BY <2>2, <2>3 DEF TypeOK
  <2>5. status'[hand[k]] = "in_progress" /\ hand[k] # NoTask /\ pc'[k] = "run"
    BY <2>1, <2>2, QueueAssumption DEF TypeOK
  <2>6. \A j \in Workers : j # k => pc'[j] = pc[j]
    BY <2>1 DEF TypeOK
  <2>7. ranBy[hand[k]] = k
    BY <2>5 DEF HandsOK
  <2> QED BY <2>1, <2>4, <2>5, <2>6, <2>7 DEF HandsOK
<1>10. ASSUME NEW k \in Workers, FindEmpty(k) PROVE HandsOK'
  BY <1>10 DEF TypeOK, HandsOK, FindEmpty, Goto, waveVars
<1>11. ASSUME NEW k \in Workers, Acknowledge(k) PROVE HandsOK'
  <2>1. /\ hand' = [hand EXCEPT ![k] = NoTask] /\ ranBy' = ranBy
        /\ pc' = [pc EXCEPT ![k] = "poll"]
    BY <1>11 DEF Acknowledge, LetGo, Goto
  <2>2. hand[k] \in Tasks /\ \A t \in Tasks : t # hand[k] => status'[t] = status[t]
    BY <1>11 DEF TypeOK, HandsOK, Acknowledge, SetStatus
  <2>3. \A j \in Workers : j # k => hand[j] # hand[k]
    BY <1>11, <2>2, QueueAssumption DEF HandsOK
  <2> QED BY <2>1, <2>2, <2>3 DEF TypeOK, HandsOK
<1>12. ASSUME NEW k \in Workers, Fail(k) PROVE HandsOK'
  <2>1. /\ hand' = [hand EXCEPT ![k] = NoTask] /\ ranBy' = ranBy
        /\ pc' = [pc EXCEPT ![k] = "poll"]
    BY <1>12 DEF Fail, LetGo, Goto
  <2>2. hand[k] \in Tasks /\ \A t \in Tasks : t # hand[k] => status'[t] = status[t]
    BY <1>12 DEF TypeOK, HandsOK, Fail, SetStatus
  <2>3. \A j \in Workers : j # k => hand[j] # hand[k]
    BY <1>12, <2>2, QueueAssumption DEF HandsOK
  <2> QED BY <2>1, <2>2, <2>3 DEF TypeOK, HandsOK
<1>13. ASSUME NEW k \in Workers, Die(k) PROVE HandsOK'
  BY <1>13 DEF TypeOK, HandsOK, Die, Goto, waveVars
<1> QED
  BY NextCases, <1>1, <1>2, <1>3, <1>4, <1>5, <1>6, <1>7, <1>8, <1>9, <1>10, <1>11, <1>12, <1>13

\* What is on its way is not pushed; what a wave is about to announce is new.
LEMMA NotYetPushed ==
  ASSUME TypeOK, NEW t, OnItsWay(t)
  PROVE  ~Pushed(t)
BY CurrentIsNew DEF OnItsWay

LEMMA AnnouncedIsAbsent ==
  ASSUME TypeOK, TasksOK, NEW w \in Waves, Announce(w)
  PROVE  Current(w) \in Tasks /\ status[Current(w)] = "absent"
<1>1. next[w] <= Len(Batch[w]) /\ stage[w] = "announce"
  BY DEF TypeOK, Announce
<1>2. /\ Current(w) \in Tasks /\ ~Pushed(Current(w))
      /\ \A v \in Waves : next[v] <= Len(Batch[v]) /\ Current(v) = Current(w) => v = w
  BY <1>1, CurrentIsNew
<1>3. ~OnItsWay(Current(w))
  BY <1>1, <1>2 DEF OnItsWay
<1> QED BY <1>2, <1>3 DEF TasksOK

LEMMA TasksStep ==
  ASSUME TypeOK, StagesOK, QueueOK, HandsOK, TasksOK, Next
  PROVE  TasksOK'
<1>1. ASSUME NEW w \in Waves, Start(w) PROVE TasksOK'
  <2>1. pending' = pending /\ status' = status /\ ranBy' = ranBy /\ hand' = hand /\ next' = next
    BY <1>1 DEF Start, workerVars
  <2>2. \A t : OnItsWay(t)' <=> OnItsWay(t)
    BY <1>1, <2>1, OnItsWayKept DEF Start
  <2> QED BY <2>1, <2>2, PushedKept DEF TasksOK, Queued, HeldBy
<1>2. ASSUME NEW w \in Waves, Announce(w) PROVE TasksOK'
  <2>1. pending' = pending /\ ranBy' = ranBy /\ hand' = hand /\ next' = next
    BY <1>2 DEF Announce, workerVars
  <2>2. \A t : OnItsWay(t)' <=> OnItsWay(t) \/ t = Current(w)
    BY <1>2, OnItsWayAnnounce
  <2>3. Current(w) \in Tasks /\ status' = [status EXCEPT ![Current(w)] = "pending"]
    BY <1>2, AnnouncedIsAbsent DEF Announce, SetStatus
  <2>4. \A t \in Tasks : status'[t] = IF t = Current(w) THEN "pending" ELSE status[t]
    BY <2>3 DEF TypeOK
  <2> QED BY <2>1, <2>2, <2>4, PushedKept DEF TasksOK, Queued, HeldBy
<1>3. ASSUME NEW w \in Waves, Push(w) PROVE TasksOK'
  <2>1. status' = status /\ ranBy' = ranBy /\ hand' = hand
    BY <1>3 DEF Push
  <2>2. Current(w) \in Tasks
    BY <1>3, CurrentIsNew DEF TypeOK, Push
  <2>3. Elements(pending') = Elements(pending) \cup {Current(w)}
    BY <1>3, <2>2, AppendElements DEF TypeOK, Push
  <2>4. \A t : Pushed(t)' <=> Pushed(t) \/ t = Current(w)
    BY <1>3, PushedPush
  <2>5. \A t : /\ OnItsWay(t)' => OnItsWay(t) /\ t # Current(w)
               /\ OnItsWay(t) => OnItsWay(t)' \/ t = Current(w)
    BY <1>3, OnItsWayPush
  <2> QED BY <2>1, <2>3, <2>4, <2>5 DEF TasksOK, Queued, HeldBy
<1>4. ASSUME NEW w \in Waves, Join(w) PROVE TasksOK'
  <2>1. pending' = pending /\ status' = status /\ ranBy' = ranBy /\ hand' = hand /\ next' = next
    BY <1>4 DEF Join, workerVars
  <2>2. \A t : OnItsWay(t)' <=> OnItsWay(t)
    BY <1>4, <2>1, OnItsWayKept DEF Join
  <2> QED BY <2>1, <2>2, PushedKept DEF TasksOK, Queued, HeldBy
<1>5. ASSUME NEW w \in Waves, Look(w) PROVE TasksOK'
  <2>1. pending' = pending /\ status' = status /\ ranBy' = ranBy /\ hand' = hand /\ next' = next
    BY <1>5 DEF Look, workerVars
  <2>2. \A t : OnItsWay(t)' <=> OnItsWay(t)
    BY <1>5, <2>1, OnItsWayStill DEF Look
  <2> QED BY <2>1, <2>2, PushedKept DEF TasksOK, Queued, HeldBy
<1>6. ASSUME NEW w \in Waves, Return(w) PROVE TasksOK'
  <2>1. pending' = pending /\ status' = status /\ ranBy' = ranBy /\ hand' = hand /\ next' = next
    BY <1>6 DEF Return, workerVars
  <2>2. \A t : OnItsWay(t)' <=> OnItsWay(t)
    BY <1>6, <2>1, OnItsWayKept DEF Return
  <2> QED BY <2>1, <2>2, PushedKept DEF TasksOK, Queued, HeldBy
<1>7. ASSUME NEW w \in Waves, Drop(w) PROVE TasksOK'
  <2>1. pending' = pending /\ status' = status /\ ranBy' = ranBy /\ hand' = hand /\ next' = next
    BY <1>7 DEF Drop, workerVars
  <2>2. \A t : OnItsWay(t)' <=> OnItsWay(t)
    BY <1>7, <2>1, OnItsWayDrop
  <2> QED BY <2>1, <2>2, PushedKept DEF TasksOK, Queued, HeldBy
<1>8. ASSUME NEW k \in Workers, Dequeue(k) PROVE TasksOK'
  <2>1. status' = status /\ next' = next /\ stage' = stage
    BY <1>8 DEF Dequeue, waveVars
  <2>2. /\ Head(pending) \in Tasks /\ Head(pending) = pending[1] /\ 1 \in 1..Len(pending)
        /\ Elements(pending) = {Head(pending)} \cup Elements(pending')
    BY <1>8, TailElements DEF TypeOK, Dequeue
  <2>3. hand[k] = NoTask /\ \A j \in Workers : hand'[j] = IF j = k THEN Head(pending) ELSE hand[j]
    BY <1>8 DEF TypeOK, HandsOK, Dequeue
  <2>4. \A t \in Tasks : t # Head(pending) => ranBy'[t] = ranBy[t]
    BY <1>8 DEF TypeOK, Dequeue
  <2>5. Pushed(Head(pending))
    BY <2>2 DEF QueueOK
  <2>6. \A t \in Tasks : Queued(t) => Queued(t)' \/ HeldBy(t)' # {}
    BY <2>2, <2>3 DEF Queued, HeldBy
  <2>7. \A t \in Tasks : HeldBy(t) # {} => HeldBy(t)' # {}
    BY <2>3, QueueAssumption DEF HeldBy
  <2> QED BY <2>1, <2>4, <2>5, <2>6, <2>7, PushedKept, OnItsWayStill DEF TasksOK
<1>9. ASSUME NEW k \in Workers, Mark(k) PROVE TasksOK'
  <2>1. pending' = pending /\ ranBy' = ranBy /\ next' = next /\ stage' = stage
    BY <1>9 DEF Mark, waveVars
  <2>2. hand[k] \in Tasks /\ Pushed(hand[k])
    BY <1>9, WorkerIsPair DEF TypeOK, HandsOK, TasksOK, Mark
  <2>3. ~OnItsWay(hand[k])
    BY <2>2, NotYetPushed
  <2>4. \A t \in Tasks : t # hand[k] => status'[t] = status[t]
    BY <1>9 DEF TypeOK, Mark, SetStatus
  <2>5. \A t \in Tasks : status'[t] \in {"pending", "in_progress"} /\ HeldBy(t) # {} => HeldBy(t)' # {}
    BY <1>9 DEF Mark, HeldBy
  <2>6. HeldBy(hand[k]) # {}
    BY DEF HeldBy
  <2> QED BY <2>6, <2>1, <2>2, <2>3, <2>4, <2>5, PushedKept, OnItsWayStill DEF TasksOK, Queued
<1>10. ASSUME NEW k \in Workers, FindEmpty(k) PROVE TasksOK'
  <2>1. pending' = pending /\ status' = status /\ ranBy' = ranBy /\ hand' = hand /\ next' = next
    BY <1>10 DEF FindEmpty, waveVars
  <2>2. \A t : OnItsWay(t)' <=> OnItsWay(t)
    BY <1>10, <2>1, OnItsWayStill DEF FindEmpty, waveVars
  <2> QED BY <2>1, <2>2, PushedKept DEF TasksOK, Queued, HeldBy
<1>11. ASSUME NEW k \in Workers, Acknowledge(k) PROVE TasksOK'
  <2>1. pending' = pending /\ ranBy' = ranBy /\ next' = next /\ stage' = stage
    BY <1>11 DEF Acknowledge, LetGo, waveVars
  <2>2. hand[k] \in Tasks /\ Pushed(hand[k])
    BY <1>11, WorkerIsPair DEF TypeOK, HandsOK, TasksOK, Acknowledge
  <2>3. ~OnItsWay(hand[k])
    BY <2>2, NotYetPushed
  <2>4. \A t \in Tasks : t # hand[k] => status'[t] = status[t]
    BY <1>11 DEF TypeOK, Acknowledge, SetStatus
  <2>5. \A t \in Tasks : status'[t] \in {"pending", "in_progress"} /\ HeldBy(t) # {} => HeldBy(t)' # {}
    <3>1. status'[hand[k]] \in Finished
      BY <1>11, <2>2 DEF TypeOK, Acknowledge, SetStatus, Finished
    <3>2. \A j \in Workers : j # k => hand'[j] = hand[j]
      BY <1>11 DEF TypeOK, Acknowledge, LetGo
    <3> QED BY <3>1, <3>2 DEF HeldBy, Finished
  <2>6. HeldBy(hand[k]) # {}
    BY DEF HeldBy
  <2> QED BY <2>6, <2>1, <2>2, <2>3, <2>4, <2>5, PushedKept, OnItsWayStill DEF TasksOK, Queued
<1>12. ASSUME NEW k \in Workers, Fail(k) PROVE TasksOK'
  <2>1. pending' = pending /\ ranBy' = ranBy /\ next' = next /\ stage' = stage
    BY <1>12 DEF Fail, LetGo, waveVars
  <2>2. hand[k] \in Tasks /\ Pushed(hand[k])
    BY <1>12, WorkerIsPair DEF TypeOK, HandsOK, TasksOK, Fail
  <2>3. ~OnItsWay(hand[k])
    BY <2>2, NotYetPushed
  <2>4. \A t \in Tasks : t # hand[k] => status'[t] = status[t]
    BY <1>12 DEF TypeOK, Fail, SetStatus
  <2>5. \A t \in Tasks : status'[t] \in {"pending", "in_progress"} /\ HeldBy(t) # {} => HeldBy(t)' # {}
    <3>1. status'[hand[k]] \in Finished
      BY <1>12, <2>2 DEF TypeOK, Fail, SetStatus, Finished
    <3>2. \A j \in Workers : j # k => hand'[j] = hand[j]
      BY <1>12 DEF TypeOK, Fail, LetGo
    <3> QED BY <3>1, <3>2 DEF HeldBy, Finished
  <2>6. HeldBy(hand[k]) # {}
    BY DEF HeldBy
  <2> QED BY <2>6, <2>1, <2>2, <2>3, <2>4, <2>5, PushedKept, OnItsWayStill DEF TasksOK, Queued
<1>13. ASSUME NEW k \in Workers, Die(k) PROVE TasksOK'
  <2>1. pending' = pending /\ status' = status /\ ranBy' = ranBy /\ hand' = hand /\ next' = next
    BY <1>13 DEF Die, waveVars
  <2>2. \A t : OnItsWay(t)' <=> OnItsWay(t)
    BY <1>13, <2>1, OnItsWayStill DEF Die, waveVars
  <2> QED BY <2>1, <2>2, PushedKept DEF TasksOK, Queued, HeldBy
<1> QED
  BY NextCases, <1>1, <1>2, <1>3, <1>4, <1>5, <1>6, <1>7, <1>8, <1>9, <1>10, <1>11, <1>12, <1>13

LEMMA CollectStep ==
  ASSUME TypeOK, StagesOK, QueueOK, HandsOK, TasksOK, CollectOK, Next
  PROVE  CollectOK'
<1>1. ASSUME NEW w \in Waves, Start(w) PROVE CollectOK'
  BY <1>1 DEF TypeOK, CollectOK, Start, Enter, workerVars
<1>2. ASSUME NEW w \in Waves, Announce(w) PROVE CollectOK'
  <2>1. /\ ranBy' = ranBy /\ results' = results /\ unseen' = unseen
        /\ stage' = [stage EXCEPT ![w] = "push"]
    BY <1>2 DEF Announce, Enter, workerVars
  <2>2. Current(w) \in Tasks /\ status[Current(w)] = "absent"
    BY <1>2, AnnouncedIsAbsent
  <2>3. \A t \in Tasks : status'[t] = IF t = Current(w) THEN "pending" ELSE status[t]
    BY <1>2 DEF TypeOK, Announce, SetStatus
  <2>4. \A v \in Waves : results[v] \subseteq Tasks /\ Matches[v] \subseteq Tasks
    BY QueueAssumption DEF TypeOK
  <2>5. \A v \in Waves : stage'[v] \in {"collect", "returned"} => stage'[v] = stage[v]
    BY <2>1 DEF TypeOK
  <2>6. \A t \in Tasks : status'[t] = "completed" <=> status[t] = "completed"
    BY <2>2, <2>3
  <2> QED BY <2>1, <2>4, <2>5, <2>6 DEF CollectOK
<1>3. ASSUME NEW w \in Waves, Push(w) PROVE CollectOK'
  <2>1. status' = status /\ ranBy' = ranBy /\ results' = results /\ unseen' = unseen
    BY <1>3 DEF Push
  <2>2. \A v \in Waves : stage'[v] \in {"collect", "returned"} => stage'[v] = stage[v]
    BY <1>3 DEF TypeOK, Push, Enter
  <2> QED BY <2>1, <2>2 DEF CollectOK
<1>4. ASSUME NEW w \in Waves, Join(w) PROVE CollectOK'
  <2>1. status' = status /\ ranBy' = ranBy /\ results' = results
    BY <1>4 DEF Join, workerVars
  <2>2. \A v \in Waves : IF v = w THEN stage'[v] = "collect" /\ unseen'[v] = Matches[v]
                         ELSE stage'[v] = stage[v] /\ unseen'[v] = unseen[v]
    BY <1>4 DEF TypeOK, Join, Enter
  <2> QED BY <2>1, <2>2 DEF CollectOK
<1>5. ASSUME NEW w \in Waves, Look(w) PROVE CollectOK'
  <2>1. status' = status /\ ranBy' = ranBy /\ stage' = stage /\ stage[w] = "collect"
    BY <1>5 DEF Look, workerVars
  <2>2. PICK t \in unseen[w] :
          /\ unseen' = [unseen EXCEPT ![w] = @ \ {t}]
          /\ results' = [results EXCEPT ![w] = IF status[t] = "completed" THEN @ \cup {t} ELSE @]
    BY <1>5 DEF Look
  <2>3. \A v \in Waves : v # w => unseen'[v] = unseen[v] /\ results'[v] = results[v]
    BY <2>2 DEF TypeOK
  <2>4. /\ unseen'[w] = unseen[w] \ {t}
        /\ results'[w] = IF status[t] = "completed" THEN results[w] \cup {t} ELSE results[w]
    BY <2>2 DEF TypeOK
  <2> QED BY <2>1, <2>3, <2>4 DEF CollectOK
<1>6. ASSUME NEW w \in Waves, Return(w) PROVE CollectOK'
  <2>1. /\ status' = status /\ ranBy' = ranBy /\ results' = results /\ unseen' = unseen
        /\ stage[w] = "collect" /\ unseen[w] = {}
    BY <1>6 DEF Return, workerVars
  <2>2. \A v \in Waves : v # w => stage'[v] = stage[v]
    BY <1>6 DEF TypeOK, Return, Enter
  <2> QED BY <2>1, <2>2 DEF CollectOK
<1>7. ASSUME NEW w \in Waves, Drop(w) PROVE CollectOK'
  BY <1>7 DEF TypeOK, CollectOK, Drop, Enter, workerVars
<1>8. ASSUME NEW k \in Workers, Dequeue(k) PROVE CollectOK'
  <2>1. status' = status /\ results' = results /\ unseen' = unseen /\ stage' = stage
    BY <1>8 DEF Dequeue, waveVars
  <2>2. Head(pending) \in Tasks /\ Head(pending) = pending[1] /\ 1 \in 1..Len(pending)
    BY <1>8, TailElements DEF TypeOK, Dequeue
  <2>3. status[Head(pending)] = "pending"
    BY <2>2 DEF QueueOK
  <2>4. \A t \in Tasks : status[t] = "completed" => ranBy'[t] = ranBy[t]
    BY <1>8, <2>3 DEF TypeOK, Dequeue
  <2>5. \A v \in Waves : Matches[v] \subseteq Tasks
    BY QueueAssumption
  <2> QED BY <2>1, <2>4, <2>5 DEF CollectOK
<1>9. ASSUME NEW k \in Workers, Mark(k) PROVE CollectOK'
  <2>1. results' = results /\ unseen' = unseen /\ stage' = stage /\ ranBy' = ranBy
    BY <1>9 DEF Mark, waveVars
  <2>2. hand[k] \in Tasks /\ status[hand[k]] # "completed" /\ ranBy[hand[k]] = k
    BY <1>9 DEF TypeOK, HandsOK, Mark
  <2>3. \A t \in Tasks : status[t] = "completed" => status'[t] = "completed"
    BY <1>9, <2>2 DEF TypeOK, Mark, SetStatus
  <2>4. \A t \in Tasks : status'[t] = "completed" => status[t] = "completed"
    BY <1>9, <2>2 DEF TypeOK, Mark, SetStatus
  <2>5. \A v \in Waves : results[v] \subseteq Tasks /\ Matches[v] \subseteq Tasks
    BY QueueAssumption DEF TypeOK
  <2> QED BY <2>1, <2>3, <2>4, <2>5 DEF CollectOK
<1>10. ASSUME NEW k \in Workers, FindEmpty(k) PROVE CollectOK'
  BY <1>10 DEF CollectOK, FindEmpty, waveVars
<1>11. ASSUME NEW k \in Workers, Acknowledge(k) PROVE CollectOK'
  <2>1. results' = results /\ unseen' = unseen /\ stage' = stage /\ ranBy' = ranBy
    BY <1>11 DEF Acknowledge, LetGo, waveVars
  <2>2. hand[k] \in Tasks /\ status[hand[k]] # "completed" /\ ranBy[hand[k]] = k
    <3>1. hand[k] # NoTask
      BY <1>11 DEF HandsOK, Acknowledge
    <3>2. hand[k] \in Tasks
      BY <3>1 DEF TypeOK
    <3>3. ranBy[hand[k]] = k /\ status[hand[k]] \in {"pending", "in_progress"}
      BY <3>1 DEF HandsOK
    <3> QED BY <3>2, <3>3
  <2>3. \A t \in Tasks : status[t] = "completed" => status'[t] = "completed"
    BY <1>11, <2>2 DEF TypeOK, Acknowledge, SetStatus
  <2>4. \A t \in Tasks : status'[t] = "completed" => status[t] = "completed" \/ t = hand[k]
    BY <1>11, <2>2 DEF TypeOK, Acknowledge, SetStatus
  <2>5. \A v \in Waves : results[v] \subseteq Tasks /\ Matches[v] \subseteq Tasks
    BY QueueAssumption DEF TypeOK
  <2>6. \A v \in Waves : stage[v] \in {"collect", "returned"} => Owner(k) # v
    BY <1>11 DEF StagesOK, Acknowledge, Ended
  <2> QED BY <2>1, <2>2, <2>3, <2>4, <2>5, <2>6 DEF CollectOK
<1>12. ASSUME NEW k \in Workers, Fail(k) PROVE CollectOK'
  <2>1. results' = results /\ unseen' = unseen /\ stage' = stage /\ ranBy' = ranBy
    BY <1>12 DEF Fail, LetGo, waveVars
  <2>2. hand[k] \in Tasks /\ status[hand[k]] # "completed" /\ ranBy[hand[k]] = k
    <3>1. hand[k] # NoTask
      BY <1>12 DEF HandsOK, Fail
    <3>2. hand[k] \in Tasks
      BY <3>1 DEF TypeOK
    <3>3. ranBy[hand[k]] = k /\ status[hand[k]] \in {"pending", "in_progress"}
      BY <3>1 DEF HandsOK
    <3> QED BY <3>2, <3>3
  <2>3. \A t \in Tasks : status[t] = "completed" => status'[t] = "completed"
    BY <1>12, <2>2 DEF TypeOK, Fail, SetStatus
  <2>4. \A t \in Tasks : status'[t] = "completed" => status[t] = "completed"
    BY <1>12, <2>2 DEF TypeOK, Fail, SetStatus
  <2>5. \A v \in Waves : results[v] \subseteq Tasks /\ Matches[v] \subseteq Tasks
    BY QueueAssumption DEF TypeOK
  <2> QED BY <2>1, <2>3, <2>4, <2>5 DEF CollectOK
<1>13. ASSUME NEW k \in Workers, Die(k) PROVE CollectOK'
  BY <1>13 DEF CollectOK, Die, waveVars
<1> QED
  BY NextCases, <1>1, <1>2, <1>3, <1>4, <1>5, <1>6, <1>7, <1>8, <1>9, <1>10, <1>11, <1>12, <1>13

LEMMA NothingStep ==
  ASSUME TypeOK, StagesOK, NothingLeftQueued, Next
  PROVE  NothingLeftQueued'
<1>1. ASSUME NEW w \in Waves, Start(w) PROVE NothingLeftQueued'
  BY <1>1 DEF NothingLeftQueued, Queued, Start, workerVars
<1>2. ASSUME NEW w \in Waves, Announce(w) PROVE NothingLeftQueued'
  BY <1>2 DEF NothingLeftQueued, Queued, Announce, workerVars
<1>3. ASSUME NEW w \in Waves, Push(w) PROVE NothingLeftQueued'
  <2>1. Current(w) \in Tasks /\ next[w] \in 1..Len(Batch[w])
    BY <1>3, CurrentIsNew, QueueAssumption DEF TypeOK, Push
  <2>2. Elements(pending') = Elements(pending) \cup {Current(w)}
    BY <1>3, <2>1, AppendElements DEF TypeOK, Push
  <2>3. Current(w) \in Elements(Batch[w])
    BY <2>1, QueueAssumption, QueuedAt DEF Current
  <2>4. \A k \in Workers : pc'[k] = "done" => pc[k] = "done"
    BY <1>3 DEF Push
  <2>5. \A k \in Workers : pc[k] = "done" => Owner(k) # w
    BY <1>3 DEF StagesOK, Push
  <2>6. \A v \in Waves : \A k \in Spawned(v) : k \in Workers /\ Owner(k) = v
    BY SpawnedOwned
  <2>7. \A v \in Waves : v # w => Current(w) \notin Elements(Batch[v])
    BY <2>3, QueueAssumption
  <2> QED BY <2>2, <2>4, <2>5, <2>6, <2>7 DEF NothingLeftQueued, Queued
<1>4. ASSUME NEW w \in Waves, Join(w) PROVE NothingLeftQueued'
  BY <1>4 DEF NothingLeftQueued, Queued, Join, workerVars
<1>5. ASSUME NEW w \in Waves, Look(w) PROVE NothingLeftQueued'
  BY <1>5 DEF NothingLeftQueued, Queued, Look, workerVars
<1>6. ASSUME NEW w \in Waves, Return(w) PROVE NothingLeftQueued'
  BY <1>6 DEF NothingLeftQueued, Queued, Return, workerVars
<1>7. ASSUME NEW w \in Waves, Drop(w) PROVE NothingLeftQueued'
  BY <1>7 DEF NothingLeftQueued, Queued, Drop, workerVars
<1>8. ASSUME NEW k \in Workers, Dequeue(k) PROVE NothingLeftQueued'
  <2>1. Elements(pending') \subseteq Elements(pending)
    BY <1>8, TailElements DEF TypeOK, Dequeue
  <2>2. \A j \in Workers : pc'[j] = "done" => pc[j] = "done"
    BY <1>8 DEF TypeOK, Dequeue, Goto
  <2> QED BY <2>1, <2>2, SpawnedOwned DEF NothingLeftQueued, Queued
<1>9. ASSUME NEW k \in Workers, Mark(k) PROVE NothingLeftQueued'
  <2>1. pending' = pending /\ \A j \in Workers : pc'[j] = "done" => pc[j] = "done"
    BY <1>9 DEF TypeOK, Mark, Goto
  <2> QED BY <2>1, SpawnedOwned DEF NothingLeftQueued, Queued
<1>10. ASSUME NEW k \in Workers, FindEmpty(k) PROVE NothingLeftQueued'
  <2>1. pending' = <<>>
    BY <1>10 DEF FindEmpty
  <2> QED BY <2>1 DEF NothingLeftQueued, Queued, Elements
<1>11. ASSUME NEW k \in Workers, Acknowledge(k) PROVE NothingLeftQueued'
  <2>1. pending' = pending /\ \A j \in Workers : pc'[j] = "done" => pc[j] = "done"
    BY <1>11 DEF TypeOK, Acknowledge, LetGo, Goto
  <2> QED BY <2>1, SpawnedOwned DEF NothingLeftQueued, Queued
<1>12. ASSUME NEW k \in Workers, Fail(k) PROVE NothingLeftQueued'
  <2>1. pending' = pending /\ \A j \in Workers : pc'[j] = "done" => pc[j] = "done"
    BY <1>12 DEF TypeOK, Fail, LetGo, Goto
  <2> QED BY <2>1, SpawnedOwned DEF NothingLeftQueued, Queued
<1>13. ASSUME NEW k \in Workers, Die(k) PROVE NothingLeftQueued'
  <2>1. pending' = pending /\ \A j \in Workers : pc'[j] = "done" => pc[j] = "done"
    BY <1>13 DEF TypeOK, Die, Goto
  <2> QED BY <2>1, SpawnedOwned DEF NothingLeftQueued, Queued
<1> QED
  BY NextCases, <1>1, <1>2, <1>3, <1>4, <1>5, <1>6, <1>7, <1>8, <1>9, <1>10, <1>11, <1>12, <1>13

----------------------------------------------------------------------------
LEMMA IInvInit == Init => IInv
<1> SUFFICES ASSUME Init PROVE IInv
  OBVIOUS
<1>1. \A w \in Waves : Len(Batch[w]) \in Nat
  BY QueueAssumption
<1>2. TypeOK
  BY <1>1, QueueAssumption DEF Init, TypeOK, Statuses
<1>3. StagesOK /\ HandsOK /\ CollectOK
  BY WorkerIsPair DEF Init, StagesOK, HandsOK, CollectOK
<1>4. QueueOK /\ NothingLeftQueued
  BY DEF Init, QueueOK, NothingLeftQueued, Queued, Elements
<1>5. \A t : ~OnItsWay(t)
  BY DEF Init, OnItsWay
<1>6. TasksOK
  BY <1>5 DEF Init, TasksOK
<1> QED BY <1>2, <1>3, <1>4, <1>6 DEF IInv

LEMMA IInvNext == IInv /\ [Next]_vars => IInv'
<1> SUFFICES ASSUME IInv, [Next]_vars PROVE IInv'
  OBVIOUS
<1>1. CASE Next
  BY <1>1, TypeStep, StagesStep, QueueStep, HandsStep, TasksStep, CollectStep, NothingStep DEF IInv
<1>2. CASE UNCHANGED vars
  <2>1. /\ pending' = pending /\ status' = status /\ attempt' = attempt /\ stage' = stage
        /\ next' = next /\ unseen' = unseen /\ results' = results
        /\ pc' = pc /\ hand' = hand /\ ranBy' = ranBy
    BY <1>2 DEF vars, waveVars, workerVars
  <2>2. TypeOK' /\ StagesOK' /\ HandsOK' /\ CollectOK' /\ NothingLeftQueued'
    BY <2>1 DEF IInv, TypeOK, StagesOK, Ended, HandsOK, CollectOK, NothingLeftQueued, Queued
  <2>3. QueueOK'
    BY <2>1, PushedKept DEF IInv, QueueOK
  <2>4. TasksOK'
    BY <2>1, PushedKept, OnItsWayStill DEF IInv, TasksOK, Queued, HeldBy
  <2> QED BY <2>2, <2>3, <2>4 DEF IInv
<1> QED BY <1>1, <1>2

\* Every reachable state satisfies the inductive invariant.
THEOREM Invariance == Spec => []IInv
BY IInvInit, IInvNext, PTL DEF Spec

\* The variables keep their types.
THEOREM TypeCorrect == Spec => []TypeOK
<1>1. IInv => TypeOK
  BY DEF IInv
<1> QED BY <1>1, Invariance, PTL

\* A wave one of whose workers has found the queue empty has no task left in
\* it, whatever the other waves and their workers do.
THEOREM NothingLeftQueuedHolds == Spec => []NothingLeftQueued
<1>1. IInv => NothingLeftQueued
  BY DEF IInv
<1> QED BY <1>1, Invariance, PTL

\* An unfinished task is on its way, queued or in a hand, and in one place.
THEOREM AccountedHolds == Spec => []Accounted
<1>1. IInv => Accounted
  <2> SUFFICES ASSUME IInv, NEW t \in Tasks
               PROVE  /\ status[t] \in {"pending", "in_progress"} => OnItsWay(t) \/ Queued(t) \/ HeldBy(t) # {}
                      /\ Queued(t) \/ OnItsWay(t) => HeldBy(t) = {} /\ status[t] = "pending"
                      /\ \A j, k \in HeldBy(t) : j = k
                      /\ HeldBy(t) # {} => status[t] \in {"pending", "in_progress"}
    BY DEF Accounted
  <2>1. \A k \in HeldBy(t) : k \in Workers /\ hand[k] = t /\ hand[k] # NoTask
    BY QueueAssumption DEF HeldBy
  <2>2. \A k \in HeldBy(t) : ranBy[t] = k /\ k # NoWorker /\ status[t] \in {"pending", "in_progress"}
    BY <2>1, WorkerIsPair DEF IInv, HandsOK
  <2>3. Queued(t) => ranBy[t] = NoWorker /\ status[t] = "pending"
    BY QueuedAt DEF IInv, TypeOK, QueueOK, Queued
  <2>4. OnItsWay(t) => ranBy[t] = NoWorker /\ status[t] = "pending"
    BY NotYetPushed DEF IInv, TasksOK
  <2> QED BY <2>2, <2>3, <2>4 DEF IInv, TasksOK
<1> QED BY <1>1, Invariance, PTL

\* A wave returns what its own workers have completed, and nothing that has
\* not been completed.
THEOREM OwnWorkReturnedHolds == Spec => []OwnWorkReturned
<1>1. IInv => OwnWorkReturned
  <2>1. \A w \in Waves : \A k \in Spawned(w) : k \in Workers /\ Owner(k) = w
    BY SpawnedOwned
  <2> QED BY <2>1 DEF IInv, CollectOK, OwnWorkReturned
<1> QED BY <1>1, Invariance, PTL

----------------------------------------------------------------------------
(* Statuses only go forward *)

Forward(t) == /\ status'[t] # status[t] => Rank(status[t]) < Rank(status'[t])
              /\ ranBy[t] # NoWorker => ranBy'[t] = ranBy[t]

LEMMA KeepForward ==
  ASSUME status' = status, ranBy' = ranBy, NEW t
  PROVE  Forward(t)
BY DEF Forward

LEMMA MoveForward ==
  ASSUME TypeOK, ranBy' = ranBy, NEW u \in Tasks, NEW t \in Tasks,
         \A v \in Tasks : v # u => status'[v] = status[v],
         Rank(status[u]) < Rank(status'[u])
  PROVE  Forward(t)
BY DEF Forward

LEMMA StepForward ==
  ASSUME IInv, [Next]_vars, NEW t \in Tasks
  PROVE  Forward(t)
<1>0. CASE UNCHANGED vars
  BY <1>0, KeepForward DEF vars, workerVars
<1>1. ASSUME NEW w \in Waves, Start(w) PROVE Forward(t)
  BY <1>1, KeepForward DEF Start, workerVars
<1>2. ASSUME NEW w \in Waves, Announce(w) PROVE Forward(t)
  <2>1. Current(w) \in Tasks /\ status[Current(w)] = "absent"
    BY <1>2, AnnouncedIsAbsent DEF IInv
  <2>2. /\ ranBy' = ranBy /\ status'[Current(w)] = "pending"
        /\ \A v \in Tasks : v # Current(w) => status'[v] = status[v]
    BY <1>2, <2>1 DEF IInv, TypeOK, Announce, SetStatus, workerVars
  <2>3. Rank(status[Current(w)]) < Rank(status'[Current(w)])
    BY <2>1, <2>2 DEF Rank
  <2> QED BY <2>1, <2>2, <2>3, MoveForward DEF IInv
<1>3. ASSUME NEW w \in Waves, Push(w) PROVE Forward(t)
  BY <1>3, KeepForward DEF Push
<1>4. ASSUME NEW w \in Waves, Join(w) PROVE Forward(t)
  BY <1>4, KeepForward DEF Join, workerVars
<1>5. ASSUME NEW w \in Waves, Look(w) PROVE Forward(t)
  BY <1>5, KeepForward DEF Look, workerVars
<1>6. ASSUME NEW w \in Waves, Return(w) PROVE Forward(t)
  BY <1>6, KeepForward DEF Return, workerVars
<1>7. ASSUME NEW w \in Waves, Drop(w) PROVE Forward(t)
  BY <1>7, KeepForward DEF Drop, workerVars
<1>8. ASSUME NEW k \in Workers, Dequeue(k) PROVE Forward(t)
  <2>1. Head(pending) = pending[1] /\ 1 \in 1..Len(pending)
    BY <1>8, TailElements DEF IInv, TypeOK, Dequeue
  <2>2. ranBy[Head(pending)] = NoWorker
    BY <2>1 DEF IInv, QueueOK
  <2>3. status' = status /\ \A v \in Tasks : v # Head(pending) => ranBy'[v] = ranBy[v]
    BY <1>8 DEF IInv, TypeOK, Dequeue
  <2> QED BY <2>2, <2>3 DEF Forward
<1>9. ASSUME NEW k \in Workers, Mark(k) PROVE Forward(t)
  <2>1. hand[k] \in Tasks /\ status[hand[k]] = "pending"
    BY <1>9 DEF IInv, TypeOK, HandsOK, Mark
  <2>2. /\ ranBy' = ranBy /\ status'[hand[k]] = "in_progress"
        /\ \A v \in Tasks : v # hand[k] => status'[v] = status[v]
    BY <1>9, <2>1 DEF IInv, TypeOK, Mark, SetStatus
  <2>3. Rank(status[hand[k]]) < Rank(status'[hand[k]])
    BY <2>1, <2>2 DEF Rank
  <2> QED BY <2>1, <2>2, <2>3, MoveForward DEF IInv
<1>10. ASSUME NEW k \in Workers, FindEmpty(k) PROVE Forward(t)
  BY <1>10, KeepForward DEF FindEmpty
<1>11. ASSUME NEW k \in Workers, Acknowledge(k) PROVE Forward(t)
  <2>1. hand[k] \in Tasks /\ status[hand[k]] \in {"pending", "in_progress"}
    BY <1>11 DEF IInv, TypeOK, HandsOK, Acknowledge
  <2>2. /\ ranBy' = ranBy /\ status'[hand[k]] = "completed"
        /\ \A v \in Tasks : v # hand[k] => status'[v] = status[v]
    BY <1>11, <2>1 DEF IInv, TypeOK, Acknowledge, SetStatus, LetGo
  <2>3. Rank(status[hand[k]]) < Rank(status'[hand[k]])
    BY <2>1, <2>2 DEF Rank
  <2> QED BY <2>1, <2>2, <2>3, MoveForward DEF IInv
<1>12. ASSUME NEW k \in Workers, Fail(k) PROVE Forward(t)
  <2>1. hand[k] \in Tasks /\ status[hand[k]] \in {"pending", "in_progress"}
    BY <1>12 DEF IInv, TypeOK, HandsOK, Fail
  <2>2. /\ ranBy' = ranBy /\ status'[hand[k]] \in {"failed", "dead_letter"}
        /\ \A v \in Tasks : v # hand[k] => status'[v] = status[v]
    BY <1>12, <2>1 DEF IInv, TypeOK, Fail, SetStatus, LetGo
  <2>3. Rank(status[hand[k]]) < Rank(status'[hand[k]])
    BY <2>1, <2>2 DEF Rank
  <2> QED BY <2>1, <2>2, <2>3, MoveForward DEF IInv
<1>13. ASSUME NEW k \in Workers, Die(k) PROVE Forward(t)
  BY <1>13, KeepForward DEF Die
<1>14. CASE Next
  BY <1>14, NextCases, <1>1, <1>2, <1>3, <1>4, <1>5, <1>6, <1>7, <1>8, <1>9, <1>10, <1>11, <1>12, <1>13
<1> QED BY <1>0, <1>14

\* No status goes back and no task gets a second runner.
THEOREM StatusForwardHolds == Spec => StatusForward
<1>1. IInv /\ [Next]_vars =>
        [\A t \in Tasks : /\ status'[t] # status[t] => Rank(status[t]) < Rank(status'[t])
                          /\ ranBy[t] # NoWorker => ranBy'[t] = ranBy[t]]_vars
  BY StepForward DEF Forward
<1> QED BY <1>1, Invariance, PTL DEF Spec, StatusForward

----------------------------------------------------------------------------
(* What a wave leaves unfinished *)

\* What is in the queue's past has a status.
Known == \A t \in Tasks : Pushed(t) => status[t] # "absent"

LEMMA KnownNext == IInv /\ Known /\ [Next]_vars => Known'
<1> SUFFICES ASSUME IInv, Known, [Next]_vars PROVE Known'
  OBVIOUS
<1>t. TypeOK
  BY DEF IInv
<1>k. ASSUME UNCHANGED next, \A t \in Tasks : status'[t] = status[t] \/ status'[t] # "absent"
      PROVE  Known'
  BY <1>k, PushedKept DEF Known
<1>1. CASE UNCHANGED vars
  BY <1>1, <1>k DEF vars, waveVars
<1>2. ASSUME NEW w \in Waves, Start(w) \/ Join(w) \/ Look(w) \/ Return(w) \/ Drop(w) PROVE Known'
  BY <1>2, <1>k DEF Start, Join, Look, Return, Drop
<1>3. ASSUME NEW w \in Waves, Announce(w) PROVE Known'
  BY <1>3, <1>k, <1>t DEF Announce, SetStatus, TypeOK
<1>4. ASSUME NEW w \in Waves, Push(w) PROVE Known'
  <2>1. next[w] <= Len(Batch[w]) /\ status[Current(w)] = "pending" /\ UNCHANGED status
    BY <1>4, <1>t, CurrentIsNew DEF Push, IInv, TypeOK, TasksOK, OnItsWay
  <2>2. \A t \in Tasks : Pushed(t)' => Pushed(t) \/ t = Current(w)
    BY <1>4, <1>t, PushedPush
  <2> QED BY <2>1, <2>2 DEF Known
<1>5. ASSUME NEW k \in Workers, Dequeue(k) \/ FindEmpty(k) \/ Die(k) PROVE Known'
  BY <1>5, <1>k DEF Dequeue, FindEmpty, Die, waveVars
<1>6. ASSUME NEW k \in Workers, Mark(k) \/ Acknowledge(k) \/ Fail(k) PROVE Known'
  BY <1>6, <1>k, <1>t DEF Mark, Acknowledge, Fail, LetGo, SetStatus, TypeOK, waveVars
<1> QED BY <1>1, <1>2, <1>3, <1>4, <1>5, <1>6 DEF Next, WaveStep, WorkerStep

\* A task of the wave that is not finished when the wave collects.
Elsewhere(w, t) ==
    \/ \E k \in HeldBy(t) : Owner(k) # w \/ pc[k] = "dead"
    \/ \A k \in Spawned(w) : pc[k] = "dead"

UnfinishedElsewhere ==
    \A w \in Waves : stage[w] = "collect" =>
        \A t \in Elements(Batch[w]) : status[t] \in Finished \/ Elsewhere(w, t)

LEMMA LeavesElsewhere == IInv /\ Known => UnfinishedElsewhere
<1> SUFFICES ASSUME IInv, Known, NEW w \in Waves, stage[w] = "collect",
                    NEW t \in Elements(Batch[w]), status[t] \notin Finished
             PROVE  Elsewhere(w, t)
  BY DEF UnfinishedElsewhere
<1>1. /\ next[w] = Len(Batch[w]) + 1
      /\ \A k \in Workers : Owner(k) = w => Ended(k)
  BY DEF IInv, StagesOK
<1>2. t \in Tasks /\ Pushed(t)
  <2>1. PICK i \in DOMAIN Batch[w] : Batch[w][i] = t
    BY DEF Elements
  <2>2. i \in 1..Len(Batch[w]) /\ Batch[w][i] \in Tasks /\ Len(Batch[w]) \in Nat
    BY <2>1, QueueAssumption
  <2> QED BY <1>1, <2>1, <2>2 DEF Pushed
<1>3. status[t] \in {"pending", "in_progress"}
  BY <1>2 DEF IInv, TypeOK, Known, Statuses
<1>4. CASE OnItsWay(t)
  BY <1>2, <1>4, NotYetPushed DEF IInv
<1>5. CASE Queued(t)
  <2>1. \A k \in Spawned(w) : pc[k] # "done"
    BY <1>5 DEF IInv, NothingLeftQueued
  <2> QED BY <1>1, <2>1, SpawnedOwned DEF Ended, Elsewhere
<1>6. CASE HeldBy(t) # {}
  <2>1. PICK k \in Workers : hand[k] = t
    BY <1>6 DEF HeldBy
  <2>2. pc[k] # "done"
    BY <1>2, <2>1, QueueAssumption DEF IInv, HandsOK
  <2>3. Owner(k) # w \/ pc[k] = "dead"
    BY <1>1, <2>1, <2>2 DEF Ended
  <2> QED BY <2>1, <2>3 DEF HeldBy, Elsewhere
<1> QED BY <1>2, <1>3, <1>4, <1>5, <1>6 DEF IInv, TasksOK

\* Why collect_results may miss tasks of its wave, and the only reason: each
\* task that is not finished by then is with a worker of another wave that
\* shares the queue, or was with one that panicked or was aborted, unless
\* all the wave's own workers were lost (DistributedDagExecutor).
THEOREM UnfinishedElsewhereHolds == Spec => []UnfinishedElsewhere
<1>1. Init => Known
  BY DEF Init, Known, Pushed
<1> QED BY <1>1, KnownNext, LeavesElsewhere, Invariance, PTL DEF Spec

=============================================================================
