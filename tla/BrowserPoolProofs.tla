------------------------- MODULE BrowserPoolProofs -------------------------
(***************************************************************************)
(* Proofs about the browser pool, for every number of tasks, browsers and  *)
(* contexts and every MinSize and MaxSize.                                 *)
(*                                                                         *)
(* IInv is the inductive invariant.  Its parts are Types (TypeOK with the  *)
(* two counters only bounded as far as their type goes), Structure (who    *)
(* owns a browser, and that queues hold healthy entries of their own key)  *)
(* and the two cardinality bounds Capacity and ActiveCovers.  Structure is *)
(* what makes the bounds inductive: a step may only move one browser per   *)
(* permit, because queues and hands never share an entry.                  *)
(***************************************************************************)
EXTENDS BrowserPool, FiniteSetTheorems, SequenceTheorems, TLAPS

Types ==
    /\ permits \in Nat
    /\ active \in Int
    /\ queue \in [Keys -> Seq(Browsers)]
    /\ ripe \in [Keys -> Nat]
    /\ place \in [Browsers -> Places]
    /\ healthy \subseteq Browsers
    /\ alive \subseteq Browsers
    /\ lease \in [Browsers -> Leases]
    /\ home \in [Browsers -> Keys]
    /\ pc \in [Tasks -> Pcs]
    /\ room \in [Tasks -> BOOLEAN]
    /\ key \in [Tasks -> Keys]
    /\ hand \in [Tasks -> Browsers \cup {NoBrowser}]
    /\ warming \in 0..MinSize

HandsOK ==
    /\ \A t \in Tasks : hand[t] # NoBrowser =>
          place[hand[t]] = "held" /\ home[hand[t]] = key[t]
    /\ \A s, t \in Tasks : hand[s] = hand[t] /\ hand[s] # NoBrowser => s = t
    /\ \A t \in Tasks : hand[t] # NoBrowser <=> pc[t] \in {"using", "returning"}
    /\ \A t \in Tasks : pc[t] = "returning" => hand[t] \in healthy

EntriesOK ==
    \A k \in Keys : \A i \in 1..Len(queue[k]) :
       /\ place[queue[k][i]] = "idle"
       /\ home[queue[k][i]] = k
       /\ queue[k][i] \in healthy

NoRepeats ==
    \A k \in Keys : \A m, n \in 1..Len(queue[k]) : queue[k][m] = queue[k][n] => m = n

RipeOK == \A k \in Keys : ripe[k] <= Len(queue[k])

QueuesOK == EntriesOK /\ NoRepeats /\ RipeOK

IInv == Types /\ HandsOK /\ QueuesOK /\ Capacity /\ ActiveCovers /\ ActiveExact

-----------------------------------------------------------------------------
(***************************************************************************)
(* Operators                                                               *)
(***************************************************************************)

\* First returns a lower bound that is a member.
LEMMA FirstIsLeast ==
  ASSUME NEW S \in SUBSET Nat, NEW i \in S, \A j \in S : i <= j
  PROVE  First(S) = i
<1>1. /\ First(S) \in S
      /\ \A j \in S : First(S) <= j
  BY DEF First
<1>2. First(S) \in Nat /\ i \in Nat /\ First(S) <= i /\ i <= First(S)
  BY <1>1
<1> QED
  BY <1>2

\* The entries that remain when the first n are removed.
LEMMA DropFirst ==
  ASSUME NEW q \in Seq(Browsers), NEW n \in 0..Len(q)
  PROVE  /\ SubSeq(q, n + 1, Len(q)) \in Seq(Browsers)
         /\ Len(SubSeq(q, n + 1, Len(q))) = Len(q) - n
         /\ \A i \in 1..(Len(q) - n) : SubSeq(q, n + 1, Len(q))[i] = q[n + i]
<1>1. Len(q) \in Nat /\ \A i \in (n + 1)..Len(q) : q[i] \in Browsers
  BY LenProperties, ElementOfSeq
<1>2. n + 1 \in Int /\ Len(q) \in Int
  BY <1>1
<1>3. /\ SubSeq(q, n + 1, Len(q)) \in Seq(Browsers)
      /\ Len(SubSeq(q, n + 1, Len(q))) =
           IF n + 1 <= Len(q) THEN Len(q) - (n + 1) + 1 ELSE 0
      /\ \A i \in 1..(Len(q) - (n + 1) + 1) :
           SubSeq(q, n + 1, Len(q))[i] = q[n + 1 + i - 1]
  BY <1>1, <1>2, SubSeqProperties
<1>4. Len(q) - (n + 1) + 1 = Len(q) - n /\ \A i \in Nat : n + 1 + i - 1 = n + i
  BY <1>1
<1>5. IF n + 1 <= Len(q) THEN Len(q) - (n + 1) + 1 = Len(q) - n ELSE Len(q) - n = 0
  BY <1>1
<1>6. Len(SubSeq(q, n + 1, Len(q))) = Len(q) - n
  BY <1>1, <1>3, <1>5
<1>7. ASSUME NEW i \in 1..(Len(q) - n)
      PROVE  SubSeq(q, n + 1, Len(q))[i] = q[n + i]
  BY <1>1, <1>3, <1>4
<1> QED
  BY <1>3, <1>6, <1>7

\* A sequence without repetitions has as many elements as places.
LEMMA DistinctElements ==
  ASSUME NEW q \in Seq(Browsers),
         \A m, n \in 1..Len(q) : q[m] = q[n] => m = n
  PROVE  IsFiniteSet(Elements(q)) /\ Cardinality(Elements(q)) = Len(q)
<1>1. Len(q) \in Nat /\ DOMAIN q = 1..Len(q) /\ q \in [1..Len(q) -> Browsers]
  BY LenProperties
<1>2. q \in Bijection(1..Len(q), Elements(q))
  BY <1>1 DEF Bijection, Injection, Surjection, IsInjective, Elements
<1>3. ExistsBijection(1..Len(q), Elements(q))
  BY <1>2 DEF ExistsBijection
<1>4. IsFiniteSet(1..Len(q)) /\ Cardinality(1..Len(q)) = Len(q)
  BY SMTT(30), <1>1, FS_Interval
<1> QED
  BY <1>3, <1>4, FS_Bijection

-----------------------------------------------------------------------------
(***************************************************************************)
(* What acquire does, given that queued entries look healthy: it takes the *)
(* front entry, or finds the queue empty.                                  *)
(***************************************************************************)
Take(t) ==
    LET q == queue[key[t]]
    IN  /\ pc[t] \in {"scan", "poll"} /\ Len(q) > 0
        /\ queue' = [queue EXCEPT ![key[t]] = SubSeq(q, 2, Len(q))]
        /\ ripe' = [ripe EXCEPT ![key[t]] = IF @ < 1 THEN 0 ELSE @ - 1]
        /\ place' = [place EXCEPT ![q[1]] = "held"]
        /\ pc' = [pc EXCEPT ![t] = "using"]
        /\ hand' = [hand EXCEPT ![t] = q[1]]
        /\ UNCHANGED <<permits, active, healthy, alive, lease, home, room, key, warming>>

Miss(t) ==
    /\ pc[t] = "scan"
    /\ pc' = [pc EXCEPT ![t] = IF room[t] THEN "permit" ELSE "poll"]
    /\ UNCHANGED <<permits, active, queue, ripe, browserVars, room, key, hand, warming>>

LEMMA ScanHitTakes ==
  ASSUME Types, QueuesOK, NEW t \in Tasks, ScanHit(t)
  PROVE  Take(t)
<1> DEFINE q == queue[key[t]]
           good == {i \in DOMAIN q : q[i] \in healthy}
           rest == good \ {First(good)}
           last == IF rest = {} THEN Len(q) ELSE First(rest) - 1
<1>0. q \in Seq(Browsers)
  BY DEF Types
<1>1. Len(q) \in Nat /\ DOMAIN q = 1..Len(q)
  BY <1>0, LenProperties
<1>2. good = 1..Len(q)
  BY ZenonT(30), <1>1 DEF QueuesOK, EntriesOK, NoRepeats, RipeOK, Types, ScanHit
<1>12. Len(q) > 0
  BY SMTT(30), <1>1, <1>2 DEF ScanHit
<1>3. /\ pc[t] = "scan"
      /\ Pop(key[t], last)
      /\ place' = [b \in Browsers |->
                     IF b = q[First(good)] THEN "held"
                     ELSE IF \E i \in 1..last : b = q[i] THEN "owed"
                     ELSE place[b]]
      /\ lease' = [b \in Browsers |->
                     IF b # q[First(good)] /\ \E i \in 1..last : b = q[i]
                     THEN "failure" ELSE lease[b]]
      /\ Goto(t, "using")
      /\ hand' = [hand EXCEPT ![t] = q[First(good)]]
      /\ UNCHANGED <<permits, active, healthy, alive, home, room, key, warming>>
  BY DEF ScanHit
<1> HIDE DEF good
<1>13. good \in SUBSET Nat /\ 1 \in good /\ \A j \in good : 1 <= j
  BY <1>1, <1>2, <1>12
<1>4. First(good) = 1
  BY <1>13, FirstIsLeast
<1>5. rest = 2..Len(q)
  BY <1>1, <1>2, <1>4
<1> HIDE DEF rest, last
<1>6. last = 1
  <2>1. CASE Len(q) = 1
    BY <1>5, <2>1 DEF last
  <2>2. CASE Len(q) > 1
    <3>1. rest \in SUBSET Nat /\ 2 \in rest /\ \A j \in rest : 2 <= j
      BY <1>1, <1>5, <2>2
    <3>2. First(rest) = 2
      BY <3>1, FirstIsLeast
    <3>3. rest # {}
      BY <3>1
    <3>4. last = First(rest) - 1
      BY <3>3 DEF last
    <3> QED
      BY <3>2, <3>4
  <2>3. Len(q) \in Nat
    BY <1>1
  <2>4. \A n \in Nat : n > 0 => n = 1 \/ n > 1
    OBVIOUS
  <2> QED
    BY <1>12, <2>1, <2>2, <2>3, <2>4
<1>7. q[1] \in Browsers
  BY <1>0, <1>1, <1>12, ElementOfSeq
<1>8. /\ place' = [b \in Browsers |-> IF b = q[1] THEN "held" ELSE place[b]]
      /\ lease' = [b \in Browsers |-> lease[b]]
  BY <1>3, <1>4, <1>6
<1>9. place' = [place EXCEPT ![q[1]] = "held"] /\ lease' = lease
  BY <1>7, <1>8 DEF Types
<1>10. Pop(key[t], 1)
  BY <1>3, <1>6
<1>11. /\ queue' = [queue EXCEPT ![key[t]] = SubSeq(q, 2, Len(q))]
       /\ ripe' = [ripe EXCEPT ![key[t]] = IF @ < 1 THEN 0 ELSE @ - 1]
  BY <1>10 DEF Pop
<1> QED
  BY <1>12, <1>3, <1>4, <1>9, <1>11 DEF Take, Goto

LEMMA PollTakes ==
  ASSUME Types, QueuesOK, NEW t \in Tasks, Poll(t)
  PROVE  Take(t)
<1> DEFINE q == queue[key[t]]
<1>0. q \in Seq(Browsers)
  BY DEF Types
<1>1. Len(q) \in Nat
  BY <1>0, LenProperties
<1>2. Len(q) > 0 /\ Head(q) = q[1]
  BY <1>0, <1>1, EmptySeq DEF Poll
<1>3. Head(q) \in healthy
  BY <1>1, <1>2 DEF QueuesOK, EntriesOK, NoRepeats, RipeOK, Types
<1>4. /\ queue' = [queue EXCEPT ![key[t]] = SubSeq(q, 2, Len(q))]
      /\ ripe' = [ripe EXCEPT ![key[t]] = IF @ < 1 THEN 0 ELSE @ - 1]
  BY DEF Poll, Pop
<1> QED
  BY <1>2, <1>3, <1>4 DEF Poll, Take, Goto

LEMMA ScanMissMisses ==
  ASSUME Types, QueuesOK, NEW t \in Tasks, ScanMiss(t)
  PROVE  Miss(t) /\ Len(queue[key[t]]) = 0
<1> DEFINE q == queue[key[t]]
<1>0. q \in Seq(Browsers)
  BY DEF Types
<1>1. Len(q) \in Nat /\ DOMAIN q = 1..Len(q)
  BY <1>0, LenProperties
<1>2. Len(q) = 0
  <2>1. \A i \in 1..Len(q) : q[i] \in healthy
    BY DEF QueuesOK, EntriesOK, NoRepeats, RipeOK, Types
  <2>2. \A i \in 1..Len(q) : q[i] \notin healthy
    BY <1>1 DEF ScanMiss
  <2>3. 1 \notin 1..Len(q)
    BY <2>1, <2>2
  <2> QED
    BY <1>1, <2>3
<1>3. SubSeq(q, 1, Len(q)) = q /\ Elements(q) = {}
  BY <1>0, <1>1, <1>2, SubSeqFull DEF Elements
<1>4. Pop(key[t], 0) /\ Dispose({}, "owed", "failure")
  BY <1>2, <1>3 DEF ScanMiss
<1>5. queue' = queue
  BY <1>3, <1>4 DEF Pop, Types
<1>6. ripe' = ripe
  BY <1>4 DEF Pop, Types
<1>7. place' = place /\ lease' = lease
  BY <1>4 DEF Dispose, Types
<1> QED
  BY <1>2, <1>5, <1>6, <1>7 DEF ScanMiss, Miss, Goto, browserVars

-----------------------------------------------------------------------------
(***************************************************************************)
(* Types and structure                                                     *)
(***************************************************************************)

\* The steps of the next-state relation, with those of acquire in the form
\* the lemmas above give them.
LEMMA NextCases ==
  ASSUME Types, QueuesOK, [Next]_vars
  PROVE  \/ UNCHANGED vars
         \/ \E t \in Tasks : \/ \E k \in Keys : Begin(t, k)
                             \/ Take(t)
                             \/ Miss(t) /\ Len(queue[key[t]]) = 0
                             \/ TakePermit(t) \/ Exhausted(t) \/ BindOk(t) \/ LaunchErr(t)
                             \/ \E b \in Browsers : LaunchOk(t, b)
                             \/ HealthCheck(t) \/ ReleaseBegin(t) \/ Return(t) \/ Cancel(t)
         \/ \E b \in Browsers : WarmOne(b) \/ Crash(b) \/ ShutdownDone(b)
         \/ WarmFail
         \/ \E c \in Contexts : ReleaseContext(c)
         \/ \E k \in Keys : Age(k)
         \/ \E n \in [Keys -> 0..MaxSize] : Evict(n)
BY ScanHitTakes, PollTakes, ScanMissMisses DEF Next, TaskStep

LEMMA TypesInit == Init => Types
BY ConstantsAssumption DEF Init, Types, Places, Leases, Pcs, Keys

LEMMA TypesNext ==
  ASSUME Types, HandsOK, QueuesOK, [Next]_vars
  PROVE  Types'
<1> USE ConstantsAssumption
<1>q. \A k \in Keys : queue[k] \in Seq(Browsers) /\ Len(queue[k]) \in Nat
  BY LenProperties DEF Types
<1>1. CASE UNCHANGED vars
  BY <1>1 DEF Types, vars
<1>2. ASSUME NEW t \in Tasks, NEW k \in Keys, Begin(t, k)  PROVE Types'
  BY <1>2 DEF Begin, Types, Goto, browserVars, Pcs
<1>3. ASSUME NEW t \in Tasks, Take(t)  PROVE Types'
  <2> DEFINE q == queue[key[t]]
  <2>1. key[t] \in Keys /\ q \in Seq(Browsers) /\ Len(q) \in Nat
    BY <1>q DEF Types
  <2>2. SubSeq(q, 2, Len(q)) \in Seq(Browsers)
    BY <1>3, <2>1, DropFirst DEF Take
  <2>3. q[1] \in Browsers
    BY <1>3, <2>1, ElementOfSeq DEF Take
  <2>4. queue' \in [Keys -> Seq(Browsers)]
    BY <1>3, <2>1, <2>2 DEF Take, Types
  <2>5. ripe' \in [Keys -> Nat]
    BY <1>3, <2>1 DEF Take, Types
  <2> QED
    BY <1>3, <2>3, <2>4, <2>5 DEF Take, Types, Places, Pcs
<1>4. ASSUME NEW t \in Tasks, Miss(t)  PROVE Types'
  BY <1>4 DEF Miss, Types, browserVars, Pcs
<1>5. ASSUME NEW t \in Tasks, TakePermit(t)  PROVE Types'
  BY <1>5 DEF TakePermit, Types, Goto, browserVars, Pcs
<1>6. ASSUME NEW t \in Tasks, Exhausted(t)  PROVE Types'
  BY <1>6 DEF Exhausted, Leave, Types, Goto, browserVars, Pcs, Keys
<1>7. ASSUME NEW t \in Tasks, BindOk(t)  PROVE Types'
  BY <1>7 DEF BindOk, Types, Goto, browserVars, Pcs
<1>8. ASSUME NEW t \in Tasks, LaunchErr(t)  PROVE Types'
  BY <1>8 DEF LaunchErr, Leave, Types, Goto, browserVars, Pcs, Keys
<1>9. ASSUME NEW t \in Tasks, NEW b \in Browsers, LaunchOk(t, b)  PROVE Types'
  BY <1>9 DEF LaunchOk, Started, Types, Goto, Places, Leases, Pcs
<1>10. ASSUME NEW t \in Tasks, HealthCheck(t)  PROVE Types'
  <2>1. healthy' \subseteq Browsers
    BY <1>10 DEF HealthCheck, Types
  <2> QED
    BY <1>10, <2>1 DEF HealthCheck, Types, taskVars
<1>11. ASSUME NEW t \in Tasks, ReleaseBegin(t)  PROVE Types'
  <2>1. CASE hand[t] \in healthy
    BY <1>11, <2>1 DEF ReleaseBegin, Types, Goto, Pcs
  <2>2. CASE hand[t] \notin healthy
    <3>1. place' \in [Browsers -> Places] /\ lease' \in [Browsers -> Leases]
      BY <1>11, <2>2 DEF ReleaseBegin, Dispose, Types, Places, Leases
    <3>2. /\ pc' \in [Tasks -> Pcs] /\ hand' \in [Tasks -> Browsers \cup {NoBrowser}]
          /\ room' \in [Tasks -> BOOLEAN] /\ key' \in [Tasks -> Keys]
      BY ZenonT(30), <1>11, <2>2 DEF ReleaseBegin, Leave, Goto, Types, Pcs, Keys
    <3> QED
      BY <1>11, <2>2, <3>1, <3>2 DEF ReleaseBegin, Types
  <2> QED
    BY <2>1, <2>2
<1>12. ASSUME NEW t \in Tasks, Return(t)  PROVE Types'
  <2> DEFINE b == hand[t]
  <2>1. b \in Browsers /\ key[t] \in Keys
    BY <1>12 DEF Return, HandsOK, Types
  <2>2. Append(queue[key[t]], b) \in Seq(Browsers)
    BY <1>q, <2>1, AppendProperties
  <2>3. queue' \in [Keys -> Seq(Browsers)]
    BY <1>12, <2>1, <2>2 DEF Return, PushBack, Types
  <2>4. place' \in [Browsers -> Places]
    BY ZenonT(30), <1>12, <2>1 DEF Return, PushBack, Dispose, Types, Places
  <2>5. permits' \in Nat /\ lease' \in [Browsers -> Leases]
    BY <1>12 DEF Return, Dispose, Types, Leases
  <2> QED
    BY <1>12, <2>3, <2>4, <2>5 DEF Return, Leave, Types, Goto, Pcs, Keys
<1>13. ASSUME NEW t \in Tasks, Cancel(t)  PROVE Types'
  BY <1>13 DEF Cancel, Dispose, Leave, Types, Goto, Places, Leases, Pcs, Keys
<1>14. ASSUME NEW b \in Browsers, WarmOne(b)  PROVE Types'
  <2>1. Shared \in Keys /\ Append(queue[Shared], b) \in Seq(Browsers)
    BY <1>q, AppendProperties DEF Keys
  <2>2. queue' \in [Keys -> Seq(Browsers)]
    BY <1>14, <2>1 DEF WarmOne, Types
  <2> QED
    BY <1>14, <2>1, <2>2 DEF WarmOne, Started, Types, taskVars, Places, Leases
<1>15. ASSUME NEW b \in Browsers, Crash(b)  PROVE Types'
  BY <1>15 DEF Crash, Types, taskVars
<1>16. ASSUME NEW b \in Browsers, ShutdownDone(b)  PROVE Types'
  BY <1>16 DEF ShutdownDone, Types, taskVars, Places, Leases, Keys
<1>17. CASE WarmFail
  BY <1>17 DEF WarmFail, Types, taskVars, browserVars
<1>18. ASSUME NEW c \in Contexts, ReleaseContext(c)  PROVE Types'
  <2>1. c \in Keys /\ Len(queue[c]) \in Nat
    BY <1>q DEF Keys
  <2>2. SubSeq(queue[c], Len(queue[c]) + 1, Len(queue[c])) \in Seq(Browsers)
    BY <1>q, <2>1, DropFirst
  <2>3. queue' \in [Keys -> Seq(Browsers)] /\ ripe' \in [Keys -> Nat]
    BY <1>18, <2>1, <2>2 DEF ReleaseContext, Pop, Types
  <2> QED
    BY SMTT(30), <1>18, <2>1, <2>3 DEF ReleaseContext, Dispose, Types, taskVars, Places, Leases
<1>19. ASSUME NEW k \in Keys, Age(k)  PROVE Types'
  BY <1>19 DEF Age, Types, taskVars, browserVars
<1>20. ASSUME NEW n \in [Keys -> 0..MaxSize], Evict(n)  PROVE Types'
  <2> DEFINE gone == {b \in Browsers : \E k \in Keys : \E i \in 1..n[k] : b = queue[k][i]}
  <2>1. \A k \in Keys : n[k] \in Nat /\ n[k] <= ripe[k] /\ n[k] <= Len(queue[k])
    <3>1. \A k \in Keys : n[k] <= ripe[k]
      BY <1>20 DEF Evict
    <3>2. \A k \in Keys : ripe[k] <= Len(queue[k]) /\ ripe[k] \in Nat
      BY DEF QueuesOK, RipeOK, Types
    <3>3. \A k \in Keys : n[k] \in Nat
      OBVIOUS
    <3> QED
      BY <1>q, <3>1, <3>2, <3>3
  <2>2. ASSUME NEW k \in Keys
        PROVE SubSeq(queue[k], n[k] + 1, Len(queue[k])) \in Seq(Browsers)
    BY <1>q, <2>1, DropFirst
  <2>3. queue' \in [Keys -> Seq(Browsers)] /\ ripe' \in [Keys -> Nat]
    <3>1. /\ queue' = [k \in Keys |-> SubSeq(queue[k], n[k] + 1, Len(queue[k]))]
          /\ ripe' = [k \in Keys |-> ripe[k] - n[k]]
      BY <1>20 DEF Evict
    <3>2. \A k \in Keys : ripe[k] - n[k] \in Nat
      BY <2>1 DEF Types
    <3> QED
      BY <2>2, <3>1, <3>2
  <2>4. IsFiniteSet(gone) /\ Cardinality(gone) \in Nat
    <3>1. gone \in SUBSET Browsers
      OBVIOUS
    <3> QED
      BY <3>1, FS_Subset, FS_CardinalityType
  <2>5. active' \in Int
    BY <1>20, <2>4 DEF Evict, Types
  <2> QED
    BY <1>20, <2>3, <2>5 DEF Evict, Dispose, Types, taskVars, Places, Leases
<1> QED
  BY NextCases, <1>1, <1>2, <1>3, <1>4, <1>5, <1>6, <1>7, <1>8, <1>9, <1>10, <1>11,
     <1>12, <1>13, <1>14, <1>15, <1>16, <1>17, <1>18, <1>19, <1>20

LEMMA OwnersInit == Init => HandsOK /\ QueuesOK
<1> SUFFICES ASSUME Init PROVE HandsOK /\ QueuesOK
  OBVIOUS
<1>1. HandsOK
  BY ConstantsAssumption DEF Init, HandsOK
<1>2. \A k \in Keys : Len(queue[k]) = 0 /\ ripe[k] = 0
  BY EmptySeq DEF Init
<1>3. QueuesOK
  BY <1>2 DEF QueuesOK, EntriesOK, NoRepeats, RipeOK
<1> QED
  BY <1>1, <1>3

\* A step that leaves the queues, the queued browsers' place, home and flag
\* alone keeps QueuesOK.
LEMMA QueuesKept ==
  ASSUME Types, QueuesOK, queue' = queue,
         \A k \in Keys : ripe'[k] <= Len(queue[k]),
         \A b \in Browsers : place[b] = "idle" =>
            place'[b] = "idle" /\ home'[b] = home[b] /\ (b \in healthy => b \in healthy')
  PROVE  QueuesOK'
<1>1. \A k \in Keys : \A i \in 1..Len(queue[k]) : queue[k][i] \in Browsers
  BY ElementOfSeq DEF Types
<1> QED
  BY <1>1 DEF QueuesOK, EntriesOK, NoRepeats, RipeOK

\* So does a step that also removes the first n[k] entries of each queue.
LEMMA QueuesCut ==
  ASSUME Types, QueuesOK,
         NEW n, \A k \in Keys : n[k] \in 0..Len(queue[k]),
         queue' = [k \in Keys |-> SubSeq(queue[k], n[k] + 1, Len(queue[k]))],
         \A k \in Keys : ripe'[k] <= Len(queue[k]) - n[k],
         \A k \in Keys : \A i \in (n[k] + 1)..Len(queue[k]) :
            place'[queue[k][i]] = place[queue[k][i]],
         home' = home, healthy' = healthy
  PROVE  QueuesOK'
<1>1. ASSUME NEW k \in Keys
      PROVE  /\ Len(queue[k]) \in Nat
             /\ Len(queue'[k]) = Len(queue[k]) - n[k]
             /\ \A i \in 1..Len(queue'[k]) :
                   /\ queue'[k][i] = queue[k][n[k] + i]
                   /\ n[k] + i \in (n[k] + 1)..Len(queue[k])
                   /\ n[k] + i \in 1..Len(queue[k])
  <2>1. queue[k] \in Seq(Browsers) /\ Len(queue[k]) \in Nat
    BY LenProperties DEF Types
  <2>2. queue'[k] = SubSeq(queue[k], n[k] + 1, Len(queue[k]))
    OBVIOUS
  <2>3. /\ Len(queue'[k]) = Len(queue[k]) - n[k]
        /\ \A i \in 1..(Len(queue[k]) - n[k]) : queue'[k][i] = queue[k][n[k] + i]
    BY <2>1, <2>2, DropFirst
  <2>4. ASSUME NEW i \in 1..(Len(queue[k]) - n[k])
        PROVE  n[k] + i \in (n[k] + 1)..Len(queue[k]) /\ n[k] + i \in 1..Len(queue[k])
    BY <2>1
  <2> QED
    BY <2>1, <2>3, <2>4
<1>2. ASSUME NEW k \in Keys, NEW i \in 1..Len(queue'[k])
      PROVE  place'[queue'[k][i]] = "idle" /\ home'[queue'[k][i]] = k /\ queue'[k][i] \in healthy'
  <2>1. n[k] + i \in 1..Len(queue[k]) /\ queue'[k][i] = queue[k][n[k] + i]
    BY <1>1
  <2>2. place'[queue[k][n[k] + i]] = place[queue[k][n[k] + i]]
    BY <1>1
  <2> QED
    BY SMTT(30), <2>1, <2>2 DEF QueuesOK, EntriesOK, NoRepeats, RipeOK
<1>3. ASSUME NEW k \in Keys, NEW i \in 1..Len(queue'[k]), NEW j \in 1..Len(queue'[k]),
             queue'[k][i] = queue'[k][j]
      PROVE  i = j
  <2>1. /\ n[k] + i \in 1..Len(queue[k]) /\ queue'[k][i] = queue[k][n[k] + i]
        /\ n[k] + j \in 1..Len(queue[k]) /\ queue'[k][j] = queue[k][n[k] + j]
    BY <1>1
  <2>2. n[k] + i = n[k] + j
    <3>1. queue[k][n[k] + i] = queue[k][n[k] + j]
      BY <1>3, <2>1
    <3>2. \A l, m \in 1..Len(queue[k]) : queue[k][l] = queue[k][m] => l = m
      BY DEF QueuesOK, EntriesOK, NoRepeats, RipeOK
    <3> QED
      BY <2>1, <3>1, <3>2
  <2>3. n[k] \in Int /\ i \in Int /\ j \in Int
    BY <1>1
  <2> QED
    BY <2>2, <2>3
<1>4. \A k \in Keys : ripe'[k] <= Len(queue'[k])
  BY <1>1
<1>5. EntriesOK'
  BY SMTT(30), <1>2 DEF EntriesOK
<1>6. NoRepeats'
  BY <1>3 DEF NoRepeats
<1>7. RipeOK'
  BY <1>4 DEF RipeOK
<1> QED
  BY <1>5, <1>6, <1>7 DEF QueuesOK

\* And one that appends an idle, healthy browser to the queue of its home.
LEMMA QueuesGrown ==
  ASSUME Types, QueuesOK, NEW b \in Browsers, NEW k \in Keys,
         place[b] # "idle",
         queue' = [queue EXCEPT ![k] = Append(@, b)], ripe' = ripe,
         place' = [place EXCEPT ![b] = "idle"],
         home'[b] = k, \A c \in Browsers \ {b} : home'[c] = home[c],
         b \in healthy', healthy \subseteq healthy'
  PROVE  QueuesOK'
<1>1. \A j \in Keys : queue[j] \in Seq(Browsers) /\ Len(queue[j]) \in Nat
  BY LenProperties DEF Types
<1>2. \A j \in Keys : \A i \in 1..Len(queue[j]) : queue[j][i] \in Browsers \ {b}
  BY <1>1, ElementOfSeq DEF QueuesOK, EntriesOK, NoRepeats, RipeOK
<1>3. /\ Len(queue'[k]) = Len(queue[k]) + 1
      /\ \A i \in 1..Len(queue[k]) : queue'[k][i] = queue[k][i]
      /\ queue'[k][Len(queue[k]) + 1] = b
  <2>1. queue'[k] = Append(queue[k], b)
    BY DEF Types
  <2> QED
    BY <1>1, <2>1, AppendProperties
<1>4. \A j \in Keys \ {k} : queue'[j] = queue[j]
  BY DEF Types
<1>5. \A c \in Browsers \ {b} : place'[c] = place[c]
  BY DEF Types
<1>6. ASSUME NEW j \in Keys, NEW i \in 1..Len(queue'[j])
      PROVE  place'[queue'[j][i]] = "idle" /\ home'[queue'[j][i]] = j /\ queue'[j][i] \in healthy'
  <2>1. CASE j # k
    BY <1>2, <1>4, <1>5, <2>1 DEF QueuesOK, EntriesOK, NoRepeats, RipeOK
  <2>2. CASE j = k /\ i = Len(queue[k]) + 1
    BY <1>3, <2>2 DEF Types
  <2>3. CASE j = k /\ i # Len(queue[k]) + 1
    <3>1. i \in 1..Len(queue[k])
      BY <1>1, <1>3, <2>3
    <3> QED
      BY <1>2, <1>3, <1>5, <2>3, <3>1 DEF QueuesOK, EntriesOK, NoRepeats, RipeOK
  <2> QED
    BY <2>1, <2>2, <2>3
<1>7. ASSUME NEW j \in Keys, NEW m \in 1..Len(queue'[j]), NEW n \in 1..Len(queue'[j]),
             queue'[j][m] = queue'[j][n]
      PROVE  m = n
  <2>1. CASE j # k
    BY <1>4, <1>7, <2>1 DEF QueuesOK, EntriesOK, NoRepeats, RipeOK
  <2>2. CASE j = k
    <3>1. m \in 1..(Len(queue[k]) + 1) /\ n \in 1..(Len(queue[k]) + 1)
      BY <1>3, <2>2
    <3>2. CASE m \in 1..Len(queue[k]) /\ n \in 1..Len(queue[k])
      BY <1>3, <1>7, <2>2, <3>2 DEF QueuesOK, EntriesOK, NoRepeats, RipeOK
    <3>3. CASE m \notin 1..Len(queue[k]) \/ n \notin 1..Len(queue[k])
      <4>0. \A l \in Nat : \A i \in 1..(l + 1) : i \notin 1..l => i = l + 1
        OBVIOUS
      <4>1. m = Len(queue[k]) + 1 \/ n = Len(queue[k]) + 1
        BY <1>1, <3>1, <3>3, <4>0
      <4> QED
        BY <1>1, <1>2, <1>3, <1>7, <2>2, <3>1, <4>1
    <3> QED
      BY <3>2, <3>3
  <2> QED
    BY <2>1, <2>2
<1>8. \A j \in Keys : ripe'[j] <= Len(queue'[j])
  BY <1>1, <1>3, <1>4 DEF QueuesOK, EntriesOK, NoRepeats, RipeOK, Types
<1> QED
  BY <1>6, <1>7, <1>8 DEF QueuesOK, EntriesOK, NoRepeats, RipeOK

LEMMA QueuesNext ==
  ASSUME Types, HandsOK, QueuesOK, Types', [Next]_vars
  PROVE  QueuesOK'
<1> USE ConstantsAssumption
<1>q. \A k \in Keys : /\ queue[k] \in Seq(Browsers) /\ Len(queue[k]) \in Nat
                      /\ ripe[k] \in Nat /\ ripe[k] <= Len(queue[k])
  BY LenProperties DEF Types, QueuesOK, RipeOK
<1>1. CASE UNCHANGED vars
  BY <1>1 DEF vars, QueuesOK, EntriesOK, NoRepeats, RipeOK
<1>2. ASSUME NEW t \in Tasks, NEW k \in Keys, Begin(t, k)  PROVE QueuesOK'
  BY <1>2, <1>q, QueuesKept DEF Begin, browserVars
<1>3. ASSUME NEW t \in Tasks, Take(t)  PROVE QueuesOK'
  <2> DEFINE k0 == key[t]
             q == queue[k0]
             n == [k \in Keys |-> IF k = k0 THEN 1 ELSE 0]
  <2>1. k0 \in Keys /\ q \in Seq(Browsers) /\ Len(q) \in Nat /\ Len(q) > 0
    BY <1>3, <1>q DEF Take, Types
  <2>n. n[k0] = 1 /\ \A k \in Keys : k # k0 => n[k] = 0
    BY <2>1
  <2> HIDE DEF n
  <2>2. \A k \in Keys : n[k] \in 0..Len(queue[k])
    BY <1>q, <2>1, <2>n
  <2>3. \A k \in Keys : queue'[k] = SubSeq(queue[k], n[k] + 1, Len(queue[k]))
    <3>1. ASSUME NEW k \in Keys, k # k0
          PROVE  queue'[k] = SubSeq(queue[k], 1, Len(queue[k]))
      BY <1>3, <1>q, <3>1, SubSeqFull DEF Take, Types
    <3>2. queue'[k0] = SubSeq(q, 2, Len(q))
      BY <1>3, <2>1 DEF Take, Types
    <3>3. 0 + 1 = 1 /\ 1 + 1 = 2
      OBVIOUS
    <3> QED
      BY <2>n, <3>1, <3>2, <3>3
  <2>4. queue' = [k \in Keys |-> SubSeq(queue[k], n[k] + 1, Len(queue[k]))]
    BY <2>3 DEF Types
  <2>5. \A k \in Keys : ripe'[k] <= Len(queue[k]) - n[k]
    <3>1. ASSUME NEW k \in Keys, k # k0  PROVE ripe'[k] = ripe[k]
      BY <1>3, <3>1 DEF Take, Types
    <3>2. ripe'[k0] = IF ripe[k0] < 1 THEN 0 ELSE ripe[k0] - 1
      BY <1>3, <2>1 DEF Take, Types
    <3> QED
      BY <1>q, <2>1, <2>n, <3>1, <3>2
  <2>6. \A k \in Keys : \A i \in (n[k] + 1)..Len(queue[k]) : queue[k][i] # q[1]
    <3>1. ASSUME NEW k \in Keys, k # k0, NEW i \in 1..Len(queue[k])
          PROVE  queue[k][i] # q[1]
      BY <2>1, <3>1 DEF QueuesOK, EntriesOK
    <3>2. ASSUME NEW i \in 2..Len(q)  PROVE q[i] # q[1]
      <4>1. i \in 1..Len(q) /\ 1 \in 1..Len(q) /\ i # 1
        BY <2>1
      <4> QED
        BY <2>1, <4>1 DEF QueuesOK, NoRepeats
    <3> QED
      BY <2>1, <2>n, <3>1, <3>2
  <2>7. \A k \in Keys : \A i \in (n[k] + 1)..Len(queue[k]) :
           place'[queue[k][i]] = place[queue[k][i]]
    <3>1. ASSUME NEW k \in Keys, NEW i \in (n[k] + 1)..Len(queue[k])
          PROVE  queue[k][i] \in Browsers
      BY <1>q, <2>2, ElementOfSeq
    <3> QED
      BY <1>3, <2>6, <3>1 DEF Take, Types
  <2> QED
    BY <1>3, <2>2, <2>4, <2>5, <2>7, QueuesCut DEF Take
<1>4. ASSUME NEW t \in Tasks, Miss(t)  PROVE QueuesOK'
  BY <1>4, <1>q, QueuesKept DEF Miss, browserVars
<1>5. ASSUME NEW t \in Tasks, TakePermit(t)  PROVE QueuesOK'
  BY <1>5, <1>q, QueuesKept DEF TakePermit, browserVars
<1>6. ASSUME NEW t \in Tasks, Exhausted(t)  PROVE QueuesOK'
  BY <1>6, <1>q, QueuesKept DEF Exhausted, browserVars
<1>7. ASSUME NEW t \in Tasks, BindOk(t)  PROVE QueuesOK'
  BY <1>7, <1>q, QueuesKept DEF BindOk, browserVars
<1>8. ASSUME NEW t \in Tasks, LaunchErr(t)  PROVE QueuesOK'
  BY <1>8, <1>q, QueuesKept DEF LaunchErr, browserVars
<1>9. ASSUME NEW t \in Tasks, NEW b \in Browsers, LaunchOk(t, b)  PROVE QueuesOK'
  <2>1. \A c \in Browsers : place[c] = "idle" =>
           place'[c] = "idle" /\ home'[c] = home[c] /\ (c \in healthy => c \in healthy')
    BY <1>9 DEF LaunchOk, Started, Fresh, Types
  <2> QED
    BY <1>9, <1>q, <2>1, QueuesKept DEF LaunchOk
<1>10. ASSUME NEW t \in Tasks, HealthCheck(t)  PROVE QueuesOK'
  <2>1. hand[t] \in Browsers /\ place[hand[t]] = "held"
    BY <1>10 DEF HealthCheck, HandsOK, Types
  <2>2. \A c \in Browsers : place[c] = "idle" => (c \in healthy => c \in healthy')
    BY <1>10, <2>1 DEF HealthCheck
  <2> QED
    BY <1>10, <1>q, <2>2, QueuesKept DEF HealthCheck
<1>11. ASSUME NEW t \in Tasks, ReleaseBegin(t)  PROVE QueuesOK'
  <2>1. hand[t] \in Browsers /\ place[hand[t]] = "held"
    BY <1>11 DEF ReleaseBegin, HandsOK, Types
  <2>2. \A c \in Browsers : place[c] = "idle" => place'[c] = "idle"
    BY <1>11, <2>1 DEF ReleaseBegin, Dispose
  <2> QED
    BY <1>11, <1>q, <2>2, QueuesKept DEF ReleaseBegin
<1>12. ASSUME NEW t \in Tasks, Return(t)  PROVE QueuesOK'
  <2> DEFINE b == hand[t]
  <2>1. /\ b \in Browsers /\ place[b] = "held" /\ home[b] = key[t]
        /\ b \in healthy /\ key[t] \in Keys
    BY <1>12 DEF Return, HandsOK, Types
  <2>2. CASE Cardinality(Idle) < MaxSize
    <3>1. PushBack(b, key[t])
      BY <1>12, <2>2 DEF Return
    <3> QED
      BY <1>12, <2>1, <3>1, QueuesGrown DEF Return, PushBack
  <2>3. CASE ~(Cardinality(Idle) < MaxSize)
    <3>1. \A c \in Browsers : place[c] = "idle" => place'[c] = "idle"
      BY <1>12, <2>1, <2>3 DEF Return, Dispose
    <3> QED
      BY <1>12, <1>q, <2>3, <3>1, QueuesKept DEF Return
  <2> QED
    BY <2>2, <2>3
<1>13. ASSUME NEW t \in Tasks, Cancel(t)  PROVE QueuesOK'
  <2>1. \A c \in Browsers : place[c] = "idle" => place'[c] = "idle"
    BY <1>13 DEF Cancel, Dispose, HandsOK
  <2> QED
    BY <1>13, <1>q, <2>1, QueuesKept DEF Cancel
<1>14. ASSUME NEW b \in Browsers, WarmOne(b)  PROVE QueuesOK'
  <2>1. /\ Shared \in Keys /\ place[b] # "idle"
        /\ home'[b] = Shared /\ \A c \in Browsers \ {b} : home'[c] = home[c]
        /\ healthy' = healthy \cup {b}
    BY <1>14 DEF WarmOne, Started, Fresh, Keys, Types
  <2>2. /\ queue' = [queue EXCEPT ![Shared] = Append(@, b)] /\ ripe' = ripe
        /\ place' = [place EXCEPT ![b] = "idle"]
    BY <1>14 DEF WarmOne, Started
  <2>3. b \in healthy' /\ healthy \subseteq healthy'
    BY <2>1
  <2> QED
    BY <2>1, <2>2, <2>3, QueuesGrown
<1>15. ASSUME NEW b \in Browsers, Crash(b)  PROVE QueuesOK'
  BY <1>15, <1>q, QueuesKept DEF Crash
<1>16. ASSUME NEW b \in Browsers, ShutdownDone(b)  PROVE QueuesOK'
  <2>1. \A c \in Browsers : place[c] = "idle" =>
           place'[c] = "idle" /\ home'[c] = home[c] /\ (c \in healthy => c \in healthy')
    BY <1>16 DEF ShutdownDone, Types
  <2> QED
    BY <1>16, <1>q, <2>1, QueuesKept DEF ShutdownDone
<1>17. CASE WarmFail
  BY <1>17, <1>q, QueuesKept DEF WarmFail, browserVars
<1>18. ASSUME NEW c \in Contexts, ReleaseContext(c)  PROVE QueuesOK'
  <2> DEFINE q == queue[c]
             n == [k \in Keys |-> IF k = c THEN Len(q) ELSE 0]
  <2>1. c \in Keys /\ q \in Seq(Browsers) /\ Len(q) \in Nat /\ DOMAIN q = 1..Len(q)
    BY <1>q, LenProperties DEF Keys
  <2>n. n[c] = Len(q) /\ \A k \in Keys : k # c => n[k] = 0
    BY <2>1
  <2> HIDE DEF n
  <2>2. \A k \in Keys : n[k] \in 0..Len(queue[k])
    BY <1>q, <2>1, <2>n
  <2>3. \A k \in Keys : queue'[k] = SubSeq(queue[k], n[k] + 1, Len(queue[k]))
    <3>1. ASSUME NEW k \in Keys, k # c
          PROVE  queue'[k] = SubSeq(queue[k], 1, Len(queue[k]))
      BY <1>18, <1>q, <3>1, SubSeqFull DEF ReleaseContext, Pop, Types
    <3>2. queue'[c] = SubSeq(q, Len(q) + 1, Len(q))
      BY <1>18, <2>1 DEF ReleaseContext, Pop, Types
    <3>3. 0 + 1 = 1 /\ 1 + 1 = 2
      OBVIOUS
    <3> QED
      BY <2>n, <3>1, <3>2, <3>3
  <2>4. queue' = [k \in Keys |-> SubSeq(queue[k], n[k] + 1, Len(queue[k]))]
    BY <2>3 DEF Types
  <2>5. \A k \in Keys : ripe'[k] <= Len(queue[k]) - n[k]
    <3>1. ASSUME NEW k \in Keys, k # c  PROVE ripe'[k] = ripe[k]
      BY <1>18, <3>1 DEF ReleaseContext, Pop, Types
    <3>2. ripe'[c] = IF ripe[c] < Len(q) THEN 0 ELSE ripe[c] - Len(q)
      BY <1>18, <2>1 DEF ReleaseContext, Pop, Types
    <3> QED
      BY <1>q, <2>1, <2>n, <3>1, <3>2
  <2>6. \A k \in Keys : \A i \in (n[k] + 1)..Len(queue[k]) :
           queue[k][i] \in Browsers \ Elements(q)
    <3>1. ASSUME NEW k \in Keys, NEW i \in (n[k] + 1)..Len(queue[k])
          PROVE  k # c /\ i \in 1..Len(queue[k])
      BY <1>q, <2>1, <2>2, <2>n
    <3>2. \A e \in Elements(q) : home[e] = c
      BY <2>1 DEF Elements, QueuesOK, EntriesOK
    <3> QED
      BY <1>q, <3>1, <3>2, ElementOfSeq DEF QueuesOK, EntriesOK
  <2>7. \A k \in Keys : \A i \in (n[k] + 1)..Len(queue[k]) :
           place'[queue[k][i]] = place[queue[k][i]]
    BY <1>18, <2>6 DEF ReleaseContext, Dispose
  <2> QED
    BY <1>18, <2>2, <2>4, <2>5, <2>7, QueuesCut DEF ReleaseContext
<1>19. ASSUME NEW k \in Keys, Age(k)  PROVE QueuesOK'
  <2>1. \A j \in Keys : ripe'[j] <= Len(queue[j])
    BY <1>19, <1>q DEF Age, Types
  <2> QED
    BY <1>19, <2>1, QueuesKept DEF Age, browserVars
<1>20. ASSUME NEW n \in [Keys -> 0..MaxSize], Evict(n)  PROVE QueuesOK'
  <2> DEFINE gone == {b \in Browsers : \E k \in Keys : \E i \in 1..n[k] : b = queue[k][i]}
  <2>1. \A k \in Keys : n[k] <= ripe[k] /\ n[k] \in Nat
    BY <1>20 DEF Evict
  <2>2. \A k \in Keys : n[k] \in 0..Len(queue[k])
    BY <1>q, <2>1
  <2>3. \A k \in Keys : ripe'[k] <= Len(queue[k]) - n[k]
    <3>1. \A k \in Keys : ripe'[k] = ripe[k] - n[k]
      BY <1>20 DEF Evict
    <3> QED
      BY <1>q, <2>1, <3>1
  <2>4. ASSUME NEW k \in Keys, NEW i \in (n[k] + 1)..Len(queue[k])
        PROVE  queue[k][i] \in Browsers \ gone
    <3>1. i \in 1..Len(queue[k])
      BY <1>q, <2>1
    <3>2. ASSUME NEW j \in Keys, NEW m \in 1..n[j], queue[k][i] = queue[j][m]
          PROVE  FALSE
      <4>1. m \in 1..Len(queue[j])
        BY <1>q, <2>2
      <4>2. j = k
        BY SMTT(30), <3>1, <3>2, <4>1 DEF QueuesOK, EntriesOK
      <4>3. m = i
        BY <3>1, <3>2, <4>1, <4>2 DEF QueuesOK, NoRepeats
      <4> QED
        BY <1>q, <2>1, <4>2, <4>3
    <3> QED
      BY <1>q, <3>1, <3>2, ElementOfSeq
  <2>5. \A k \in Keys : \A i \in (n[k] + 1)..Len(queue[k]) :
           place'[queue[k][i]] = place[queue[k][i]]
    <3>1. place' = [b \in Browsers |-> IF b \in gone THEN "closing" ELSE place[b]]
      BY <1>20 DEF Evict, Dispose
    <3> HIDE DEF gone
    <3> QED
      BY <2>4, <3>1
  <2>6. queue' = [k \in Keys |-> SubSeq(queue[k], n[k] + 1, Len(queue[k]))]
    BY <1>20 DEF Evict
  <2>7. home' = home /\ healthy' = healthy
    BY <1>20 DEF Evict
  <2> QED
    BY <2>2, <2>3, <2>5, <2>6, <2>7, QueuesCut
<1> QED
  BY NextCases, <1>1, <1>2, <1>3, <1>4, <1>5, <1>6, <1>7, <1>8, <1>9, <1>10, <1>11,
     <1>12, <1>13, <1>14, <1>15, <1>16, <1>17, <1>18, <1>19, <1>20

\* A step that changes no hand, and nothing about a browser in a hand.
LEMMA HandsKept ==
  ASSUME Types, HandsOK, hand' = hand,
         \A t \in Tasks : pc'[t] \in {"using", "returning"} <=> pc[t] \in {"using", "returning"},
         \A t \in Tasks : hand[t] # NoBrowser =>
            /\ place'[hand[t]] = "held" /\ home'[hand[t]] = home[hand[t]]
            /\ key'[t] = key[t],
         \A t \in Tasks : pc'[t] = "returning" => hand[t] \in healthy'
  PROVE  HandsOK'
BY DEF HandsOK

\* A task with an empty hand takes a browser that is in no hand.
LEMMA HandsTake ==
  ASSUME Types, HandsOK, NEW t \in Tasks, NEW b \in Browsers,
         pc[t] \notin {"using", "returning"}, place[b] # "held",
         hand' = [hand EXCEPT ![t] = b], pc' = [pc EXCEPT ![t] = "using"],
         place' = [place EXCEPT ![b] = "held"], key' = key,
         home'[b] = key[t], \A c \in Browsers \ {b} : home'[c] = home[c],
         healthy \subseteq healthy'
  PROVE  HandsOK'
<1>1. b # NoBrowser /\ hand[t] = NoBrowser /\ \A s \in Tasks : hand[s] # b
  BY ConstantsAssumption DEF HandsOK
<1>2. /\ hand'[t] = b /\ pc'[t] = "using" /\ place'[b] = "held"
      /\ \A s \in Tasks \ {t} : hand'[s] = hand[s] /\ pc'[s] = pc[s]
      /\ \A c \in Browsers \ {b} : place'[c] = place[c]
  BY DEF Types
<1>3. \A s \in Tasks : hand'[s] # NoBrowser =>
         place'[hand'[s]] = "held" /\ home'[hand'[s]] = key'[s]
  BY <1>1, <1>2 DEF HandsOK, Types
<1>4. \A r, s \in Tasks : hand'[r] = hand'[s] /\ hand'[r] # NoBrowser => r = s
  BY <1>1, <1>2 DEF HandsOK
<1>5. \A s \in Tasks : /\ hand'[s] # NoBrowser <=> pc'[s] \in {"using", "returning"}
                       /\ pc'[s] = "returning" => hand'[s] \in healthy'
  BY <1>1, <1>2 DEF HandsOK
<1> QED
  BY <1>3, <1>4, <1>5 DEF HandsOK

\* A task empties its hand; no browser in another hand moves.
LEMMA HandsLeave ==
  ASSUME Types, HandsOK, NEW t \in Tasks, Leave(t),
         \A c \in Browsers \ {hand[t]} : place[c] = "held" => place'[c] = "held",
         home' = home, healthy' = healthy
  PROVE  HandsOK'
<1>1. /\ hand'[t] = NoBrowser /\ pc'[t] = "out"
      /\ \A s \in Tasks \ {t} : hand'[s] = hand[s] /\ pc'[s] = pc[s] /\ key'[s] = key[s]
  BY DEF Leave, Goto, Types
<1>2. \A s \in Tasks \ {t} : hand[s] # NoBrowser => hand[s] \in Browsers \ {hand[t]}
  BY DEF HandsOK, Types
<1>3. \A s \in Tasks : hand'[s] # NoBrowser =>
         place'[hand'[s]] = "held" /\ home'[hand'[s]] = key'[s]
  BY <1>1, <1>2 DEF HandsOK
<1>4. \A r, s \in Tasks : hand'[r] = hand'[s] /\ hand'[r] # NoBrowser => r = s
  BY <1>1 DEF HandsOK
<1>5. \A s \in Tasks : /\ hand'[s] # NoBrowser <=> pc'[s] \in {"using", "returning"}
                       /\ pc'[s] = "returning" => hand'[s] \in healthy'
  BY <1>1 DEF HandsOK
<1> QED
  BY <1>3, <1>4, <1>5 DEF HandsOK

LEMMA HandsNext ==
  ASSUME Types, HandsOK, QueuesOK, [Next]_vars
  PROVE  HandsOK'
<1> USE ConstantsAssumption
<1>q. \A k \in Keys : queue[k] \in Seq(Browsers) /\ Len(queue[k]) \in Nat
  BY LenProperties DEF Types
<1>h. \A t \in Tasks : /\ hand[t] # NoBrowser => hand[t] \in Browsers /\ place[hand[t]] = "held"
                       /\ pc[t] = "returning" => hand[t] \in healthy
  BY DEF HandsOK, Types
<1>1. CASE UNCHANGED vars
  BY <1>1 DEF vars, HandsOK
<1>2. ASSUME NEW t \in Tasks, NEW k \in Keys, Begin(t, k)  PROVE HandsOK'
  <2>1. hand[t] = NoBrowser
    BY <1>2 DEF Begin, HandsOK
  <2> QED
    BY <1>2, <1>h, <2>1, HandsKept DEF Begin, Goto, browserVars, Types
<1>3. ASSUME NEW t \in Tasks, Take(t)  PROVE HandsOK'
  <2> DEFINE q == queue[key[t]]
  <2>1. key[t] \in Keys /\ 1 \in 1..Len(q) /\ q[1] \in Browsers
    BY <1>3, <1>q, ElementOfSeq DEF Take, Types
  <2>2. place[q[1]] = "idle" /\ home[q[1]] = key[t]
    BY <2>1 DEF QueuesOK, EntriesOK
  <2> QED
    BY <1>3, <2>1, <2>2, HandsTake DEF Take
<1>4. ASSUME NEW t \in Tasks, Miss(t)  PROVE HandsOK'
  BY <1>4, <1>h, HandsKept DEF Miss, browserVars, Types
<1>5. ASSUME NEW t \in Tasks, TakePermit(t)  PROVE HandsOK'
  BY <1>5, <1>h, HandsKept DEF TakePermit, Goto, browserVars, Types
<1>6. ASSUME NEW t \in Tasks, Exhausted(t)  PROVE HandsOK'
  BY <1>6, HandsLeave DEF Exhausted, browserVars
<1>7. ASSUME NEW t \in Tasks, BindOk(t)  PROVE HandsOK'
  BY <1>7, <1>h, HandsKept DEF BindOk, Goto, browserVars, Types
<1>8. ASSUME NEW t \in Tasks, LaunchErr(t)  PROVE HandsOK'
  BY <1>8, HandsLeave DEF LaunchErr, browserVars
<1>9. ASSUME NEW t \in Tasks, NEW b \in Browsers, LaunchOk(t, b)  PROVE HandsOK'
  BY <1>9, HandsTake DEF LaunchOk, Started, Fresh, Goto, Types
<1>10. ASSUME NEW t \in Tasks, HealthCheck(t)  PROVE HandsOK'
  <2>1. \A s \in Tasks : pc[s] = "returning" => hand[s] # hand[t]
    BY <1>10 DEF HealthCheck, HandsOK
  <2>2. \A s \in Tasks : pc[s] = "returning" => hand[s] \in healthy'
    BY <1>10, <1>h, <2>1 DEF HealthCheck
  <2> QED
    BY <1>10, <1>h, <2>2, HandsKept DEF HealthCheck, taskVars
<1>11. ASSUME NEW t \in Tasks, ReleaseBegin(t)  PROVE HandsOK'
  <2>1. CASE hand[t] \in healthy
    <3>1. pc' = [pc EXCEPT ![t] = "returning"]
      BY <1>11, <2>1 DEF ReleaseBegin, Goto
    <3>2. pc[t] = "using"
      BY <1>11 DEF ReleaseBegin
    <3> QED
      BY <1>11, <1>h, <2>1, <3>1, <3>2, HandsKept DEF ReleaseBegin, Types
  <2>2. CASE hand[t] \notin healthy
    <3>1. \A c \in Browsers \ {hand[t]} : place'[c] = place[c]
      BY <1>11, <2>2 DEF ReleaseBegin, Dispose
    <3> QED
      BY <1>11, <2>2, <3>1, HandsLeave DEF ReleaseBegin
  <2> QED
    BY <2>1, <2>2
<1>12. ASSUME NEW t \in Tasks, Return(t)  PROVE HandsOK'
  <2>1. \A c \in Browsers \ {hand[t]} : place'[c] = place[c]
    BY <1>12 DEF Return, PushBack, Dispose, Types
  <2> QED
    BY <1>12, <2>1, HandsLeave DEF Return
<1>13. ASSUME NEW t \in Tasks, Cancel(t)  PROVE HandsOK'
  <2>1. \A c \in Browsers \ {hand[t]} : place'[c] = place[c]
    BY <1>13 DEF Cancel, Dispose
  <2> QED
    BY <1>13, <2>1, HandsLeave DEF Cancel
<1>14. ASSUME NEW b \in Browsers, WarmOne(b)  PROVE HandsOK'
  BY <1>14, <1>h, HandsKept DEF WarmOne, Started, Fresh, taskVars, Types
<1>15. ASSUME NEW b \in Browsers, Crash(b)  PROVE HandsOK'
  BY <1>15, <1>h, HandsKept DEF Crash, taskVars
<1>16. ASSUME NEW b \in Browsers, ShutdownDone(b)  PROVE HandsOK'
  BY <1>16, <1>h, HandsKept DEF ShutdownDone, taskVars, Types
<1>17. CASE WarmFail
  BY <1>17, <1>h, HandsKept DEF WarmFail, browserVars, taskVars
<1>18. ASSUME NEW c \in Contexts, ReleaseContext(c)  PROVE HandsOK'
  <2>1. \A e \in Elements(queue[c]) : place[e] = "idle"
    BY <1>q, LenProperties DEF Elements, QueuesOK, EntriesOK, Keys
  <2>2. \A b \in Browsers : place[b] = "held" => place'[b] = "held"
    BY <1>18, <2>1 DEF ReleaseContext, Dispose
  <2> QED
    BY <1>18, <1>h, <2>2, HandsKept DEF ReleaseContext, taskVars
<1>19. ASSUME NEW k \in Keys, Age(k)  PROVE HandsOK'
  BY <1>19, <1>h, HandsKept DEF Age, browserVars, taskVars
<1>20. ASSUME NEW n \in [Keys -> 0..MaxSize], Evict(n)  PROVE HandsOK'
  <2> DEFINE gone == {b \in Browsers : \E k \in Keys : \E i \in 1..n[k] : b = queue[k][i]}
  <2>1. ASSUME NEW k \in Keys, NEW i \in 1..n[k]  PROVE place[queue[k][i]] = "idle"
    <3>1. n[k] \in Nat /\ n[k] <= ripe[k] /\ ripe[k] \in Nat /\ ripe[k] <= Len(queue[k])
      BY <1>20 DEF Evict, QueuesOK, RipeOK, Types
    <3>2. i \in 1..Len(queue[k])
      BY <1>q, <3>1
    <3> QED
      BY <3>2 DEF QueuesOK, EntriesOK
  <2>2. \A b \in gone : place[b] = "idle"
    BY <2>1
  <2>3. /\ place' = [b \in Browsers |-> IF b \in gone THEN "closing" ELSE place[b]]
        /\ UNCHANGED <<healthy, home, taskVars>>
    BY <1>20 DEF Evict, Dispose
  <2> HIDE DEF gone
  <2>4. \A b \in Browsers : place[b] = "held" => place'[b] = "held"
    BY <2>2, <2>3
  <2> QED
    BY <1>h, <2>3, <2>4, HandsKept DEF taskVars
<1> QED
  BY NextCases, <1>1, <1>2, <1>3, <1>4, <1>5, <1>6, <1>7, <1>8, <1>9, <1>10, <1>11,
     <1>12, <1>13, <1>14, <1>15, <1>16, <1>17, <1>18, <1>19, <1>20

-----------------------------------------------------------------------------
(***************************************************************************)
(* Counting                                                                *)
(***************************************************************************)
Spent == permits + Cardinality(Launching) + Cardinality(Managed)
Gap   == active - Cardinality(Launching) - Cardinality(Counted)

LEMMA Sizes ==
  /\ IsFiniteSet(Launching) /\ Cardinality(Launching) \in Nat
  /\ IsFiniteSet(Managed) /\ Cardinality(Managed) \in Nat
  /\ IsFiniteSet(Counted) /\ Cardinality(Counted) \in Nat
  /\ IsFiniteSet(Idle) /\ Cardinality(Idle) \in Nat
<1>1. /\ Launching \in SUBSET Tasks /\ Managed \in SUBSET Browsers
      /\ Counted \in SUBSET Browsers /\ Idle \in SUBSET Browsers
  BY DEF Launching, Managed, Counted, Idle
<1>2. IsFiniteSet(Tasks) /\ IsFiniteSet(Browsers)
  BY ConstantsAssumption
<1> QED
  BY <1>1, <1>2, FS_Subset, FS_CardinalityType

\* No step spends more than it hands back, and only a dropped future leaves
\* the counter above what it stands for.
LEMMA CountsNext ==
  ASSUME Types, HandsOK, QueuesOK, Types', [Next]_vars
  PROVE  Spent' <= Spent /\ Gap' >= Gap /\ (~MayCancel => Gap' = Gap)
<1> DEFINE Goal == Spent' <= Spent /\ Gap' >= Gap /\ (~MayCancel => Gap' = Gap)
<1>s. /\ IsFiniteSet(Launching) /\ Cardinality(Launching) \in Nat
      /\ IsFiniteSet(Managed) /\ Cardinality(Managed) \in Nat
      /\ IsFiniteSet(Counted) /\ Cardinality(Counted) \in Nat
  BY Sizes
<1>t. permits \in Nat /\ active \in Int /\ permits' \in Nat /\ active' \in Int
  BY DEF Types
<1>same. ASSUME Launching' = Launching, Managed' = Managed, Counted' = Counted,
                permits' = permits, active' = active
         PROVE  Goal
  BY <1>same, <1>s, <1>t DEF Spent, Gap
<1>h. \A t \in Tasks : hand[t] # NoBrowser => hand[t] \in Browsers /\ place[hand[t]] = "held"
  BY DEF HandsOK, Types
<1>q. \A k \in Keys : queue[k] \in Seq(Browsers) /\ Len(queue[k]) \in Nat
  BY LenProperties DEF Types
<1> SUFFICES Goal
  OBVIOUS
<1> HIDE DEF Goal
<1>1. CASE UNCHANGED vars
  BY <1>1, <1>same DEF vars, Launching, Managed, Counted
<1>2. ASSUME NEW t \in Tasks, NEW k \in Keys, Begin(t, k)  PROVE Goal
  BY <1>2, <1>same DEF Begin, Goto, browserVars, Launching, Managed, Counted, Types
<1>3. ASSUME NEW t \in Tasks, Take(t)  PROVE Goal
  <2> DEFINE q == queue[key[t]]
  <2>1. key[t] \in Keys /\ 1 \in 1..Len(q) /\ q[1] \in Browsers
    BY <1>3, <1>q, ElementOfSeq DEF Take, Types
  <2>2. place[q[1]] = "idle"
    BY <2>1 DEF QueuesOK, EntriesOK
  <2> QED
    BY SMTT(30), <1>3, <2>1, <2>2, <1>same DEF Take, Launching, Managed, Counted, Types
<1>4. ASSUME NEW t \in Tasks, Miss(t)  PROVE Goal
  BY <1>4, <1>same DEF Miss, browserVars, Launching, Managed, Counted, Types
<1>5. ASSUME NEW t \in Tasks, TakePermit(t)  PROVE Goal
  <2>1. /\ Launching' = Launching \cup {t} /\ t \notin Launching
        /\ Managed' = Managed /\ Counted' = Counted
    BY <1>5 DEF TakePermit, Goto, browserVars, Launching, Managed, Counted, Types
  <2>2. Cardinality(Launching') = Cardinality(Launching) + 1
    BY <1>s, <2>1, FS_AddElement
  <2>3. permits' = permits - 1 /\ active' = active + 1
    BY <1>5 DEF TakePermit
  <2> QED
    BY <1>s, <1>t, <2>1, <2>2, <2>3 DEF Goal, Spent, Gap
<1>6. ASSUME NEW t \in Tasks, Exhausted(t)  PROVE Goal
  BY <1>6, <1>same DEF Exhausted, Leave, Goto, browserVars, Launching, Managed, Counted, Types
<1>7. ASSUME NEW t \in Tasks, BindOk(t)  PROVE Goal
  BY <1>7, <1>same DEF BindOk, Goto, browserVars, Launching, Managed, Counted, Types
<1>8. ASSUME NEW t \in Tasks, LaunchErr(t)  PROVE Goal
  <2>1. /\ Launching' = Launching \ {t} /\ t \in Launching
        /\ Managed' = Managed /\ Counted' = Counted
    BY <1>8 DEF LaunchErr, Leave, Goto, browserVars, Launching, Managed, Counted, Types
  <2>2. Cardinality(Launching') = Cardinality(Launching) - 1
    BY <1>s, <2>1, FS_RemoveElement
  <2>3. permits' = permits + 1 /\ active' = active - 1
    BY <1>8 DEF LaunchErr
  <2> QED
    BY <1>s, <1>t, <2>1, <2>2, <2>3 DEF Goal, Spent, Gap
<1>9. ASSUME NEW t \in Tasks, NEW b \in Browsers, LaunchOk(t, b)  PROVE Goal
  <2>1. /\ Launching' = Launching \ {t} /\ t \in Launching
        /\ Managed' = Managed \cup {b} /\ b \notin Managed
        /\ Counted' = Counted \cup {b} /\ b \notin Counted
    BY <1>9 DEF LaunchOk, Started, Fresh, Goto, Launching, Managed, Counted, Types
  <2>2. /\ Cardinality(Launching') = Cardinality(Launching) - 1
        /\ Cardinality(Managed') = Cardinality(Managed) + 1
        /\ Cardinality(Counted') = Cardinality(Counted) + 1
    BY <1>s, <2>1, FS_AddElement, FS_RemoveElement
  <2>3. permits' = permits /\ active' = active
    BY <1>9 DEF LaunchOk
  <2> QED
    BY <1>s, <1>t, <2>2, <2>3 DEF Goal, Spent, Gap
<1>10. ASSUME NEW t \in Tasks, HealthCheck(t)  PROVE Goal
  BY <1>10, <1>same DEF HealthCheck, taskVars, Launching, Managed, Counted
<1>out. ASSUME NEW t \in Tasks, hand[t] \in Browsers, place[hand[t]] = "held",
               Launching' = Launching,
               place' = [b \in Browsers |-> IF b \in {hand[t]} THEN "owed" ELSE place[b]],
               permits' = permits + 1, active' = active
        PROVE  Goal
  <2>1. /\ Managed' = Managed \ {hand[t]} /\ hand[t] \in Managed /\ Counted' = Counted
    BY <1>out DEF Managed, Counted
  <2>2. Cardinality(Managed') = Cardinality(Managed) - 1
    BY <1>s, <2>1, FS_RemoveElement
  <2> QED
    BY <1>s, <1>t, <1>out, <2>1, <2>2 DEF Goal, Spent, Gap
<1>11. ASSUME NEW t \in Tasks, ReleaseBegin(t)  PROVE Goal
  <2>1. hand[t] \in Browsers /\ place[hand[t]] = "held" /\ Launching' = Launching
    BY <1>11, <1>h DEF ReleaseBegin, HandsOK, Launching, Leave, Goto, Types
  <2>2. CASE hand[t] \in healthy
    BY <1>11, <2>1, <2>2, <1>same DEF ReleaseBegin, Managed, Counted
  <2>3. CASE hand[t] \notin healthy
    BY <1>11, <2>1, <2>3, <1>out DEF ReleaseBegin, Dispose
  <2> QED
    BY <2>2, <2>3
<1>12. ASSUME NEW t \in Tasks, Return(t)  PROVE Goal
  <2>1. hand[t] \in Browsers /\ place[hand[t]] = "held" /\ Launching' = Launching
    BY <1>12, <1>h DEF Return, HandsOK, Launching, Leave, Goto, Types
  <2>2. CASE Cardinality(Idle) < MaxSize
    BY ZenonT(30), <1>12, <2>1, <2>2, <1>same DEF Return, PushBack, Managed, Counted, Types
  <2>3. CASE ~(Cardinality(Idle) < MaxSize)
    BY <1>12, <2>1, <2>3, <1>out DEF Return, Dispose
  <2> QED
    BY <2>2, <2>3
<1>13. ASSUME NEW t \in Tasks, Cancel(t)  PROVE Goal
  <2>1. /\ Launching' \in SUBSET Launching /\ Managed' \in SUBSET Managed
        /\ Counted' \in SUBSET Counted
    BY <1>13 DEF Cancel, Dispose, Leave, Goto, Launching, Managed, Counted, Types
  <2>2. /\ Cardinality(Launching') <= Cardinality(Launching) /\ Cardinality(Launching') \in Nat
        /\ Cardinality(Managed') <= Cardinality(Managed) /\ Cardinality(Managed') \in Nat
        /\ Cardinality(Counted') <= Cardinality(Counted) /\ Cardinality(Counted') \in Nat
    BY <1>s, <2>1, FS_Subset, FS_CardinalityType
  <2>3. permits' = permits /\ active' = active /\ MayCancel
    BY <1>13 DEF Cancel
  <2> QED
    BY <1>s, <1>t, <2>2, <2>3 DEF Goal, Spent, Gap
<1>14. ASSUME NEW b \in Browsers, WarmOne(b)  PROVE Goal
  <2>1. /\ Launching' = Launching
        /\ Managed' = Managed \cup {b} /\ b \notin Managed
        /\ Counted' = Counted \cup {b} /\ b \notin Counted
    BY <1>14 DEF WarmOne, Started, Fresh, taskVars, Launching, Managed, Counted, Types
  <2>2. /\ Cardinality(Managed') = Cardinality(Managed) + 1
        /\ Cardinality(Counted') = Cardinality(Counted) + 1
    BY <1>s, <2>1, FS_AddElement
  <2>3. permits' = permits - 1 /\ active' = active + 1
    BY <1>14 DEF WarmOne
  <2> QED
    BY <1>s, <1>t, <2>1, <2>2, <2>3 DEF Goal, Spent, Gap
<1>15. ASSUME NEW b \in Browsers, Crash(b)  PROVE Goal
  BY <1>15, <1>same DEF Crash, taskVars, Launching, Managed, Counted
<1>16. ASSUME NEW b \in Browsers, ShutdownDone(b)  PROVE Goal
  <2>1. Launching' = Launching /\ Managed' = Managed /\ permits' = permits
    BY <1>16 DEF ShutdownDone, taskVars, Launching, Managed, Types
  <2>2. CASE place[b] = "owed"
    <3>1. Counted' = Counted \ {b} /\ b \in Counted /\ active' = active - 1
      BY <1>16, <2>2 DEF ShutdownDone, Counted, Types
    <3>2. Cardinality(Counted') = Cardinality(Counted) - 1
      BY <1>s, <3>1, FS_RemoveElement
    <3> QED
      BY <1>s, <1>t, <2>1, <3>1, <3>2 DEF Goal, Spent, Gap
  <2>3. CASE place[b] # "owed"
    <3>1. Counted' = Counted /\ active' = active
      BY <1>16, <2>3 DEF ShutdownDone, Counted, Types
    <3> QED
      BY <2>1, <3>1, <1>same
  <2> QED
    BY <2>2, <2>3
<1>17. CASE WarmFail
  BY <1>17, <1>same DEF WarmFail, browserVars, taskVars, Launching, Managed, Counted
<1>18. ASSUME NEW c \in Contexts, ReleaseContext(c)  PROVE Goal
  <2> DEFINE E == Elements(queue[c])
  <2>1. c \in Keys /\ queue[c] \in Seq(Browsers)
    BY <1>q DEF Keys
  <2>2. IsFiniteSet(E) /\ Cardinality(E) = Len(queue[c])
    BY <2>1, DistinctElements DEF QueuesOK, NoRepeats
  <2>3. E \subseteq Managed
    <3>1. \A i \in DOMAIN queue[c] : queue[c][i] \in Browsers /\ place[queue[c][i]] = "idle"
      BY <2>1, LenProperties, ElementOfSeq DEF QueuesOK, EntriesOK
    <3> QED
      BY <3>1 DEF Elements, Managed
  <2>4. /\ place' = [b \in Browsers |-> IF b \in E THEN "owed" ELSE place[b]]
        /\ permits' = permits + Len(queue[c]) /\ active' = active /\ pc' = pc
    BY <1>18 DEF ReleaseContext, Dispose, taskVars
  <2> HIDE DEF E
  <2>5. Managed' = Managed \ E /\ Counted' = Counted /\ Launching' = Launching
    BY <2>3, <2>4 DEF Managed, Counted, Launching
  <2>6. Cardinality(Managed') = Cardinality(Managed) - Cardinality(E)
    <3>1. Managed \cap E = E
      BY <2>3
    <3>2. Cardinality(Managed \ E) = Cardinality(Managed) - Cardinality(Managed \cap E)
      BY <1>s, FS_Difference
    <3> QED
      BY <2>5, <3>1, <3>2
  <2>7. Len(queue[c]) \in Nat
    BY <1>q, <2>1
  <2> QED
    BY <1>s, <1>t, <2>2, <2>4, <2>5, <2>6, <2>7 DEF Goal, Spent, Gap
<1>19. ASSUME NEW k \in Keys, Age(k)  PROVE Goal
  BY <1>19, <1>same DEF Age, browserVars, taskVars, Launching, Managed, Counted
<1>20. ASSUME NEW n \in [Keys -> 0..MaxSize], Evict(n)  PROVE Goal
  <2> DEFINE gone == {b \in Browsers : \E k \in Keys : \E i \in 1..n[k] : b = queue[k][i]}
  <2>1. ASSUME NEW k \in Keys, NEW i \in 1..n[k]  PROVE place[queue[k][i]] = "idle"
    <3>1. n[k] \in Nat /\ n[k] <= ripe[k] /\ ripe[k] \in Nat /\ ripe[k] <= Len(queue[k])
      BY <1>20, ConstantsAssumption DEF Evict, QueuesOK, RipeOK, Types
    <3>2. i \in 1..Len(queue[k])
      BY <1>q, <3>1
    <3> QED
      BY <3>2 DEF QueuesOK, EntriesOK
  <2>2. gone \subseteq Managed /\ gone \subseteq Counted
    BY <2>1 DEF Managed, Counted
  <2>3. /\ place' = [b \in Browsers |-> IF b \in gone THEN "closing" ELSE place[b]]
        /\ permits' = permits /\ active' = active - Cardinality(gone) /\ pc' = pc
    BY <1>20 DEF Evict, Dispose, taskVars
  <2> HIDE DEF gone
  <2>4. Managed' = Managed \ gone /\ Counted' = Counted \ gone /\ Launching' = Launching
    BY <2>3 DEF Managed, Counted, Launching
  <2>5. /\ Cardinality(gone) \in Nat
        /\ Cardinality(Managed') = Cardinality(Managed) - Cardinality(gone)
        /\ Cardinality(Counted') = Cardinality(Counted) - Cardinality(gone)
    <3>1. Managed \cap gone = gone /\ Counted \cap gone = gone
      BY <2>2
    <3>2. IsFiniteSet(gone) /\ Cardinality(gone) \in Nat
      BY <1>s, <2>2, FS_Subset, FS_CardinalityType
    <3>3. /\ Cardinality(Managed \ gone) = Cardinality(Managed) - Cardinality(Managed \cap gone)
          /\ Cardinality(Counted \ gone) = Cardinality(Counted) - Cardinality(Counted \cap gone)
      BY <1>s, FS_Difference
    <3> QED
      BY <2>4, <3>1, <3>2, <3>3
  <2> QED
    BY <1>s, <1>t, <2>3, <2>4, <2>5 DEF Goal, Spent, Gap
<1> QED
  BY NextCases, <1>1, <1>2, <1>3, <1>4, <1>5, <1>6, <1>7, <1>8, <1>9, <1>10, <1>11,
     <1>12, <1>13, <1>14, <1>15, <1>16, <1>17, <1>18, <1>19, <1>20

-----------------------------------------------------------------------------
(***************************************************************************)
(* The inductive invariant, and the invariants that follow from it         *)
(***************************************************************************)
LEMMA IInvInit == Init => IInv
<1> SUFFICES ASSUME Init PROVE IInv
  OBVIOUS
<1>1. Launching = {} /\ Managed = {} /\ Counted = {}
  BY DEF Init, Launching, Managed, Counted
<1>2. Cardinality({}) = 0
  BY FS_EmptySet
<1>3. Capacity /\ ActiveCovers /\ ActiveExact
  BY <1>1, <1>2, ConstantsAssumption DEF Init, Capacity, ActiveCovers, ActiveExact
<1> QED
  BY <1>3, TypesInit, OwnersInit DEF IInv

LEMMA IInvNext == IInv /\ [Next]_vars => IInv'
<1> SUFFICES ASSUME IInv, [Next]_vars PROVE IInv'
  OBVIOUS
<1>1. Types' /\ HandsOK' /\ QueuesOK'
  BY TypesNext, HandsNext, QueuesNext DEF IInv
<1>2. Spent' <= Spent /\ Gap' >= Gap /\ (~MayCancel => Gap' = Gap)
  BY <1>1, CountsNext DEF IInv
<1>3. /\ Spent \in Int /\ Gap \in Int /\ Cardinality(Launching) \in Nat
      /\ Cardinality(Counted) \in Nat /\ active \in Int
  BY Sizes DEF Spent, Gap, IInv, Types
<1>4. /\ Spent' \in Int /\ Gap' \in Int /\ Cardinality(Launching)' \in Nat
      /\ Cardinality(Counted)' \in Nat /\ active' \in Int
  <2>1. /\ Launching' \in SUBSET Tasks /\ Managed' \in SUBSET Browsers
        /\ Counted' \in SUBSET Browsers
    BY DEF Launching, Managed, Counted
  <2>2. /\ Cardinality(Launching') \in Nat /\ Cardinality(Managed') \in Nat
        /\ Cardinality(Counted') \in Nat
    BY <2>1, ConstantsAssumption, FS_Subset, FS_CardinalityType
  <2> QED
    BY <1>1, <2>2 DEF Spent, Gap, Types
<1>5. Spent <= MaxSize /\ Gap >= 0 /\ (~MayCancel => Gap = 0)
  BY <1>3 DEF IInv, Capacity, ActiveCovers, ActiveExact, Spent, Gap
<1>6. Spent' <= MaxSize /\ Gap' >= 0 /\ (~MayCancel => Gap' = 0)
  BY <1>2, <1>3, <1>4, <1>5, ConstantsAssumption
<1>7. Capacity'
  BY <1>6 DEF Capacity, Spent
<1>8. ActiveCovers' /\ ActiveExact'
  BY <1>4, <1>6 DEF ActiveCovers, ActiveExact, Gap
<1> QED
  BY <1>1, <1>7, <1>8 DEF IInv

THEOREM Invariance == Spec => []IInv
BY IInvInit, IInvNext, PTL DEF Spec

LEMMA IInvTypeOK == IInv => TypeOK
<1> SUFFICES ASSUME IInv PROVE TypeOK
  OBVIOUS
<1>1. permits \in 0..MaxSize /\ active \in Nat
  BY Sizes, ConstantsAssumption DEF IInv, Types, Capacity, ActiveCovers
<1> QED
  BY <1>1 DEF IInv, Types, TypeOK

\* Every variable keeps its type; the counter never goes below zero and the
\* semaphore never has more than MaxSize permits.
THEOREM TypeCorrect == Spec => []TypeOK
BY Invariance, IInvTypeOK, PTL

\* permits, launches and browsers in use or idle never add up to more than
\* MaxSize.
THEOREM CapacityHolds == Spec => []Capacity
<1>1. IInv => Capacity
  BY DEF IInv
<1> QED
  BY <1>1, Invariance, PTL

\* active_count covers everything it will still be lowered for.
THEOREM ActiveCoversHolds == Spec => []ActiveCovers
<1>1. IInv => ActiveCovers
  BY DEF IInv
<1> QED
  BY <1>1, Invariance, PTL

\* When no future is dropped active_count is exact.
THEOREM ActiveExactHolds == Spec => []ActiveExact
<1>1. IInv => ActiveExact
  BY DEF IInv
<1> QED
  BY <1>1, Invariance, PTL

LEMMA IInvSingleOwner == IInv => SingleOwner
<1> SUFFICES ASSUME IInv PROVE SingleOwner
  OBVIOUS
<1>1. \A k \in Keys : DOMAIN queue[k] = 1..Len(queue[k])
  BY LenProperties DEF IInv, Types
<1>2. \A j, k \in Keys : \A m \in 1..Len(queue[j]), n \in 1..Len(queue[k]) :
         queue[j][m] = queue[k][n] => j = k /\ m = n
  <2> SUFFICES ASSUME NEW j \in Keys, NEW k \in Keys,
                      NEW m \in 1..Len(queue[j]), NEW n \in 1..Len(queue[k]),
                      queue[j][m] = queue[k][n]
               PROVE  j = k /\ m = n
    OBVIOUS
  <2>1. j = k
    BY DEF IInv, QueuesOK, EntriesOK
  <2> QED
    BY <2>1 DEF IInv, QueuesOK, NoRepeats
<1>3. \A k \in Keys : \A i \in 1..Len(queue[k]) : place[queue[k][i]] = "idle"
  BY DEF IInv, QueuesOK, EntriesOK
<1>4. /\ \A t \in Tasks : hand[t] # NoBrowser => place[hand[t]] = "held"
      /\ \A s, t \in Tasks : s # t /\ hand[s] # NoBrowser => hand[s] # hand[t]
  BY DEF IInv, HandsOK
<1> QED
  BY SMTT(30), <1>1, <1>2, <1>3, <1>4 DEF SingleOwner

\* A browser has one holder, or one place in one queue, never both.
THEOREM SingleOwnerHolds == Spec => []SingleOwner
BY Invariance, IInvSingleOwner, PTL

LEMMA IInvQueues == IInv => ContextIsolation /\ IdleLooksHealthy
<1> SUFFICES ASSUME IInv PROVE ContextIsolation /\ IdleLooksHealthy
  OBVIOUS
<1>1. \A k \in Keys : DOMAIN queue[k] = 1..Len(queue[k])
  BY LenProperties DEF IInv, Types
<1>2. \A k \in Keys : \A i \in 1..Len(queue[k]) :
         home[queue[k][i]] = k /\ queue[k][i] \in healthy
  BY DEF IInv, QueuesOK, EntriesOK
<1>3. \A t \in Tasks : hand[t] # NoBrowser => home[hand[t]] = key[t]
  BY DEF IInv, HandsOK
<1> QED
  BY <1>1, <1>2, <1>3 DEF ContextIsolation, IdleLooksHealthy

\* No browser is ever queued or lent under another key than its first.
THEOREM ContextIsolationHolds == Spec => []ContextIsolation
<1>1. IInv => ContextIsolation
  BY IInvQueues
<1> QED
  BY <1>1, Invariance, PTL

\* Queued browsers look healthy: the disposal branches of acquire are dead.
THEOREM IdleLooksHealthyHolds == Spec => []IdleLooksHealthy
<1>1. IInv => IdleLooksHealthy
  BY IInvQueues
<1> QED
  BY <1>1, Invariance, PTL

LEMMA IInvRoomOnReturn == IInv => RoomOnReturn
<1> SUFFICES ASSUME IInv, NEW t \in Tasks, pc[t] = "returning"
             PROVE  Cardinality(Idle) < MaxSize
  BY DEF RoomOnReturn
<1>1. hand[t] \in Browsers /\ place[hand[t]] = "held"
  BY DEF IInv, HandsOK, Types
<1>2. Idle \in SUBSET Managed /\ hand[t] \in Managed \ Idle
  BY <1>1 DEF Idle, Managed
<1>3. Cardinality(Idle) <= Cardinality(Managed) /\ Cardinality(Idle) # Cardinality(Managed)
  BY <1>2, Sizes, FS_Subset
<1> QED
  BY SMTT(30), <1>3, Sizes, ConstantsAssumption DEF IInv, Types, Capacity

\* The "pool full" branch of release is dead: a healthy browser that comes
\* back always finds room.
THEOREM RoomOnReturnHolds == Spec => []RoomOnReturn
BY Invariance, IInvRoomOnReturn, PTL

-----------------------------------------------------------------------------
(***************************************************************************)
(* The verdict on a lease: what closes was judged by what was seen of it.  *)
(***************************************************************************)

\* A step keeps the verdicts if whatever is on its way out is as it was, or
\* left the pool in this step with the verdict it deserves.
LEMMA VerdictKept ==
  ASSUME LeaseVerdict,
         \A b \in Browsers :
            \/ place'[b] \notin {"owed", "closing"}
            \/ /\ place'[b] = place[b] /\ lease'[b] = lease[b]
               /\ b \in healthy' <=> b \in healthy
            \/ /\ place'[b] = "owed"
               /\ lease'[b] = IF b \in healthy' THEN "success" ELSE "failure"
            \/ place'[b] = "closing" /\ (lease'[b] = "success" \/ MayCancel)
  PROVE  LeaseVerdict'
<1> SUFFICES ASSUME NEW b \in Browsers
             PROVE  /\ place'[b] = "owed" =>
                          lease'[b] = IF b \in healthy' THEN "success" ELSE "failure"
                    /\ place'[b] = "closing" => lease'[b] = "success" \/ MayCancel
  BY DEF LeaseVerdict
<1>1. CASE place'[b] \notin {"owed", "closing"}
  BY <1>1
<1>2. CASE /\ place'[b] = place[b] /\ lease'[b] = lease[b]
           /\ b \in healthy' <=> b \in healthy
  BY <1>2 DEF LeaseVerdict
<1>3. CASE /\ place'[b] = "owed"
           /\ lease'[b] = IF b \in healthy' THEN "success" ELSE "failure"
  BY <1>3
<1>4. CASE place'[b] = "closing" /\ (lease'[b] = "success" \/ MayCancel)
  BY <1>4
<1> QED
  BY <1>1, <1>2, <1>3, <1>4

LEMMA VerdictNext ==
  ASSUME IInv, LeaseVerdict, [Next]_vars
  PROVE  LeaseVerdict'
<1>t. Types /\ HandsOK /\ QueuesOK
  BY DEF IInv
<1>q. \A k \in Keys : queue[k] \in Seq(Browsers) /\ Len(queue[k]) \in Nat
  BY <1>t, LenProperties DEF Types
<1>h. \A t \in Tasks : /\ hand[t] # NoBrowser => hand[t] \in Browsers /\ place[hand[t]] = "held"
                       /\ pc[t] \in {"using", "returning"} => hand[t] # NoBrowser
                       /\ pc[t] = "returning" => hand[t] \in healthy
  BY <1>t DEF HandsOK, Types
<1>s. ASSUME UNCHANGED <<place, lease, healthy>> PROVE LeaseVerdict'
  BY <1>s DEF LeaseVerdict
<1>1. CASE UNCHANGED vars
  BY <1>1, <1>s DEF vars, browserVars
<1>2. ASSUME NEW t \in Tasks, NEW k \in Keys, Begin(t, k)  PROVE LeaseVerdict'
  BY <1>2, <1>s DEF Begin, browserVars
<1>3. ASSUME NEW t \in Tasks, Take(t)  PROVE LeaseVerdict'
  BY <1>3, <1>t, VerdictKept DEF Take, Types
<1>4. ASSUME NEW t \in Tasks, Miss(t)  PROVE LeaseVerdict'
  BY <1>4, <1>s DEF Miss, browserVars
<1>5. ASSUME NEW t \in Tasks, TakePermit(t) \/ Exhausted(t) \/ BindOk(t) \/ LaunchErr(t)
      PROVE  LeaseVerdict'
  BY <1>5, <1>s DEF TakePermit, Exhausted, BindOk, LaunchErr, browserVars
<1>6. ASSUME NEW t \in Tasks, NEW b \in Browsers, LaunchOk(t, b)  PROVE LeaseVerdict'
  <2>1. \A c \in Browsers \ {b} :
           place'[c] = place[c] /\ lease'[c] = lease[c] /\ (c \in healthy' <=> c \in healthy)
    BY <1>6, <1>t DEF LaunchOk, Started, Types
  <2>2. place'[b] = "held"
    BY <1>6, <1>t DEF LaunchOk, Started, Types
  <2> QED
    BY <2>1, <2>2, VerdictKept
<1>7. ASSUME NEW t \in Tasks, HealthCheck(t)  PROVE LeaseVerdict'
  <2>1. hand[t] \in Browsers /\ place[hand[t]] = "held" /\ UNCHANGED <<place, lease>>
    BY <1>7, <1>h DEF HealthCheck
  <2>2. \A c \in Browsers \ {hand[t]} : c \in healthy' <=> c \in healthy
    BY <1>7 DEF HealthCheck
  <2> QED
    BY <2>1, <2>2, VerdictKept
<1>8. ASSUME NEW t \in Tasks, ReleaseBegin(t)  PROVE LeaseVerdict'
  <2>1. CASE hand[t] \in healthy
    BY <1>8, <2>1, <1>s DEF ReleaseBegin
  <2>2. CASE hand[t] \notin healthy
    <3>1. /\ \A c \in Browsers \ {hand[t]} : place'[c] = place[c] /\ lease'[c] = lease[c]
          /\ hand[t] \in Browsers => place'[hand[t]] = "owed" /\ lease'[hand[t]] = "failure"
          /\ healthy' = healthy
      BY <1>8, <2>2 DEF ReleaseBegin, Dispose
    <3> QED
      BY <2>2, <3>1, VerdictKept
  <2> QED
    BY <2>1, <2>2
<1>9. ASSUME NEW t \in Tasks, Return(t)  PROVE LeaseVerdict'
  <2>1. /\ \A c \in Browsers \ {hand[t]} : place'[c] = place[c] /\ lease'[c] = lease[c]
        /\ \/ place'[hand[t]] = "idle"
           \/ place'[hand[t]] = "owed" /\ lease'[hand[t]] = "success"
        /\ hand[t] \in healthy /\ healthy' = healthy
    BY <1>9, <1>h, <1>t DEF Return, PushBack, Dispose, Types
  <2> QED
    BY <2>1, VerdictKept
<1>10. ASSUME NEW t \in Tasks, Cancel(t)  PROVE LeaseVerdict'
  <2>1. /\ \A c \in Browsers : \/ place'[c] = place[c] /\ lease'[c] = lease[c]
                               \/ place'[c] = "closing"
        /\ MayCancel /\ healthy' = healthy
    BY <1>10 DEF Cancel, Dispose
  <2> QED
    BY <2>1, VerdictKept
<1>11. ASSUME NEW b \in Browsers, WarmOne(b)  PROVE LeaseVerdict'
  <2>1. \A c \in Browsers \ {b} :
           place'[c] = place[c] /\ lease'[c] = lease[c] /\ (c \in healthy' <=> c \in healthy)
    BY <1>11, <1>t DEF WarmOne, Started, Types
  <2>2. place'[b] = "idle"
    BY <1>11, <1>t DEF WarmOne, Started, Types
  <2> QED
    BY <2>1, <2>2, VerdictKept
<1>12. ASSUME NEW b \in Browsers, Crash(b)  PROVE LeaseVerdict'
  BY <1>12, <1>s DEF Crash
<1>13. ASSUME NEW b \in Browsers, ShutdownDone(b)  PROVE LeaseVerdict'
  <2>1. \A c \in Browsers \ {b} :
           place'[c] = place[c] /\ lease'[c] = lease[c] /\ (c \in healthy' <=> c \in healthy)
    BY <1>13, <1>t DEF ShutdownDone, Types
  <2>2. place'[b] = "none"
    BY <1>13, <1>t DEF ShutdownDone, Types
  <2> QED
    BY <2>1, <2>2, VerdictKept
<1>14. CASE WarmFail
  BY <1>14, <1>s DEF WarmFail, browserVars
<1>15. ASSUME NEW c \in Contexts, ReleaseContext(c)  PROVE LeaseVerdict'
  <2>1. Elements(queue[c]) \subseteq healthy
    BY <1>q, <1>t, LenProperties DEF Elements, QueuesOK, EntriesOK, Keys
  <2>2. /\ \A b \in Browsers : \/ place'[b] = place[b] /\ lease'[b] = lease[b]
                               \/ /\ b \in Elements(queue[c])
                                  /\ place'[b] = "owed" /\ lease'[b] = "success"
        /\ healthy' = healthy
    BY <1>15 DEF ReleaseContext, Dispose
  <2> QED
    BY <2>1, <2>2, VerdictKept
<1>16. ASSUME NEW k \in Keys, Age(k)  PROVE LeaseVerdict'
  BY <1>16, <1>s DEF Age, browserVars
<1>17. ASSUME NEW n \in [Keys -> 0..MaxSize], Evict(n)  PROVE LeaseVerdict'
  <2>1. /\ \A b \in Browsers : \/ place'[b] = place[b] /\ lease'[b] = lease[b]
                               \/ place'[b] = "closing" /\ lease'[b] = "success"
        /\ healthy' = healthy
    BY <1>17 DEF Evict, Dispose
  <2> QED
    BY <2>1, VerdictKept
<1> QED
  BY NextCases, <1>t, <1>1, <1>2, <1>3, <1>4, <1>5, <1>6, <1>7, <1>8, <1>9, <1>10, <1>11,
     <1>12, <1>13, <1>14, <1>15, <1>16, <1>17

\* No queue holds an unhealthy browser, so a browser leaves the pool either
\* healthy, with the success its holder's release or the context's end marks,
\* or seen unhealthy, with a failure: the proxy is credited for exactly the
\* browsers that still looked healthy (BrowserPool::release, acquire_inner,
\* release_context, eviction_loop), dropped futures apart.
THEOREM LeaseVerdictHolds == Spec => []LeaseVerdict
<1>1. Init => LeaseVerdict
  BY DEF Init, LeaseVerdict
<1>2. IInv /\ LeaseVerdict /\ [Next]_vars => LeaseVerdict'
  BY VerdictNext
<1> QED
  BY <1>1, <1>2, Invariance, PTL DEF Spec

-----------------------------------------------------------------------------
(***************************************************************************)
(* The semaphore and the counter                                           *)
(***************************************************************************)
Owed == {b \in Browsers : place[b] = "owed"}

\* Free permits and active_count together claim no more than max_size, but for
\* the browsers whose shutdown is under way.
NeverMoreThanMax == ~MayCancel => permits + active <= MaxSize + Cardinality(Owed)

\* warmup takes its permits "so that active_count and the semaphore always agree
\* on capacity".  A run refutes the equation; this is what is left of it: while
\* no future is dropped the two differ in one direction only.  Disposed browsers
\* hand back no permit, but a counter that says the pool is full hides a free
\* one at most until the shutdowns under way are over.
THEOREM NeverMoreThanMaxHolds == Spec => []NeverMoreThanMax
<1>1. ASSUME IInv, ~MayCancel PROVE permits + active <= MaxSize + Cardinality(Owed)
  <2>1. Counted = Managed \cup Owed
    BY DEF Counted, Managed, Owed
  <2>2. IsFiniteSet(Owed) /\ Cardinality(Owed) \in Nat
    <3>1. Owed \subseteq Browsers /\ IsFiniteSet(Browsers)
      BY ConstantsAssumption DEF Owed
    <3> QED
      BY <3>1, FS_Subset, FS_CardinalityType
  <2>3. Cardinality(Counted) <= Cardinality(Managed) + Cardinality(Owed)
    <3>1. /\ Managed \cap Owed = {} /\ Cardinality({}) = 0
      BY FS_EmptySet DEF Managed, Owed
    <3>2. Cardinality(Managed \cup Owed)
             = Cardinality(Managed) + Cardinality(Owed) - Cardinality(Managed \cap Owed)
      BY <2>2, Sizes, FS_Union
    <3>3. Cardinality(Managed \cap Owed) = 0
      BY <3>1
    <3>4. Cardinality(Managed \cup Owed) = Cardinality(Managed) + Cardinality(Owed) - 0
      BY <3>2, <3>3
    <3>5. Cardinality(Managed) \in Nat
      BY Sizes
    <3> QED
      BY <2>1, <2>2, <3>4, <3>5
  <2>4. permits \in Nat /\ permits + Cardinality(Launching) + Cardinality(Managed) <= MaxSize
    BY <1>1 DEF IInv, Types, Capacity
  <2>5. active = Cardinality(Launching) + Cardinality(Counted)
    BY <1>1 DEF IInv, ActiveExact
  <2> QED
    BY <2>2, <2>3, <2>4, <2>5, Sizes, ConstantsAssumption
<1>2. IInv => NeverMoreThanMax
  BY <1>1 DEF NeverMoreThanMax
<1> QED
  BY <1>2, Invariance, PTL

=============================================================================
