----------------------- MODULE BrowserPoolRefinement -----------------------
(***************************************************************************)
(* The browser pool implements the abstract pool of leases, for every      *)
(* value of the constants: each of its steps is a step of LeasePool, or    *)
(* changes nothing a user of the pool can see.                             *)
(***************************************************************************)
EXTENDS BrowserPoolProofs

Visible == <<LeaseState, LeaseTenant, hand, key>>

LEMMA LeaseInit == Init => Lease!Init
BY DEF Init, Lease!Init, LeaseState, LeaseTenant, Managed

\* LeaseState and LeaseTenant depend on place and home of managed browsers.
LEMMA Unseen ==
  ASSUME \A b \in Browsers : /\ place'[b] = "idle" <=> place[b] = "idle"
                             /\ place'[b] = "held" <=> place[b] = "held"
                             /\ place[b] \in {"idle", "held"} => home'[b] = home[b]
  PROVE  LeaseState' = LeaseState /\ LeaseTenant' = LeaseTenant
BY DEF LeaseState, LeaseTenant, Managed

\* The instance brings a Cardinality of its own, with the same definition.
LEMMA SameCardinality == \A S : Lease!Cardinality(S) = Cardinality(S)
BY DEF Lease!Cardinality, Cardinality

\* When a browser is added there is room for it.
LEMMA RoomForOne ==
  ASSUME IInv, permits > 0 \/ Launching # {}
  PROVE  Lease!Cardinality(Lease!Present) < MaxSize
<1>1. Lease!Present = Managed
  BY DEF Lease!Present, LeaseState, Managed
<1>2. permits > 0 \/ Cardinality(Launching) > 0
  BY Sizes, FS_EmptySet
<1> QED
  BY <1>1, <1>2, SameCardinality, Sizes, ConstantsAssumption DEF IInv, Types, Capacity

\* Browsers of S, all managed, leave the pool.
LEMMA Leaving ==
  ASSUME NEW S, NEW p \in {"owed", "closing"},
         place' = [b \in Browsers |-> IF b \in S THEN p ELSE place[b]], home' = home
  PROVE  Lease!Leave(S)
BY DEF Lease!Leave, LeaseState, LeaseTenant, Managed

LEMMA LeaseNext ==
  ASSUME IInv, [Next]_vars
  PROVE  [Lease!Next]_Visible
<1> USE ConstantsAssumption
<1>i. Types /\ HandsOK /\ QueuesOK
  BY DEF IInv
<1>h. \A t \in Tasks : /\ hand[t] # NoBrowser => hand[t] \in Browsers /\ place[hand[t]] = "held"
                       /\ hand[t] # NoBrowser <=> pc[t] \in {"using", "returning"}
  BY <1>i DEF HandsOK, Types
<1>q. \A k \in Keys : queue[k] \in Seq(Browsers) /\ Len(queue[k]) \in Nat
  BY <1>i, LenProperties DEF Types
<1> DEFINE Goal == Lease!Next \/ UNCHANGED Visible
<1> SUFFICES Goal
  OBVIOUS
<1>same. ASSUME UNCHANGED <<place, home, hand, key>>  PROVE Goal
  BY <1>same, Unseen DEF Visible
<1>ask. ASSUME NEW t \in Tasks, NEW k \in Keys, hand[t] = NoBrowser,
               UNCHANGED <<place, home, hand>>, key' = [key EXCEPT ![t] = k]
        PROVE  Goal
  <2>1. Lease!Ask(t, k)
    BY <1>ask, Unseen DEF Lease!Ask
  <2> QED
    BY <2>1 DEF Lease!Next
<1>out. ASSUME NEW t \in Tasks, hand[t] # NoBrowser, Leave(t), home' = home,
               NEW p \in {"owed", "closing"},
               place' = [b \in Browsers |-> IF b \in {hand[t]} THEN p ELSE place[b]]
        PROVE  Goal
  <2>1. Lease!Leave({hand[t]})
    BY <1>out, Leaving
  <2>2. Lease!Discard(t)
    BY <1>out, <2>1 DEF Lease!Discard, Lease!Done, Leave
  <2> QED
    BY <2>2 DEF Lease!Next
<1>close. ASSUME NEW S \in SUBSET Browsers, \A b \in S : place[b] = "idle",
                 NEW p \in {"owed", "closing"},
                 place' = [b \in Browsers |-> IF b \in S THEN p ELSE place[b]],
                 UNCHANGED <<home, hand, key>>
          PROVE  Goal
  <2>1. Lease!Leave(S)
    BY <1>close, Leaving
  <2>2. \A b \in S : LeaseState[b] = "idle"
    BY <1>close DEF LeaseState
  <2>3. Lease!Close(S)
    BY <1>close, <2>1, <2>2 DEF Lease!Close
  <2> QED
    BY <2>3 DEF Lease!Next
<1> HIDE DEF Goal
<1>1. CASE UNCHANGED vars
  BY <1>1, <1>same DEF vars
<1>2. ASSUME NEW t \in Tasks, NEW k \in Keys, Begin(t, k)  PROVE Goal
  BY <1>2, <1>h, <1>ask DEF Begin, browserVars
<1>3. ASSUME NEW t \in Tasks, Take(t)  PROVE Goal
  <2> DEFINE b == queue[key[t]][1]
  <2>1. key[t] \in Keys /\ 1 \in 1..Len(queue[key[t]]) /\ b \in Browsers
    BY <1>3, <1>i, <1>q, ElementOfSeq DEF Take, Types
  <2>2. place[b] = "idle" /\ home[b] = key[t] /\ hand[t] = NoBrowser
    BY <1>3, <1>h, <1>i, <2>1 DEF Take, QueuesOK, EntriesOK
  <2> HIDE DEF b
  <2>3. /\ place' = [place EXCEPT ![b] = "held"] /\ hand' = [hand EXCEPT ![t] = b]
        /\ UNCHANGED <<home, key>>
    BY <1>3 DEF Take, b
  <2>4. \A c \in Browsers : c # b => place'[c] = place[c]
    BY <1>i, <2>3 DEF Types
  <2>5. place'[b] = "held"
    BY <1>i, <2>1, <2>3 DEF Types
  <2>6. LeaseState' = [LeaseState EXCEPT ![b] = "lent"] /\ LeaseTenant' = LeaseTenant
    BY <2>1, <2>2, <2>3, <2>4, <2>5 DEF LeaseState, LeaseTenant, Managed
  <2>7. LeaseState[b] = "idle" /\ LeaseTenant[b] = key[t]
    BY <2>1, <2>2 DEF LeaseState, LeaseTenant, Managed
  <2>8. Lease!Lend(b, t)
    BY <2>2, <2>3, <2>6, <2>7 DEF Lease!Lend
  <2> QED
    BY <2>1, <2>8 DEF Lease!Next, Goal
<1>4. ASSUME NEW t \in Tasks, Miss(t)  PROVE Goal
  BY <1>4, <1>same DEF Miss, browserVars
<1>5. ASSUME NEW t \in Tasks, TakePermit(t)  PROVE Goal
  BY <1>5, <1>same DEF TakePermit, browserVars
<1>l. ASSUME NEW t \in Tasks, Leave(t), hand[t] = NoBrowser, UNCHANGED <<place, home>>
      PROVE  Goal
  <2>1. hand' = hand
    BY <1>l, <1>i DEF Leave, Types
  <2> QED
    BY <1>l, <2>1, <1>ask DEF Leave, Keys
<1>6. ASSUME NEW t \in Tasks, Exhausted(t)  PROVE Goal
  BY <1>6, <1>h, <1>l DEF Exhausted, browserVars
<1>7. ASSUME NEW t \in Tasks, BindOk(t)  PROVE Goal
  BY <1>7, <1>same DEF BindOk, browserVars
<1>8. ASSUME NEW t \in Tasks, LaunchErr(t)  PROVE Goal
  BY <1>8, <1>h, <1>l DEF LaunchErr, browserVars
<1>9. ASSUME NEW t \in Tasks, NEW b \in Browsers, LaunchOk(t, b)  PROVE Goal
  <2>1. Launching # {} /\ place[b] = "none" /\ hand[t] = NoBrowser /\ key[t] \in Keys
    BY <1>9, <1>h, <1>i DEF LaunchOk, Launching, Fresh, Types
  <2>2. /\ place' = [place EXCEPT ![b] = "held"] /\ home' = [home EXCEPT ![b] = key[t]]
        /\ hand' = [hand EXCEPT ![t] = b] /\ key' = key
    BY <1>9 DEF LaunchOk, Started
  <2>3. /\ \A c \in Browsers : c # b => place'[c] = place[c] /\ home'[c] = home[c]
        /\ place'[b] = "held" /\ home'[b] = key[t]
    BY <1>i, <2>2 DEF Types
  <2>4. LeaseState' = [LeaseState EXCEPT ![b] = "lent"]
    BY <2>3 DEF LeaseState
  <2>5. LeaseTenant' = [LeaseTenant EXCEPT ![b] = key[t]]
    BY <2>3 DEF LeaseTenant, Managed
  <2>6. LeaseState[b] = "absent"
    BY <2>1 DEF LeaseState
  <2>7. Lease!Open(b, t)
    BY <2>1, <2>2, <2>4, <2>5, <2>6, RoomForOne DEF Lease!Open
  <2> QED
    BY <2>7 DEF Lease!Next, Goal
<1>10. ASSUME NEW t \in Tasks, HealthCheck(t)  PROVE Goal
  BY <1>10, <1>same DEF HealthCheck, taskVars
<1>11. ASSUME NEW t \in Tasks, ReleaseBegin(t)  PROVE Goal
  <2>1. hand[t] # NoBrowser
    BY <1>11, <1>h DEF ReleaseBegin
  <2>2. CASE hand[t] \in healthy
    BY <1>11, <2>2, <1>same DEF ReleaseBegin
  <2>3. CASE hand[t] \notin healthy
    BY <1>11, <2>1, <2>3, <1>out DEF ReleaseBegin, Dispose
  <2> QED
    BY <2>2, <2>3
<1>12. ASSUME NEW t \in Tasks, Return(t)  PROVE Goal
  <2>1. hand[t] # NoBrowser /\ hand[t] \in Browsers /\ place[hand[t]] = "held"
    BY <1>12, <1>h DEF Return
  <2>2. CASE Cardinality(Idle) < MaxSize
    <3>1. place' = [place EXCEPT ![hand[t]] = "idle"] /\ home' = home /\ Leave(t)
      BY <1>12, <2>2 DEF Return, PushBack
    <3>2. /\ \A c \in Browsers : c # hand[t] => place'[c] = place[c]
          /\ place'[hand[t]] = "idle"
      BY <1>i, <2>1, <3>1 DEF Types
    <3>3. LeaseState' = [LeaseState EXCEPT ![hand[t]] = "idle"] /\ LeaseTenant' = LeaseTenant
      BY <2>1, <3>1, <3>2 DEF LeaseState, LeaseTenant, Managed
    <3>4. Lease!GiveBack(t)
      BY <2>1, <3>1, <3>3 DEF Lease!GiveBack, Lease!Done, Leave
    <3> QED
      BY <3>4 DEF Lease!Next, Goal
  <2>3. CASE ~(Cardinality(Idle) < MaxSize)
    BY <1>12, <2>1, <2>3, <1>out DEF Return, Dispose
  <2> QED
    BY <2>2, <2>3
<1>13. ASSUME NEW t \in Tasks, Cancel(t)  PROVE Goal
  <2>1. CASE hand[t] = NoBrowser
    <3>1. {hand[t]} \cap Browsers = {}
      BY <2>1
    <3>2. place' = place /\ home' = home /\ Leave(t)
      BY <1>13, <1>i, <3>1 DEF Cancel, Dispose, Types
    <3> QED
      BY <2>1, <3>2, <1>l
  <2>2. CASE hand[t] # NoBrowser
    <3>1. {hand[t]} \cap Browsers = {hand[t]}
      BY <1>h, <2>2
    <3> QED
      BY <1>13, <2>2, <3>1, <1>out DEF Cancel, Dispose
  <2> QED
    BY <2>1, <2>2
<1>14. ASSUME NEW b \in Browsers, WarmOne(b)  PROVE Goal
  <2>1. permits > 0 /\ place[b] = "none" /\ UNCHANGED <<hand, key>>
    BY <1>14 DEF WarmOne, Fresh, taskVars
  <2>2. place' = [place EXCEPT ![b] = "idle"] /\ home' = [home EXCEPT ![b] = Shared]
    BY <1>14 DEF WarmOne, Started
  <2>3. /\ \A c \in Browsers : c # b => place'[c] = place[c] /\ home'[c] = home[c]
        /\ place'[b] = "idle" /\ home'[b] = Shared
    BY <1>i, <2>2 DEF Types
  <2>4. LeaseState' = [LeaseState EXCEPT ![b] = "idle"] /\ LeaseState[b] = "absent"
    BY <2>1, <2>3 DEF LeaseState
  <2>5. LeaseTenant' = LeaseTenant
    BY <2>1, <2>3 DEF LeaseTenant, Managed
  <2>6. Lease!Warm(b)
    BY <2>1, <2>4, <2>5, RoomForOne DEF Lease!Warm
  <2> QED
    BY <2>6 DEF Lease!Next, Goal
<1>15. ASSUME NEW b \in Browsers, Crash(b)  PROVE Goal
  BY <1>15, <1>same DEF Crash, taskVars
<1>16. ASSUME NEW b \in Browsers, ShutdownDone(b)  PROVE Goal
  <2>1. /\ \A c \in Browsers : c # b => place'[c] = place[c] /\ home'[c] = home[c]
        /\ place[b] \in {"owed", "closing"} /\ place'[b] = "none"
        /\ UNCHANGED <<hand, key>>
    BY <1>16, <1>i DEF ShutdownDone, taskVars, Types
  <2> QED
    BY <2>1, Unseen DEF Visible, Goal
<1>17. CASE WarmFail
  BY <1>17, <1>same DEF WarmFail, browserVars, taskVars
<1>18. ASSUME NEW c \in Contexts, ReleaseContext(c)  PROVE Goal
  <2> DEFINE E == Elements(queue[c])
  <2>1. E \in SUBSET Browsers /\ \A b \in E : place[b] = "idle"
    <3>1. \A i \in DOMAIN queue[c] : queue[c][i] \in Browsers /\ place[queue[c][i]] = "idle"
      BY <1>i, <1>q, LenProperties, ElementOfSeq DEF QueuesOK, EntriesOK, Keys
    <3> QED
      BY <3>1 DEF Elements
  <2>2. /\ place' = [b \in Browsers |-> IF b \in E THEN "owed" ELSE place[b]]
        /\ UNCHANGED <<home, hand, key>>
    BY <1>18 DEF ReleaseContext, Dispose, taskVars
  <2> QED
    BY <2>1, <2>2, <1>close
<1>19. ASSUME NEW k \in Keys, Age(k)  PROVE Goal
  BY <1>19, <1>same DEF Age, browserVars, taskVars
<1>20. ASSUME NEW n \in [Keys -> 0..MaxSize], Evict(n)  PROVE Goal
  <2> DEFINE gone == {b \in Browsers : \E k \in Keys : \E i \in 1..n[k] : b = queue[k][i]}
  <2>1. ASSUME NEW k \in Keys, NEW i \in 1..n[k]  PROVE place[queue[k][i]] = "idle"
    <3>1. n[k] \in Nat /\ n[k] <= ripe[k] /\ ripe[k] \in Nat /\ ripe[k] <= Len(queue[k])
      BY <1>20, <1>i DEF Evict, QueuesOK, RipeOK, Types
    <3>2. i \in 1..Len(queue[k])
      BY <1>q, <3>1
    <3> QED
      BY <1>i, <3>2 DEF QueuesOK, EntriesOK
  <2>2. gone \in SUBSET Browsers /\ \A b \in gone : place[b] = "idle"
    BY <2>1
  <2>3. /\ place' = [b \in Browsers |-> IF b \in gone THEN "closing" ELSE place[b]]
        /\ UNCHANGED <<home, hand, key>>
    BY <1>20 DEF Evict, Dispose, taskVars
  <2> HIDE DEF gone
  <2> QED
    BY <2>2, <2>3, <1>close
<1> QED
  BY <1>i, NextCases, <1>1, <1>2, <1>3, <1>4, <1>5, <1>6, <1>7, <1>8, <1>9, <1>10, <1>11,
     <1>12, <1>13, <1>14, <1>15, <1>16, <1>17, <1>18, <1>19, <1>20

\* The pool of the code is a pool of leases: at most MaxSize browsers lent or
\* idle, one holder each, and one context for as long as a browser lives.
THEOREM Refinement == Spec => ImplementsLeasePool
<1>1. IInv /\ [Next]_vars => [Lease!Next]_(Lease!vars)
  BY LeaseNext DEF Visible, Lease!vars
<1> QED
  BY <1>1, LeaseInit, Invariance, PTL DEF Spec, ImplementsLeasePool, Lease!Spec

=============================================================================
