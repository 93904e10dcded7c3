------------------------ MODULE CircuitBreakerProofs ------------------------
(***************************************************************************)
(* What TLAPS proves of CircuitBreaker, for any number of tasks, any       *)
(* threshold, any width of the counter and with a clock that may be set    *)
(* back. TrippedUnlessBusy needs only the type invariant to be inductive;  *)
(* OpenIsStamped needs Stamped, which says of every task how far its own   *)
(* record_failure has come.                                                *)
(***************************************************************************)
EXTENDS CircuitBreaker, TLAPS

\* A task that holds a reading of the clock holds a real one, and one that
\* has passed the store of the time has left it there.
Stamped ==
    \A t \in Tasks :
        /\ pc[t] = "store" => sample[t] > 0
        /\ pc[t] \in {"load", "trip", "reopen"} => last > 0

IInv == TypeOK /\ TrippedUnlessBusy /\ Stamped /\ OpenIsStamped

\* The disjuncts of a step, by name.
LEMMA NextCases ==
  ASSUME [Next]_vars
  PROVE  \/ \E t \in Tasks : AvailableLoad(t)
         \/ \E t \in Tasks : AvailableNow(t)
         \/ \E t \in Tasks : AvailableElapsed(t)
         \/ \E t \in Tasks : AvailableProbe(t)
         \/ \E t \in Tasks : SuccessSwap(t)
         \/ \E t \in Tasks : SuccessReset(t)
         \/ \E t \in Tasks : FailureCount(t)
         \/ \E t \in Tasks : FailureNow(t)
         \/ \E t \in Tasks : FailureStamp(t)
         \/ \E t \in Tasks : FailureLoad(t)
         \/ \E t \in Tasks : FailureTrip(t)
         \/ \E t \in Tasks : FailureReopen(t)
         \/ Tick
         \/ SetBack
         \/ UNCHANGED vars
  BY DEF Next, Continue

\* The count stays a u32.
LEMMA CountWraps ==
  ASSUME NEW n \in 0..Wrap - 1
  PROVE  (n + 1) % Wrap \in 0..Wrap - 1
  BY WrapAssumption

----------------------------------------------------------------------------
\* Every step keeps the variables in their types.
LEMMA TypeStep ==
  ASSUME TypeOK, [Next]_vars
  PROVE  TypeOK'
<1> USE ClockAssumption, WrapAssumption DEF TypeOK, clockVars, Locations, States, Closed, Open, HalfOpen, Goto, At, Admitted, CompareAndSwap
<1>1. ASSUME NEW t \in Tasks, AvailableLoad(t)
      PROVE  TypeOK'
  BY <1>1 DEF AvailableLoad
<1>2. ASSUME NEW t \in Tasks, AvailableNow(t)
      PROVE  TypeOK'
  BY <1>2 DEF AvailableNow
<1>3. ASSUME NEW t \in Tasks, AvailableElapsed(t)
      PROVE  TypeOK'
  BY <1>3 DEF AvailableElapsed
<1>4. ASSUME NEW t \in Tasks, AvailableProbe(t)
      PROVE  TypeOK'
  BY <1>4 DEF AvailableProbe
<1>5. ASSUME NEW t \in Tasks, SuccessSwap(t)
      PROVE  TypeOK'
  BY <1>5 DEF SuccessSwap
<1>6. ASSUME NEW t \in Tasks, SuccessReset(t)
      PROVE  TypeOK'
  BY <1>6 DEF SuccessReset
<1>7. ASSUME NEW t \in Tasks, FailureCount(t)
      PROVE  TypeOK'
  <2>1. (count + 1) % Wrap \in 0..Wrap - 1
    BY CountWraps
  <2> QED
    BY <1>7, <2>1 DEF FailureCount
<1>8. ASSUME NEW t \in Tasks, FailureNow(t)
      PROVE  TypeOK'
  BY <1>8 DEF FailureNow
<1>9. ASSUME NEW t \in Tasks, FailureStamp(t)
      PROVE  TypeOK'
  BY <1>9 DEF FailureStamp
<1>10. ASSUME NEW t \in Tasks, FailureLoad(t)
       PROVE  TypeOK'
  BY <1>10 DEF FailureLoad
<1>11. ASSUME NEW t \in Tasks, FailureTrip(t)
       PROVE  TypeOK'
  BY <1>11 DEF FailureTrip
<1>12. ASSUME NEW t \in Tasks, FailureReopen(t)
       PROVE  TypeOK'
  BY <1>12 DEF FailureReopen
<1>13. ASSUME Tick
       PROVE  TypeOK'
  BY <1>13 DEF Tick
<1>14. ASSUME SetBack
       PROVE  TypeOK'
  BY <1>14 DEF SetBack
<1>15. ASSUME UNCHANGED vars
       PROVE  TypeOK'
  BY <1>15 DEF vars, clockVars
<1> QED
  BY <1>1, <1>2, <1>3, <1>4, <1>5, <1>6, <1>7, <1>8, <1>9, <1>10, <1>11, <1>12,
     <1>13, <1>14, <1>15, NextCases

----------------------------------------------------------------------------
\* A pending task other than the one that steps is still pending, when the
\* step leaves its locals alone.
LEMMA OthersStayPending ==
  ASSUME NEW t \in Tasks, NEW u \in Tasks, u # t, Pending(u),
         pc'[u] = pc[u], seen'[u] = seen[u]
  PROVE  Pending(u)'
  BY DEF Pending

\* The locals of the other tasks do not change in a step of t.
LEMMA OthersKeep ==
  ASSUME TypeOK, NEW t \in Tasks, AvailableLoad(t) \/ Continue(t)
  PROVE  \A u \in Tasks \ {t} : /\ pc'[u] = pc[u]
                                /\ seen'[u] = seen[u]
                                /\ sample'[u] = sample[u]
<1> USE DEF TypeOK, Goto, Admitted
<1> QED
  BY DEF Continue, AvailableLoad, AvailableNow, AvailableElapsed, AvailableProbe, SuccessSwap,
         SuccessReset, FailureCount, FailureNow, FailureStamp, FailureLoad, FailureTrip, FailureReopen

\* TrippedUnlessBusy is kept by every step: the task that counts up to the
\* threshold or closes the breaker becomes pending, a pending task stays
\* so, and when its turn ends the breaker is open or the count is 0.
LEMMA TrippedStep ==
  ASSUME TypeOK, TrippedUnlessBusy, [Next]_vars
  PROVE  TrippedUnlessBusy'
<1> SUFFICES ASSUME state' = Closed, count' >= Threshold
             PROVE  \E t \in Tasks : Pending(t)'
  BY DEF TrippedUnlessBusy
<1> USE DEF Closed, Open, HalfOpen
<1>0. ASSUME NEW t \in Tasks, AvailableLoad(t) \/ Continue(t), NEW u \in Tasks \ {t}, Pending(u)
      PROVE  Pending(u)'
  BY <1>0, OthersKeep, OthersStayPending
<1>1. ASSUME NEW t \in Tasks, AvailableLoad(t) \/ Continue(t), state = Closed, count >= Threshold, ~Pending(t)
      PROVE  \E u \in Tasks : Pending(u)'
  BY <1>0, <1>1 DEF TrippedUnlessBusy
<1>2. CASE \E t \in Tasks : AvailableLoad(t) \/ AvailableNow(t) \/ AvailableElapsed(t)
  <2>1. PICK t \in Tasks : AvailableLoad(t) \/ AvailableNow(t) \/ AvailableElapsed(t)
    BY <1>2
  <2>2. state = Closed /\ count >= Threshold /\ ~Pending(t)
    BY <2>1 DEF AvailableLoad, AvailableNow, AvailableElapsed, At, Pending
  <2> QED
    BY <1>1, <2>1, <2>2 DEF Continue
<1>3. CASE \E t \in Tasks : AvailableProbe(t)
  <2>1. PICK t \in Tasks : AvailableProbe(t)
    BY <1>3
  <2>2. state = Closed /\ count >= Threshold /\ ~Pending(t)
    BY <2>1 DEF AvailableProbe, At, Pending, CompareAndSwap, TypeOK, States
  <2> QED
    BY <1>1, <2>1, <2>2 DEF Continue
<1>4. CASE \E t \in Tasks : SuccessSwap(t)
  <2>1. PICK t \in Tasks : SuccessSwap(t)
    BY <1>4
  <2>2. CASE state = HalfOpen
    <3>1. pc'[t] = "reset"
      BY <2>1, <2>2 DEF SuccessSwap, Goto, TypeOK
    <3> QED
      BY <3>1 DEF Pending
  <2>3. CASE state # HalfOpen
    <3>1. state = Closed /\ count >= Threshold /\ ~Pending(t)
      BY <2>1, <2>3 DEF SuccessSwap, At, Pending, CompareAndSwap
    <3> QED
      BY <1>1, <2>1, <3>1 DEF Continue
  <2> QED
    BY <2>2, <2>3
<1>5. CASE \E t \in Tasks : SuccessReset(t)
  BY <1>5, ThresholdAssumption DEF SuccessReset
<1>6. CASE \E t \in Tasks : FailureCount(t)
  <2>1. PICK t \in Tasks : FailureCount(t)
    BY <1>6
  <2>2. pc'[t] = "stamp" /\ seen'[t] = count'
    BY <2>1 DEF FailureCount, Goto, TypeOK
  <2> QED
    BY <2>2 DEF Pending
<1>7. CASE \E t \in Tasks : FailureNow(t) \/ FailureStamp(t)
  <2>1. PICK t \in Tasks : FailureNow(t) \/ FailureStamp(t)
    BY <1>7
  <2>2. state = Closed /\ count >= Threshold
    BY <2>1 DEF FailureNow, FailureStamp
  <2>3. Pending(t) => Pending(t)'
    BY <2>1 DEF FailureNow, FailureStamp, Pending, At, Goto, TypeOK
  <2> QED
    BY <1>1, <2>1, <2>2, <2>3 DEF Continue
<1>8. CASE \E t \in Tasks : FailureLoad(t)
  <2>1. PICK t \in Tasks : FailureLoad(t)
    BY <1>8
  <2>2. state = Closed /\ count >= Threshold
    BY <2>1 DEF FailureLoad
  <2>3. Pending(t) => pc'[t] = "trip"
    BY <2>1, <2>2 DEF FailureLoad, Pending, At, Goto, TypeOK
  <2>4. Pending(t) => Pending(t)'
    BY <2>3 DEF Pending
  <2> QED
    BY <1>1, <2>1, <2>2, <2>4 DEF Continue
<1>9. CASE \E t \in Tasks : FailureTrip(t)
  BY <1>9 DEF FailureTrip, CompareAndSwap, TypeOK, States
<1>10. CASE \E t \in Tasks : FailureReopen(t)
  <2>1. PICK t \in Tasks : FailureReopen(t)
    BY <1>10
  <2>2. state = Closed /\ count >= Threshold /\ ~Pending(t)
    BY <2>1 DEF FailureReopen, At, Pending, CompareAndSwap, TypeOK, States
  <2> QED
    BY <1>1, <2>1, <2>2 DEF Continue
<1>11. CASE Tick \/ SetBack \/ UNCHANGED vars
  BY <1>11 DEF Tick, SetBack, vars, clockVars, TrippedUnlessBusy, Pending
<1> QED
  BY <1>2, <1>3, <1>4, <1>5, <1>6, <1>7, <1>8, <1>9, <1>10, <1>11, NextCases

----------------------------------------------------------------------------
\* No step erases the time of the last failure.
LEMMA LastStays ==
  ASSUME TypeOK, Stamped, [Next]_vars, last > 0
  PROVE  last' > 0
  BY NextCases DEF Stamped, At, vars, clockVars, AvailableLoad, AvailableNow, AvailableElapsed, AvailableProbe,
     SuccessSwap, SuccessReset, FailureCount, FailureNow, FailureStamp, FailureLoad, FailureTrip,
     FailureReopen, Tick, SetBack

\* Stamped is inductive: a reading of the clock is at least 1, and it is in
\* last before its task looks at the state.
LEMMA StampedStep ==
  ASSUME TypeOK, Stamped, [Next]_vars
  PROVE  Stamped'
<1> USE LastStays DEF TypeOK, Goto, At
<1>1. ASSUME NEW t \in Tasks, AvailableLoad(t) \/ Continue(t), NEW u \in Tasks \ {t}
      PROVE  /\ pc'[u] = "store" => sample'[u] > 0
             /\ pc'[u] \in {"load", "trip", "reopen"} => last' > 0
  BY <1>1, OthersKeep DEF Stamped
<1>2. ASSUME NEW t \in Tasks, AvailableLoad(t) \/ Continue(t)
      PROVE  /\ pc'[t] = "store" => sample'[t] > 0
             /\ pc'[t] \in {"load", "trip", "reopen"} => last' > 0
  <2>1. CASE AvailableLoad(t) \/ AvailableNow(t) \/ AvailableElapsed(t) \/ AvailableProbe(t)
    BY <2>1 DEF AvailableLoad, AvailableNow, AvailableElapsed, AvailableProbe, Admitted
  <2>2. CASE SuccessSwap(t) \/ SuccessReset(t) \/ FailureCount(t) \/ FailureTrip(t) \/ FailureReopen(t)
    BY <2>2 DEF SuccessSwap, SuccessReset, FailureCount, FailureTrip, FailureReopen
  <2>3. CASE FailureNow(t)
    BY <2>3 DEF FailureNow
  <2>4. CASE FailureStamp(t)
    BY <2>4 DEF FailureStamp, Stamped
  <2>5. CASE FailureLoad(t)
    BY <2>5 DEF FailureLoad, Stamped
  <2> QED
    BY <1>2, <2>1, <2>2, <2>3, <2>4, <2>5 DEF Continue
<1>3. CASE \E t \in Tasks : AvailableLoad(t) \/ Continue(t)
  BY <1>1, <1>2, <1>3 DEF Stamped
<1>4. CASE Tick \/ SetBack \/ UNCHANGED vars
  BY <1>4 DEF Tick, SetBack, vars, clockVars, Stamped
<1> QED
  BY <1>3, <1>4 DEF Next

\* Only a task that has stored the time of its failure opens the breaker.
LEMMA OpenStampedStep ==
  ASSUME TypeOK, Stamped, OpenIsStamped, [Next]_vars
  PROVE  OpenIsStamped'
<1>1. state = Closed /\ state' # Closed => last > 0
  BY NextCases DEF Stamped, At, vars, clockVars, AvailableLoad, AvailableNow, AvailableElapsed, AvailableProbe,
     SuccessSwap, SuccessReset, FailureCount, FailureNow, FailureStamp, FailureLoad, FailureTrip,
     FailureReopen, Tick, SetBack, CompareAndSwap, Closed, Open, HalfOpen
<1> QED
  BY <1>1, LastStays DEF OpenIsStamped

----------------------------------------------------------------------------
\* IInv holds in every reachable state of the breaker.
THEOREM Invariance == Spec => []IInv
<1>1. Init => IInv
  BY ThresholdAssumption, WrapAssumption, ClockAssumption
  DEF Init, IInv, TypeOK, TrippedUnlessBusy, Stamped, OpenIsStamped, States, Locations, Closed, Open, HalfOpen
<1>2. IInv /\ [Next]_vars => IInv'
  BY TypeStep, TrippedStep, StampedStep, OpenStampedStep DEF IInv
<1> QED
  BY <1>1, <1>2, PTL DEF Spec

\* The atomics and the locals of the calls keep their types.
THEOREM TypeCorrect == Spec => []TypeOK
  BY Invariance, PTL DEF IInv

\* However the loads, swaps and stores of the calls interleave, the breaker
\* is not left closed with its threshold reached.
THEOREM TrippedUnlessBusyHolds == Spec => []TrippedUnlessBusy
  BY Invariance, PTL DEF IInv

\* A breaker that is not closed has the time of a failure to measure from.
THEOREM OpenIsStampedHolds == Spec => []OpenIsStamped
  BY Invariance, PTL DEF IInv

============================================================================
