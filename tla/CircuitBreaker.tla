--------------------------- MODULE CircuitBreaker ---------------------------
(***************************************************************************)
(* The lock-free circuit breaker of one proxy                              *)
(* (stygian-proxy/src/circuit_breaker.rs), used the way ProxyHandle and    *)
(* ProxyManager use it: a task asks is_available, may get a handle when    *)
(* the answer is true, and reports one success or one failure when it      *)
(* drops the handle.                                                       *)
(*                                                                         *)
(* An action is one access to an atomic (or one reading of the clock), so  *)
(* the calls of the tasks interleave as the loads, stores and              *)
(* compare-and-swaps of the code do.                                       *)
(***************************************************************************)
EXTENDS Integers

CONSTANTS
    Tasks,          \* the tasks that use the proxy
    Threshold,      \* circuit_open_threshold
    HalfOpenAfter,  \* circuit_half_open_after, in ticks
    Wrap,           \* 2^32 in the code: failure_count is a u32
    MaxClock,       \* bound: the last instant of the clock
    MaxSetBacks     \* bound: how often the system clock is set back (SystemTime)

ASSUME ThresholdAssumption == Threshold \in Nat /\ Threshold > 0
ASSUME WrapAssumption == Wrap \in Nat /\ Wrap > 0
ASSUME ClockAssumption ==
    /\ HalfOpenAfter \in Nat
    /\ MaxClock \in Nat
    /\ MaxClock > HalfOpenAfter
    /\ MaxSetBacks \in Nat

VARIABLES
    state,          \* the AtomicU8
    count,          \* failure_count
    last,           \* last_failure, 0 before the first failure
    clock,          \* what now_ms returns
    setBacks,       \* how often it was set back
    pc,             \* where each task is
    seen,           \* the incremented count record_failure holds
    sample          \* the reading of now_ms a task holds, 0 when it holds none

clockVars == <<clock, setBacks>>
vars == <<state, count, last, clockVars, pc, seen, sample>>

Closed   == "closed"
Open     == "open"
HalfOpen == "half_open"
States   == {Closed, Open, HalfOpen}

\* "now", "elapsed", "probe" are inside is_available; "stamp", "store",
\* "load", "trip", "reopen" inside record_failure; "reset" inside
\* record_success.
Locations == {"idle", "now", "elapsed", "probe", "holding",
              "stamp", "store", "load", "trip", "reopen", "reset"}

TypeOK ==
    /\ state \in States
    /\ count \in 0..Wrap - 1
    /\ last \in 0..MaxClock
    /\ clock \in 1..MaxClock
    /\ setBacks \in 0..MaxSetBacks
    /\ pc \in [Tasks -> Locations]
    /\ seen \in [Tasks -> 0..Wrap - 1]
    /\ sample \in [Tasks -> 0..MaxClock]

Init ==
    /\ state = Closed
    /\ count = 0
    /\ last = 0
    /\ clock = 1
    /\ setBacks = 0
    /\ pc = [t \in Tasks |-> "idle"]
    /\ seen = [t \in Tasks |-> 0]
    /\ sample = [t \in Tasks |-> 0]

----------------------------------------------------------------------------
Goto(t, l) == pc' = [pc EXCEPT ![t] = l]

At(t, l) == pc[t] = l

\* compare_exchange of the state word.
CompareAndSwap(from, to) == state' = IF state = from THEN to ELSE state

\* u64::saturating_sub
Minus(a, b) == IF a > b THEN a - b ELSE 0

\* Bound: the last instant at which a failure may read the clock, so that
\* the window of the last failure can run out.
Horizon == MaxClock - HalfOpenAfter

----------------------------------------------------------------------------
(* is_available *)

\* is_available returns true: its caller takes the proxy, or was only one
\* that looked (a candidate not selected, pool_stats).
Admitted(t) == Goto(t, "holding") \/ Goto(t, "idle")

AvailableLoad(t) ==
    /\ At(t, "idle")
    /\ IF state = Open THEN Goto(t, "now") ELSE Admitted(t)
    /\ UNCHANGED <<state, count, last, clockVars, seen, sample>>

\* now_ms() is evaluated before last_failure is loaded.
AvailableNow(t) ==
    /\ At(t, "now")
    /\ Goto(t, "elapsed")
    /\ sample' = [sample EXCEPT ![t] = clock]
    /\ UNCHANGED <<state, count, last, clockVars, seen>>

AvailableElapsed(t) ==
    /\ At(t, "elapsed")
    /\ Goto(t, IF Minus(sample[t], last) >= HalfOpenAfter THEN "probe" ELSE "idle")
    /\ sample' = [sample EXCEPT ![t] = 0]
    /\ UNCHANGED <<state, count, last, clockVars, seen>>

\* Mutant: the answer is true, the state is not moved on.
AvailableUnmoved(t) ==
    /\ At(t, "probe")
    /\ Admitted(t)
    /\ UNCHANGED <<state, count, last, clockVars, seen, sample>>

\* The answer is true whether or not the swap succeeds.
AvailableProbe(t) ==
    /\ At(t, "probe")
    /\ CompareAndSwap(Open, HalfOpen)
    /\ Admitted(t)
    /\ UNCHANGED <<count, last, clockVars, seen, sample>>

----------------------------------------------------------------------------
(* record_success: a handle marked as successful is dropped. *)

SuccessSwap(t) ==
    /\ At(t, "holding")
    /\ CompareAndSwap(HalfOpen, Closed)
    /\ Goto(t, IF state = HalfOpen THEN "reset" ELSE "idle")
    /\ UNCHANGED <<count, last, clockVars, seen, sample>>

SuccessReset(t) ==
    /\ At(t, "reset")
    /\ count' = 0
    /\ Goto(t, "idle")
    /\ UNCHANGED <<state, last, clockVars, seen, sample>>

----------------------------------------------------------------------------
(* record_failure: a handle is dropped without a success mark. *)

\* Mutant: the counter is wider than its type.
FailureCountWide(t) ==
    /\ At(t, "holding")
    /\ clock <= Horizon
    /\ count' = count + 1
    /\ seen' = [seen EXCEPT ![t] = count + 1]
    /\ Goto(t, "stamp")
    /\ UNCHANGED <<state, last, clockVars, sample>>

FailureCount(t) ==
    /\ At(t, "holding")
    /\ clock <= Horizon
    /\ count' = (count + 1) % Wrap
    /\ seen' = [seen EXCEPT ![t] = (count + 1) % Wrap]
    /\ Goto(t, "stamp")
    /\ UNCHANGED <<state, last, clockVars, sample>>

FailureNow(t) ==
    /\ At(t, "stamp")
    /\ sample' = [sample EXCEPT ![t] = clock]
    /\ Goto(t, "store")
    /\ UNCHANGED <<state, count, last, clockVars, seen>>

\* Mutant: the time of the failure is not stored.
FailureUnstamped(t) ==
    /\ At(t, "store")
    /\ sample' = [sample EXCEPT ![t] = 0]
    /\ Goto(t, "load")
    /\ UNCHANGED <<state, count, last, clockVars, seen>>

FailureStamp(t) ==
    /\ At(t, "store")
    /\ last' = sample[t]
    /\ sample' = [sample EXCEPT ![t] = 0]
    /\ Goto(t, "load")
    /\ UNCHANGED <<state, count, clockVars, seen>>

\* Mutant: the count must exceed the threshold.
FailureLoadAbove(t) ==
    /\ At(t, "load")
    /\ Goto(t, CASE state = Closed /\ seen[t] > Threshold -> "trip"
                 [] state = HalfOpen -> "reopen"
                 [] OTHER -> "idle")
    /\ seen' = [seen EXCEPT ![t] = 0]
    /\ UNCHANGED <<state, count, last, clockVars, sample>>

FailureLoad(t) ==
    /\ At(t, "load")
    /\ Goto(t, CASE state = Closed /\ seen[t] >= Threshold -> "trip"
                 [] state = HalfOpen -> "reopen"
                 [] OTHER -> "idle")
    /\ seen' = [seen EXCEPT ![t] = 0]
    /\ UNCHANGED <<state, count, last, clockVars, sample>>

FailureTrip(t) ==
    /\ At(t, "trip")
    /\ CompareAndSwap(Closed, Open)
    /\ Goto(t, "idle")
    /\ UNCHANGED <<count, last, clockVars, seen, sample>>

FailureReopen(t) ==
    /\ At(t, "reopen")
    /\ CompareAndSwap(HalfOpen, Open)
    /\ Goto(t, "idle")
    /\ UNCHANGED <<count, last, clockVars, seen, sample>>

----------------------------------------------------------------------------
(* The clock *)

Tick ==
    /\ clock < MaxClock
    /\ clock = Horizon => \A t \in Tasks : ~At(t, "stamp")
    /\ clock' = clock + 1
    /\ UNCHANGED <<setBacks, state, count, last, pc, seen, sample>>

SetBack ==
    /\ setBacks < MaxSetBacks
    /\ setBacks' = setBacks + 1
    /\ \E c \in 1..clock - 1 : clock' = c
    /\ UNCHANGED <<state, count, last, pc, seen, sample>>

\* What a call that has begun, or the drop of a handle, does next.
Continue(t) ==
    \/ AvailableNow(t) \/ AvailableElapsed(t) \/ AvailableProbe(t)
    \/ SuccessSwap(t) \/ SuccessReset(t)
    \/ FailureCount(t) \/ FailureNow(t) \/ FailureStamp(t)
    \/ FailureLoad(t) \/ FailureTrip(t) \/ FailureReopen(t)

Next ==
    \/ \E t \in Tasks : AvailableLoad(t) \/ Continue(t)
    \/ Tick
    \/ SetBack

Spec == Init /\ [][Next]_vars

\* Tasks are scheduled, time passes, and the proxy keeps being considered as
\* a candidate.
Fairness ==
    /\ \A t \in Tasks : WF_vars(Continue(t)) /\ WF_vars(AvailableLoad(t))
    /\ WF_vars(Tick)

FairSpec == Spec /\ Fairness

----------------------------------------------------------------------------
(* Properties *)

\* The task t carries a failure that can still trip the closed breaker, or
\* the reset of the count.
Pending(t) ==
    \/ pc[t] \in {"stamp", "store", "load"} /\ seen[t] >= Threshold
    \/ pc[t] \in {"trip", "reset"}

\* The breaker cannot get stuck closed over its threshold: whenever it is
\* closed with that many failures counted, a call still under way is about
\* to trip it or to reset the count, however the swaps and the separate
\* stores of the count interleave.
TrippedUnlessBusy ==
    state = Closed /\ count >= Threshold => \E t \in Tasks : Pending(t)

\* A breaker that has left Closed has the time of a real failure to measure
\* its window from: record_failure stores the time before it swaps the
\* state. Otherwise is_available would find the epoch and reopen at once.
OpenIsStamped == state # Closed => last > 0

\* An open breaker does not stay open: once its window is over one of the
\* callers that consider the proxy moves it on, though late failures of
\* handles still out keep renewing the window.
OpenEnds == state = Open ~> state # Open

============================================================================
