---------------------------- MODULE BrowserPool ----------------------------
(***************************************************************************)
(* The browser pool of stygian-browser (src/crates/stygian-browser/src/    *)
(* pool.rs): warm idle queues, one shared and one per context, guarded by  *)
(* an async mutex; a semaphore that bounds launches; and a separate atomic *)
(* counter active_count that is read without the mutex.                    *)
(*                                                                         *)
(* A task is a future that runs acquire, holds a handle, and releases it.  *)
(* Its pc names the await point at which it is suspended, so whatever the  *)
(* code does between two awaits is one action:                             *)
(*                                                                         *)
(*   scan      waiting for the mutex, active_count already read            *)
(*   permit    waiting for a semaphore permit (room was seen)              *)
(*   bind      waiting for proxy_source.bind_proxy                         *)
(*   launch    waiting for BrowserInstance::launch                         *)
(*   poll      in poll_for_release (no room was seen)                      *)
(*   using     the handle is out                                           *)
(*   returning release has seen a healthy flag and waits for the mutex     *)
(*                                                                         *)
(* A handle that is dropped releases in a spawned task; that task is the   *)
(* same Task here, since the names of tasks carry no meaning.              *)
(***************************************************************************)
EXTENDS Integers, Sequences, FiniteSets

CONSTANTS
    Tasks,        \* futures that use the pool
    Browsers,     \* Chrome processes; a bound: at most this many run at once
    Contexts,     \* context ids of acquire_for
    Shared,       \* the key of the shared queue
    NoTask, NoBrowser,
    MinSize, MaxSize,
    MayCancel,    \* acquisition.rs wraps pool calls in a timeout: futures may be dropped
    MayCrash      \* a Chrome process may die by itself

Keys == Contexts \cup {Shared}

ASSUME ConstantsAssumption ==
    /\ IsFiniteSet(Tasks) /\ IsFiniteSet(Browsers)
    /\ Shared \notin Contexts
    /\ NoBrowser \notin Browsers /\ NoTask \notin Tasks
    /\ MinSize \in Nat /\ MaxSize \in Nat
    /\ MayCancel \in BOOLEAN /\ MayCrash \in BOOLEAN

VARIABLES
    permits,   \* free permits of the semaphore
    active,    \* active_count
    queue,     \* PoolInner: the idle entries of each key, oldest first
    ripe,      \* how many entries at the front of a queue are idle_timeout old
    place,     \* where a browser process is, see Places
    healthy,   \* browsers whose cached flag is true
    alive,     \* browsers whose process runs
    lease,     \* the proxy lease of a browser and how it was resolved
    home,      \* history: the key a browser was first given out or warmed for
    pc, room, key, hand,  \* per task: suspension point, the stale test of
                          \* active < max, the key asked for, the browser held
    warming    \* iterations left of warmup_pool

vars == <<permits, active, queue, ripe, place, healthy, alive, lease, home,
          pc, room, key, hand, warming>>

\* What the pool can say of a browser; what a task holds.
browserVars == <<place, healthy, alive, lease, home>>
taskVars    == <<pc, room, key, hand>>

(***************************************************************************)
(* owed: a spawned task shuts the browser down and will then lower         *)
(* active_count.  closing: it is shut down but nobody will lower the       *)
(* counter for it any more.                                                *)
(***************************************************************************)
Places == {"none", "idle", "held", "owed", "closing"}
Leases == {"none", "held", "success", "failure"}
Pcs == {"out", "scan", "permit", "bind", "launch", "poll", "using", "returning"}

Smaller(m, n) == IF m < n THEN m ELSE n
First(S) == CHOOSE i \in S : \A j \in S : i <= j
Elements(q) == {q[i] : i \in DOMAIN q}

Fresh     == {b \in Browsers : place[b] = "none"}
Idle      == {b \in Browsers : place[b] = "idle"}
Managed   == {b \in Browsers : place[b] \in {"idle", "held"}}
Counted   == {b \in Browsers : place[b] \in {"idle", "held", "owed"}}
Launching == {t \in Tasks : pc[t] \in {"bind", "launch"}}

Init ==
    /\ permits = MaxSize
    /\ active = 0
    /\ queue = [k \in Keys |-> << >>]
    /\ ripe = [k \in Keys |-> 0]
    /\ place = [b \in Browsers |-> "none"]
    /\ healthy = {}
    /\ alive = {}
    /\ lease = [b \in Browsers |-> "none"]
    /\ home = [b \in Browsers |-> Shared]
    /\ pc = [t \in Tasks |-> "out"]
    /\ room = [t \in Tasks |-> FALSE]
    /\ key = [t \in Tasks |-> Shared]
    /\ hand = [t \in Tasks |-> NoBrowser]
    /\ warming = MinSize

-----------------------------------------------------------------------------
(***************************************************************************)
(* Building blocks                                                         *)
(***************************************************************************)

\* Mutant: nobody calls mark_success on the lease.
DisposeUnmarked(S, p, v) ==
    /\ place' = [b \in Browsers |-> IF b \in S THEN p ELSE place[b]]
    /\ lease' = [b \in Browsers |-> IF b \in S THEN "failure" ELSE lease[b]]

\* The browsers of S leave the pool: they go to place p, their lease is
\* dropped with verdict v.
Dispose(S, p, v) ==
    /\ place' = [b \in Browsers |-> IF b \in S THEN p ELSE place[b]]
    /\ lease' = [b \in Browsers |-> IF b \in S THEN v ELSE lease[b]]

\* Mutant: one entry too few is removed.
PopOneLess(k, n) ==
    /\ queue' = [queue EXCEPT ![k] = SubSeq(@, IF n = 0 THEN 1 ELSE n, Len(@))]
    /\ ripe' = [ripe EXCEPT ![k] = IF @ < n THEN 0 ELSE @ - n]

\* The first n entries of the queue of k are gone.
Pop(k, n) ==
    /\ queue' = [queue EXCEPT ![k] = SubSeq(@, n + 1, Len(@))]
    /\ ripe' = [ripe EXCEPT ![k] = IF @ < n THEN 0 ELSE @ - n]

\* Mutant: the context id of the handle is lost.
PushBackShared(b, k) ==
    /\ queue' = [queue EXCEPT ![Shared] = Append(@, b)]
    /\ place' = [place EXCEPT ![b] = "idle"]

\* b is queued under key k, as its youngest entry.
PushBack(b, k) ==
    /\ queue' = [queue EXCEPT ![k] = Append(@, b)]
    /\ place' = [place EXCEPT ![b] = "idle"]

\* A launch gave a browser b, for key k.
Started(b, p, k) ==
    /\ place' = [place EXCEPT ![b] = p]
    /\ lease' = [lease EXCEPT ![b] = "held"]
    /\ home' = [home EXCEPT ![b] = k]
    /\ healthy' = healthy \cup {b}
    /\ alive' = alive \cup {b}

\* The pool is handed out by BrowserPool::new only after the warmup.
Open == warming = 0

Goto(t, p) == pc' = [pc EXCEPT ![t] = p]

\* The call of t is over: it holds nothing and its locals are gone.
Leave(t) ==
    /\ Goto(t, "out")
    /\ hand' = [hand EXCEPT ![t] = NoBrowser]
    /\ room' = [room EXCEPT ![t] = FALSE]
    /\ key' = [key EXCEPT ![t] = Shared]

-----------------------------------------------------------------------------
(***************************************************************************)
(* warmup_pool: MinSize sequential launches into the shared queue.  A      *)
(* proxy or launch error skips one iteration, a missing permit ends them.  *)
(***************************************************************************)
WarmOne(b) ==
    /\ warming > 0 /\ permits > 0 /\ b \in Fresh
    /\ permits' = permits - 1
    /\ active' = active + 1
    /\ Started(b, "idle", Shared)
    /\ queue' = [queue EXCEPT ![Shared] = Append(@, b)]
    /\ warming' = warming - 1
    /\ UNCHANGED <<ripe, taskVars>>

WarmFail ==
    /\ warming > 0
    /\ \/ warming' = warming - 1
       \/ permits = 0 /\ warming' = 0
    /\ UNCHANGED <<permits, active, queue, ripe, browserVars, taskVars>>

(***************************************************************************)
(* acquire_inner                                                           *)
(***************************************************************************)

\* The counter is read before the mutex is asked for, and never again.
Begin(t, k) ==
    /\ Open /\ pc[t] = "out"
    /\ Goto(t, "scan")
    /\ key' = [key EXCEPT ![t] = k]
    /\ room' = [room EXCEPT ![t] = active < MaxSize]
    /\ UNCHANGED <<permits, active, queue, ripe, browserVars, hand, warming>>

\* A healthy entry is taken; unhealthy ones before and behind it, up to the
\* next healthy one, are disposed of (without returning a permit).
ScanHit(t) ==
    LET q    == queue[key[t]]
        good == {i \in DOMAIN q : q[i] \in healthy}
        hit  == First(good)
        rest == good \ {hit}
        last == IF rest = {} THEN Len(q) ELSE First(rest) - 1
    IN  /\ pc[t] = "scan" /\ good # {}
        /\ Pop(key[t], last)
        /\ place' = [b \in Browsers |->
                       IF b = q[hit] THEN "held"
                       ELSE IF \E i \in 1..last : b = q[i] THEN "owed"
                       ELSE place[b]]
        /\ lease' = [b \in Browsers |->
                       IF b # q[hit] /\ \E i \in 1..last : b = q[i]
                       THEN "failure" ELSE lease[b]]
        /\ Goto(t, "using")
        /\ hand' = [hand EXCEPT ![t] = q[hit]]
        /\ UNCHANGED <<permits, active, healthy, alive, home, room, key, warming>>

ScanMiss(t) ==
    LET q == queue[key[t]]
    IN  /\ pc[t] = "scan"
        /\ \A i \in DOMAIN q : q[i] \notin healthy
        /\ Pop(key[t], Len(q))
        /\ Dispose(Elements(q), "owed", "failure")
        /\ Goto(t, IF room[t] THEN "permit" ELSE "poll")
        /\ UNCHANGED <<permits, active, healthy, alive, home, room, key, hand, warming>>

\* Mutant: the permit is dropped at the end of the statement, not forgotten.
TakePermitDropped(t) ==
    /\ pc[t] = "permit" /\ permits > 0
    /\ active' = active + 1
    /\ Goto(t, "bind")
    /\ UNCHANGED <<permits, queue, ripe, browserVars, room, key, hand, warming>>

TakePermit(t) ==
    /\ pc[t] = "permit" /\ permits > 0
    /\ permits' = permits - 1
    /\ active' = active + 1
    /\ Goto(t, "bind")
    /\ UNCHANGED <<queue, ripe, browserVars, room, key, hand, warming>>

\* Mutant: the error path hands back a permit that was never taken.
ExhaustedReturnsPermit(t) ==
    /\ pc[t] = "permit" /\ permits = 0
    /\ permits' = permits + 1
    /\ Leave(t)
    /\ UNCHANGED <<active, queue, ripe, browserVars, warming>>

\* Mutant: the poll loop is outside the timeout.
ExhaustedPermitOnly(t) ==
    /\ pc[t] = "permit" /\ permits = 0
    /\ Leave(t)
    /\ UNCHANGED <<permits, active, queue, ripe, browserVars, warming>>

\* PoolExhausted, after acquire_timeout: from the semaphore, which gives a
\* free permit to a waiter at once, or from the poll.
Exhausted(t) ==
    /\ \/ pc[t] = "poll"
       \/ pc[t] = "permit" /\ permits < Cardinality({s \in Tasks : pc[s] = "permit"})
    /\ Leave(t)
    /\ UNCHANGED <<permits, active, queue, ripe, browserVars, warming>>

\* Without a proxy source the await is not there: BindOk at once.
BindOk(t) ==
    /\ pc[t] = "bind"
    /\ Goto(t, "launch")
    /\ UNCHANGED <<permits, active, queue, ripe, browserVars, room, key, hand, warming>>

LaunchOk(t, b) ==
    /\ pc[t] = "launch" /\ b \in Fresh
    /\ Started(b, "held", key[t])
    /\ Goto(t, "using")
    /\ hand' = [hand EXCEPT ![t] = b]
    /\ UNCHANGED <<permits, active, queue, ripe, room, key, warming>>

\* Mutant: an error path forgets the counter.
LaunchErrKeepsActive(t) ==
    /\ pc[t] \in {"bind", "launch"}
    /\ permits' = permits + 1
    /\ Leave(t)
    /\ UNCHANGED <<active, queue, ripe, browserVars, warming>>

\* bind_proxy or launch failed: the slot is handed back.
LaunchErr(t) ==
    /\ pc[t] \in {"bind", "launch"}
    /\ active' = active - 1
    /\ permits' = permits + 1
    /\ Leave(t)
    /\ UNCHANGED <<queue, ripe, browserVars, warming>>

\* poll_for_release: one round that finds an entry under its own key.
Poll(t) ==
    LET q == queue[key[t]]
        b == Head(q)
    IN  /\ pc[t] = "poll" /\ q # << >>
        /\ Pop(key[t], 1)
        /\ IF b \in healthy
           THEN /\ place' = [place EXCEPT ![b] = "held"]
                /\ Goto(t, "using")
                /\ hand' = [hand EXCEPT ![t] = b]
                /\ UNCHANGED lease
           ELSE /\ Dispose({b}, "owed", "failure")
                /\ UNCHANGED <<pc, hand>>
        /\ UNCHANGED <<permits, active, healthy, alive, home, room, key, warming>>

-----------------------------------------------------------------------------
(***************************************************************************)
(* The holder and the process                                              *)
(***************************************************************************)

\* BrowserInstance::health_check, through the holder's browser_mut: the only
\* code that changes the cached flag.  A live browser may time out.
HealthCheck(t) ==
    /\ pc[t] = "using"
    /\ \/ hand[t] \in alive /\ healthy' = healthy \cup {hand[t]}
       \/ healthy' = healthy \ {hand[t]}
    /\ UNCHANGED <<permits, active, queue, ripe, place, alive, lease, home,
                   taskVars, warming>>

Crash(b) ==
    /\ MayCrash /\ b \in Managed /\ b \in alive
    /\ alive' = alive \ {b}
    /\ UNCHANGED <<permits, active, queue, ripe, place, healthy, lease, home,
                   taskVars, warming>>

\* Mutant: release does not look at the cached flag.
ReleaseUnseen(t) ==
    /\ pc[t] = "using"
    /\ Goto(t, "returning")
    /\ UNCHANGED <<permits, active, queue, ripe, browserVars, room, key, hand, warming>>

\* release, up to its first await: an unhealthy browser needs no mutex.
ReleaseBegin(t) ==
    /\ pc[t] = "using"
    /\ IF hand[t] \in healthy
       THEN /\ Goto(t, "returning")
            /\ UNCHANGED <<permits, place, lease, room, key, hand>>
       ELSE /\ Dispose({hand[t]}, "owed", "failure")
            /\ permits' = permits + 1
            /\ Leave(t)
    /\ UNCHANGED <<active, queue, ripe, healthy, alive, home, warming>>

\* release, with the mutex: back into the queue of the handle's key, or out
\* of the pool when the idle queues already hold MaxSize entries.
Return(t) ==
    LET b == hand[t]
    IN  /\ pc[t] = "returning"
        /\ IF Cardinality(Idle) < MaxSize
           THEN /\ PushBack(b, key[t])
                /\ UNCHANGED <<permits, lease>>
           ELSE /\ Dispose({b}, "owed", "success")
                /\ permits' = permits + 1
                /\ UNCHANGED queue
        /\ Leave(t)
        /\ UNCHANGED <<active, ripe, healthy, alive, home, warming>>

\* The future of t is dropped at an await.  A forgotten permit and its count
\* are not handed back; a browser in a dropped release dies with its lease.
Cancel(t) ==
    /\ MayCancel
    /\ pc[t] \in {"scan", "permit", "poll", "bind", "launch", "returning"}
    /\ Dispose({hand[t]} \cap Browsers, "closing", "failure")
    /\ Leave(t)
    /\ UNCHANGED <<permits, active, queue, ripe, healthy, alive, home, warming>>

-----------------------------------------------------------------------------
(***************************************************************************)
(* release_context, eviction_loop and the spawned shutdowns                *)
(***************************************************************************)
ReleaseContext(c) ==
    LET q == queue[c]
    IN  /\ Open /\ q # << >>
        /\ Pop(c, Len(q))
        /\ Dispose(Elements(q), "owed", "success")
        /\ permits' = permits + Len(q)
        /\ UNCHANGED <<active, healthy, alive, home, taskVars, warming>>

\* Time passes: the oldest entry of k not yet ripe reaches idle_timeout.
Age(k) ==
    /\ ripe[k] < Len(queue[k])
    /\ ripe' = [ripe EXCEPT ![k] = @ + 1]
    /\ UNCHANGED <<permits, active, queue, browserVars, taskVars, warming>>

Quota == IF active > MinSize THEN Smaller(active - MinSize, Cardinality(Idle)) ELSE 0
Ripe  == {b \in Browsers : \E k \in Keys : \E i \in 1..ripe[k] : b = queue[k][i]}

\* n[k] entries go from the front of the queue of k: the shared queue first,
\* then the contexts in the order of a hash map, until the quota is used up.
\* No permit is given back and the counter falls at once.
Evict(n) ==
    LET gone == {b \in Browsers : \E k \in Keys : \E i \in 1..n[k] : b = queue[k][i]}
    IN  /\ Open
        /\ \A k \in Keys : n[k] <= ripe[k]
        /\ gone # {}
        /\ n[Shared] = Smaller(Quota, ripe[Shared])
        /\ Cardinality(gone) = Smaller(Quota, Cardinality(Ripe))
        /\ Cardinality({c \in Contexts : n[c] \notin {0, ripe[c]}}) <= 1
        /\ queue' = [k \in Keys |-> SubSeq(queue[k], n[k] + 1, Len(queue[k]))]
        /\ ripe' = [k \in Keys |-> ripe[k] - n[k]]
        /\ Dispose(gone, "closing", "success")
        /\ active' = active - Cardinality(gone)
        /\ UNCHANGED <<permits, healthy, alive, home, taskVars, warming>>

\* Mutant: the shutdown of an evicted browser lowers the counter once more.
ShutdownTwice(b) ==
    /\ place[b] \in {"owed", "closing"}
    /\ active' = active - 1
    /\ place' = [place EXCEPT ![b] = "none"]
    /\ lease' = [lease EXCEPT ![b] = "none"]
    /\ home' = [home EXCEPT ![b] = Shared]
    /\ healthy' = healthy \ {b}
    /\ alive' = alive \ {b}
    /\ UNCHANGED <<permits, queue, ripe, taskVars, warming>>

\* The shutdown of b is over; a spawned task then lowers the counter.
ShutdownDone(b) ==
    /\ place[b] \in {"owed", "closing"}
    /\ active' = IF place[b] = "owed" THEN active - 1 ELSE active
    /\ place' = [place EXCEPT ![b] = "none"]
    /\ lease' = [lease EXCEPT ![b] = "none"]
    /\ home' = [home EXCEPT ![b] = Shared]
    /\ healthy' = healthy \ {b}
    /\ alive' = alive \ {b}
    /\ UNCHANGED <<permits, queue, ripe, taskVars, warming>>

-----------------------------------------------------------------------------
TaskStep(t) ==
    \/ \E k \in Keys : Begin(t, k)
    \/ ScanHit(t) \/ ScanMiss(t)
    \/ TakePermit(t) \/ Exhausted(t)
    \/ BindOk(t) \/ LaunchErr(t)
    \/ \E b \in Browsers : LaunchOk(t, b)
    \/ Poll(t) \/ HealthCheck(t)
    \/ ReleaseBegin(t) \/ Return(t) \/ Cancel(t)

Next ==
    \/ \E t \in Tasks : TaskStep(t)
    \/ \E b \in Browsers : WarmOne(b) \/ Crash(b) \/ ShutdownDone(b)
    \/ WarmFail
    \/ \E c \in Contexts : ReleaseContext(c)
    \/ \E k \in Keys : Age(k)
    \/ \E n \in [Keys -> 0..MaxSize] : Evict(n)

Spec == Init /\ [][Next]_vars

(***************************************************************************)
(* Fairness: the timeouts of acquire and of launch fire, a proxy source    *)
(* answers, the mutex (never held across an await) is granted, the warmup  *)
(* and the spawned shutdowns end.  Nobody is made to release a handle.     *)
(***************************************************************************)
Progress(t) ==
    \/ ScanHit(t) \/ ScanMiss(t) \/ TakePermit(t) \/ Exhausted(t)
    \/ BindOk(t) \/ LaunchErr(t) \/ Return(t)

FairSpec ==
    /\ Spec
    /\ \A t \in Tasks : WF_vars(Progress(t))
    /\ \A b \in Browsers : WF_vars(ShutdownDone(b))
    /\ WF_vars(WarmFail \/ \E b \in Browsers : WarmOne(b))

-----------------------------------------------------------------------------
(***************************************************************************)
(* Properties                                                              *)
(***************************************************************************)

\* Every variable has its type.
TypeOK ==
    /\ permits \in 0..MaxSize
    /\ active \in Nat
    /\ queue \in [Keys -> Seq(Browsers)]
    /\ ripe \in [Keys -> Nat]
    /\ place \in [Browsers -> Places]
    /\ healthy \subseteq Browsers
    /\ alive \subseteq Browsers
    /\ lease \in [Browsers -> Leases]
    /\ home \in [Browsers -> Keys]
    /\ pc \in [Tasks -> Pcs]
    /\ room \in [Tasks -> BOOLEAN]
    /\ key \in [Tasks -> Keys]
    /\ hand \in [Tasks -> Browsers \cup {NoBrowser}]
    /\ warming \in 0..MinSize

\* A permit is spent once and handed back at most once: free permits, slots
\* of launches under way and browsers held or idle never exceed MaxSize,
\* whatever is cancelled, evicted or released in between.
Capacity == permits + Cardinality(Launching) + Cardinality(Managed) <= MaxSize

\* The lock-free counter never falls below the browsers and launches it will
\* still be lowered for, so no fetch_sub wraps it below zero.
ActiveCovers == active >= Cardinality(Launching) + Cardinality(Counted)

\* When no future is dropped the counter is exact: every path out of the pool
\* lowers it once, at once or after the shutdown.
ActiveExact ==
    ~MayCancel => active = Cardinality(Launching) + Cardinality(Counted)

\* No browser is in two hands, in a hand and a queue, or twice in the queues.
SingleOwner ==
    /\ \A t \in Tasks : hand[t] # NoBrowser => place[hand[t]] = "held"
    /\ \A s, t \in Tasks : s # t /\ hand[s] # NoBrowser => hand[s] # hand[t]
    /\ \A k \in Keys : \A i \in DOMAIN queue[k] : place[queue[k][i]] = "idle"
    /\ \A j, k \in Keys : \A m \in DOMAIN queue[j], n \in DOMAIN queue[k] :
          queue[j][m] = queue[k][n] => j = k /\ m = n

\* acquire_for: a browser used under one key, through any number of releases
\* and re-acquisitions, is only ever queued or handed out under that key.
ContextIsolation ==
    /\ \A t \in Tasks : hand[t] # NoBrowser => home[hand[t]] = key[t]
    /\ \A k \in Keys : \A i \in DOMAIN queue[k] : home[queue[k][i]] = k

\* An entry in a queue looks healthy for as long as it waits there, so the
\* disposal branches of acquire and poll, which return no permit, never run.
IdleLooksHealthy ==
    \A k \in Keys : \A i \in DOMAIN queue[k] : queue[k][i] \in healthy

\* A healthy browser that comes back always finds room in the idle queues.
RoomOnReturn == \A t \in Tasks : pc[t] = "returning" => Cardinality(Idle) < MaxSize

\* The proxy of a disposed browser is credited exactly when the browser
\* looked healthy; only a dropped release is charged a failure regardless.
LeaseVerdict ==
    \A b \in Browsers :
      /\ place[b] = "owed" => lease[b] = IF b \in healthy THEN "success" ELSE "failure"
      /\ place[b] = "closing" => lease[b] = "success" \/ MayCancel

(***************************************************************************)
(* The pool implements the abstract pool of leases.                        *)
(***************************************************************************)
LeaseState == [b \in Browsers |-> CASE place[b] = "idle" -> "idle"
                                    [] place[b] = "held" -> "lent"
                                    [] OTHER -> "absent"]
LeaseTenant == [b \in Browsers |-> IF b \in Managed THEN home[b] ELSE Shared]

Lease == INSTANCE LeasePool WITH
    Items <- Browsers, Users <- Tasks, Tenants <- Keys, Common <- Shared,
    Nothing <- NoBrowser, Limit <- MaxSize,
    state <- LeaseState, tenant <- LeaseTenant, ask <- key

\* A user of the pool sees lending, giving back and closing, and nothing else:
\* never more than MaxSize browsers, one holder each, one context for life.
ImplementsLeasePool == Lease!Spec

\* Every acquire ends, with a handle or with an error.
AcquireEnds ==
    \A t \in Tasks :
      pc[t] \in {"scan", "permit", "bind", "launch", "poll"} ~> pc[t] \in {"out", "using"}


=============================================================================
