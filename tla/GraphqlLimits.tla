--------------------------- MODULE GraphqlLimits ---------------------------
(***************************************************************************)
(* GraphQlService::execute for a target plugin that limits both the rate   *)
(* of its requests and their cost: every call finds or makes the plugin's  *)
(* shared limiter and budget, and asks both before each request.           *)
(*                                                                         *)
(* A limiter admits requests by the times of the last ones (Sliding) or by *)
(* tokens that come back with time (TokenBucket). A token is Window        *)
(* units, so a tick gives MaxRequests units back and nothing is rounded.   *)
(* Sleeping until a slot may be free is waiting for AcquireSlot.           *)
(*                                                                         *)
(* A budget keeps what is reserved for requests under way. How long a      *)
(* reservation is delayed follows from the points the server reports; the  *)
(* model allows every delay, and does not keep the points. The hard block  *)
(* of a Retry-After answer is left out: execute never records one.         *)
(***************************************************************************)
EXTENDS Integers, Sequences, FiniteSets

CONSTANTS
    Calls,         \* the calls of execute
    Droppable,     \* the ones made by a caller that may drop their future
    MaxRequests,   \* RateLimitConfig::max_requests
    Window,        \* RateLimitConfig::window, in ticks
    Cost,          \* estimated_cost_per_request, in points
    MaxPages,      \* GraphQlConfig::max_pages
    MaxTime        \* bound of the model: the clock stops here

ASSUME LimitsAssumption ==
    /\ IsFiniteSet(Calls)
    /\ Droppable \subseteq Calls
    /\ {MaxRequests, Window, Cost, MaxPages} \subseteq Nat \ {0}
    /\ MaxTime \in Nat

VARIABLES
    clock,      \* Instant::now
    strategy,   \* the plugin's RateLimitStrategy
    limiters,   \* every RequestRateLimit made, by its time of making
    limiter,    \* the one in the map rate_limits, 0 for none
    budgets,    \* LiveBudget::pending of every PluginBudget made
    budget,     \* the one in the map budgets, 0 for none
    pc,         \* where a call is
    mine,       \* the limiter and the budget a call found
    paged,      \* the calls that follow a cursor
    page,       \* pages a call has fetched
    releasing,  \* the calls whose dropped guard has its release still to run
    lost,       \* history: calls dropped where no guard had their reservation
    granted     \* history: the time of every slot given

limits == <<strategy, limiters, limiter, budgets, budget>>
calls == <<pc, mine, paged, page, releasing, lost>>
vars == <<clock, limits, calls, granted>>

Sites == {"idle", "budget", "makeBudget", "limiter", "makeLimiter", "slot", "reserve",
          "delay", "post", "release", "ok", "failed", "dropped"}

Full == MaxRequests * Window
NewLimiter == [stamps |-> <<>>, tokens |-> Full, refilled |-> clock]

TypeOK ==
    /\ clock \in 0 .. MaxTime
    /\ strategy \in {"Sliding", "TokenBucket"}
    /\ limiters \in Seq([stamps : Seq(Nat), tokens : 0 .. Full, refilled : Nat])
    /\ limiter \in 0 .. Len(limiters)
    /\ budgets \in Seq(Nat)
    /\ budget \in 0 .. Len(budgets)
    /\ pc \in [Calls -> Sites]
    /\ mine \in [Calls -> [limiter : 0 .. Len(limiters), budget : 0 .. Len(budgets)]]
    /\ paged \in SUBSET Calls
    /\ page \in [Calls -> 0 .. MaxPages]
    /\ releasing \in SUBSET Calls
    /\ lost \in SUBSET Calls
    /\ granted \in Seq(0 .. MaxTime)

Init ==
    /\ clock = 0
    /\ strategy \in {"Sliding", "TokenBucket"}
    /\ limiters = <<>> /\ limiter = 0
    /\ budgets = <<>> /\ budget = 0
    /\ pc = [c \in Calls |-> "idle"]
    /\ mine = [c \in Calls |-> [limiter |-> 0, budget |-> 0]]
    /\ paged = {}
    /\ page = [c \in Calls |-> 0]
    /\ releasing = {} /\ lost = {}
    /\ granted = <<>>

Go(c, from, to) == pc[c] = from /\ pc' = [pc EXCEPT ![c] = to]

-----------------------------------------------------------------------------
(* The shared limits of the plugin                                         *)

\* execute is called, for one request or to follow a cursor.
Execute(c) ==
    /\ Go(c, "idle", "budget")
    /\ paged' \in {paged, paged \cup {c}}
    /\ UNCHANGED <<clock, limits, mine, page, releasing, lost, granted>>

\* Under the read lock: the plugin has a budget, or none yet.
LookBudget(c) ==
    /\ \/ budget # 0 /\ Go(c, "budget", "limiter")
       \/ budget = 0 /\ Go(c, "budget", "makeBudget")
    /\ mine' = [mine EXCEPT ![c].budget = budget]
    /\ UNCHANGED <<clock, limits, paged, page, releasing, lost, granted>>

MakeBudgetAnew(c) ==   \* mutant: insert for entry().or_insert_with
    /\ Go(c, "makeBudget", "limiter")
    /\ budgets' = Append(budgets, 0)
    /\ budget' = Len(budgets')
    /\ mine' = [mine EXCEPT ![c].budget = budget']
    /\ UNCHANGED <<clock, strategy, limiters, limiter, paged, page, releasing, lost, granted>>

\* Under the write lock: the entry may have been made since.
MakeBudget(c) ==
    /\ Go(c, "makeBudget", "limiter")
    /\ budgets' = IF budget = 0 THEN Append(budgets, 0) ELSE budgets
    /\ budget' = Len(budgets')
    /\ mine' = [mine EXCEPT ![c].budget = budget']
    /\ UNCHANGED <<clock, strategy, limiters, limiter, paged, page, releasing, lost, granted>>

LookLimiter(c) ==
    /\ \/ limiter # 0 /\ Go(c, "limiter", "slot")
       \/ limiter = 0 /\ Go(c, "limiter", "makeLimiter")
    /\ mine' = [mine EXCEPT ![c].limiter = limiter]
    /\ UNCHANGED <<clock, limits, paged, page, releasing, lost, granted>>

MakeLimiter(c) ==
    /\ Go(c, "makeLimiter", "slot")
    /\ limiters' = IF limiter = 0 THEN Append(limiters, NewLimiter) ELSE limiters
    /\ limiter' = Len(limiters')
    /\ mine' = [mine EXCEPT ![c].limiter = limiter']
    /\ UNCHANGED <<clock, strategy, budgets, budget, paged, page, releasing, lost, granted>>

-----------------------------------------------------------------------------
(* A slot of the limiter                                                   *)

\* How many times have rolled out of the window, from the front on.
Popped(times) ==
    CHOOSE k \in 0 .. Len(times) :
        /\ \A i \in 1 .. k : clock - times[i] >= Window
        /\ k < Len(times) => clock - times[k + 1] < Window

InWindow(times) == SubSeq(times, Popped(times) + 1, Len(times))

Smaller(a, b) == IF a < b THEN a ELSE b

Refilled(l) ==
    [l EXCEPT !.tokens = Smaller(@ + (clock - l.refilled) * MaxRequests, Full),
              !.refilled = clock]

\* RequestWindow::acquire, which prunes or refills whatever it answers.
Looked(l) ==
    IF strategy = "Sliding" THEN [l EXCEPT !.stamps = InWindow(@)] ELSE Refilled(l)

HasSlotOver(l) ==   \* mutant: one request over the limit
    IF strategy = "Sliding" THEN Len(l.stamps) <= MaxRequests ELSE l.tokens >= Window

HasSlot(l) ==
    IF strategy = "Sliding" THEN Len(l.stamps) < MaxRequests ELSE l.tokens >= Window

Taken(l) ==
    IF strategy = "Sliding" THEN [l EXCEPT !.stamps = Append(@, clock)]
    ELSE [l EXCEPT !.tokens = @ - Window]

MayAskOnce(c) == c \in paged => page[c] <= MaxPages   \* mutant: one page too many

\* A call that follows a cursor asks for no more than MaxPages pages.
MayAsk(c) == c \in paged => page[c] < MaxPages

AcquireSlot(c) ==
    /\ MayAsk(c)
    /\ Go(c, "slot", "reserve")
    /\ LET l == Looked(limiters[mine[c].limiter]) IN
           /\ HasSlot(l)
           /\ limiters' = [limiters EXCEPT ![mine[c].limiter] = Taken(l)]
    /\ granted' = Append(granted, clock)
    /\ UNCHANGED <<clock, strategy, limiter, budgets, budget, mine, paged, page, releasing, lost>>

\* No slot: the call sleeps and asks again.
NoSlot(c) ==
    /\ MayAsk(c)
    /\ pc[c] = "slot"
    /\ LET l == Looked(limiters[mine[c].limiter]) IN
           /\ ~ HasSlot(l)
           /\ limiters' = [limiters EXCEPT ![mine[c].limiter] = l]
    /\ UNCHANGED <<clock, strategy, limiter, budgets, budget, calls, granted>>

TooManyPages(c) ==
    /\ ~ MayAsk(c)
    /\ Go(c, "slot", "failed")
    /\ UNCHANGED <<clock, limits, mine, paged, page, releasing, lost, granted>>

-----------------------------------------------------------------------------
(* A reservation of the budget, and the request                            *)

\* pre_flight_reserve: reserved under the lock; the delay, if any, is slept
\* before the caller has a guard.
Reserve(c) ==
    /\ Go(c, "reserve", "post") \/ Go(c, "reserve", "delay")
    /\ budgets' = [budgets EXCEPT ![mine[c].budget] = @ + Cost]
    /\ UNCHANGED <<clock, strategy, limiters, limiter, budget, mine, paged, page, releasing,
                   lost, granted>>

Delayed(c) ==
    /\ Go(c, "delay", "post")
    /\ UNCHANGED <<clock, limits, mine, paged, page, releasing, lost, granted>>

\* A good answer: what it says of the points is noted by update_budget.
Answered(c) ==
    /\ Go(c, "post", "release")
    /\ UNCHANGED <<clock, limits, mine, paged, page, releasing, lost, granted>>

\* post_query or validate_body fails: the guard is dropped, which spawns a
\* task to release the reservation.
Rejected(c) ==
    /\ Go(c, "post", "failed")
    /\ releasing' = releasing \cup {c}
    /\ UNCHANGED <<clock, limits, mine, paged, page, lost, granted>>

Less(points) == IF points > Cost THEN points - Cost ELSE 0

\* BudgetGuard::release; the page is accounted for, and a call that follows
\* a cursor goes on if there is a next one.
Release(c) ==
    /\ \/ Go(c, "release", "ok")
       \/ c \in paged /\ Go(c, "release", "slot")
    /\ budgets' = [budgets EXCEPT ![mine[c].budget] = Less(@)]
    /\ page' = IF c \in paged THEN [page EXCEPT ![c] = @ + 1] ELSE page
    /\ UNCHANGED <<clock, strategy, limiters, limiter, budget, mine, paged, releasing, lost,
                   granted>>

\* The task a dropped guard has spawned.
DropRelease(c) ==
    /\ c \in releasing
    /\ releasing' = releasing \ {c}
    /\ budgets' = [budgets EXCEPT ![mine[c].budget] = Less(@)]
    /\ UNCHANGED <<clock, strategy, limiters, limiter, budget, pc, mine, paged, page, lost,
                   granted>>

HasGuard == {"post", "release"}

\* The caller drops the future at one of its awaits. A guard dropped with it
\* spawns the release; but a reservation in its delay has no guard yet, and
\* a release that waits for the lock has emptied its guard before.
DropCall(c) ==
    /\ c \in Droppable
    /\ pc[c] \notin {"idle", "ok", "failed", "dropped"}
    /\ pc' = [pc EXCEPT ![c] = "dropped"]
    /\ \/ pc[c] \in HasGuard /\ releasing' = releasing \cup {c} /\ UNCHANGED lost
       \/ pc[c] \in {"delay", "release"} /\ lost' = lost \cup {c} /\ UNCHANGED releasing
       \/ pc[c] \notin HasGuard \cup {"delay"} /\ UNCHANGED <<releasing, lost>>
    /\ UNCHANGED <<clock, limits, mine, paged, page, granted>>

Tick ==
    /\ clock < MaxTime
    /\ clock' = clock + 1
    /\ UNCHANGED <<limits, calls, granted>>

CallStep(c) ==
    \/ LookBudget(c) \/ MakeBudget(c) \/ LookLimiter(c) \/ MakeLimiter(c)
    \/ AcquireSlot(c) \/ NoSlot(c) \/ TooManyPages(c)
    \/ Reserve(c) \/ Delayed(c) \/ Answered(c) \/ Rejected(c) \/ Release(c)
    \/ DropRelease(c) \/ DropCall(c)

Done ==
    /\ \A c \in Calls : pc[c] \in {"ok", "failed", "dropped"}
    /\ releasing = {}
    /\ UNCHANGED vars

Next ==
    \/ Tick \/ Done
    \/ \E c \in Calls : Execute(c) \/ CallStep(c)

Spec == Init /\ [][Next]_vars

-----------------------------------------------------------------------------
(* Properties                                                              *)

\* The calls with a reservation in budget b: under way, waiting for the task
\* of their dropped guard, or dropped with no guard.
Holders(b) ==
    {c \in Calls : mine[c].budget = b /\
        (pc[c] \in HasGuard \cup {"delay"} \/ c \in releasing \/ c \in lost)}

\* Calls that find no budget at the same time end with one, and what it has
\* pending is one reservation per holder: none is released twice, and none
\* is left behind but by a call dropped in its delay or in the wait of its
\* release, which never gives it back (graphql_throttle.rs:274, 355).
ReservedOnce ==
    /\ Len(budgets) <= 1
    /\ \A b \in 1 .. Len(budgets) : budgets[b] = Cost * Cardinality(Holders(b))

\* However the calls interleave, the slots that rate_limit_acquire gives to all
\* of them together stay in the limit of the plugin: no Window has more than
\* MaxRequests, and, as a bucket may be full when a Window begins, never twice as
\* many where the plugin counts tokens.  Slots, not requests: a request is sent
\* after its slot is taken, its points are reserved and the delay for them is
\* over, so requests of one Window may be those of slots of several.
SlotsWithinRate ==
    LET most == IF strategy = "Sliding" THEN MaxRequests ELSE 2 * MaxRequests - 1
    IN  \A i, j \in 1 .. Len(granted) :
            i <= j /\ granted[j] - granted[i] < Window => j - i < most

=============================================================================
