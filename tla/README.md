# Verification of stygian

This directory holds TLA+ models of the stateful parts of stygian, the TLC configurations that check
them on small instances, and TLAPS proofs of what matters most for every instance. Paths are
relative to `crates/` of the repository unless they start with `book/`.

| to do this | run (in this directory) |
|---|---|
| check a run of section 4 | `tlc -workers 2 -config <run>.cfg <module>.tla` |
| check the proofs | `tlapm <module>.tla` for `BrowserPoolProofs`, `BrowserPoolRefinement`, `CircuitBreakerProofs`, `ProxyManagerProofs`, `WorkQueueProofs`, `AcquisitionProofs`, `McpProofs`, `GraphProofs` |

`PROJECT.json` lists the components, the runs, the source lines each definition stands for, one
mutated definition per property (the model with a plausible bug, which must break that property),
the hazards of the code with the properties that watch them, and the theorems.

## 1. The system and its parts

stygian is a scraping toolkit in seven crates. They share no global state; they meet in a process
that wires a browser pool to a proxy manager, runs a pipeline of services, and asks the charon crate
for policies.

| part | state | operations | interacts with | what makes it correct |
|---|---|---|---|---|
| `stygian-browser` `BrowserPool` | idle queues per context under a mutex, a semaphore, the atomic `active_count`, a proxy lease per browser | warmup, acquire, acquire_for, release, handle drop, release_context, eviction, detached shutdowns | launches Chrome, binds a proxy per browser | capacity is spent and returned once; a browser has one holder and one context; acquires end |
| `stygian-proxy` `CircuitBreaker` | three atomics: state, failure count, time of the last failure | is_available, record_success, record_failure | ProxyManager, ProxyHandle | trips when it should, recovers, does not get stuck |
| `stygian-proxy` `ProxyManager`, `SessionMap`, `MemoryProxyStore`, `HealthChecker` | storage, map of breakers, health map, sticky sessions | acquire_*, handle drop, add, remove, stats, health cycles, purge | breakers, rotation strategies | handles only for proxies in the pool and usable; no lock is kept for ever |
| `stygian-graph` `LocalWorkQueue`, `DistributedDagExecutor` | queue of tasks, map of statuses, worker tasks | enqueue, try_dequeue, acknowledge, fail, collect_results, execute_wave | services | no task lost or run twice; results complete; waves end |
| `stygian-browser` `AcquisitionRunner` | per call of `run`: the ladder of strategies, the result, a browser, a remote session | run | browser pool, remote provider | the result tells what was tried; browsers and sessions are put away on every way out |
| `stygian-browser` MCP server | map of sessions, and per session the browser, the page, the current URL, each behind its own mutex | acquire, attach, page tools, release | browser pool, an MCP client | a session has its browser; no page outlives its session; no handle is lost |
| `stygian-proxy` MCP server, `stygian-mcp` aggregator | handles by token; of scrape_proxied the handle it took | proxy tools, the cleanup task, scrape_proxied | ProxyManager, both MCP servers | no handle is left that nobody can give back |
| `stygian-graph` GraphQL limits | per plugin a limiter (times or tokens) and a budget with reservations | execute: slot, reservation, page, release | GraphQL services | reservations are returned once, no more slots than the limit |
| `stygian-graph` `DagExecutor` | wave and tasks, result map | from_pipeline, execute | services | a task has the outputs of its predecessors; `Ok` is complete |
| `stygian-graph` `IdempotencyStore` over `DashMapCache` | one entry per key, with expiry | claim, store, mark_failed, get, invalidate | workers | a claim is given once |
| `stygian-graph` `WorkerPool` | one bounded channel | submit, shutdown | services | `shutdown` takes the pool by value, so it meets no submit |
| `stygian-graph` resilience, fallback, escalation, registry | breaker, token bucket, tier per domain, status per service | call, execute, probe | service adapters | limits hold, tiers stay within bounds |
| `stygian-graph` `RedisWorkQueue`, Redis cache | Redis streams and keys | as LocalWorkQueue | Redis | as LocalWorkQueue, across crashes |
| `stygian-charon` token validator, nonce book, caches | nonces, cached policies, feedback | validate, record, lookup | acquisition policies | a token is accepted once |
| `stygian-plugin` | templates, idempotency keys | save, load | an MCP client | keys claimed once |
| analysis and generation (classifiers, scores, stealth scripts, fingerprints) | none | pure functions | | |

The hard behaviour is the same everywhere: futures that can be dropped at any await, locks that are
released before the decision they protect is used, counters kept beside the state they count,
detached tasks that finish a job later, and read-then-act on caches.

## 2. The modules

| module | what it is |
|---|---|
| `BrowserPool` | `stygian-browser/src/pool.rs`, one action per stretch between two awaits |
| `LeasePool` | the abstract pool a user may rely on: at most `Limit` browsers, one holder each, one tenant for life |
| `MCBrowserPool` | symmetry for TLC, and one statement of a comment that the code does not keep |
| `BrowserPoolProofs` | inductive invariant of `BrowserPool` and what follows from it |
| `BrowserPoolRefinement` | `BrowserPool` implements `LeasePool`, proved |
| `CircuitBreaker` | `stygian-proxy/src/circuit_breaker.rs`, one action per access to an atomic |
| `CircuitBreakerProofs` | inductive invariant of `CircuitBreaker` |
| `ProxyManager` | `stygian-proxy/src/manager.rs` with the session map, the memory store and the health checker |
| `MCProxyManager` | symmetry for TLC, and one statement of the book |
| `ProxyManagerProofs` | inductive invariant of `ProxyManager`: locks, selection, and what a grant knows of its proxy |
| `WorkQueue` | `stygian-graph/src/adapters/distributed.rs`: the queue and the executor that drains it |
| `MCWorkQueue` | an instance with two waves, and one statement of the module's documentation |
| `WorkQueueProofs` | inductive invariant of `WorkQueue` |
| `Acquisition` | `stygian-browser/src/acquisition.rs`: runs over a shared `LeasePool` and a provider of remote sessions |
| `MCAcquisition` | six requests that between them reach every stage |
| `AcquisitionProofs` | inductive invariant of `Acquisition`, the story of the ladder, and what the pool promises to the runs |
| `McpSessions` | `stygian-browser/src/mcp.rs`: overlapping tool calls on sessions, over `LeasePool` |
| `ProxyHandles` | `stygian-proxy/src/mcp.rs`: handles by token |
| `McpAggregator` | `stygian-mcp/src/aggregator.rs`: the composition of both, and scrape_proxied |
| `MCMcp` | symmetry for TLC |
| `McpProofs` | the aggregator's use of sessions is a behaviour of `McpSessions`, the sessions' use of the pool one of `LeasePool`; invariants of all |
| `GraphqlLimits` | `stygian-graph/src/adapters/graphql*.rs`: rate limiter and cost budget of one plugin |
| `DagExecutor` | `stygian-graph/src/domain/graph.rs`: a pipeline run in waves |
| `Idempotency` | `stygian-graph/src/domain/idempotency.rs` over the accesses of `adapters/cache.rs` |
| `MCGraph` | the three for TLC, side by side |
| `GraphProofs` | inductive invariants of `DagExecutor`, `GraphqlLimits` and `Idempotency` |

### BrowserPool

A task is a future that acquires, holds a handle and releases it; `pc` names the await at which it is
suspended. `permits` is the semaphore, `active` the atomic counter, `queue` the idle queues
(`PoolInner`), `place` says where the process of a browser is: idle, held, `owed` (a detached task
shuts it down and will then lower the counter) or `closing` (it is shut down and nobody will lower
the counter any more). `room` is the result of `active < max` that `acquire_inner` computes before it
waits for the mutex and uses afterwards. Ages of idle entries are the length of the outlived prefix
of a queue (`ripe`). `Cancel` drops a future at any of its awaits, `Crash` ends a Chrome process.
`home` is history: the context a browser was first given out for. Of `browser.rs` only the cached
health flag, launch and shutdown are used. Abstracted: URLs and configuration of the browser, the
content of a lease, times (an entry may get old at any moment, a poll may time out at any moment).

### CircuitBreaker

Every load, store, `fetch_add` and `compare_exchange` of the code is an action, and so is every
reading of the clock, so the calls of the tasks interleave as the code's instructions do. Atomics are
taken as sequentially consistent; the code uses `Acquire`/`Release`/`AcqRel` on single words, so
reorderings across words beyond these interleavings are not examined. `count` wraps at `Wrap` (2^32 in
the code). The clock is `SystemTime`, so it may be set back (`SetBack`). Callers are those of the crate:
a task that is admitted may take a handle and reports one success or one failure when it drops it.

### ProxyManager

An action runs from one await, or the release of one lock, to the next. The calls of a breaker are
single steps here, `CircuitBreaker` takes them apart; `fails` stops at the threshold, where more
failures make no difference. A proxy is an id; `add_proxy` draws a new one, so an id enters the pool
once. The rotation strategy is any choice among the candidates. `writer` and `readers` are the
lock of `circuit_breakers` where it is held across an await: `add_proxy` holds the write guard over
the call of the storage, `acquire_for_domain` the read guard. `lookers` have the read guard of the
health map, which selections and `pool_stats` keep while they wait for the breakers' lock
(`LookHealth`, then `Candidates`; `StatsHealth`, then `Tally`); a health cycle writes when there are
none. That waiting writers go before new readers is left out: `LockDiscipline` is an order of locks,
which no queue in front of a lock can turn into a circle. The sessions' lock is taken with
`try_read`/`try_write`, so under contention a lookup finds nothing and a bind or unbind does nothing
(`Contended`). A binding that has outlived its TTL answers like none, so expiry is its removal at any
moment. A health cycle is one action: it lists, probes, and writes all answers at once; as the pool
may change in between, it may write any answer for any id drawn so far. `stored` and `usable` are
history: the proxies that were in the storage, and those whose breaker admitted requests, at some
time since the call began.

`acquire_for_domain` keeps its read guard while it lists the storage and
`acquire_for_domain_with_vendor` does not; `CheckBound` allows both. Handles that
`acquire_proxy_with_coherence` rejects are dropped unmarked at once: a grant followed by
`DropUnmarked`. Not modelled: the Bayesian observer (numbers only), which field mismatched, a storage
other than the memory store (a listing never fails).

### WorkQueue

A wave is one call of `execute_wave`. `stage` is where it is, `pending` the FIFO under its mutex,
`status` and `attempt` the status map, `pc`/`hand` the workers of all waves, which share the queue.
`enqueue` is two steps (status, then push under the lock), `try_dequeue` is two (pop under the lock,
then status), because the lock is released in between. `collect_results` walks the map entry by
entry while others write. `Drop` drops the future of a wave where it can be suspended, `Die` is a
worker that is aborted with its `JoinSet` or whose service panics; a dead worker keeps its task in
`hand`, which is how a task that nobody will finish is accounted for. `ranBy` is history. Task ids
are unique (the convention `pipeline::node::ulid`); `Matches` is the prefix match of
`collect_results`, which the instance makes wider than the wave's own pipeline (`p1`, `p10`).
Abstracted: inputs and outputs, and which services a wave knows (any task may fail).

### Acquisition

A run is one call of `AcquisitionRunner::run`; `pc` is the await it is at, `ladder` what it has not
tried yet, `res` the `AcquisitionResult`. What the gates, the responses and the pages bring is any
outcome. The pool is `LeasePool`: an error of `acquire` may come at any time, and the pool warms and
evicts as it likes (`Background`), which is all a user of it can know. `verdict` is the result of a
page while its browser or session is put away. `Timeout` drops `run_inner` at any of its awaits: the
browser in hand is disposed of, and what happens to the remote session depends on how far its calls
had come (`Abandon`): an answer lost with the request leaves a session nobody deletes (`orphans`,
history). The clock that is looked at between stages may be late without the timer having fired
(`LateBeforeStage`). Abstracted: bodies, blocked statuses (an outcome), the realism score.

### McpSessions, ProxyHandles, McpAggregator

`dispatch` takes `&self`, so calls on one session overlap: a call clones the session's handles out of
the map (`listed`) and uses them after it has let go of it. `pageLock` and `browserLock` are the
mutexes of a session that are held across awaits. A tool is one of three kinds, by what it does with
the page and the current URL. `attached` sessions have the one external browser. An id, or a token,
is used again when nobody knows it any more; that is how finitely many stand for the fresh ones of
the code. The aggregator reads one request at a time (`Loop`) and tells tools apart by their prefix;
`scrape_proxied` is taken one await at a time, with its exits. `browser_proxied` is not modelled: it
is never entered (section 5), and a call of it changes nothing. `clients` is history: the tokens that
clients were told. `front` lets the same model be the browser server alone, the proxy
server alone (only then does the cleanup of old handles run) or the aggregator. Abstracted: what a
tool does on its page, and all JSON.

### GraphqlLimits, DagExecutor, Idempotency

These three do not meet in the code; `MCGraph` puts them side by side so that one run checks them.

`GraphqlLimits` follows `execute` for a plugin with both limits: the two maps are looked up and filled
in steps of their own (a read lock, then a write lock with a second look), a slot is taken by the
window or the bucket, a reservation is made and then waited for, a page is fetched, and the guard
gives the reservation back in a task of its own. A future can be dropped at each await (`lost` notes
where no guard had the reservation). A token is `Window` units, so a tick refills `MaxRequests` of
them and nothing is rounded; the code counts in floats. The points a server reports, and the delays
that follow from them, are any; the hard block after a Retry-After is left out, because `execute`
never records one.

`DagExecutor`: `level` is `build_execution_waves`; the tasks of a wave are spawned one by one with the
outputs stored so far and joined in order, and an error ends `execute` while the others run on. Node
ids are distinct and edges name known nodes: what `validate` refuses, and `NodeNotFound`, end
`from_pipeline` before there is anything to run.

`Idempotency`: one key. A step is one access to the map; the code releases the shard's lock between
looking at an expired entry and removing it. A record has an `expires_at` of its own, in whole seconds
of the wall clock, which `get` checks after the cache has answered (`idempotency.rs:249`) and `claim`
does not: it is left out, so where `get` finds such a record expired before its entry (the clock was
set forward, or the ttl is not in whole seconds) the model says known and the code `None`.

## 3. Properties and hazards

The properties are aimed at the hazards in `PROJECT.json`. By module:

* `BrowserPool`. `Capacity`: permits, launches and browsers in use or idle add up to at most
  `MaxSize`, whatever is cancelled, evicted or released. `ActiveCovers`/`ActiveExact`: the counter
  that detached tasks lower never wraps, and is exact unless futures are dropped. `SingleOwner`,
  `ContextIsolation`. `IdleLooksHealthy` and `RoomOnReturn`: the branches of the code that would lose
  a permit or find the pool full are dead. `LeaseVerdict`: a disposed browser's proxy is credited
  exactly if the browser looked healthy. `AcquireEnds`. `ImplementsLeasePool`.
* `CircuitBreaker`. `TrippedUnlessBusy`: not left closed over its threshold. `OpenIsStamped`: never
  open without a time to measure the window from. `OpenEnds`: moves on.
* `ProxyManager`. `SelectedHasBreaker`: what `add_proxy` holds its lock for. `GrantedStored` and
  `GrantedUsable`: calls work on snapshots, sessions name proxies that may be gone, and proxies
  without a breaker pass for available, and still no handle is given for a proxy that was not in the
  pool, or not open to requests, at any time of the call. `LockDiscipline`: three locks
  are held across awaits, always in the order health map, breakers, storage, so calls cannot wait for
  each other in a circle, and no guard outlives its call, dropped or not.
* `WorkQueue`. `Accounted`: an unfinished task is in one place. `StatusForward`: not run twice, never
  set back. `NothingLeftQueued`, `OwnWorkReturned`, `WaveEnds`.
* `Acquisition`. `OutcomeAccounted`: attempts, failures, success and timeout of a result fit the
  ladder, whichever way the run ended. `LentToStage`: a browser is with a run exactly while it works
  on it, of the right tenant. `SessionsAccounted`: every live remote session is the caller's, or the
  one run's that made it, or noted as left behind. `RunEnds`.
* MCP. `SessionBacked`: a session has its browser, and a browser its session, whatever calls overlap.
  `PageGoesWithSession`: no page survives a release. `PageOnce`: the page of a session is made once.
  `NothingLeft`: every handle in the store is a client's or that of the `scrape_proxied` under way,
  which finds it there when it gives it back and has none once it has answered. Under the aggregator
  no cleanup would ever find another.
* Graph. `ReservedOnce`: concurrent calls share one budget, and what it has pending is one
  reservation per holder. `SlotsWithinRate`: the slots given to all calls together stay in
  the plugin's limit; the requests need not (section 5).
  `InputsReady`: a task has the outputs of all its predecessors, and an `Ok` has everything.

A few hazards have no property; their notes in `PROJECT.json` say why (the component is not modelled,
or the code was read and the matter is told in section 5).

## 4. Runs

| run | instance | shows |
|---|---|---|
| `pool_cancel` | 3 tasks, 3 browsers, 1 context and the shared queue, sizes 1..2, futures dropped; symmetric | safety of the pool, and that it implements `LeasePool` |
| `pool_live` | 2 tasks, 2 browsers, 2 contexts, sizes 1..2, crashes, no dropped futures | exact counter, isolation, verdicts, every acquire ends |
| `pool_permits` (violation) | size 1 | after an eviction `active_count` is 0 and no permit is left, for ever |
| `cb_breaker` | 2 tasks, threshold 2, window 2, counter modulo 4, clock to 5, one set-back | safety and progress of the breaker |
| `pm_pool` | 2 tasks, 2 proxies, 1 domain, pool empty at first, threshold 1, contention and dropped futures; symmetric; about 1,397,000 states | safety of the manager |
| `pm_unbind` (violation) | 2 tasks, 2 proxies in the pool | a late failure removes the binding of another proxy |
| `wq_waves` | waves of 2 and 1 tasks, 2 workers, one retry, drops and panics | safety and progress of the queue |
| `wq_unfinished` (violation) | the same without drops | a wave collects while its task is with another wave's worker |
| `aq_ladder` | 2 runs, 6 requests over 2 hosts, 2 browsers, 2 fresh sessions and the caller's; about 89,000 states | results, browsers and sessions are accounted for, every run ends |
| `mcp_tools` | the aggregator's loop and 3 more calls, 2 ids, 2 tokens, 2 browsers, the three servers; symmetric; about 99,000 states | sessions, pages and handles are put away on every path |
| `graph_calls` | 3 calls, 2 requests in a window of 2, cost 2, 2 pages, clock to 3; every graph on 3 nodes with at most 1 service missing; 2 workers at a key; symmetric; about 893,000 states | reservations, slots, inputs of tasks |
| `idem_claim` (violation) | 3 workers, one key | two workers are granted the same claim |

Why the bounds are enough for what they are to show. Pool: three tasks over a size of two are one that
holds, one that launches and one that must wait, with a third browser still shutting down; two
contexts and the shared queue are what a browser could stray between. Breaker: two tasks are one
inside a call and one that changes the words under it; the counter wraps after four failures; the
clock runs past two windows. Manager: two proxies are one bound and one to rebind to, starting empty
lets both be added and removed while the other task selects. Queue: two waves are enough for a worker
to take foreign tasks, and the wave of two has two workers. Acquisition: the requests reach every
stage, every gate and both ways to a session; two runs are one that holds and one that is refused or
waits, on the same host or another. MCP: two calls overlap on one session while a third releases it;
with ids used again a late call could meet the next session of its name. Graph: three calls are more
than a window admits, windows follow each other, a call has a second page; three nodes have chains,
forks, joins and cycles. Beyond the bounds stand the proofs.

`CHECK_DEADLOCK FALSE` is set for the two queue runs only: when every wave has returned the system
rests. Symmetry is used in safety runs only.

### Fairness

`pool_live`: the runtime polls every future that can go on (weak fairness of each task's own steps and
of the detached shutdowns), a launch or a binding ends with an answer or an error, and a poll times out:
a launch and a poll have timeouts of their own; a binding (`pool.rs:499`) has none, and that the proxy
source answers it is assumed. That a caller releases its handle is not assumed. `cb_breaker`:
calls that have begun run to their end, and the proxy keeps being considered (each selection asks
every breaker, `manager.rs:541`) and time goes on up to the last instant.
`wq_waves`: the runtime polls the wave and every worker, and services answer: the code puts no
timeout on `execute`, so a service that never answers would hold its wave for ever. `aq_ladder`: a run
that has begun is polled and its timer fires (weak fairness of `OwnStep`: the timeout is put around
the whole of `run_inner`); neither the pool nor a page nor the provider is made to answer. That
futures are dropped, services panic or callers begin is never assumed. `mcp_tools` and `graph_calls`
check safety only.

## 5. Where docs and code part

With a run that shows it (`findings` in `PROJECT.json`):

* `pool.rs:292` eviction lowers `active_count` and keeps the permit (`pool_permits`).
* `manager.rs:164` a failing handle unbinds whatever is bound (`pm_unbind`).
* `distributed.rs:363` a wave waits for its own workers only (`wq_unfinished`).
* `idempotency.rs:269` a claim looks and then sets, so two workers are granted one key (`idem_claim`);
  lines 256 and 259 say "atomically" and "Returns `false` if another worker already claimed this key".

Read off the code while modelling, without a run of their own:

* `pool.rs:273` the quota of an eviction counts launches under way, so it may evict more idle browsers
  than `pool.md:103` allows.
* `circuit_breaker.rs:98` closing and resetting the count are two stores, so a failure of before a
  recovery can count after it (line 85 says the recovery starts afresh); `circuit_breaker.rs:68` the
  swap to HalfOpen acts on an earlier reading of the time and can end a later window early
  (`stygian-proxy/README.md:170`).
* `pool.rs:647` returns the permit while the process still shuts down, so more than `max_size`
  processes can run; `config.rs:143` "Maximum concurrent browser instances." The lease is resolved
  at the same point; `pool.rs:71` "held for the entire Chrome process lifetime".
* `pool.rs:602` trusts the cached health flag on release and launches no replacement for a discarded
  browser; `book/src/browser/pool.md:87-93` says the process is verified and replaced.
* `circuit_breaker.rs:87` a success while Closed resets nothing, so failures that are not consecutive
  add up; `types.rs:1096` "Consecutive failures". In HalfOpen every caller is admitted and any
  success closes, also one of a request from before the trip;
  `book/src/proxy/health-circuit-breaker.md:93` "One probe attempt allowed".
* `distributed.rs:156` logs "will retry" and `ports/work_queue.rs:95` says "will be retried", but
  nothing queues a failed task again, and the attempt is read from a status that `InProgress` has
  overwritten, so with `max_retries` above 0 the executor never dead-letters a task.
  `distributed.rs:275` announces an error "when a service reports a failure"; the wave returns Ok
  without that task. `distributed.rs:186` matches by prefix, and returns earlier waves of the same
  pipeline too.
* `acquisition.rs:624` a run cut by the timeout returns no attempts and none of the diagnostics that
  lines 449-490 call "Always populated when a context was supplied" (an earlier gate that rejects
  leaves them out too), and names the first strategy of its ladder, whichever it was at
  (`acquisition.rs:620`). A remote session it owns is not deleted, nor is one whose creation was
  answered without an id; line 334 says "creating -- and, on release, deleting".
  The failure added at `acquisition.rs:638` is never needed: a ladder that ran out has one.
* `stygian-browser/src/mcp.rs` gives a session's browser back to the pool before it closes the
  session's page, and a call may note the URL it went to after the session has gone; the branch of
  `ensure_session_page` that sends a new page to the current URL cannot be reached (`PageOnce`).
* `stygian-mcp/src/aggregator.rs:408` sends every name that begins with `browser_` to the browser
  server, so `browser_proxied` gets there too and is answered "Unknown tool"
  (`stygian-browser/src/mcp.rs:989`). Line 435, which names the tool, and `tool_browser_proxied`
  (563-671) are never reached, though `tools/list` offers the tool (344) and
  `stygian-mcp/README.md:114` says "`scrape_proxied`, `browser_proxied` → handled by aggregator".
* `graphql_rate_limit.rs:5` "limits outgoing requests to `max_requests` in any rolling `window`
  duration": it limits slots. `execute` sends a request only after it has also reserved its points and
  slept the delay that follows from them (`graphql.rs:575-593`, `graphql_throttle.rs:348-354`). With
  two requests in a window of 2, two slots of time 0 that are delayed to 2 and one of time 2 send three
  requests at once.
* `acquisition.rs:1114` closes the browser of a session the caller gave as well as of one of its own.
  Whether the provider then ends the caller's session is the provider's business; the model keeps it.
* `stygian-proxy/src/mcp.rs:153-162` old handles are only cleaned up under `run`, not under
  `start_background`, which the aggregator uses.
* `graphql.rs` never calls `rate_limit_retry_after`, though `graphql-plugins.md:233` says both
  variants "also honour server-returned `Retry-After` headers". With `max_requests` 0 the sliding
  mode grants every request (`graphql_rate_limit.rs:112`), the bucket none. A future dropped while
  its reservation waits (`graphql_throttle.rs:355`), or while its release waits for the lock (274),
  leaves the reservation for ever, though the guard "automatically releases".
* `graph.rs:342` "available to all downstream nodes": a task is given the outputs of its direct
  predecessors (`graph.rs:380-390`), not of those further up.
* `graph.rs:401` gives a service the URL and the outputs of the predecessors, never the parameters
  that `pipelines.md` and `adapters.md` show under a node. Two nodes with one id both run, the edges
  of either lead to the later one (`graph.rs:314`), and one output overwrites the other.
* `idempotency.rs:287` stores over whatever is there, also the claim of another worker.

## 6. Proofs

**BrowserPool** (`BrowserPoolProofs`, `BrowserPoolRefinement`), from `ConstantsAssumption` alone:
finite sets of tasks and browsers, distinct null values. The inductive invariant is `Types /\ HandsOK
/\ QueuesOK /\ Capacity /\ ActiveCovers /\ ActiveExact`. None of the checked properties is inductive
by itself: `Capacity` needs that a browser taken from a queue was counted there and nowhere else
(`QueuesOK`: every idle browser is in exactly one queue once, under its own key, looking healthy, with
its ages in order), and that a held browser has one holder whose key is its home (`HandsOK`). The
three sums move together, so each action's step says what it does to the sets `Launching`, `Managed`
and `Counted` and concludes by `Sizes`. The refinement maps the queue entries to idle items and
held browsers to lent ones; each step maps to one of the abstract actions or a stutter (`LeaseNext`).
`LeaseVerdict` is inductive once `QueuesOK` says that what is evicted or outlives its context looks
healthy (`VerdictKept` covers the steps that dispose of nothing). `NeverMoreThanMax` is what is left
of the equation refuted by `pool_permits`: it adds `Capacity` and `ActiveExact`, so permits and
counter differ in one direction only, and a counter that says "full" hides a free permit at most
while a shutdown is under way.

**CircuitBreaker** (`CircuitBreakerProofs`), from a threshold of at least 1 (`ThresholdAssumption`;
with 0 a breaker nobody ever failed would count as over its threshold) and the assumptions on the
clock and the counter's width. `TrippedUnlessBusy` is kept because whoever
lifts the count over the threshold, or leaves it there by closing, is itself still busy
(`OthersStayPending`); `OpenIsStamped` needs `Stamped`, that a task about to trip has stored a time.

**ProxyManager** (`ProxyManagerProofs`), from `ManagerAssumption`: a threshold of at least 1 and
distinct null values; the sets may be infinite. `IInv` is `TypeOK /\ LocksOK /\ KnownOK /\ PoolOK /\
SelectOK /\ StoredOK /\ UsableOK`. `SelectedHasBreaker` is not inductive: a call builds its
candidates under the read lock, and only because a proxy that is stored without a breaker belongs to
a call at `register` (`PoolOK`), which holds the write lock (`LocksOK`), are all stored candidates
registered then (`SelectOK`); ids are drawn once (`KnownOK`), so none of them enters the storage
anew. `GrantedStored` and `GrantedUsable` follow the same way from `StoredOK` and `UsableOK`, which
say of a call under way what its snapshot and its choice owe to what it has seen; a candidate that
slipped through for want of a breaker is stopped by `TakeBreaker`. `UnbindsOwnOneAtATime` bounds the
finding of `pm_unbind`: if a domain has one sticky call or handle at a time (`OneCallPerDomain`,
assumed of every state) and the try-locks of the session map never fail, a failing handle takes away
the binding to its own proxy or none, because all that others can do to the binding is to remove it
(`Bound`).

**WorkQueue** (`WorkQueueProofs`), from `QueueAssumption`: batches are disjoint and without
repetition, at least one worker. `IInv` is `TypeOK /\ StagesOK /\ QueueOK /\ HandsOK /\ TasksOK /\
CollectOK /\ NothingLeftQueued`. `Accounted` and `StatusForward` need that a task enters the queue
once and that who has it is its only writer: `QueueOK` (no repetition, all pending, nobody has run
them), `HandsOK` (a hand holds what it was the first to dequeue) and `Pushed`, which tells the tasks
a wave has put in the queue from the one it is at (`CurrentIsNew`). `NothingLeftQueued` needs
`StagesOK`: a worker only exists once its wave has pushed everything. `OwnWorkReturned` is
`CollectOK` at the end of the walk: what an own worker has completed is among the results or still
to be looked at, because own workers have ended and others leave its runner alone.
`UnfinishedElsewhere` explains the finding of `wq_unfinished`: what a wave misses is with a worker of
another wave, or was with one that was lost, unless the wave has lost all its own; there is no other
way to miss a task.

**Acquisition** (`AcquisitionProofs`), from `AcquisitionAssumption`: the requests are some of those
that the types allow, the null value is none of the others, the caller's session is one. There are two
layers. `Inv` is `Types /\ Tried /\ Lent /\ Held`: `LentToStage` needs that a run that waits for a
browser has asked for the tenant of its stage (`Lent`) and that it has noted the attempt (`Tried`);
`SessionsAccounted` needs that a run only deletes what it owns (`Held`). `Story` stands on it: as long
as a run climbs, what it has tried followed by what is left of its ladder is the ladder of its request,
and the failures are the attempts but the current one. Each step moves the seam (`Moving`), and
`OutcomeAccounted` is what `Story` says when a run is done. It needs two facts about ladders: the
marker is nowhere but at the head (`MarkerAtHead`), and no strategy comes twice (`LadderIsOne`).
The pool below is proved about in two halves. `PoolKeepsPromise` is about `LeasePool` alone, for any
users: one holder for a lent browser, of the tenant asked for, within the limit (`PoolInv`; this half
needs `SizeAssumption`, that `MaxSize` is a natural number). `RunsUsePool` says that a behaviour of
the runs is one of `LeasePool`: they go to the pool by its operations, also where the timeout cuts
them. `PromiseKeptToRuns` puts the halves together, and `BrowserPoolRefinement` below them.

**MCP** (`McpProofs`), from the assumptions of the modules: names are distinct. `McpInv` (types, what
an idle call knows, who holds which lock, one release per session, pages and browsers by session) is
inductive for `McpSessions` with any number of callers. `AggregatorIsBrowserServer` shows that every
behaviour of the composition is one of `McpSessions`, so its theorems hold for the aggregator without
a second proof. In the same way `AggregatorUsesPool` goes one layer further down, to `LeasePool`, and
with what the pool keeps (`LentApart`) gives `PagesApart`: since a release gives the browser back
before it closes the page, two sessions may have pages on one browser, but only while one of the two
is being released. `AggInv` stands by itself: `ToolOK` says at which stages `scrape_proxied` has a
handle and that it only runs under the aggregator, where no cleanup does; `HandlesOK` that clients only
know handles of the store and not that one. It gives `NothingLeft`.

**GraphqlLimits, DagExecutor and Idempotency** (`GraphProofs`), from `LimitsAssumption` and
`DagAssumption`; `EachItsOwn` splits the specification of `MCGraph` into its three, so that
`GraphTypeOK` is the sum of three theorems.
`ReservedOnce` needs that a call's state says whether its reservation is in the budget (`Counted`).
`SlotsWithinRate` is about the history of slots, the code only has the limiter: `Rate` ties the two, in
sliding mode by the times that are still kept, in bucket mode by the units paid and refilled since.
`InputsReady` needs that the waves below the current one are stored whole (`WavesStored`) and that
the tasks not joined yet are those of this wave (`JoinRemains`), for any graph on any finite set of
nodes. The levels of the waves are given by what they are, not by the pass that computes them;
`OneNumbering` shows that a graph has at most one such numbering, and `NoCycleRuns` that it has none
if there is a cycle, by looking at a node of least level (`LeastNatural`, from the well-foundedness of
the naturals). That every acyclic graph has one is induction over the graph, out of the prover's
reach: `GraphTypeOK` and `InputsReady` are run over all graphs of the configuration instead.
`ClaimOnceOneAtATime` bounds the finding of `idem_claim`: a key is granted twice only if two workers
are between a look at it and a change of it at once.

What stays with TLC: liveness (`AcquireEnds`, `OpenEnds`, `WaveEnds`, `RunEnds`), which needs fairness
and `ENABLED`, and the four "violation" runs, which are counterexamples; the theorems
`NeverMoreThanMaxHolds`, `UnbindsOwnOneAtATime`, `UnfinishedElsewhereHolds` and `ClaimOnceOneAtATime`
say how far each of them goes. Every invariant and every action property that a passing run checks is
a theorem, the two refinements among them. The proofs are about the models: that these are the code is argued by the
map of source lines, and the conversion of the source's weak memory orders is assumed, not shown.

## 7. Not modelled, and the plan

Components with status `not_modelled` in `PROJECT.json` give the reason. In short:

* `TokenValidator`, `Escalation`, `GraphResilience`, `ServiceRegistry`, `CharonCache`: small state behind
  one lock each, or a look and a write under two locks. They are worth a module each and come next,
  in this order; the validator against an abstract "a token is accepted once".
* `RedisWorkQueue`, `RedisCache`: what they promise is Redis'; a model needs its consumer groups. The
  queue should then be shown to implement the abstract queue that `LocalWorkQueue` also implements.
* `WorkerPool`: nothing can interleave with its shutdown.
* Pages, HTTP clients, fetchers, adapters of outside services: input and output, without a protocol of
  their own beyond what their callers' modules have.
* Analysis, scores, stealth scripts, fingerprints, parsing, the derive macro, which are most of the
  lines of the repository: pure functions of data, many of them over floats and regular expressions.
  They keep no state that two calls could disagree on, and a model of them would be a second program.

Of the modelled components what is left out is told in section 2 and in their notes.
