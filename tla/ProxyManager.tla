---------------------------- MODULE ProxyManager ----------------------------
(***************************************************************************)
(* The proxy pool of stygian-proxy (manager.rs), with the session map      *)
(* (session.rs), the memory store (storage/mod.rs) and the health checker  *)
(* (health.rs) it works on.                                                *)
(*                                                                         *)
(* An action runs from one await point, or one release of a lock, to the   *)
(* next. The calls of a breaker are single steps here: CircuitBreaker      *)
(* takes them apart. A proxy is an id: add_proxy makes a new one, so an id *)
(* enters the pool at most once. The rotation strategy is any choice among *)
(* the candidates it is given.                                             *)
(***************************************************************************)
EXTENDS Naturals

CONSTANTS
    Tasks,
    Proxies,        \* the ids that add_proxy may draw
    Domains,        \* session keys
    Initial,        \* the proxies added before the tasks start
    Threshold,      \* circuit_open_threshold
    Contended,      \* whether a try_lock of the session map may fail
    MayCancel,      \* whether the futures may be dropped
    NoProxy, NoTask, NoDomain

ASSUME ManagerAssumption ==
    /\ Threshold \in Nat \ {0}
    /\ Initial \subseteq Proxies
    /\ NoProxy \notin Proxies /\ NoTask \notin Tasks /\ NoDomain \notin Domains
    /\ Contended \in BOOLEAN /\ MayCancel \in BOOLEAN

VARIABLES
    store,          \* the ids in the storage
    drawn,          \* the ids drawn so far
    registered,     \* the keys of circuit_breakers
    circuit, fails, \* state and failure_count of each breaker
    ripe,           \* the open breakers whose window is over
    down,           \* the ids health_map maps to false
    session,        \* the proxy bound to each domain within its TTL
    writer,         \* who holds the write lock of circuit_breakers
    readers,        \* who holds a read guard of it across an await
    lookers,        \* who holds a read guard of health_map across an await
    pc, key,        \* where a call is, the domain it is for
    hand,           \* the proxy a call has chosen, or the handle is for
    listed, cands,  \* the snapshot of the storage, the healthy candidates
    stored, usable  \* history: the proxies that have been in the storage,
                    \* and those whose breaker has been open to requests,
                    \* at some time since the call began

poolVars    == <<store, drawn, registered>>
breakerVars == <<circuit, fails, ripe>>
lockVars    == <<writer, readers, lookers>>
seenVars    == <<stored, usable>>
callVars    == <<pc, key, hand, listed, cands>>
vars == <<poolVars, breakerVars, down, session, lockVars, callVars, seenVars>>

Circuits == {"closed", "open", "half_open"}

\* Inside acquire, in the order of the code; then the handle; then the
\* mutations of the pool, and its statistics.
Acquiring == {"check", "url", "stale", "list", "cands", "ask", "select", "breaker", "bind"}
Locations == {"out", "holding", "unbind", "add", "register", "unregister", "records", "tally"}
             \cup Acquiring

TypeOK ==
    /\ store \subseteq drawn /\ drawn \subseteq Proxies
    /\ registered \subseteq drawn
    /\ circuit \in [Proxies -> Circuits]
    /\ fails \in [Proxies -> 0..Threshold]
    /\ ripe \subseteq {p \in Proxies : circuit[p] = "open"}
    /\ down \subseteq Proxies
    /\ session \in [Domains -> Proxies \cup {NoProxy}]
    /\ writer \in Tasks \cup {NoTask}
    /\ readers \subseteq Tasks /\ lookers \subseteq Tasks
    /\ pc \in [Tasks -> Locations]
    /\ key \in [Tasks -> Domains \cup {NoDomain}]
    /\ hand \in [Tasks -> Proxies \cup {NoProxy}]
    /\ listed \in [Tasks -> SUBSET Proxies]
    /\ cands \in [Tasks -> SUBSET Proxies]
    /\ stored \in [Tasks -> SUBSET Proxies]
    /\ usable \in [Tasks -> SUBSET Proxies]

Init ==
    /\ store = Initial /\ drawn = Initial /\ registered = Initial
    /\ circuit = [p \in Proxies |-> "closed"]
    /\ fails = [p \in Proxies |-> 0]
    /\ ripe = {}
    /\ down = {}
    /\ session = [d \in Domains |-> NoProxy]
    /\ writer = NoTask /\ readers = {} /\ lookers = {}
    /\ pc = [t \in Tasks |-> "out"]
    /\ key = [t \in Tasks |-> NoDomain]
    /\ hand = [t \in Tasks |-> NoProxy]
    /\ listed = [t \in Tasks |-> {}]
    /\ cands = [t \in Tasks |-> {}]
    /\ stored = [t \in Tasks |-> {}]
    /\ usable = [t \in Tasks |-> {}]

----------------------------------------------------------------------------
(* The parts the calls are made of *)

Goto(t, l) == pc' = [pc EXCEPT ![t] = l]

\* The call of t is over, or its future or handle is gone: nothing is left.
Leave(t) ==
    /\ Goto(t, "out")
    /\ key' = [key EXCEPT ![t] = NoDomain]
    /\ hand' = [hand EXCEPT ![t] = NoProxy]
    /\ listed' = [listed EXCEPT ![t] = {}]
    /\ cands' = [cands EXCEPT ![t] = {}]
    /\ stored' = [stored EXCEPT ![t] = {}]
    /\ usable' = [usable EXCEPT ![t] = {}]

\* The call of t returns a handle: only its domain and proxy are left.
Grant(t) ==
    /\ Goto(t, "holding")
    /\ listed' = [listed EXCEPT ![t] = {}]
    /\ cands' = [cands EXCEPT ![t] = {}]
    /\ stored' = [stored EXCEPT ![t] = {}]
    /\ usable' = [usable EXCEPT ![t] = {}]
    /\ UNCHANGED <<key, hand>>

ReadFree  == writer = NoTask
WriteFree == writer = NoTask /\ readers = {}

Available(p) == circuit[p] # "open" \/ p \in ripe

\* The history of a call: what it finds when it begins, and what comes up
\* while it runs.
Begin(t) ==
    /\ stored' = [stored EXCEPT ![t] = store]
    /\ usable' = [usable EXCEPT ![t] = {p \in registered : Available(p)}]

Note(seen, p) == [t \in Tasks |-> IF pc[t] \in Acquiring THEN seen[t] \cup {p} ELSE seen[t]]

\* is_available, asked of every breaker in S: those whose window is over
\* become half-open.
Ask(S) ==
    /\ circuit' = [p \in Proxies |-> IF p \in S \cap ripe THEN "half_open" ELSE circuit[p]]
    /\ ripe' = ripe \ S
    /\ UNCHANGED fails

\* Mutant: a success closes the breaker in any state.
RecordSuccessAny(p) ==
    /\ circuit' = [circuit EXCEPT ![p] = "closed"]
    /\ fails' = [fails EXCEPT ![p] = 0]
    /\ UNCHANGED ripe

RecordSuccess(p) ==
    /\ circuit' = [circuit EXCEPT ![p] = IF @ = "half_open" THEN "closed" ELSE @]
    /\ fails' = [fails EXCEPT ![p] = IF circuit[p] = "half_open" THEN 0 ELSE @]
    /\ UNCHANGED ripe

RecordFailure(p) ==
    LET n == IF fails[p] < Threshold THEN fails[p] + 1 ELSE Threshold
    IN  /\ fails' = [fails EXCEPT ![p] = n]
        /\ circuit' = [circuit EXCEPT ![p] = IF @ = "half_open" \/ n = Threshold THEN "open" ELSE @]
        /\ ripe' = ripe \ {p}

\* SessionMap takes its lock with try_read and try_write: under contention
\* lookup answers None and bind and unbind do nothing.
Skipped == Contended /\ UNCHANGED session

Lookups(d) == {session[d]} \cup (IF Contended THEN {NoProxy} ELSE {})

BindSession(d, p) == session' = [session EXCEPT ![d] = p] \/ Skipped
UnbindSession(d)  == BindSession(d, NoProxy)

----------------------------------------------------------------------------
(* acquire_proxy, acquire_with_capabilities, acquire_proxy_with_coherence, *)
(* acquire_for_domain, acquire_for_domain_with_vendor                      *)

\* Without a domain, or with a vendor whose policy is FreshPerRequest.
AcquirePlain(t) ==
    /\ pc[t] = "out"
    /\ Begin(t)
    /\ Goto(t, "list")
    /\ UNCHANGED <<poolVars, breakerVars, down, session, lockVars,
                   key, hand, listed, cands>>

\* A vendor whose policy is FreshPerDomain: the binding goes.
AcquireFresh(t, d) ==
    /\ pc[t] = "out"
    /\ Begin(t)
    /\ UnbindSession(d)
    /\ Goto(t, "list")
    /\ UNCHANGED <<poolVars, breakerVars, down, lockVars,
                   key, hand, listed, cands>>

\* A sticky policy, of the manager or of the vendor.
AcquireSticky(t, d) ==
    /\ pc[t] = "out"
    /\ Begin(t)
    /\ key' = [key EXCEPT ![t] = d]
    /\ \E p \in Lookups(d) :
         /\ hand' = [hand EXCEPT ![t] = p]
         /\ Goto(t, IF p = NoProxy THEN "list" ELSE "check")
    /\ UNCHANGED <<poolVars, breakerVars, down, session, lockVars,
                   listed, cands>>

\* The breaker of the bound proxy decides; acquire_for_domain keeps its read
\* guard while it lists the storage, acquire_for_domain_with_vendor does not.
CheckBound(t) ==
    /\ pc[t] = "check"
    /\ ReadFree
    /\ LET p == hand[t]
           good == p \in registered /\ Available(p)
       IN  /\ Ask({p} \cap registered)
           /\ Goto(t, IF good THEN "url" ELSE "stale")
           /\ readers' \in IF good THEN {readers, readers \cup {t}} ELSE {readers}
    /\ UNCHANGED <<poolVars, down, session, writer, lookers,
                   key, hand, listed, cands, seenVars>>

\* Mutant: the bound proxy is not looked up in the storage.
BoundUrlAssumed(t) ==
    /\ pc[t] = "url"
    /\ Grant(t)
    /\ readers' = readers \ {t}
    /\ UNCHANGED <<poolVars, breakerVars, down, session, writer, lookers>>

\* Mutant: the guard is kept on the way out of the sticky branch.
BoundUrlGuarded(t) ==
    /\ pc[t] = "url"
    /\ IF hand[t] \in store
       THEN Grant(t) /\ readers' = readers \ {t}
       ELSE Goto(t, "stale") /\ UNCHANGED <<key, hand, listed, cands, seenVars, readers>>
    /\ UNCHANGED <<poolVars, breakerVars, down, session, writer, lookers>>

BoundUrl(t) ==
    /\ pc[t] = "url"
    /\ IF hand[t] \in store
       THEN Grant(t)
       ELSE Goto(t, "stale") /\ UNCHANGED <<key, hand, listed, cands, seenVars>>
    /\ readers' = readers \ {t}
    /\ UNCHANGED <<poolVars, breakerVars, down, session, writer, lookers>>

DropStale(t) ==
    /\ pc[t] = "stale"
    /\ UnbindSession(key[t])
    /\ hand' = [hand EXCEPT ![t] = NoProxy]
    /\ Goto(t, "list")
    /\ UNCHANGED <<poolVars, breakerVars, down, lockVars,
                   key, listed, cands, seenVars>>

\* PoolExhausted when there is nothing to choose from.
List(t) ==
    /\ pc[t] = "list"
    /\ IF store = {}
       THEN Leave(t)
       ELSE /\ listed' = [listed EXCEPT ![t] = store]
            /\ Goto(t, "cands")
            /\ UNCHANGED <<key, hand, cands, seenVars>>
    /\ UNCHANGED <<poolVars, breakerVars, down, session, lockVars>>

\* The read guard of the health map, kept until the breakers have been asked.
LookHealth(t) ==
    /\ pc[t] = "cands"
    /\ lookers' = lookers \cup {t}
    /\ Goto(t, "ask")
    /\ UNCHANGED <<poolVars, breakerVars, down, session, writer, readers,
                   key, hand, listed, cands, seenVars>>

\* What is left for the strategy, and both guards go.
Keep(t, P) ==
    /\ cands' = [cands EXCEPT ![t] = P]
    /\ listed' = [listed EXCEPT ![t] = {}]
    /\ lookers' = lookers \ {t}
    /\ Goto(t, "select")
    /\ UNCHANGED <<poolVars, down, session, writer, readers, key, hand, seenVars>>

Healthy(t) == {p \in listed[t] : p \notin down /\ (p \in registered => Available(p))}

\* Mutant: the candidates are read without the lock of the breakers.
CandidatesUnlocked(t) ==
    /\ pc[t] = "ask"
    /\ Ask(listed[t] \cap registered)
    /\ Keep(t, Healthy(t))

\* Mutant: the breakers are not asked.
CandidatesUnasked(t) ==
    /\ pc[t] = "ask"
    /\ ReadFree
    /\ UNCHANGED breakerVars
    /\ Keep(t, listed[t] \ down)

\* Under the read guards of the health map and of the breakers. A proxy that
\* has no breaker counts as available.
Candidates(t) ==
    /\ pc[t] = "ask"
    /\ ReadFree
    /\ Ask(listed[t] \cap registered)
    /\ Keep(t, Healthy(t))

\* The strategy chooses among the healthy candidates, or there is none
\* (AllProxiesUnhealthy), or none that is capable (NoCompatibleProxy of
\* acquire_with_capabilities, which has no domain).
Select(t) ==
    /\ pc[t] = "select"
    /\ \/ /\ cands[t] = {} \/ key[t] = NoDomain
          /\ Leave(t)
       \/ /\ \E p \in cands[t] : hand' = [hand EXCEPT ![t] = p]
          /\ cands' = [cands EXCEPT ![t] = {}]
          /\ Goto(t, "breaker")
          /\ UNCHANGED <<key, listed, seenVars>>
    /\ UNCHANGED <<poolVars, breakerVars, down, session, lockVars>>

\* PoolExhausted when the chosen proxy has no breaker.
TakeBreaker(t) ==
    /\ pc[t] = "breaker"
    /\ ReadFree
    /\ IF hand[t] \notin registered
       THEN Leave(t)
       ELSE IF key[t] = NoDomain
       THEN Grant(t)
       ELSE Goto(t, "bind") /\ UNCHANGED <<key, hand, listed, cands, seenVars>>
    /\ UNCHANGED <<poolVars, breakerVars, down, session, lockVars>>

Bind(t) ==
    /\ pc[t] = "bind"
    /\ BindSession(key[t], hand[t])
    /\ Grant(t)
    /\ UNCHANGED <<poolVars, breakerVars, down, lockVars>>

\* The future, of an acquire or of pool_stats, is dropped at one of its awaits,
\* and the guards it holds go with it.
CancelCall(t) ==
    /\ MayCancel
    /\ pc[t] \in {"check", "url", "list", "cands", "ask", "select", "breaker", "records", "tally"}
    /\ Leave(t)
    /\ readers' = readers \ {t} /\ lookers' = lookers \ {t}
    /\ UNCHANGED <<poolVars, breakerVars, down, session, writer>>

----------------------------------------------------------------------------
(* ProxyHandle *)

DropMarked(t) ==
    /\ pc[t] = "holding"
    /\ RecordSuccess(hand[t])
    /\ Leave(t)
    /\ UNCHANGED <<poolVars, down, session, lockVars>>

DropUnmarked(t) ==
    /\ pc[t] = "holding"
    /\ RecordFailure(hand[t])
    /\ IF key[t] = NoDomain
       THEN Leave(t)
       ELSE Goto(t, "unbind") /\ UNCHANGED <<key, hand, listed, cands, seenVars>>
    /\ UNCHANGED <<poolVars, down, session, lockVars>>

UnbindOnFailure(t) ==
    /\ pc[t] = "unbind"
    /\ UnbindSession(key[t])
    /\ Leave(t)
    /\ UNCHANGED <<poolVars, breakerVars, down, lockVars>>

----------------------------------------------------------------------------
(* add_proxy, remove_proxy *)

AddLock(t) ==
    /\ pc[t] = "out"
    /\ WriteFree
    /\ drawn # Proxies
    /\ writer' = t
    /\ Goto(t, "add")
    /\ UNCHANGED <<poolVars, breakerVars, down, session, readers, lookers,
                   key, hand, listed, cands, seenVars>>

AddStore(t) ==
    /\ pc[t] = "add"
    /\ \E p \in Proxies \ drawn :
         /\ drawn' = drawn \cup {p}
         /\ store' = store \cup {p}
         /\ hand' = [hand EXCEPT ![t] = p]
         /\ stored' = Note(stored, p)
    /\ Goto(t, "register")
    /\ UNCHANGED <<registered, breakerVars, down, session, lockVars,
                   key, listed, cands, usable>>

Register(t) ==
    /\ pc[t] = "register"
    /\ registered' = registered \cup {hand[t]}
    /\ writer' = NoTask
    /\ Goto(t, "out")
    /\ hand' = [hand EXCEPT ![t] = NoProxy]
    /\ usable' = Note(usable, hand[t])
    /\ UNCHANGED <<store, drawn, breakerVars, down, session, readers, lookers,
                   key, listed, cands, stored>>

\* The storage rejects the proxy, or the future is dropped while it waits
\* for the storage: the guard goes.
AddFails(t) ==
    /\ pc[t] = "add"
    /\ writer' = NoTask
    /\ Leave(t)
    /\ UNCHANGED <<poolVars, breakerVars, down, session, readers, lookers>>

RemoveStore(t) ==
    /\ pc[t] = "out"
    /\ \E p \in store :
         /\ store' = store \ {p}
         /\ hand' = [hand EXCEPT ![t] = p]
    /\ Goto(t, "unregister")
    /\ UNCHANGED <<drawn, registered, breakerVars, down, session, lockVars,
                   key, listed, cands, seenVars>>

Unregister(t) ==
    /\ pc[t] = "unregister"
    /\ WriteFree
    /\ registered' = registered \ {hand[t]}
    /\ Leave(t)
    /\ UNCHANGED <<store, drawn, breakerVars, down, session, lockVars>>

\* The future of remove_proxy is dropped while it waits for the lock: the
\* breaker stays registered.
CancelRemove(t) ==
    /\ MayCancel
    /\ pc[t] = "unregister"
    /\ Leave(t)
    /\ UNCHANGED <<poolVars, breakerVars, down, session, lockVars>>

----------------------------------------------------------------------------
(* pool_stats *)

StatsList(t) ==
    /\ pc[t] = "out"
    /\ listed' = [listed EXCEPT ![t] = store]
    /\ Goto(t, "records")
    /\ UNCHANGED <<poolVars, breakerVars, down, session, lockVars,
                   key, hand, cands, seenVars>>

StatsHealth(t) ==
    /\ pc[t] = "records"
    /\ lookers' = lookers \cup {t}
    /\ Goto(t, "tally")
    /\ UNCHANGED <<poolVars, breakerVars, down, session, writer, readers,
                   key, hand, listed, cands, seenVars>>

\* Every breaker is asked, which moves those whose window is over.
Tally(t) ==
    /\ pc[t] = "tally"
    /\ ReadFree
    /\ Ask(listed[t] \cap registered)
    /\ lookers' = lookers \ {t}
    /\ Leave(t)
    /\ UNCHANGED <<poolVars, down, session, writer, readers>>

----------------------------------------------------------------------------
(* The background: health checks, purges, time *)

\* A cycle lists the storage, probes, and writes all answers at once, when
\* nobody reads the map. The pool may have changed since the listing: the ids
\* probed are any that have been drawn.
HealthCheck ==
    /\ lookers = {}
    /\ \E probed \in SUBSET drawn : \E failed \in SUBSET probed :
         down' = (down \ probed) \cup failed
    /\ UNCHANGED <<poolVars, breakerVars, session, lockVars, callVars, seenVars>>

WindowOver ==
    /\ \E p \in Proxies : /\ circuit[p] = "open"
                          /\ ripe' = ripe \cup {p}
                          /\ usable' = Note(usable, p)
    /\ UNCHANGED <<poolVars, circuit, fails, down, session, lockVars,
                   callVars, stored>>

\* An outlived binding answers lookups like none; when it leaves the map, in
\* purge_expired or by the next bind, nobody can tell.
Expire ==
    /\ \E d \in Domains : session[d] # NoProxy /\ session' = [session EXCEPT ![d] = NoProxy]
    /\ UNCHANGED <<poolVars, breakerVars, down, lockVars, callVars, seenVars>>

----------------------------------------------------------------------------
Acquire(t) ==
    \/ AcquirePlain(t)
    \/ \E d \in Domains : AcquireFresh(t, d) \/ AcquireSticky(t, d)
    \/ CheckBound(t) \/ BoundUrl(t) \/ DropStale(t)
    \/ List(t) \/ LookHealth(t) \/ Candidates(t) \/ Select(t) \/ TakeBreaker(t) \/ Bind(t)
    \/ CancelCall(t)

Release(t) == DropMarked(t) \/ DropUnmarked(t) \/ UnbindOnFailure(t)

Stats(t) == StatsList(t) \/ StatsHealth(t) \/ Tally(t)

Mutate(t) ==
    \/ AddLock(t) \/ AddStore(t) \/ Register(t) \/ AddFails(t)
    \/ RemoveStore(t) \/ Unregister(t) \/ CancelRemove(t)

Next ==
    \/ \E t \in Tasks : Acquire(t) \/ Release(t) \/ Stats(t) \/ Mutate(t)
    \/ HealthCheck \/ WindowOver \/ Expire

Spec == Init /\ [][Next]_vars

----------------------------------------------------------------------------
(* Properties *)

\* What add_proxy holds its lock for: a call that has selected a proxy finds
\* its breaker registered, unless the proxy is being removed.
SelectedHasBreaker ==
    \A t \in Tasks : pc[t] = "breaker" => hand[t] \in registered \/ hand[t] \notin store

\* A handle is only given for a proxy that was in the pool at some time
\* during the call, though the call works on a snapshot and a session may
\* still name a proxy that has been removed.
GrantedStored ==
    [][\A t \in Tasks : pc[t] \in Acquiring /\ pc'[t] = "holding" => hand[t] \in stored[t]]_vars

\* Nor is it given for a proxy whose breaker has kept requests off during
\* the whole call, whichever way it was found: by its session, or among the
\* candidates, where a proxy without a breaker passes for available.
GrantedUsable ==
    [][\A t \in Tasks : pc[t] \in Acquiring /\ pc'[t] = "holding" => hand[t] \in usable[t]]_vars

\* The locks are taken in one order, health_map, circuit_breakers, storage, so
\* calls cannot wait for each other in a circle: whoever keeps a guard of the
\* breakers across an await is at a call of the storage, which waits for
\* nobody; whoever keeps one of the health map waits for the breakers' lock, of
\* which it has no guard. Nor does any guard outlive the call that took it.
LockDiscipline ==
    /\ writer # NoTask => readers = {} /\ pc[writer] \in {"add", "register"}
    /\ \A t \in readers : pc[t] = "url"
    /\ \A t \in lookers : pc[t] \in {"ask", "tally"}

============================================================================
