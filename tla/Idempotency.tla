---------------------------- MODULE Idempotency ----------------------------
(***************************************************************************)
(* IdempotencyStore over a DashMapCache: workers claim one key, do the     *)
(* work if the claim is theirs, and store how it went. A step is one       *)
(* access to the map: the cache looks at an entry under the lock of its    *)
(* shard, lets the lock go, and removes an expired entry in a second       *)
(* access, by key.                                                         *)
(* The record has an expires_at besides that of its entry, in whole        *)
(* seconds of the wall clock, which get looks at when the cache has        *)
(* answered and claim does not. It is left out: here get answers with a    *)
(* record as long as the entry lives, where the code may say None when the *)
(* clock is set forward or the ttl is not in whole seconds.                *)
(***************************************************************************)
EXTENDS Naturals

CONSTANT Workers

VARIABLES
    entry,     \* of the key in DashMapCache::store: NoEntry, or a record
    worker,    \* where each worker is
    claims     \* history: claims granted since the key was last free again

idem == <<entry, worker, claims>>

NoEntry == [status |-> "none", live |-> FALSE]
Record(s) == [status |-> s, live |-> TRUE]
Expired == entry # NoEntry /\ ~ entry.live

IdemTypeOK ==
    /\ entry \in {NoEntry} \cup [status : {"Pending", "Completed", "Failed"}, live : BOOLEAN]
    /\ worker \in [Workers -> {"idle", "remove", "set", "claimed", "refused", "removeRead",
                               "known", "unknown", "done"}]
    /\ claims \in Nat

IdemInit ==
    /\ entry = NoEntry
    /\ worker = [w \in Workers |-> "idle"]
    /\ claims = 0

Moves(w, from, to) == worker[w] = from /\ worker' = [worker EXCEPT ![w] = to]

\* claim: exists looks the key up. An expired entry is let go of.
Exists(w) ==
    /\ \/ entry.live /\ Moves(w, "idle", "refused")
       \/ entry = NoEntry /\ Moves(w, "idle", "set")
       \/ Expired /\ Moves(w, "idle", "remove")
    /\ UNCHANGED <<entry, claims>>

\* ... and removed by its key, whatever is there by then.
RemoveExpired(w) ==
    /\ Moves(w, "remove", "set") \/ Moves(w, "removeRead", "unknown")
    /\ entry' = NoEntry
    /\ UNCHANGED claims

\* claim: the pending record is set, and the claim granted.
SetPending(w) ==
    /\ Moves(w, "set", "claimed")
    /\ entry' = Record("Pending")
    /\ claims' = claims + 1

\* store and mark_failed write their record over whatever there is.
StoreOutcome(w) ==
    /\ Moves(w, "claimed", "done")
    /\ entry' \in {Record("Completed"), Record("Failed")}
    /\ UNCHANGED claims

\* get, by a worker whose claim was refused.
Get(w) ==
    /\ \/ entry.live /\ Moves(w, "refused", "known")
       \/ entry = NoEntry /\ Moves(w, "refused", "unknown")
       \/ Expired /\ Moves(w, "refused", "removeRead")
    /\ UNCHANGED <<entry, claims>>

Invalidate ==
    /\ entry' = NoEntry
    /\ claims' = 0
    /\ UNCHANGED worker

Expire ==
    /\ entry.live
    /\ entry' = [entry EXCEPT !.live = FALSE]
    /\ claims' = 0
    /\ UNCHANGED worker

\* The cleanup task of the cache.
Sweep ==
    /\ Expired
    /\ entry' = NoEntry
    /\ UNCHANGED <<worker, claims>>

IdemNext ==
    \/ Invalidate \/ Expire \/ Sweep
    \/ \E w \in Workers :
          \/ Exists(w) \/ RemoveExpired(w) \/ SetPending(w)
          \/ StoreOutcome(w) \/ Get(w)

IdemSpec == IdemInit /\ [][IdemNext]_idem

-----------------------------------------------------------------------------
(* What the documentation says                                             *)

\* idempotency.rs:256 (claim): "Mark a key as pending (in-flight)
\* atomically", and 259: "Returns `false` if another worker already claimed
\* this key". The look and the setting are two accesses to the cache, so
\* two workers can both be granted one key.
ClaimOnce == claims <= 1

=============================================================================
