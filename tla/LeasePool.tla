----------------------------- MODULE LeasePool -----------------------------
(***************************************************************************)
(* What a user of the browser pool may rely on: at most Limit browsers are *)
(* idle or lent; a browser is lent to one user at a time; and it keeps, as *)
(* long as it lives, the tenant it was opened for, so that no user of      *)
(* another tenant ever sees it.  How room is found (permits, a counter,    *)
(* queues, timeouts) is left open.                                         *)
(***************************************************************************)
EXTENDS Integers, FiniteSets

CONSTANTS Items, Users, Tenants, Common, Nothing, Limit

VARIABLES
    state,   \* [Items -> {"absent", "idle", "lent"}]
    tenant,  \* whom an item that is not absent belongs to
    hand,    \* what a user has: an item or Nothing
    ask      \* the tenant a user acts for in its current call

vars == <<state, tenant, hand, ask>>

Present == {i \in Items : state[i] # "absent"}

Init ==
    /\ state = [i \in Items |-> "absent"]
    /\ tenant = [i \in Items |-> Common]
    /\ hand = [u \in Users |-> Nothing]
    /\ ask = [u \in Users |-> Common]

\* A user with nothing in hand begins or gives up a call.
Ask(u, k) ==
    /\ hand[u] = Nothing
    /\ ask' = [ask EXCEPT ![u] = k]
    /\ UNCHANGED <<state, tenant, hand>>

\* A new item, idle in the common stock.
Warm(i) ==
    /\ state[i] = "absent" /\ Cardinality(Present) < Limit
    /\ state' = [state EXCEPT ![i] = "idle"]
    /\ UNCHANGED <<tenant, hand, ask>>

\* A new item for user u.
Open(i, u) ==
    /\ state[i] = "absent" /\ Cardinality(Present) < Limit
    /\ hand[u] = Nothing
    /\ state' = [state EXCEPT ![i] = "lent"]
    /\ tenant' = [tenant EXCEPT ![i] = ask[u]]
    /\ hand' = [hand EXCEPT ![u] = i]
    /\ UNCHANGED ask

\* An idle item for user u, of the user's own tenant.
Lend(i, u) ==
    /\ state[i] = "idle" /\ tenant[i] = ask[u]
    /\ hand[u] = Nothing
    /\ state' = [state EXCEPT ![i] = "lent"]
    /\ hand' = [hand EXCEPT ![u] = i]
    /\ UNCHANGED <<tenant, ask>>

\* The call of u is over and u has nothing.
Done(u) ==
    /\ hand[u] # Nothing
    /\ hand' = [hand EXCEPT ![u] = Nothing]
    /\ ask' = [ask EXCEPT ![u] = Common]

GiveBack(u) ==
    /\ Done(u)
    /\ state' = [state EXCEPT ![hand[u]] = "idle"]
    /\ UNCHANGED tenant

Leave(S) ==
    /\ state' = [i \in Items |-> IF i \in S THEN "absent" ELSE state[i]]
    /\ tenant' = [i \in Items |-> IF i \in S THEN Common ELSE tenant[i]]

\* A user's item is closed instead of given back.
Discard(u) ==
    /\ Done(u)
    /\ Leave({hand[u]})

\* Idle items are closed.
Close(S) ==
    /\ \A i \in S : state[i] = "idle"
    /\ Leave(S)
    /\ UNCHANGED <<hand, ask>>

Next ==
    \/ \E u \in Users, k \in Tenants : Ask(u, k)
    \/ \E i \in Items : Warm(i)
    \/ \E i \in Items, u \in Users : Open(i, u) \/ Lend(i, u)
    \/ \E u \in Users : GiveBack(u) \/ Discard(u)
    \/ \E S \in SUBSET Items : Close(S)

Spec == Init /\ [][Next]_vars

=============================================================================
