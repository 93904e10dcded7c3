--------------------------- MODULE MCBrowserPool ---------------------------
(***************************************************************************)
(* The browser pool for TLC, and what its comments, its configuration and  *)
(* the book say of it that the code does not do.                           *)
(***************************************************************************)
EXTENDS BrowserPool, TLC

\* Tasks, browsers and contexts are interchangeable (safety runs only).
Symmetry == Permutations(Tasks) \cup Permutations(Browsers) \cup Permutations(Contexts)

\* Nothing is under way: no call, no shutdown.
Settled ==
    /\ \A t \in Tasks : pc[t] \in {"out", "using"}
    /\ \A b \in Browsers : place[b] \in {"none", "idle", "held"}

\* pool.rs:222, "so that active_count and the semaphore always agree on
\* capacity", asked only while nothing is under way.
PermitsAgreeWithActive == Settled /\ Open => permits + active = MaxSize

=============================================================================
