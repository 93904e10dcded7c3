--------------------------- MODULE MCProxyManager ---------------------------
(***************************************************************************)
(* ProxyManager for TLC, and what the book says of sticky sessions that    *)
(* the code does not do.                                                   *)
(***************************************************************************)
EXTENDS ProxyManager, TLC

\* Tasks are interchangeable, and proxies are where the cfg puts all of them
\* in the pool from the start, or none.
Symmetry == Permutations(Tasks) \cup Permutations(Proxies)

\* sticky-sessions.md:250: after mark_success the "binding stays alive for
\* the remainder of the TTL". A handle that fails unbinds its domain,
\* whatever proxy the domain has been bound to since.
UnbindsOwn ==
    [][\A t \in Tasks :
         pc[t] = "unbind" /\ pc'[t] = "out" /\ session[key[t]] # NoProxy /\ session'[key[t]] = NoProxy
           => session[key[t]] = hand[t]]_vars

=============================================================================
