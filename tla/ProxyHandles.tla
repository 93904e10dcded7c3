---------------------------- MODULE ProxyHandles ----------------------------
(***************************************************************************)
(* stygian-proxy/src/mcp.rs: the handles that tools have leased, kept by   *)
(* token until they are released or, where run() serves, are four hours    *)
(* old.  A handle that is dropped without mark_success charges its proxy   *)
(* with a failure.  What the manager does is ProxyManager's.               *)
(***************************************************************************)
EXTENDS Integers

CONSTANT Tokens   \* names of handles; one is used again when it is resolved

VARIABLES
    stored,    \* the tokens in the store
    old,       \* those of them that are HANDLE_TTL old
    verdict    \* what became of the latest handle of a token

proxyMcpVars == <<stored, old, verdict>>

ProxyInit ==
    /\ stored = {} /\ old = {}
    /\ verdict = [t \in Tokens |-> "failure"]

Resolve(T, v) ==
    /\ stored' = stored \ T /\ old' = old \ T
    /\ verdict' = [t \in Tokens |-> IF t \in T THEN v ELSE verdict[t]]

\* proxy_acquire, _for_domain, _with_capabilities, when the manager has a proxy.
ProxyAcquire(t) ==
    /\ t \notin stored
    /\ stored' = stored \cup {t}
    /\ verdict' = [verdict EXCEPT ![t] = "out"]
    /\ UNCHANGED old

\* proxy_release; a token that is not in the store is answered with an error.
ProxyRelease(t, success) ==
    /\ t \in stored
    /\ Resolve({t}, IF success THEN "success" ELSE "failure")

Grow(t) ==
    /\ t \in stored \ old
    /\ old' = old \cup {t}
    /\ UNCHANGED <<stored, verdict>>

\* The cleanup task of run; a tick that finds the store locked does nothing.
Cleanup ==
    /\ old # {}
    /\ Resolve(old, "failure")

-----------------------------------------------------------------------------

\* Every variable has its type; what is too old is in the store.
ProxyTypeOK ==
    /\ stored \subseteq Tokens /\ old \subseteq stored
    /\ verdict \in [Tokens -> {"out", "success", "failure"}]

=============================================================================
