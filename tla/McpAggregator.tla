--------------------------- MODULE McpAggregator ---------------------------
(***************************************************************************)
(* The MCP servers as they are put to use.  front says which one runs: the *)
(* browser server with overlapping dispatches, the proxy server with its   *)
(* loop and its cleanup, or stygian-mcp/src/aggregator.rs, which owns one  *)
(* of each, takes one request at a time from its input, and adds           *)
(* scrape_proxied: a scrape through a proxy of the proxy server.           *)
(*                                                                         *)
(* handle_tools_call tells tools apart by their prefix first, so a call of *)
(* browser_proxied goes to the browser server, which does not know it and  *)
(* answers with an error: like every unknown tool it changes nothing, and  *)
(* the function that would serve it is never entered.                      *)
(***************************************************************************)
EXTENDS McpSessions, ProxyHandles

CONSTANT Loop     \* the aggregator's own call; the others are of other callers

ASSUME AggregatorAssumption == Loop \in Calls /\ Nothing \notin Tokens

VARIABLES
    front,     \* the server that runs
    stage,     \* how far scrape_proxied has come, "idle" when there is none
    tok,       \* the proxy handle it has
    good,      \* whether the proxy is to be credited
    clients    \* history: the tokens of handles that a client was told

aggVars == <<stage, tok, good>>
vars == <<browserMcpVars, proxyMcpVars, front, aggVars, clients>>

Init ==
    /\ McpInit /\ ProxyInit
    /\ front \in {"browser", "proxy", "aggregator"}
    /\ stage = "idle" /\ tok = Nothing /\ good = FALSE
    /\ clients = {}

-----------------------------------------------------------------------------
(* Tools of the two servers, called by a client *)

\* The calls that may be begun or go on for a client.
Open == CASE front = "browser" -> Calls \ {Loop}
          [] front = "aggregator" /\ stage = "idle" -> {Loop}
          [] OTHER -> {}

BrowserTool ==
    /\ \E c \in Open : McpBegin(c) \/ McpStep(c)
    /\ UNCHANGED <<proxyMcpVars, front, aggVars, clients>>

ProxyTool ==
    /\ front # "browser" /\ stage = "idle" /\ pc[Loop] = "idle"
    /\ \/ \E t \in Tokens : ProxyAcquire(t)
       \/ \E t \in clients, success \in BOOLEAN : ProxyRelease(t, success)
    /\ clients' = (clients \cup (stored' \ stored)) \ (stored \ stored')
    /\ UNCHANGED <<browserMcpVars, front, aggVars>>

\* start_background, which the aggregator uses, does not start the cleanup.
HandlesAge ==
    /\ front # "browser"
    /\ (\E t \in Tokens : Grow(t)) \/ (front = "proxy" /\ Cleanup)
    /\ clients' = clients \ (stored \ stored')
    /\ UNCHANGED <<browserMcpVars, front, aggVars>>

PoolTurns ==
    /\ front # "proxy"
    /\ PoolStep
    /\ UNCHANGED <<proxyMcpVars, front, aggVars, clients>>

-----------------------------------------------------------------------------
(* scrape_proxied, one await at a time *)

ToStage(p) == stage' = p

\* The name has none of the prefixes, so it reaches tool_scrape_proxied; one
\* without a url is answered there with an error.
Begin ==
    /\ front = "aggregator" /\ stage = "idle" /\ pc[Loop] = "idle"
    /\ ToStage("proxy")
    /\ UNCHANGED <<browserMcpVars, proxyMcpVars, tok, good>>

\* acquire_proxy_and_token
TakeProxy ==
    /\ stage = "proxy"
    /\ \E t \in Tokens : ProxyAcquire(t) /\ tok' = t
    /\ ToStage("scrape")
    /\ UNCHANGED <<browserMcpVars, good>>

NoProxy ==
    /\ stage = "proxy"
    /\ ToStage("idle")
    /\ UNCHANGED <<browserMcpVars, proxyMcpVars, tok, good>>

\* Mutant: a scrape that fails is answered before the proxy is given back.
ScrapedFails ==
    /\ stage = "scrape"
    /\ \/ ToStage("release") /\ good' = TRUE /\ UNCHANGED tok
       \/ ToStage("idle") /\ tok' = Nothing /\ UNCHANGED good
    /\ UNCHANGED <<browserMcpVars, proxyMcpVars>>

\* The graph server answers the scrape with a result or with an error.
Scraped ==
    /\ stage = "scrape"
    /\ ToStage("release") /\ good' \in BOOLEAN
    /\ UNCHANGED <<browserMcpVars, proxyMcpVars, tok>>

\* release_proxy, and the answer to the client.
PutBackProxy ==
    /\ stage = "release"
    /\ ProxyRelease(tok, good)
    /\ ToStage("idle") /\ tok' = Nothing /\ good' = FALSE
    /\ UNCHANGED browserMcpVars

ScrapeProxied ==
    /\ Begin \/ TakeProxy \/ NoProxy \/ Scraped \/ PutBackProxy
    /\ UNCHANGED <<front, clients>>

Next == BrowserTool \/ ProxyTool \/ HandlesAge \/ PoolTurns \/ ScrapeProxied

Spec == Init /\ [][Next]_vars

-----------------------------------------------------------------------------
(* Properties *)

\* Every variable has its type.
TypeOK ==
    /\ McpTypeOK /\ ProxyTypeOK
    /\ front \in {"browser", "proxy", "aggregator"}
    /\ stage \in {"idle", "proxy", "scrape", "release"} /\ good \in BOOLEAN
    /\ tok \in Tokens \cup {Nothing}
    /\ clients \subseteq Tokens

\* tool_scrape_proxied, with the loop and start_background: no cleanup runs under
\* the aggregator, so a handle nobody remembers would stay in the store for ever.
\* There is none: every handle in the store is a client's or the running tool's,
\* the tool's own is still there when it is to be given back, whatever clients
\* released and whatever aged before, and none is held once the tool has answered.
NothingLeft ==
    /\ stored \subseteq clients \cup {tok}
    /\ tok # Nothing => tok \in stored \ clients
    /\ stage = "idle" => tok = Nothing

=============================================================================
