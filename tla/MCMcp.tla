------------------------------- MODULE MCMcp -------------------------------
(***************************************************************************)
(* The MCP servers for TLC.                                                *)
(***************************************************************************)
EXTENDS McpAggregator, TLC

\* All callers but the aggregator are alike, and so are names and browsers.
Symmetry ==
    Permutations(Calls \ {Loop}) \cup Permutations(Ids) \cup Permutations(Browsers)
    \cup Permutations(Tokens)

=============================================================================
