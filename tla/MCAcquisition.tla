--------------------------- MODULE MCAcquisition ---------------------------
(***************************************************************************)
(* The acquisition runner for TLC: requests of every mode that between     *)
(* them reach every stage and every way a request is turned down.          *)
(***************************************************************************)
EXTENDS Acquisition, TLC

CONSTANTS h1, h2

Plain == [mode |-> "Fast", start |-> "BrowserLightStealth", host |-> h1, page |-> FALSE,
          remote |-> FALSE, reuse |-> FALSE, gate |-> "open"]

MCRequests == {
    \* over a page script, on to the host's own browser and a fresh session
    [Plain EXCEPT !.mode = "Resilient", !.page = TRUE, !.remote = TRUE],
    \* another host, the sticky browser first, then a session of the caller's
    [Plain EXCEPT !.mode = "Investigate", !.start = "StickyProxyBrowserSession",
                  !.host = h2, !.page = TRUE, !.remote = TRUE, !.reuse = TRUE],
    \* a start that is not enabled
    [Plain EXCEPT !.mode = "Investigate", !.start = "BrowserbaseManagedSession", !.page = TRUE],
    \* a session at the end of the ladder
    [Plain EXCEPT !.remote = TRUE],
    [Plain EXCEPT !.mode = "Hostile", !.gate = "reject"],
    [Plain EXCEPT !.gate = "refresh"]}

=============================================================================
