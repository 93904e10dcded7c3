---------------------------- MODULE McpSessions ----------------------------
(***************************************************************************)
(* stygian-browser/src/mcp.rs: tools on browser sessions.  A map names the *)
(* sessions; what a session has (a pooled browser or an attached one, and  *)
(* a page) is behind mutexes of its own, which a call clones out of the    *)
(* map and uses after it has let go of the map.  dispatch takes &self, so  *)
(* calls overlap; a step runs from one await to the next.                  *)
(* Of the pool only what LeasePool promises is used: an id stands for the  *)
(* handle of its session.                                                  *)
(***************************************************************************)
EXTENDS Integers, FiniteSets

CONSTANTS
    Calls,     \* dispatches that may be under way at a time
    Ids,       \* session ids; one is used again when nobody knows it any more
    Browsers, MaxSize,
    Common,    \* the one context of the pool
    Remote,    \* the browser of a session that is attached to a CDP endpoint
    Nothing

ASSUME McpSessionsAssumption ==
    /\ Nothing \notin Calls \cup Ids \cup Browsers
    /\ Remote \notin Browsers \cup {Nothing}

VARIABLES
    state, tenant, hand, ask,  \* the pool, see LeasePool
    listed,    \* the ids in the map
    attached,  \* the ids whose browser is Remote
    pageOn,    \* the browser the page of a session is open on
    visited,   \* the ids with a current_url
    pageLock, browserLock,     \* the call that holds a mutex of a session
    pc, on, tool               \* per call: await, session, kind of tool

poolVars == <<state, tenant, hand, ask>>
sessionVars == <<listed, attached, pageOn, visited>>
lockVars == <<pageLock, browserLock>>
callVars == <<pc, on, tool>>
browserMcpVars == <<poolVars, sessionVars, lockVars, callVars>>

Pool == INSTANCE LeasePool WITH
    Items <- Browsers, Users <- Ids, Tenants <- {Common}, Limit <- MaxSize

\* navigate: goes to a URL of its own and notes it (navigate, query, extract,
\* session_restore of a snapshot that has an origin);
\* read: needs a current_url (eval, content, screenshot);
\* keep: takes the page as it is (session_save, session_restore without, humanize).
Tools == {"navigate", "read", "keep"}

Awaits == {"acquire", "page", "open", "newpage", "work", "busy", "note", "handle", "close"}

McpInit ==
    /\ Pool!Init
    /\ listed = {} /\ attached = {} /\ visited = {}
    /\ pageOn = [s \in Ids |-> Nothing]
    /\ pageLock = [s \in Ids |-> Nothing]
    /\ browserLock = [s \in Ids |-> Nothing]
    /\ pc = [c \in Calls |-> "idle"]
    /\ on = [c \in Calls |-> Nothing]
    /\ tool = [c \in Calls |-> "none"]

-----------------------------------------------------------------------------

Goto(c, p) == pc' = [pc EXCEPT ![c] = p]

Answer(c) ==
    /\ Goto(c, "idle")
    /\ on' = [on EXCEPT ![c] = Nothing]
    /\ tool' = [tool EXCEPT ![c] = "none"]

Start(c, s, t, p) ==
    /\ pc[c] = "idle"
    /\ on' = [on EXCEPT ![c] = s]
    /\ tool' = [tool EXCEPT ![c] = t]
    /\ Goto(c, p)

Fresh(s) == s \notin listed /\ \A c \in Calls : on[c] # s

Lock(lock, s, c) == lock' = [lock EXCEPT ![s] = c]

\* tool_browser_acquire; the id is made when the browser is there, and only the
\* call itself knows it until then.
Acquire(c, s) ==
    /\ Fresh(s)
    /\ Start(c, s, "none", "acquire")
    /\ visited' = visited \ {s}
    /\ UNCHANGED <<poolVars, listed, attached, pageOn, lockVars>>

AcquireOk(c) ==
    /\ pc[c] = "acquire"
    /\ \E b \in Browsers : Pool!Lend(b, on[c]) \/ Pool!Open(b, on[c])
    /\ listed' = listed \cup {on[c]}
    /\ Answer(c)
    /\ UNCHANGED <<attached, pageOn, visited, lockVars>>

AcquireErr(c) ==
    /\ pc[c] = "acquire"
    /\ Answer(c)
    /\ UNCHANGED <<poolVars, sessionVars, lockVars>>

\* tool_browser_attach, mode cdp_ws, once the connection is made.
Attach(c, s) ==
    /\ Fresh(s)
    /\ pc[c] = "idle"
    /\ listed' = listed \cup {s} /\ attached' = attached \cup {s}
    /\ visited' = visited \ {s}
    /\ UNCHANGED <<poolVars, pageOn, lockVars, callVars>>

\* Mutant: the URL is noted before the page has gone there.
UseNotesFirst(c, s, t) ==
    /\ s \in listed
    /\ t = "read" => s \in visited
    /\ Start(c, s, t, "page")
    /\ visited' = IF t = "navigate" THEN visited \cup {s} ELSE visited
    /\ UNCHANGED <<poolVars, listed, attached, pageOn, lockVars>>

\* session_runtime: a tool finds its session in the map, or fails at once.
Use(c, s, t) ==
    /\ s \in listed
    /\ t = "read" => s \in visited
    /\ Start(c, s, t, "page")
    /\ UNCHANGED <<poolVars, sessionVars, lockVars>>

\* ensure_session_page with the page there.
HasPage(c) ==
    /\ pc[c] = "page"
    /\ pageLock[on[c]] = Nothing /\ pageOn[on[c]] # Nothing
    /\ Goto(c, "work")
    /\ UNCHANGED <<poolVars, sessionVars, lockVars, on, tool>>

\* Mutant: the test for a page is made outside the mutex.
MissesPageUnlocked(c) ==
    /\ pc[c] = "page"
    /\ pageOn[on[c]] = Nothing
    /\ Goto(c, "open")
    /\ UNCHANGED <<poolVars, sessionVars, lockVars, on, tool>>

\* ensure_session_page without: the page's mutex is kept until there is one.
MissesPage(c) ==
    /\ pc[c] = "page"
    /\ pageLock[on[c]] = Nothing /\ pageOn[on[c]] = Nothing
    /\ Lock(pageLock, on[c], c)
    /\ Goto(c, "open")
    /\ UNCHANGED <<poolVars, sessionVars, browserLock, on, tool>>

\* create_session_page up to new_page, under the browser's mutex.
OpenPage(c) ==
    /\ pc[c] = "open"
    /\ browserLock[on[c]] = Nothing
    /\ hand[on[c]] # Nothing \/ on[c] \in attached
    /\ Lock(browserLock, on[c], c)
    /\ Goto(c, "newpage")
    /\ UNCHANGED <<poolVars, sessionVars, pageLock, on, tool>>

\* "Session already released".
OpenTooLate(c) ==
    /\ pc[c] = "open"
    /\ browserLock[on[c]] = Nothing
    /\ hand[on[c]] = Nothing /\ on[c] \notin attached
    /\ Lock(pageLock, on[c], Nothing)
    /\ Answer(c)
    /\ UNCHANGED <<poolVars, sessionVars, browserLock>>

\* The page is there.  It would be sent to the session's current_url, if there
\* were one: PageOnce says that there is none.
NewPageOk(c) ==
    /\ pc[c] = "newpage"
    /\ pageOn' = [pageOn EXCEPT ![on[c]] =
                    IF hand[on[c]] # Nothing THEN hand[on[c]] ELSE Remote]
    /\ Lock(browserLock, on[c], Nothing) /\ Lock(pageLock, on[c], Nothing)
    /\ Goto(c, "work")
    /\ UNCHANGED <<poolVars, listed, attached, visited, on, tool>>

NewPageErr(c) ==
    /\ pc[c] = "newpage"
    /\ Lock(browserLock, on[c], Nothing) /\ Lock(pageLock, on[c], Nothing)
    /\ Answer(c)
    /\ UNCHANGED <<poolVars, sessionVars>>

\* The mutex is taken a second time, and the page may be gone by then.
WorkBegins(c) ==
    /\ pc[c] = "work"
    /\ pageLock[on[c]] = Nothing /\ pageOn[on[c]] # Nothing
    /\ Lock(pageLock, on[c], c)
    /\ Goto(c, "busy")
    /\ UNCHANGED <<poolVars, sessionVars, browserLock, on, tool>>

\* "Session page unavailable".
WorkTooLate(c) ==
    /\ pc[c] = "work"
    /\ pageLock[on[c]] = Nothing /\ pageOn[on[c]] = Nothing
    /\ Answer(c)
    /\ UNCHANGED <<poolVars, sessionVars, lockVars>>

WorkOk(c) ==
    /\ pc[c] = "busy" /\ tool[c] # "navigate"
    /\ Lock(pageLock, on[c], Nothing)
    /\ Answer(c)
    /\ UNCHANGED <<poolVars, sessionVars, browserLock>>

Navigated(c) ==
    /\ pc[c] = "busy" /\ tool[c] = "navigate"
    /\ Lock(pageLock, on[c], Nothing)
    /\ Goto(c, "note")
    /\ UNCHANGED <<poolVars, sessionVars, browserLock, on, tool>>

WorkErr(c) ==
    /\ pc[c] = "busy"
    /\ Lock(pageLock, on[c], Nothing)
    /\ Answer(c)
    /\ UNCHANGED <<poolVars, sessionVars, browserLock>>

\* The URL is noted if the session is still in the map.
Note(c) ==
    /\ pc[c] = "note"
    /\ visited' = IF on[c] \in listed THEN visited \cup {on[c]} ELSE visited
    /\ Answer(c)
    /\ UNCHANGED <<poolVars, listed, attached, pageOn, lockVars>>

-----------------------------------------------------------------------------
(* tool_browser_release *)

\* Mutant: the session is taken out of the map when all is put away.
ReleaseLate(c, s) ==
    /\ s \in listed
    /\ Start(c, s, "none", "handle")
    /\ UNCHANGED <<poolVars, sessionVars, lockVars>>

Release(c, s) ==
    /\ s \in listed
    /\ Start(c, s, "none", "handle")
    /\ listed' = listed \ {s}
    /\ UNCHANGED <<poolVars, attached, pageOn, visited, lockVars>>

\* The browser goes back, or the attached one is closed.
ReleaseBrowser(c) ==
    /\ pc[c] = "handle"
    /\ browserLock[on[c]] = Nothing
    /\ IF hand[on[c]] # Nothing
       THEN Pool!GiveBack(on[c]) \/ Pool!Discard(on[c])
       ELSE UNCHANGED poolVars
    /\ attached' = attached \ {on[c]}
    /\ Goto(c, "close")
    /\ UNCHANGED <<listed, pageOn, visited, lockVars, on, tool>>

\* Mutant: a page that is busy is not waited for.
ReleasePageTry(c) ==
    /\ pc[c] = "close"
    /\ pageOn' = IF pageLock[on[c]] = Nothing
                 THEN [pageOn EXCEPT ![on[c]] = Nothing] ELSE pageOn
    /\ Answer(c)
    /\ UNCHANGED <<poolVars, listed, attached, visited, lockVars>>

ReleasePage(c) ==
    /\ pc[c] = "close"
    /\ pageLock[on[c]] = Nothing
    /\ pageOn' = [pageOn EXCEPT ![on[c]] = Nothing]
    /\ Answer(c)
    /\ UNCHANGED <<poolVars, listed, attached, visited, lockVars>>

-----------------------------------------------------------------------------

McpBegin(c) ==
    \/ \E s \in Ids : Acquire(c, s) \/ Attach(c, s) \/ Release(c, s)
    \/ \E s \in Ids, t \in {"navigate", "read", "keep"} : Use(c, s, t)

\* A call goes on, answers with a result, or answers with an error.
GoesOn(c) ==
    \/ HasPage(c) \/ MissesPage(c) \/ OpenPage(c) \/ NewPageOk(c) \/ WorkBegins(c)
    \/ Navigated(c) \/ ReleaseBrowser(c)

Succeeds(c) == AcquireOk(c) \/ WorkOk(c) \/ Note(c) \/ ReleasePage(c)

Fails(c) == AcquireErr(c) \/ OpenTooLate(c) \/ NewPageErr(c) \/ WorkTooLate(c) \/ WorkErr(c)

McpStep(c) == GoesOn(c) \/ Succeeds(c) \/ Fails(c)

PoolStep ==
    /\ \E b \in Browsers : Pool!Warm(b) \/ Pool!Close({b})
    /\ UNCHANGED <<sessionVars, lockVars, callVars>>

McpNext == (\E c \in Calls : McpBegin(c) \/ McpStep(c)) \/ PoolStep

McpSpec == McpInit /\ [][McpNext]_browserMcpVars

-----------------------------------------------------------------------------
(* Properties *)

\* Every variable has its type, and a lock is held by the call that works under it.
McpTypeOK ==
    /\ state \in [Browsers -> {"absent", "idle", "lent"}]
    /\ tenant \in [Browsers -> {Common}] /\ ask \in [Ids -> {Common}]
    /\ hand \in [Ids -> Browsers \cup {Nothing}]
    /\ listed \subseteq Ids /\ attached \subseteq Ids /\ visited \subseteq Ids
    /\ pageOn \in [Ids -> Browsers \cup {Remote, Nothing}]
    /\ pageLock \in [Ids -> Calls \cup {Nothing}]
    /\ browserLock \in [Ids -> Calls \cup {Nothing}]
    /\ pc \in [Calls -> Awaits \cup {"idle"}]
    /\ on \in [Calls -> Ids \cup {Nothing}] /\ tool \in [Calls -> Tools \cup {"none"}]
    /\ \A c \in Calls : pc[c] = "idle" <=> on[c] = Nothing
    /\ \A s \in Ids, c \in Calls :
          /\ pageLock[s] = c <=> on[c] = s /\ pc[c] \in {"open", "newpage", "busy"}
          /\ browserLock[s] = c <=> on[c] = s /\ pc[c] = "newpage"

Releasing(s) == \E c \in Calls : on[c] = s /\ pc[c] \in {"handle", "close"}
GivingBack(s) == \E c \in Calls : on[c] = s /\ pc[c] = "handle"

\* A session in the map has its browser, pooled or attached and not both; once it
\* is out of the map the browser is gone too, but for the one call that releases it:
\* no handle is lost whatever other calls are on the session.
SessionBacked ==
    \A s \in Ids :
        /\ s \in listed => hand[s] # Nothing \/ s \in attached
        /\ hand[s] = Nothing \/ s \notin attached
        /\ hand[s] # Nothing \/ s \in attached => s \in listed \/ GivingBack(s)

\* tool_browser_release, "Remove session from the map so further calls immediately
\* fail": calls that found the session before can neither keep its page nor make a
\* new one: with the release over there is no page, and until then a page is on
\* the session's own browser or is about to be closed.
PageGoesWithSession ==
    \A s \in Ids : pageOn[s] # Nothing =>
        \/ pageOn[s] \in Browsers /\ hand[s] = pageOn[s]
        \/ pageOn[s] = Remote /\ s \in attached
        \/ Releasing(s)

\* ensure_session_page sends a new page to current_url: a page is only ever made
\* for a session that has none, so there is nothing to send it to, and a session
\* whose URL is noted keeps its one page until it is released.
PageOnce ==
    /\ \A c \in Calls : pc[c] = "newpage" => on[c] \notin visited
    /\ \A s \in listed \cap visited : pageOn[s] # Nothing

=============================================================================
