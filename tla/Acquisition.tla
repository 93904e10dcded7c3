---------------------------- MODULE Acquisition ----------------------------
(***************************************************************************)
(* stygian-browser/src/acquisition.rs: a runner takes a request down a     *)
(* ladder of strategies until one succeeds, under one timeout for the      *)
(* whole run.  Several runs share a browser pool, of which only what       *)
(* LeasePool promises is used, and a provider of remote sessions.          *)
(* A step runs from one await to the next.                                 *)
(***************************************************************************)
EXTENDS Integers, FiniteSets, SequencesExt

CONSTANTS
    Runs,   \* calls of run
    Hosts,     \* hosts of requests; the pool's contexts
    Common,    \* the pool's shared context
    Browsers, MaxSize,
    Sessions,  \* ids the provider of remote sessions gives out
    Given,     \* the session of the caller that a request may reuse
    Nothing,
    Requests   \* the requests asked, a set of records of Request

Strategies == {"DirectHttp", "TlsProfiledHttp", "BrowserLightStealth",
               "StickyProxyBrowserSession", "BrowserbaseManagedSession", "InvestigateEntry"}
Modes == {"Fast", "Resilient", "Hostile", "Investigate"}
Marker == "InvestigateEntry"
Sticky == "StickyProxyBrowserSession"
Remote == "BrowserbaseManagedSession"

\* page: a selector or a script is asked for.  gate: what the contexts given with
\* the request lead to, which are asked in the order freshness, replay defence,
\* interstitial: nothing, a rejection, or (replay defence) a forced refresh.
Request == [mode : Modes, start : Strategies, host : Hosts, page : BOOLEAN,
            remote : BOOLEAN, reuse : BOOLEAN, gate : {"open", "reject", "refresh"}]

ASSUME AcquisitionAssumption ==
    /\ Requests \subseteq Request /\ Requests # {}
    /\ Common \notin Hosts
    /\ Nothing \notin Browsers \cup Sessions
    /\ Given \in Sessions

ASSUME SizeAssumption == MaxSize \in Nat

VARIABLES
    state, tenant, hand, ask,  \* the pool, see LeasePool
    pc,        \* the await a run is at
    req,       \* its request
    ladder,    \* the strategies still to be tried
    verdict,   \* what a page brought, while browser or session are put away
    res,       \* the AcquisitionResult
    mine,      \* the remote session a run is connected or connecting to
    live,      \* the sessions the provider keeps
    orphans    \* history: sessions whose creator could not delete them

poolVars == <<state, tenant, hand, ask>>
remoteVars == <<mine, live, orphans>>
vars == <<poolVars, pc, req, ladder, verdict, res, remoteVars>>

Pool == INSTANCE LeasePool WITH
    Items <- Browsers, Users <- Runs, Tenants <- Hosts \cup {Common}, Limit <- MaxSize

Awaits == {"refresh", "http", "acquire", "page", "release",
           "open", "connect", "remote", "close", "delete"}
Verdicts == {"none", "ok", "err"}

EmptyResult == [success |-> FALSE, attempted |-> <<>>, failures |-> <<>>, timedOut |-> FALSE]

-----------------------------------------------------------------------------
(* The ladder *)

\* Mutant: the ladder is not cleared of repetitions.
InvestigateLadderTwice(start) == <<Marker, start, Sticky, "TlsProfiledHttp">>

\* dedupe_preserve_order of the one ladder that may name a strategy twice.
InvestigateLadder(start) ==
    IF start \in {Marker, Sticky} THEN <<Marker, Sticky, "TlsProfiledHttp">>
    ELSE IF start = "TlsProfiledHttp" THEN <<Marker, start, Sticky>>
    ELSE <<Marker, start, Sticky, "TlsProfiledHttp">>

StrategyLadder(mode, start) ==
    CASE mode = "Fast" -> <<"DirectHttp", "TlsProfiledHttp", "BrowserLightStealth">>
      [] mode = "Resilient" ->
            <<"DirectHttp", "TlsProfiledHttp", "BrowserLightStealth", Sticky>>
      [] mode = "Hostile" ->
            <<"BrowserLightStealth", Sticky, "TlsProfiledHttp", "DirectHttp">>
      [] OTHER -> InvestigateLadder(start)

\* maybe_insert_browserbase_stage: before the sticky stage, or at the end.
WithRemote(s) ==
    IF Remote \in ToSet(s) THEN s
    ELSE IF Sticky \in ToSet(s)
    THEN LET n == CHOOSE i \in DOMAIN s : s[i] = Sticky IN InsertAt(s, n, Remote)
    ELSE Append(s, Remote)

Ladder(q) ==
    LET s == StrategyLadder(q.mode, q.start) IN IF q.remote THEN WithRemote(s) ELSE s

\* What the record of a timeout names: the first strategy that is no marker.
TimeoutStrategy(q) ==
    LET s == StrategyLadder(q.mode, q.start) IN IF s[1] = Marker THEN s[2] ELSE s[1]

-----------------------------------------------------------------------------
(* Steps *)

Goto(r, p) == pc' = [pc EXCEPT ![r] = p]
Current(r) == Last(res[r].attempted)

Failed(r, x) == [res[r] EXCEPT !.failures = Append(@, x)]
Finish(r, result) ==
    /\ res' = [res EXCEPT ![r] = result]
    /\ Goto(r, "done")

\* Mutant: a failure ends the ladder.
StageEndsEarly(r, outcome) ==
    \/ /\ outcome = "ok"
       /\ Finish(r, [res[r] EXCEPT !.success = TRUE])
    \/ /\ outcome = "err"
       /\ Finish(r, Failed(r, Current(r)))

\* The end of a stage: the run is over, or the next strategy is tried.
StageEnds(r, outcome) ==
    \/ /\ outcome = "ok"
       /\ Finish(r, [res[r] EXCEPT !.success = TRUE])
    \/ /\ outcome = "err"
       /\ res' = [res EXCEPT ![r] = Failed(r, Current(r))]
       /\ Goto(r, "next")

Init ==
    /\ Pool!Init
    /\ pc = [r \in Runs |-> "idle"]
    /\ req = [r \in Runs |-> CHOOSE q \in Requests : TRUE]
    /\ ladder = [r \in Runs |-> <<>>]
    /\ verdict = [r \in Runs |-> "none"]
    /\ res = [r \in Runs |-> EmptyResult]
    /\ mine = [r \in Runs |-> Nothing]
    /\ live = {Given}
    /\ orphans = {}

\* run up to its first await.
Begin(r, q) ==
    /\ pc[r] = "idle"
    /\ req' = [req EXCEPT ![r] = q]
    /\ \/ /\ q.gate = "reject"
          /\ Finish(r, [EmptyResult EXCEPT !.failures = <<Marker>>])
          /\ UNCHANGED ladder
       \/ /\ q.gate = "refresh"
          /\ res' = [res EXCEPT ![r] = EmptyResult]
          /\ Goto(r, "refresh")
          /\ UNCHANGED ladder
       \/ /\ q.gate = "open"
          /\ res' = [res EXCEPT ![r] = EmptyResult]
          /\ ladder' = [ladder EXCEPT ![r] = Ladder(q)]
          /\ Goto(r, "next")
    /\ UNCHANGED <<poolVars, verdict, remoteVars>>

IdleOf(h) == {b \in Browsers : state[b] = "idle" /\ tenant[b] = h}

\* evaluate_replay_defense: the pool lets go of the idle browsers of the host.
Refresh(r) ==
    /\ pc[r] = "refresh"
    /\ Pool!Close(IdleOf(req[r].host))
    /\ Finish(r, Failed(r, Marker))
    /\ UNCHANGED <<req, ladder, verdict, remoteVars>>

\* The loop of run_inner is through; run adds a failure when there is none.
Exhausted(r) ==
    /\ pc[r] = "next" /\ ladder[r] = <<>>
    /\ Finish(r, IF res[r].failures = <<>> THEN Failed(r, TimeoutStrategy(req[r])) ELSE res[r])
    /\ UNCHANGED <<poolVars, req, ladder, verdict, remoteVars>>

\* The clock is past the timeout and the timer has not been polled yet.
LateBeforeStage(r) ==
    /\ pc[r] = "next" /\ ladder[r] # <<>>
    /\ Finish(r, [Failed(r, Head(ladder[r])) EXCEPT !.timedOut = TRUE])
    /\ ladder' = [ladder EXCEPT ![r] = <<>>]
    /\ UNCHANGED <<poolVars, req, verdict, remoteVars>>

Http == {"DirectHttp", "TlsProfiledHttp"}

\* Mutant: every stage calls acquire, none acquire_for.
StageTenantCommon(r, x) == Common

StageTenant(r, x) == IF x = Sticky THEN req[r].host ELSE Common

\* execute_stage up to its first await.  An HTTP stage cannot serve a selector or
\* a script, and a remote one may be named as the start without being enabled.
Stage(r) ==
    LET x == Head(ladder[r])
        tried == [res[r] EXCEPT !.attempted = Append(@, x)]
        refused == (x \in Http /\ req[r].page) \/ (x = Remote /\ ~req[r].remote)
    IN
    /\ pc[r] = "next" /\ ladder[r] # <<>>
    /\ ladder' = [ladder EXCEPT ![r] = Tail(@)]
    /\ res' = [res EXCEPT ![r] =
                  IF refused THEN [tried EXCEPT !.failures = Append(@, x)] ELSE tried]
    /\ \/ /\ x = Marker \/ refused
          /\ UNCHANGED <<poolVars, pc>>
       \/ /\ x \in Http /\ ~refused
          /\ Goto(r, "http") /\ UNCHANGED poolVars
       \/ /\ x \in {"BrowserLightStealth", Sticky}
          /\ Goto(r, "acquire")
          /\ Pool!Ask(r, StageTenant(r, x))
       \/ /\ x = Remote /\ ~refused
          /\ Goto(r, "open") /\ UNCHANGED poolVars
    /\ UNCHANGED <<req, verdict, remoteVars>>

\* The response of an HTTP stage: a page, an error or a blocked status.
HttpEnds(r) ==
    /\ pc[r] = "http"
    /\ \E outcome \in {"ok", "err"} : StageEnds(r, outcome)
    /\ UNCHANGED <<poolVars, req, ladder, verdict, remoteVars>>

AcquireOk(r) ==
    /\ pc[r] = "acquire"
    /\ \E b \in Browsers : Pool!Lend(b, r) \/ Pool!Open(b, r)
    /\ Goto(r, "page")
    /\ UNCHANGED <<req, ladder, verdict, res, remoteVars>>

AcquireErr(r) ==
    /\ pc[r] = "acquire"
    /\ Pool!Ask(r, Common)
    /\ StageEnds(r, "err")
    /\ UNCHANGED <<req, ladder, verdict, remoteVars>>

\* The work on the page: its result is kept until the browser is released.
PageEnds(r) ==
    /\ pc[r] = "page"
    /\ \E v \in {"ok", "err"} : verdict' = [verdict EXCEPT ![r] = v]
    /\ Goto(r, "release")
    /\ UNCHANGED <<poolVars, req, ladder, res, remoteVars>>

\* A good page with a blocked status still fails the stage.
Verdict(r) ==
    /\ \/ StageEnds(r, verdict[r])
       \/ verdict[r] = "ok" /\ StageEnds(r, "err")
    /\ verdict' = [verdict EXCEPT ![r] = "none"]

Release(r) ==
    /\ pc[r] = "release"
    /\ Pool!GiveBack(r) \/ Pool!Discard(r)
    /\ Verdict(r)
    /\ UNCHANGED <<req, ladder, remoteVars>>

-----------------------------------------------------------------------------
(* The remote stage *)

Owned(r) == mine[r] \notin {Nothing, Given}

\* Missing keys of the provider, or an error of its API once retries are used up.
OpenErr(r) ==
    /\ pc[r] = "open"
    /\ StageEnds(r, "err")
    /\ UNCHANGED <<poolVars, req, ladder, verdict, remoteVars>>

\* The session given is looked up, or a new one is made.
OpenOk(r) ==
    /\ pc[r] = "open"
    /\ \/ /\ req[r].reuse
          /\ mine' = [mine EXCEPT ![r] = Given]
          /\ UNCHANGED live
       \/ /\ ~req[r].reuse
          /\ \E s \in Sessions \ live :
                /\ mine' = [mine EXCEPT ![r] = s]
                /\ live' = live \cup {s}
    /\ Goto(r, "connect")
    /\ UNCHANGED <<poolVars, req, ladder, verdict, res, orphans>>

\* The session is made and its answer is of no use: an id or a URL is missing,
\* or it is lost with the request.
OpenLost(r) ==
    /\ pc[r] = "open" /\ ~req[r].reuse
    /\ \E s \in Sessions \ live :
          /\ live' = live \cup {s}
          /\ orphans' = orphans \cup {s}
    /\ StageEnds(r, "err")
    /\ UNCHANGED <<poolVars, req, ladder, verdict, mine>>

\* Mutant: the error path leaves the session to itself.
ConnectErrLeaves(r) ==
    /\ pc[r] = "connect"
    /\ StageEnds(r, "err")
    /\ mine' = [mine EXCEPT ![r] = Nothing]
    /\ UNCHANGED <<poolVars, req, ladder, verdict, live, orphans>>

\* An error or a timeout of the connection: what is owned is deleted first.
ConnectErr(r) ==
    /\ pc[r] = "connect"
    /\ IF Owned(r)
       THEN /\ verdict' = [verdict EXCEPT ![r] = "err"]
            /\ Goto(r, "delete")
            /\ UNCHANGED <<res, mine>>
       ELSE /\ StageEnds(r, "err")
            /\ mine' = [mine EXCEPT ![r] = Nothing]
            /\ UNCHANGED verdict
    /\ UNCHANGED <<poolVars, req, ladder, live, orphans>>

ConnectOk(r) ==
    /\ pc[r] = "connect"
    /\ Goto(r, "remote")
    /\ UNCHANGED <<poolVars, req, ladder, verdict, res, remoteVars>>

RemoteEnds(r) ==
    /\ pc[r] = "remote"
    /\ \E v \in {"ok", "err"} : verdict' = [verdict EXCEPT ![r] = v]
    /\ Goto(r, "close")
    /\ UNCHANGED <<poolVars, req, ladder, res, remoteVars>>

\* browser.close, given up after five seconds.  It is sent to a session of the
\* caller too; whether the provider then ends that session is not in the code, and
\* here it does not.
CloseEnds(r) ==
    /\ pc[r] = "close"
    /\ IF Owned(r)
       THEN Goto(r, "delete") /\ UNCHANGED <<verdict, res, mine>>
       ELSE Verdict(r) /\ mine' = [mine EXCEPT ![r] = Nothing]
    /\ UNCHANGED <<poolVars, req, ladder, live, orphans>>

\* The answer to the deletion is not looked at.
DeleteEnds(r) ==
    /\ pc[r] = "delete"
    /\ \/ live' = live \ {mine[r]} /\ UNCHANGED orphans
       \/ orphans' = orphans \cup {mine[r]} /\ UNCHANGED live
    /\ mine' = [mine EXCEPT ![r] = Nothing]
    /\ Verdict(r)
    /\ UNCHANGED <<poolVars, req, ladder>>

-----------------------------------------------------------------------------

\* What a dropped run leaves at the provider: the session it owns, unless the
\* deletion had arrived, or one that is made after the run has gone.
Abandon(r) ==
    \/ Owned(r) /\ orphans' = orphans \cup {mine[r]} /\ UNCHANGED live
    \/ pc[r] = "delete" /\ live' = live \ {mine[r]} /\ UNCHANGED orphans
    \/ /\ pc[r] = "open" /\ ~req[r].reuse
       /\ \E s \in Sessions \ live : live' = live \cup {s} /\ orphans' = orphans \cup {s}
    \/ ~Owned(r) /\ UNCHANGED <<live, orphans>>

\* Mutant: the timeout is put around the work on pages only.
TimeoutOfPages(r) ==
    /\ pc[r] \in {"page", "remote"}
    /\ Finish(r, [EmptyResult EXCEPT !.timedOut = TRUE,
                                     !.failures = <<TimeoutStrategy(req[r])>>])
    /\ IF hand[r] # Nothing THEN Pool!Discard(r) ELSE Pool!Ask(r, Common)
    /\ Abandon(r)
    /\ mine' = [mine EXCEPT ![r] = Nothing]
    /\ ladder' = [ladder EXCEPT ![r] = <<>>]
    /\ verdict' = [verdict EXCEPT ![r] = "none"]
    /\ UNCHANGED req

\* The timeout of run drops run_inner wherever it is suspended: its result is
\* lost, a browser it holds is disposed of, and nobody deletes its session.
Timeout(r) ==
    /\ pc[r] \in Awaits
    /\ Finish(r, [EmptyResult EXCEPT !.timedOut = TRUE,
                                     !.failures = <<TimeoutStrategy(req[r])>>])
    /\ IF hand[r] # Nothing THEN Pool!Discard(r) ELSE Pool!Ask(r, Common)
    /\ Abandon(r)
    /\ mine' = [mine EXCEPT ![r] = Nothing]
    /\ ladder' = [ladder EXCEPT ![r] = <<>>]
    /\ verdict' = [verdict EXCEPT ![r] = "none"]
    /\ UNCHANGED req

\* What the pool does on its own: warming and eviction.
Background ==
    /\ \E b \in Browsers : Pool!Warm(b) \/ Pool!Close({b})
    /\ UNCHANGED <<pc, req, ladder, verdict, res, remoteVars>>

\* The steps of a run that need no answer from anybody.
OwnStep(r) == Exhausted(r) \/ LateBeforeStage(r) \/ Stage(r) \/ Timeout(r)

RunStep(r) ==
    \/ OwnStep(r) \/ Refresh(r) \/ HttpEnds(r)
    \/ AcquireOk(r) \/ AcquireErr(r) \/ PageEnds(r) \/ Release(r)
    \/ OpenErr(r) \/ OpenOk(r) \/ OpenLost(r) \/ ConnectErr(r) \/ ConnectOk(r)
    \/ RemoteEnds(r) \/ CloseEnds(r) \/ DeleteEnds(r)

Next ==
    \/ \E r \in Runs, q \in Requests : Begin(r, q)
    \/ \E r \in Runs : RunStep(r)
    \/ Background

Spec == Init /\ [][Next]_vars

\* A run that has begun is polled and its timer fires; nobody is made to answer.
FairSpec == Spec /\ \A r \in Runs : WF_vars(OwnStep(r))

-----------------------------------------------------------------------------
(* Properties *)

Result == [success : BOOLEAN, attempted : Seq(Strategies),
           failures : Seq(Strategies), timedOut : BOOLEAN]

\* Every variable has its type, and no strategy is on a ladder twice.
TypeOK ==
    /\ state \in [Browsers -> {"absent", "idle", "lent"}]
    /\ tenant \in [Browsers -> Hosts \cup {Common}]
    /\ hand \in [Runs -> Browsers \cup {Nothing}]
    /\ ask \in [Runs -> Hosts \cup {Common}]
    /\ pc \in [Runs -> Awaits \cup {"idle", "next", "done"}]
    /\ req \in [Runs -> Requests]
    /\ ladder \in [Runs -> Seq(Strategies)] /\ \A r \in Runs : IsInjective(ladder[r])
    /\ verdict \in [Runs -> Verdicts]
    /\ res \in [Runs -> Result]
    /\ mine \in [Runs -> Sessions \cup {Nothing}]
    /\ live \subseteq Sessions /\ orphans \subseteq Sessions

\* The marker is no attempt of its own; a ladder begins with it or has none.
NoMarker(s) == IF s # <<>> /\ Head(s) = Marker THEN Tail(s) ELSE s

\* run: "always returns an AcquisitionResult".  Unless the outer timeout threw the
\* result away, what a caller gets tells the ladder's story: the attempts are the
\* ladder in order up to where the run ended; the failures are, in order, the
\* attempts but the one that succeeded; a run without success has a failure.
OutcomeAccounted ==
    \A r \in Runs : pc[r] = "done" =>
        LET a == res[r].attempted
            f == res[r].failures
            full == Ladder(req[r])
        IN  \/ res[r].success /\ a # <<>> /\ IsPrefix(a, full) /\ ~res[r].timedOut
               /\ Last(a) # Marker /\ f = NoMarker(Front(a))
            \/ ~res[r].success /\ ~res[r].timedOut /\ a = full /\ f = NoMarker(full)
            \/ ~res[r].success /\ ~res[r].timedOut /\ a = <<>> /\ f = <<Marker>>
               /\ req[r].gate # "open"
            \/ ~res[r].success /\ res[r].timedOut /\ IsStrictPrefix(a, full)
               /\ f = Append(NoMarker(a), full[Len(a) + 1])
            \/ ~res[r].success /\ res[r].timedOut /\ a = <<>> /\ Len(f) = 1

\* run_browser_stage: a run has a browser exactly while it works on its page or
\* releases it, also when it is cut by the timeout; and the browser is one of the
\* host's own in the sticky stage and a common one in the light stage.
LentToStage ==
    \A r \in Runs :
        /\ hand[r] # Nothing <=> pc[r] \in {"page", "release"}
        /\ hand[r] # Nothing =>
              tenant[hand[r]] = IF Current(r) = Sticky THEN req[r].host ELSE Common

\* run_browserbase_stage, "creating -- and, on release, deleting -- a fresh session"
\* (line 334): whatever way a stage ends, a session that is still alive is the
\* caller's own, which is never deleted, or in the hands of the one run that made
\* it, or one the run could not delete: cut by the timeout, no usable answer.
SessionsAccounted ==
    /\ live = {Given} \cup orphans \cup {mine[r] : r \in {q \in Runs : Owned(q)}}
    /\ Given \notin orphans
    /\ \A r \in Runs : Owned(r) => /\ pc[r] \in {"connect", "remote", "close", "delete"}
                                      /\ mine[r] \notin orphans
                                      /\ \A q \in Runs \ {r} : mine[q] # mine[r]

\* run ends whatever anybody answers: its timeout reaches every await.
RunEnds == \A r \in Runs : pc[r] \notin {"idle", "done"} ~> pc[r] = "done"

=============================================================================
