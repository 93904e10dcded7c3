------------------------- MODULE AcquisitionProofs -------------------------
(***************************************************************************)
(* Proofs about Acquisition, for any number of runs, browsers and sessions *)
(* and any set of requests: a run has a browser just while it works on it, *)
(* of the tenant its stage calls for, no session is forgotten, and what a  *)
(* caller gets tells the story of the ladder.                              *)
(***************************************************************************)
EXTENDS Acquisition, FiniteSetTheorems, SequenceTheorems, TLAPS

USE AcquisitionAssumption

-----------------------------------------------------------------------------
(* Ladders                                                                 *)

Distinct(s) == \A i, j \in DOMAIN s : s[i] = s[j] => i = j
IsLadder(s) == s \in Seq(Strategies) /\ Distinct(s)

LEMMA Inserting ==
    ASSUME NEW s \in Seq(Strategies), NEW n \in 1 .. Len(s), NEW x \in Strategies
    PROVE  /\ InsertAt(s, n, x) \in Seq(Strategies)
           /\ Len(InsertAt(s, n, x)) = Len(s) + 1
           /\ DOMAIN InsertAt(s, n, x) = 1 .. Len(s) + 1
           /\ \A i \in 1 .. Len(s) + 1 :
                 InsertAt(s, n, x)[i] = IF i < n THEN s[i] ELSE IF i = n THEN x ELSE s[i - 1]
<1> DEFINE t == InsertAt(s, n, x)
<1>1. s \in Seq(Strategies) /\ Len(s) \in Nat /\ DOMAIN s = 1 .. Len(s)
    OBVIOUS
<1>2. SubSeq(s, 1, n - 1) \in Seq(Strategies) /\ SubSeq(s, n, Len(s)) \in Seq(Strategies)
    BY <1>1
<1>3. /\ t \in Seq(Strategies) /\ Len(t) = Len(s) + 1 /\ DOMAIN t = 1 .. Len(s) + 1
      /\ \A i \in 1 .. Len(s) + 1 :
            t[i] = IF i < n THEN s[i] ELSE IF i = n THEN x ELSE s[i - 1]
    BY <1>1, <1>2 DEF InsertAt
<1> QED
    BY <1>3

LEMMA InsertKeeps ==
    ASSUME NEW s, IsLadder(s), NEW n \in 1 .. Len(s), NEW x \in Strategies,
           \A i \in 1 .. Len(s) : s[i] # x
    PROVE  IsLadder(InsertAt(s, n, x))
<1> DEFINE t == InsertAt(s, n, x)
<1>1. s \in Seq(Strategies) /\ Len(s) \in Nat /\ DOMAIN s = 1 .. Len(s)
    BY DEF IsLadder
<1>3. /\ t \in Seq(Strategies) /\ Len(t) = Len(s) + 1 /\ DOMAIN t = 1 .. Len(s) + 1
      /\ \A i \in 1 .. Len(s) + 1 :
            t[i] = IF i < n THEN s[i] ELSE IF i = n THEN x ELSE s[i - 1]
    BY SMTT(30), <1>1, Inserting
<1> HIDE DEF t
<1>4. \A i, j \in 1 .. Len(s) : s[i] = s[j] => i = j
    BY <1>1 DEF IsLadder, Distinct
<1>5. ASSUME NEW i \in 1 .. Len(t), NEW j \in 1 .. Len(t), t[i] = t[j] PROVE i = j
  <2>1. /\ i < n => i \in 1 .. Len(s)
        /\ i > n => i - 1 \in 1 .. Len(s)
        /\ j < n => j \in 1 .. Len(s)
        /\ j > n => j - 1 \in 1 .. Len(s)
      BY <1>1, <1>3
  <2>2. CASE i < n
      BY <1>3, <1>4, <1>5, <2>1, <2>2
  <2>3. CASE i = n
      BY <1>3, <1>4, <1>5, <2>1, <2>3
  <2>4. CASE i > n
      BY SMTT(30), <1>3, <1>4, <1>5, <2>1, <2>4
  <2> QED
      BY <1>1, <1>3, <2>2, <2>3, <2>4
<1>6. IsLadder(t)
    BY <1>3, <1>5 DEF IsLadder, Distinct
<1> QED
    BY <1>6 DEF t

LEMMA AppendKeeps ==
    ASSUME NEW s, IsLadder(s), NEW x \in Strategies, \A i \in 1 .. Len(s) : s[i] # x
    PROVE  IsLadder(Append(s, x))
<1>1. s \in Seq(Strategies) /\ Len(s) \in Nat /\ DOMAIN s = 1 .. Len(s)
    BY DEF IsLadder
<1>2. /\ Append(s, x) \in Seq(Strategies) /\ DOMAIN Append(s, x) = 1 .. Len(s) + 1
      /\ \A i \in 1 .. Len(s) : Append(s, x)[i] = s[i]
      /\ Append(s, x)[Len(s) + 1] = x
    BY <1>1
<1> QED
    BY <1>1, <1>2 DEF IsLadder, Distinct

LEMMA TailKeeps == ASSUME NEW s, IsLadder(s), s # <<>> PROVE IsLadder(Tail(s)) /\ Head(s) \in Strategies
<1>1. s \in Seq(Strategies) /\ Len(s) \in Nat \ {0} /\ DOMAIN s = 1 .. Len(s)
    BY DEF IsLadder
<1>2. /\ Tail(s) \in Seq(Strategies) /\ DOMAIN Tail(s) = 1 .. Len(s) - 1
      /\ \A i \in 1 .. Len(s) - 1 : Tail(s)[i] = s[i + 1]
    BY <1>1
<1> QED
    BY <1>1, <1>2 DEF IsLadder, Distinct

LEMMA StrategyLadderIsOne ==
    ASSUME NEW q \in Request PROVE IsLadder(StrategyLadder(q.mode, q.start))
<1> DEFINE s == StrategyLadder(q.mode, q.start)
<1>1. q.mode \in Modes /\ q.start \in Strategies
    BY DEF Request
<1>2. IsLadder(s)
  <2>1. s \in Seq(Strategies)
    <3>1. {"DirectHttp", "TlsProfiledHttp", "BrowserLightStealth", Marker, Sticky} \subseteq Strategies
        BY DEF Strategies, Marker, Sticky
    <3>2. InvestigateLadder(q.start) \in Seq(Strategies)
        BY <1>1, <3>1 DEF InvestigateLadder
    <3> QED
        BY <1>1, <3>1, <3>2 DEF StrategyLadder, Modes
  <2>2. Distinct(<<"DirectHttp", "TlsProfiledHttp", "BrowserLightStealth">>)
      BY DEF Distinct
  <2>3. Distinct(<<"DirectHttp", "TlsProfiledHttp", "BrowserLightStealth", Sticky>>)
      BY DEF Distinct, Sticky
  <2>4. Distinct(<<"BrowserLightStealth", Sticky, "TlsProfiledHttp", "DirectHttp">>)
      BY DEF Distinct, Sticky
  <2>5. Distinct(InvestigateLadder(q.start))
    <3>1. CASE q.start \in {Marker, Sticky}
        BY <3>1 DEF Distinct, InvestigateLadder, Marker, Sticky
    <3>2. CASE q.start = "TlsProfiledHttp"
        BY <3>2 DEF Distinct, InvestigateLadder, Marker, Sticky
    <3>3. CASE q.start \in Strategies \ {Marker, Sticky, "TlsProfiledHttp"}
        BY <3>3 DEF Distinct, InvestigateLadder, Marker, Sticky, Strategies
    <3> QED
        BY <1>1, <3>1, <3>2, <3>3
  <2>6. Distinct(s)
      BY <1>1, <2>2, <2>3, <2>4, <2>5 DEF StrategyLadder, Modes
  <2> QED
      BY <2>1, <2>6 DEF IsLadder
<1> QED
    BY <1>2

LEMMA LadderIsOne == ASSUME NEW q \in Request PROVE IsLadder(Ladder(q))
<1> DEFINE s == StrategyLadder(q.mode, q.start)
<1>2. IsLadder(s)
    BY StrategyLadderIsOne
<1> HIDE DEF s
<1>3. Remote \in Strategies
    BY DEF Remote, Strategies
<1>4. ASSUME Remote \notin ToSet(s) PROVE IsLadder(WithRemote(s))
  <2>1. s \in Seq(Strategies) /\ DOMAIN s = 1 .. Len(s) /\ \A i \in 1 .. Len(s) : s[i] # Remote
      BY <1>2, <1>4 DEF IsLadder, ToSet
  <2>2. CASE Sticky \in ToSet(s)
    <3>1. PICK n \in DOMAIN s : WithRemote(s) = InsertAt(s, n, Remote)
        BY <1>4, <2>2 DEF WithRemote, ToSet
    <3> QED
        BY <1>2, <1>3, <2>1, <3>1, InsertKeeps
  <2>3. CASE Sticky \notin ToSet(s)
      BY <1>2, <1>3, <1>4, <2>1, <2>3, AppendKeeps DEF WithRemote
  <2> QED
      BY <2>2, <2>3
<1>5. IsLadder(WithRemote(s))
    BY <1>2, <1>4 DEF WithRemote
<1> QED
    BY <1>2, <1>5 DEF Ladder, s

LEMMA TimeoutStrategyIsOne == ASSUME NEW q \in Request PROVE TimeoutStrategy(q) \in Strategies
<1>1. q.mode \in Modes /\ q.start \in Strategies
    BY DEF Request
<1> QED
    BY <1>1 DEF TimeoutStrategy, StrategyLadder, InvestigateLadder, Strategies, Modes, Marker, Sticky

-----------------------------------------------------------------------------
(* The invariant                                                           *)

Types ==
    /\ state \in [Browsers -> {"absent", "idle", "lent"}]
    /\ tenant \in [Browsers -> Hosts \cup {Common}]
    /\ hand \in [Runs -> Browsers \cup {Nothing}]
    /\ ask \in [Runs -> Hosts \cup {Common}]
    /\ pc \in [Runs -> Awaits \cup {"idle", "next", "done"}]
    /\ req \in [Runs -> Requests]
    /\ DOMAIN ladder = Runs /\ \A r \in Runs : IsLadder(ladder[r])
    /\ ladder \in [Runs -> Seq(Strategies)]
    /\ verdict \in [Runs -> Verdicts]
    /\ res \in [Runs -> Result]
    /\ mine \in [Runs -> Sessions \cup {Nothing}]
    /\ live \subseteq Sessions /\ orphans \subseteq Sessions

\* A run that waits in a stage has noted the attempt.
Tried == \A r \in Runs : pc[r] \in Awaits \ {"refresh"} => res[r].attempted # <<>>

\* The tenant that the stage of a run calls for.
Due(r) == StageTenant(r, Current(r))

Lent ==
    \A r \in Runs :
        /\ hand[r] # Nothing <=> pc[r] \in {"page", "release"}
        /\ pc[r] = "acquire" => ask[r] = Due(r)
        /\ hand[r] # Nothing => /\ state[hand[r]] = "lent" /\ tenant[hand[r]] = Due(r)
                                /\ \A q \in Runs \ {r} : hand[q] # hand[r]

Held ==
    /\ SessionsAccounted
    /\ \A r \in Runs : pc[r] = "delete" => Owned(r)

Inv == Types /\ Tried /\ Lent /\ Held

LEMMA InitInv == Init => Inv
<1> SUFFICES ASSUME Init PROVE Inv
    OBVIOUS
<1> USE DEF Init, Pool!Init
<1>1. IsLadder(<<>>) /\ EmptyResult \in Result
    BY DEF IsLadder, Distinct, EmptyResult, Result
<1>2. Types
    BY <1>1 DEF Types, Verdicts
<1>3. Tried /\ Lent
    BY DEF Tried, Lent, Awaits
<1>4. Held
    BY DEF Held, SessionsAccounted, Owned
<1> QED
    BY <1>2, <1>3, <1>4 DEF Inv

-----------------------------------------------------------------------------
(* What parts of a step keep                                               *)

\* Everybody else is where they were.
Others(r) ==
    \A q \in Runs \ {r} :
        /\ pc'[q] = pc[q] /\ req'[q] = req[q] /\ res'[q] = res[q] /\ ladder'[q] = ladder[q]
        /\ mine'[q] = mine[q]

LEMMA Going ==
    ASSUME Types, NEW r \in Runs, NEW p \in Awaits \cup {"next", "done"}, Goto(r, p)
    PROVE  /\ pc' \in [Runs -> Awaits \cup {"idle", "next", "done"}] /\ pc'[r] = p
           /\ \A q \in Runs \ {r} : pc'[q] = pc[q]
BY DEF Types, Goto

LEMMA FailedIsResult ==
    ASSUME Types, NEW r \in Runs, NEW x \in Strategies
    PROVE  /\ Failed(r, x) \in Result /\ Failed(r, x).attempted = res[r].attempted
           /\ [Failed(r, x) EXCEPT !.timedOut = TRUE] \in Result
<1>1. res[r] \in Result /\ res[r].failures \in Seq(Strategies)
    BY DEF Types, Result
<1>2. Append(res[r].failures, x) \in Seq(Strategies)
    BY <1>1
<1>3. Failed(r, x) = [res[r] EXCEPT !.failures = Append(res[r].failures, x)]
    BY DEF Failed
<1>4. Failed(r, x) \in Result
    BY <1>1, <1>2, <1>3 DEF Result
<1> QED
    BY <1>1, <1>3, <1>4 DEF Result

LEMMA Finishing ==
    ASSUME Types, NEW r \in Runs, NEW x \in Result, Finish(r, x)
    PROVE  /\ pc' \in [Runs -> Awaits \cup {"idle", "next", "done"}] /\ pc'[r] = "done"
           /\ res' \in [Runs -> Result] /\ res'[r] = x
           /\ \A q \in Runs \ {r} : pc'[q] = pc[q] /\ res'[q] = res[q]
<1>1. Goto(r, "done") /\ res' = [res EXCEPT ![r] = x]
    BY DEF Finish
<1> QED
    BY <1>1, Going DEF Types

LEMMA StageEnding ==
    ASSUME Types, NEW r \in Runs, NEW outcome, StageEnds(r, outcome), res[r].attempted # <<>>
    PROVE  /\ pc' \in [Runs -> Awaits \cup {"idle", "next", "done"}] /\ pc'[r] \in {"next", "done"}
           /\ res' \in [Runs -> Result]
           /\ \A q \in Runs \ {r} : pc'[q] = pc[q] /\ res'[q] = res[q]
<1>1. res[r] \in Result /\ res[r].attempted \in Seq(Strategies)
    BY DEF Types, Result
<1>2. Current(r) \in Strategies
    BY <1>1 DEF Current, Last
<1>3. [res[r] EXCEPT !.success = TRUE] \in Result
    BY <1>1 DEF Result
<1>4. Failed(r, Current(r)) \in Result
    BY <1>2, FailedIsResult
<1>5. CASE outcome = "ok"
    BY <1>3, <1>5, Finishing DEF StageEnds
<1>6. CASE outcome = "err"
  <2>1. Goto(r, "next") /\ res' = [res EXCEPT ![r] = Failed(r, Current(r))]
      BY <1>6 DEF StageEnds
  <2> QED
      BY <1>4, <2>1, Going DEF Types
<1> QED
    BY <1>5, <1>6 DEF StageEnds

\* A run with nothing in hand moves, to ask for a browser or elsewhere.
LEMMA LentFree ==
    ASSUME Lent, NEW r \in Runs, Others(r), UNCHANGED <<state, tenant, hand>>,
           hand[r] = Nothing, pc'[r] \notin {"page", "release"},
           pc'[r] = "acquire" => ask'[r] = Due(r)',
           \A q \in Runs \ {r} : ask'[q] = ask[q]
    PROVE  Lent'
<1>1. \A q \in Runs \ {r} : Due(q)' = Due(q)
    BY DEF Others, Due, StageTenant, Current
<1> QED
    BY <1>1 DEF Lent, Others

\* A run is done with its browser.
LEMMA LentBack ==
    ASSUME Types, Lent, NEW r \in Runs, Others(r), Pool!GiveBack(r) \/ Pool!Discard(r),
           pc'[r] \notin {"acquire", "page", "release"}
    PROVE  Lent'
<1>1. \A q \in Runs \ {r} : Due(q)' = Due(q)
    BY DEF Others, Due, StageTenant, Current
<1>2. /\ hand'[r] = Nothing /\ hand[r] \in Browsers
      /\ \A q \in Runs \ {r} : hand'[q] = hand[q] /\ ask'[q] = ask[q]
    BY DEF Types, Pool!GiveBack, Pool!Discard, Pool!Done
<1>3. \A b \in Browsers \ {hand[r]} : state'[b] = state[b] /\ tenant'[b] = tenant[b]
    BY <1>2 DEF Types, Pool!GiveBack, Pool!Discard, Pool!Leave
<1>4. \A q \in Runs : hand[q] \in Browsers \cup {Nothing}
    BY DEF Types
<1> QED
    BY <1>1, <1>2, <1>3, <1>4 DEF Lent, Others

\* Browsers that nobody has come and go.
LEMMA LentElsewhere ==
    ASSUME Types, Lent, NEW r \in Runs, Others(r), UNCHANGED <<hand, ask>>,
           hand[r] = Nothing, pc'[r] \notin {"acquire", "page", "release"},
           \A b \in Browsers : state[b] = "lent" => state'[b] = "lent" /\ tenant'[b] = tenant[b]
    PROVE  Lent'
<1>1. \A q \in Runs \ {r} : Due(q)' = Due(q)
    BY DEF Others, Due, StageTenant, Current
<1>2. \A q \in Runs : hand[q] \in Browsers \cup {Nothing}
    BY DEF Types
<1> QED
    BY <1>1, <1>2 DEF Lent, Others

LEMMA HeldStays ==
    ASSUME Held, NEW r \in Runs, Others(r), UNCHANGED remoteVars,
           Owned(r) => pc'[r] \in {"connect", "remote", "close", "delete"},
           pc'[r] = "delete" => Owned(r)
    PROVE  Held'
<1>1. UNCHANGED <<mine, live, orphans>>
    BY DEF remoteVars
<1>2. \A q \in Runs : Owned(q)' = Owned(q)
    BY <1>1 DEF Owned
<1> QED
    BY <1>1, <1>2 DEF Held, SessionsAccounted, Others

\* A run has no session any more: what it owned is gone, or left to itself.
LEMMA HeldEnds ==
    ASSUME Types, Held, NEW r \in Runs, Others(r), mine' = [mine EXCEPT ![r] = Nothing],
           pc'[r] # "delete",
           \/ ~ Owned(r) /\ UNCHANGED <<live, orphans>>
           \/ Owned(r) /\ live' = live \ {mine[r]} /\ UNCHANGED orphans
           \/ Owned(r) /\ orphans' = orphans \cup {mine[r]} /\ UNCHANGED live
    PROVE  Held'
<1>1. mine'[r] = Nothing /\ \A q \in Runs \ {r} : mine'[q] = mine[q]
    BY DEF Types
<1>2. ~ Owned(r)' /\ \A q \in Runs \ {r} : Owned(q)' = Owned(q)
    BY <1>1 DEF Owned
<1>3. Owned(r) => mine[r] # Given /\ mine[r] \notin orphans
    BY DEF Held, SessionsAccounted, Owned
<1> DEFINE owned == {mine[q] : q \in {p \in Runs : Owned(p)}}
           rest == {mine[q] : q \in {p \in Runs \ {r} : Owned(p)}}
<1>4. owned = IF Owned(r) THEN rest \cup {mine[r]} ELSE rest
    OBVIOUS
<1>5. owned' = rest
    BY <1>1, <1>2
<1>6. Owned(r) => mine[r] \notin rest
    BY DEF Held, SessionsAccounted
<1>7. live = {Given} \cup orphans \cup owned
    BY DEF Held, SessionsAccounted
<1>8. live' = {Given} \cup orphans' \cup owned'
  <2> HIDE DEF owned, rest
  <2> QED
      BY <1>3, <1>4, <1>5, <1>6, <1>7
<1>9. /\ Given \notin orphans'
      /\ \A q \in Runs : Owned(q)' =>
            /\ pc'[q] \in {"connect", "remote", "close", "delete"}
            /\ mine'[q] \notin orphans' /\ \A p \in Runs \ {q} : mine'[p] # mine'[q]
      /\ \A q \in Runs : pc'[q] = "delete" => Owned(q)'
  <2>1. ASSUME NEW q \in Runs \ {r}, Owned(q)
        PROVE  /\ mine[q] \notin orphans /\ mine[q] # mine[r] /\ mine[q] # Nothing
               /\ pc[q] \in {"connect", "remote", "close", "delete"}
               /\ \A p \in Runs \ {q} : mine[p] # mine[q]
      BY <2>1 DEF Held, SessionsAccounted, Owned
  <2>2. Given \notin orphans'
      BY <1>3 DEF Held, SessionsAccounted
  <2>3. \A q \in Runs : pc'[q] = "delete" => Owned(q)'
      BY <1>2 DEF Held, Others
  <2> QED
      BY <1>1, <1>2, <2>1, <2>2, <2>3 DEF Others
<1> QED
    BY <1>8, <1>9 DEF Held, SessionsAccounted

LEMMA TriedStays ==
    ASSUME Tried, NEW r \in Runs, Others(r),
           pc'[r] \in Awaits \ {"refresh"} => res'[r].attempted # <<>>
    PROVE  Tried'
BY DEF Tried, Others

\* A step of a run that has neither browser nor session, and takes none.
LEMMA Apart ==
    ASSUME Inv, NEW r \in Runs, Others(r), UNCHANGED <<poolVars, remoteVars>>,
           pc[r] \notin {"page", "release", "connect", "remote", "close", "delete"},
           pc'[r] \notin {"acquire", "page", "release", "delete"}
    PROVE  Lent' /\ Held'
<1>1. hand[r] = Nothing /\ ~ Owned(r)
    BY DEF Inv, Lent, Held, SessionsAccounted
<1>2. UNCHANGED <<state, tenant, hand, ask>>
    BY DEF poolVars
<1> QED
    BY <1>1, <1>2, LentFree, HeldStays DEF Inv

LEMMA Appending ==
    ASSUME NEW s \in Seq(Strategies), NEW x \in Strategies
    PROVE  Append(s, x) \in Seq(Strategies) /\ Append(s, x) # <<>> /\ Last(Append(s, x)) = x
<1>1. Append(s, x) \in Seq(Strategies) /\ Len(Append(s, x)) = Len(s) + 1 /\ Len(s) \in Nat
    OBVIOUS
<1>2. Append(s, x)[Len(s) + 1] = x
    OBVIOUS
<1> QED
    BY <1>1, <1>2 DEF Last

LEMMA Requested == ASSUME Types, NEW r \in Runs PROVE req[r] \in Request
BY DEF Types

-----------------------------------------------------------------------------
(* The steps                                                               *)

LEMMA BeginInv == ASSUME Inv, NEW r \in Runs, NEW q \in Requests, Begin(r, q) PROVE Inv'
<1>1. Types /\ Tried /\ pc[r] = "idle" /\ UNCHANGED <<poolVars, verdict, remoteVars>>
    BY DEF Inv, Begin
<1>2. EmptyResult \in Result /\ [EmptyResult EXCEPT !.failures = <<Marker>>] \in Result
  <2>1. Marker \in Strategies
      BY DEF Marker, Strategies
  <2>2. <<>> \in Seq(Strategies) /\ <<Marker>> \in Seq(Strategies)
      BY <2>1
  <2> QED
      BY <2>2 DEF EmptyResult, Result
<1>3. IsLadder(Ladder(q)) /\ Ladder(q) \in Seq(Strategies)
    BY LadderIsOne DEF IsLadder
<1>4. /\ pc' \in [Runs -> Awaits \cup {"idle", "next", "done"}]
      /\ pc'[r] \in {"done", "refresh", "next"}
      /\ \A p \in Runs \ {r} : pc'[p] = pc[p]
    BY <1>1, <1>2, Going, Finishing DEF Begin, Awaits
<1>5. res' \in [Runs -> Result] /\ \A p \in Runs \ {r} : res'[p] = res[p]
  <2>1. PICK x \in Result : res' = [res EXCEPT ![r] = x]
      BY <1>2 DEF Begin, Finish
  <2> QED
      BY <1>1, <2>1 DEF Types
<1>6. /\ req' \in [Runs -> Requests] /\ \A p \in Runs \ {r} : req'[p] = req[p]
      /\ ladder' \in [Runs -> Seq(Strategies)] /\ \A p \in Runs \ {r} : ladder'[p] = ladder[p]
      /\ \A p \in Runs : IsLadder(ladder'[p])
  <2>1. CASE ladder' = ladder
      BY <1>1, <2>1 DEF Begin, Types
  <2>2. CASE ladder' = [ladder EXCEPT ![r] = Ladder(q)]
      BY <1>1, <1>3, <2>2 DEF Begin, Types
  <2> QED
      BY <2>1, <2>2 DEF Begin
<1>7. Types' /\ Others(r)
    BY <1>1, <1>4, <1>5, <1>6 DEF Types, Others, poolVars, remoteVars
<1> QED
    BY <1>1, <1>4, <1>7, Apart, TriedStays DEF Inv, Awaits

LEMMA RefreshInv == ASSUME Inv, NEW r \in Runs, Refresh(r) PROVE Inv'
<1>1. /\ Types /\ Tried /\ Lent /\ Held /\ pc[r] = "refresh"
      /\ UNCHANGED <<req, ladder, verdict, remoteVars>>
    BY DEF Inv, Refresh
<1>2. hand[r] = Nothing /\ ~ Owned(r)
    BY <1>1 DEF Lent, Held, SessionsAccounted
<1>3. Marker \in Strategies
    BY DEF Marker, Strategies
<1>4. /\ pc' \in [Runs -> Awaits \cup {"idle", "next", "done"}] /\ pc'[r] = "done"
      /\ res' \in [Runs -> Result]
      /\ \A q \in Runs \ {r} : pc'[q] = pc[q] /\ res'[q] = res[q]
    BY <1>1, <1>3, FailedIsResult, Finishing DEF Refresh
<1>5. /\ UNCHANGED <<hand, ask>>
      /\ state' \in [Browsers -> {"absent", "idle", "lent"}]
      /\ tenant' \in [Browsers -> Hosts \cup {Common}]
      /\ \A b \in Browsers : state[b] = "lent" => state'[b] = "lent" /\ tenant'[b] = tenant[b]
    BY <1>1 DEF Types, Refresh, IdleOf, Pool!Close, Pool!Leave
<1>6. Types'
    BY <1>1, <1>4, <1>5 DEF Types, remoteVars
<1>7. Others(r)
    BY <1>1, <1>4 DEF Others, remoteVars
<1> QED
    BY <1>1, <1>2, <1>4, <1>5, <1>6, <1>7, LentElsewhere, HeldStays, TriedStays DEF Inv, Awaits

LEMMA ExhaustedInv == ASSUME Inv, NEW r \in Runs, Exhausted(r) PROVE Inv'
<1>1. Types /\ Tried /\ pc[r] = "next" /\ UNCHANGED <<poolVars, req, ladder, verdict, remoteVars>>
    BY DEF Inv, Exhausted
<1>2. res[r] \in Result /\ Failed(r, TimeoutStrategy(req[r])) \in Result
    BY <1>1, Requested, TimeoutStrategyIsOne, FailedIsResult DEF Types
<1>3. /\ pc' \in [Runs -> Awaits \cup {"idle", "next", "done"}] /\ pc'[r] = "done"
      /\ res' \in [Runs -> Result]
      /\ \A q \in Runs \ {r} : pc'[q] = pc[q] /\ res'[q] = res[q]
    BY <1>1, <1>2, Finishing DEF Exhausted
<1>4. Types' /\ Others(r)
    BY <1>1, <1>3 DEF Types, Others, poolVars, remoteVars
<1> QED
    BY <1>1, <1>3, <1>4, Apart, TriedStays DEF Inv, Awaits

LEMMA LateInv == ASSUME Inv, NEW r \in Runs, LateBeforeStage(r) PROVE Inv'
<1>1. Types /\ Tried /\ pc[r] = "next" /\ UNCHANGED <<poolVars, req, verdict, remoteVars>>
    BY DEF Inv, LateBeforeStage
<1>2. Head(ladder[r]) \in Strategies /\ IsLadder(<<>>)
    BY <1>1, TailKeeps DEF LateBeforeStage, Types, IsLadder, Distinct
<1>3. [Failed(r, Head(ladder[r])) EXCEPT !.timedOut = TRUE] \in Result
    BY <1>1, <1>2, FailedIsResult
<1>4. /\ pc' \in [Runs -> Awaits \cup {"idle", "next", "done"}] /\ pc'[r] = "done"
      /\ res' \in [Runs -> Result]
      /\ \A q \in Runs \ {r} : pc'[q] = pc[q] /\ res'[q] = res[q]
    BY <1>1, <1>3, Finishing DEF LateBeforeStage
<1>5. ladder' = [ladder EXCEPT ![r] = <<>>]
    BY DEF LateBeforeStage
<1>6. Types' /\ Others(r)
    BY <1>1, <1>2, <1>4, <1>5 DEF Types, Others, poolVars, remoteVars
<1> QED
    BY <1>1, <1>4, <1>6, Apart, TriedStays DEF Inv, Awaits

LEMMA StageInv == ASSUME Inv, NEW r \in Runs, Stage(r) PROVE Inv'
<1> DEFINE x == Head(ladder[r])
           tried == [res[r] EXCEPT !.attempted = Append(@, x)]
           failed == [tried EXCEPT !.failures = Append(@, x)]
<1>1. /\ Types /\ Tried /\ Lent /\ Held /\ pc[r] = "next" /\ UNCHANGED <<req, verdict, remoteVars>>
      /\ ladder' = [ladder EXCEPT ![r] = Tail(@)]
      /\ res' = [res EXCEPT ![r] = failed] \/ res' = [res EXCEPT ![r] = tried]
    BY DEF Inv, Stage
<1>2. x \in Strategies /\ IsLadder(Tail(ladder[r])) /\ Tail(ladder[r]) \in Seq(Strategies)
    BY <1>1, TailKeeps DEF Stage, Types, IsLadder
<1>3. /\ res[r] \in Result /\ res[r].attempted \in Seq(Strategies)
      /\ res[r].failures \in Seq(Strategies)
    BY <1>1 DEF Types, Result
<1> DEFINE a == Append(res[r].attempted, x)
           f == Append(res[r].failures, x)
<1>4. /\ tried \in Result /\ failed \in Result
      /\ tried.attempted = a /\ failed.attempted = a
  <2>1. a \in Seq(Strategies) /\ f \in Seq(Strategies)
      BY <1>2, <1>3, Appending
  <2>2. tried = [res[r] EXCEPT !.attempted = a] /\ tried \in Result /\ tried.attempted = a
      BY <1>3, <2>1 DEF Result
  <2>3. tried.failures = res[r].failures
      BY <1>3 DEF Result
  <2>4. failed = [tried EXCEPT !.failures = f]
      BY <2>3
  <2> HIDE DEF tried, failed, a, f
  <2> QED
      BY <2>1, <2>2, <2>4 DEF Result
<1> HIDE DEF tried, failed
<1>5. /\ res' \in [Runs -> Result] /\ res'[r].attempted = Append(res[r].attempted, x)
      /\ \A q \in Runs \ {r} : res'[q] = res[q] /\ ladder'[q] = ladder[q]
  <2>1. PICK y \in {tried, failed} : res' = [res EXCEPT ![r] = y]
      BY <1>1
  <2> QED
      BY <1>1, <1>4, <2>1 DEF Types
<1>6. res'[r].attempted # <<>> /\ Current(r)' = x
    BY <1>2, <1>3, <1>5, Appending DEF Current
<1>7. hand[r] = Nothing /\ ~ Owned(r)
    BY <1>1 DEF Lent, Held, SessionsAccounted
<1>8. DOMAIN ladder' = Runs /\ ladder' \in [Runs -> Seq(Strategies)] /\ \A q \in Runs : IsLadder(ladder'[q])
    BY <1>1, <1>2 DEF Types
<1>9. CASE UNCHANGED poolVars /\ (UNCHANGED pc \/ Goto(r, "http") \/ Goto(r, "open"))
  <2>1. /\ pc' \in [Runs -> Awaits \cup {"idle", "next", "done"}]
        /\ pc'[r] \in {"next", "http", "open"}
        /\ \A q \in Runs \ {r} : pc'[q] = pc[q]
      BY <1>1, <1>9, Going DEF Awaits, Types
  <2>2. Types' /\ Others(r)
      BY <1>1, <1>5, <1>8, <1>9, <2>1 DEF Types, Others, poolVars, remoteVars
  <2> QED
      BY <1>1, <1>6, <1>9, <2>1, <2>2, Apart, TriedStays DEF Inv
<1>10. CASE Goto(r, "acquire") /\ Pool!Ask(r, StageTenant(r, x))
  <2>1. /\ pc' \in [Runs -> Awaits \cup {"idle", "next", "done"}] /\ pc'[r] = "acquire"
        /\ \A q \in Runs \ {r} : pc'[q] = pc[q]
      BY <1>1, <1>10, Going DEF Awaits
  <2>2. StageTenant(r, x) \in Hosts \cup {Common}
      BY <1>1, Requested DEF StageTenant, Request
  <2>3. /\ ask' \in [Runs -> Hosts \cup {Common}] /\ ask'[r] = StageTenant(r, x)
        /\ \A q \in Runs \ {r} : ask'[q] = ask[q]
        /\ UNCHANGED <<state, tenant, hand>>
      BY <1>1, <1>10, <2>2 DEF Pool!Ask, Types
  <2>4. StageTenant(r, x) = Due(r)'
      BY <1>1, <1>6 DEF Due, StageTenant
  <2>5. Types' /\ Others(r)
      BY <1>1, <1>5, <1>8, <2>1, <2>3 DEF Types, Others, remoteVars
  <2>6. Lent'
      BY <1>1, <1>7, <2>1, <2>3, <2>4, <2>5, LentFree
  <2>7. Held' /\ Tried'
      BY <1>1, <1>6, <1>7, <2>1, <2>5, HeldStays, TriedStays
  <2> QED
      BY <2>5, <2>6, <2>7 DEF Inv
<1> QED
    BY <1>9, <1>10 DEF Stage

LEMMA HttpEndsInv == ASSUME Inv, NEW r \in Runs, HttpEnds(r) PROVE Inv'
<1>1. Types /\ Tried /\ pc[r] = "http" /\ UNCHANGED <<poolVars, req, ladder, verdict, remoteVars>>
    BY DEF Inv, HttpEnds
<1>2. res[r].attempted # <<>>
    BY <1>1 DEF Tried, Awaits
<1>3. /\ pc' \in [Runs -> Awaits \cup {"idle", "next", "done"}] /\ pc'[r] \in {"next", "done"}
      /\ res' \in [Runs -> Result]
      /\ \A q \in Runs \ {r} : pc'[q] = pc[q] /\ res'[q] = res[q]
    BY <1>1, <1>2, StageEnding DEF HttpEnds
<1>4. Types' /\ Others(r)
    BY <1>1, <1>3 DEF Types, Others, poolVars, remoteVars
<1> QED
    BY <1>1, <1>3, <1>4, Apart, TriedStays DEF Inv, Awaits

LEMMA AcquireOkInv == ASSUME Inv, NEW r \in Runs, AcquireOk(r) PROVE Inv'
<1>1. /\ Types /\ Tried /\ Lent /\ Held /\ pc[r] = "acquire"
      /\ UNCHANGED <<req, ladder, verdict, res, remoteVars>>
    BY DEF Inv, AcquireOk
<1>2. PICK b \in Browsers : Pool!Lend(b, r) \/ Pool!Open(b, r)
    BY DEF AcquireOk
<1>3. /\ pc' \in [Runs -> Awaits \cup {"idle", "next", "done"}] /\ pc'[r] = "page"
      /\ \A q \in Runs \ {r} : pc'[q] = pc[q]
    BY <1>1, Going DEF AcquireOk, Awaits
<1>4. /\ state' \in [Browsers -> {"absent", "idle", "lent"}] /\ state'[b] = "lent"
      /\ tenant' \in [Browsers -> Hosts \cup {Common}] /\ tenant'[b] = ask[r]
      /\ hand' \in [Runs -> Browsers \cup {Nothing}] /\ hand'[r] = b
      /\ UNCHANGED ask /\ state[b] # "lent"
      /\ \A c \in Browsers \ {b} : state'[c] = state[c] /\ tenant'[c] = tenant[c]
      /\ \A q \in Runs \ {r} : hand'[q] = hand[q]
  <2>1. CASE Pool!Lend(b, r)
      BY <1>1, <2>1 DEF Types, Pool!Lend
  <2>2. CASE Pool!Open(b, r)
      BY <1>1, <2>2 DEF Types, Pool!Open
  <2> QED
      BY <1>2, <2>1, <2>2, Zenon
<1>5. Types' /\ Others(r)
    BY <1>1, <1>3, <1>4 DEF Types, Others, remoteVars
<1>6. Lent'
  <2>1. \A q \in Runs : Due(q)' = Due(q)
      BY <1>1 DEF Due, StageTenant, Current
  <2>2. \A q \in Runs : hand[q] \in Browsers \cup {Nothing} /\ hand[q] # b
      BY <1>1, <1>4 DEF Types, Lent
  <2> QED
      BY <1>1, <1>3, <1>4, <2>1, <2>2 DEF Lent
<1>7. ~ Owned(r) /\ res[r].attempted # <<>>
    BY <1>1 DEF Held, SessionsAccounted, Tried, Awaits
<1> QED
    BY <1>1, <1>3, <1>5, <1>6, <1>7, HeldStays, TriedStays DEF Inv

LEMMA AcquireErrInv == ASSUME Inv, NEW r \in Runs, AcquireErr(r) PROVE Inv'
<1>1. /\ Types /\ Tried /\ Lent /\ Held /\ pc[r] = "acquire"
      /\ UNCHANGED <<req, ladder, verdict, remoteVars>>
    BY DEF Inv, AcquireErr
<1>2. hand[r] = Nothing /\ ~ Owned(r) /\ res[r].attempted # <<>>
    BY <1>1 DEF Lent, Held, SessionsAccounted, Tried, Awaits
<1>3. /\ pc' \in [Runs -> Awaits \cup {"idle", "next", "done"}] /\ pc'[r] \in {"next", "done"}
      /\ res' \in [Runs -> Result]
      /\ \A q \in Runs \ {r} : pc'[q] = pc[q] /\ res'[q] = res[q]
    BY <1>1, <1>2, StageEnding DEF AcquireErr
<1>4. /\ ask' \in [Runs -> Hosts \cup {Common}] /\ UNCHANGED <<state, tenant, hand>>
      /\ \A q \in Runs \ {r} : ask'[q] = ask[q]
    BY <1>1 DEF AcquireErr, Pool!Ask, Types
<1>5. Types' /\ Others(r)
    BY <1>1, <1>3, <1>4 DEF Types, Others, remoteVars
<1> QED
    BY <1>1, <1>2, <1>3, <1>4, <1>5, LentFree, HeldStays, TriedStays DEF Inv, Awaits

\* A page is done, and what it brought is kept while things are put away.
LEMMA Noting ==
    ASSUME Types, NEW r \in Runs, \E v \in {"ok", "err"} : verdict' = [verdict EXCEPT ![r] = v]
    PROVE  verdict' \in [Runs -> Verdicts]
<1>1. PICK v \in Verdicts : verdict' = [verdict EXCEPT ![r] = v]
    BY DEF Verdicts
<1> QED
    BY <1>1 DEF Types

LEMMA Ending ==
    ASSUME Types, NEW r \in Runs, Verdict(r), res[r].attempted # <<>>
    PROVE  /\ pc' \in [Runs -> Awaits \cup {"idle", "next", "done"}] /\ pc'[r] \in {"next", "done"}
           /\ res' \in [Runs -> Result] /\ verdict' \in [Runs -> Verdicts]
           /\ \A q \in Runs \ {r} : pc'[q] = pc[q] /\ res'[q] = res[q]
<1>1. verdict' \in [Runs -> Verdicts]
    BY DEF Verdict, Types, Verdicts
<1> QED
    BY <1>1, StageEnding DEF Verdict

LEMMA PageEndsInv == ASSUME Inv, NEW r \in Runs, PageEnds(r) PROVE Inv'
<1>1. /\ Types /\ Tried /\ Lent /\ Held /\ pc[r] = "page"
      /\ UNCHANGED <<poolVars, req, ladder, res, remoteVars>>
    BY DEF Inv, PageEnds
<1>2. /\ pc' \in [Runs -> Awaits \cup {"idle", "next", "done"}] /\ pc'[r] = "release"
      /\ \A q \in Runs \ {r} : pc'[q] = pc[q]
    BY <1>1, Going DEF PageEnds, Awaits
<1>3. Types' /\ Others(r)
    BY <1>1, <1>2, Noting DEF Types, Others, PageEnds, poolVars, remoteVars
<1>4. Lent'
  <2>1. \A q \in Runs : Due(q)' = Due(q)
      BY <1>1 DEF Due, StageTenant, Current
  <2> QED
      BY <1>1, <1>2, <2>1 DEF Lent, poolVars
<1>5. ~ Owned(r) /\ res[r].attempted # <<>>
    BY <1>1 DEF Held, SessionsAccounted, Tried, Awaits
<1> QED
    BY <1>1, <1>2, <1>3, <1>4, <1>5, HeldStays, TriedStays DEF Inv

\* A browser is given back or disposed of.
LEMMA Returning ==
    ASSUME Types, NEW r \in Runs, Pool!GiveBack(r) \/ Pool!Discard(r)
    PROVE  /\ state' \in [Browsers -> {"absent", "idle", "lent"}]
           /\ tenant' \in [Browsers -> Hosts \cup {Common}]
           /\ hand' \in [Runs -> Browsers \cup {Nothing}]
           /\ ask' \in [Runs -> Hosts \cup {Common}]
<1>1. hand' = [hand EXCEPT ![r] = Nothing] /\ ask' = [ask EXCEPT ![r] = Common]
    BY DEF Pool!GiveBack, Pool!Discard, Pool!Done
<1>2. CASE Pool!GiveBack(r)
    BY <1>1, <1>2 DEF Types, Pool!GiveBack
<1>3. CASE Pool!Discard(r)
    BY <1>1, <1>3 DEF Types, Pool!Discard, Pool!Leave
<1> QED
    BY <1>2, <1>3

LEMMA ReleaseInv == ASSUME Inv, NEW r \in Runs, Release(r) PROVE Inv'
<1>1. /\ Types /\ Tried /\ Lent /\ Held /\ pc[r] = "release"
      /\ UNCHANGED <<req, ladder, remoteVars>> /\ (Pool!GiveBack(r) \/ Pool!Discard(r))
    BY DEF Inv, Release
<1>2. ~ Owned(r) /\ res[r].attempted # <<>>
    BY <1>1 DEF Held, SessionsAccounted, Tried, Awaits
<1>3. /\ pc' \in [Runs -> Awaits \cup {"idle", "next", "done"}] /\ pc'[r] \in {"next", "done"}
      /\ res' \in [Runs -> Result] /\ verdict' \in [Runs -> Verdicts]
      /\ \A q \in Runs \ {r} : pc'[q] = pc[q] /\ res'[q] = res[q]
    BY <1>1, <1>2, Ending DEF Release
<1>4. Types' /\ Others(r)
    BY <1>1, <1>3, Returning DEF Types, Others, remoteVars
<1> QED
    BY <1>1, <1>2, <1>3, <1>4, LentBack, HeldStays, TriedStays DEF Inv, Awaits

-----------------------------------------------------------------------------
(* The steps of the remote stage                                           *)

\* A run of the remote stage has no browser, and its step leaves the pool alone.
LEMMA Aside ==
    ASSUME Inv, NEW r \in Runs, Others(r), UNCHANGED poolVars,
           pc[r] \in {"open", "connect", "remote", "close", "delete"},
           pc'[r] \notin {"acquire", "page", "release"}
    PROVE  Lent' /\ res[r].attempted # <<>>
<1>1. hand[r] = Nothing /\ res[r].attempted # <<>>
    BY DEF Inv, Lent, Tried, Awaits
<1> QED
    BY <1>1, LentFree DEF Inv, poolVars

LEMMA OpenErrInv == ASSUME Inv, NEW r \in Runs, OpenErr(r) PROVE Inv'
<1>1. /\ Types /\ Tried /\ pc[r] = "open" /\ UNCHANGED <<poolVars, req, ladder, verdict, remoteVars>>
    BY DEF Inv, OpenErr
<1>2. res[r].attempted # <<>>
    BY <1>1 DEF Tried, Awaits
<1>3. /\ pc' \in [Runs -> Awaits \cup {"idle", "next", "done"}] /\ pc'[r] \in {"next", "done"}
      /\ res' \in [Runs -> Result]
      /\ \A q \in Runs \ {r} : pc'[q] = pc[q] /\ res'[q] = res[q]
    BY <1>1, <1>2, StageEnding DEF OpenErr
<1>4. Types' /\ Others(r)
    BY <1>1, <1>3 DEF Types, Others, poolVars, remoteVars
<1> QED
    BY <1>1, <1>3, <1>4, Apart, TriedStays DEF Inv, Awaits

LEMMA OpenOkInv == ASSUME Inv, NEW r \in Runs, OpenOk(r) PROVE Inv'
<1>1. /\ Types /\ Tried /\ Held /\ pc[r] = "open" /\ ~ Owned(r)
      /\ UNCHANGED <<poolVars, req, ladder, verdict, res, orphans>>
    BY DEF Inv, OpenOk, Held, SessionsAccounted
<1>2. /\ pc' \in [Runs -> Awaits \cup {"idle", "next", "done"}] /\ pc'[r] = "connect"
      /\ \A q \in Runs \ {r} : pc'[q] = pc[q]
    BY <1>1, Going DEF OpenOk, Awaits
<1>3. PICK s \in Sessions :
          /\ mine' = [mine EXCEPT ![r] = s]
          /\ \/ s = Given /\ live' = live
             \/ s \notin live /\ live' = live \cup {s}
    BY DEF OpenOk
<1>4. mine'[r] = s /\ \A q \in Runs \ {r} : mine'[q] = mine[q]
    BY <1>1, <1>3 DEF Types
<1>5. Types' /\ Others(r)
    BY <1>1, <1>2, <1>3, <1>4 DEF Types, Others, poolVars
<1>6. Held'
  <2>1. /\ \A q \in Runs \ {r} : Owned(q)' = Owned(q)
        /\ Owned(r)' <=> s # Given
      BY <1>3, <1>4 DEF Owned
  <2>2. Given \in live /\ \A q \in Runs : Owned(q) => mine[q] \in live
      BY <1>1 DEF Held, SessionsAccounted
  <2> DEFINE rest == {mine[q] : q \in {p \in Runs \ {r} : Owned(p)}}
             owned == {mine[q] : q \in {p \in Runs : Owned(p)}}
  <2>3. owned = rest
      BY <1>1
  <2>4. owned' = IF s = Given THEN rest ELSE rest \cup {s}
      BY <1>4, <2>1
  <2>5. live = {Given} \cup orphans \cup owned
      BY <1>1 DEF Held, SessionsAccounted
  <2>6. live' = {Given} \cup orphans' \cup owned'
    <3> HIDE DEF rest, owned
    <3> QED
        BY <1>1, <1>3, <2>2, <2>3, <2>4, <2>5
  <2>7. \A q \in Runs \ {r} : mine[q] = s => s = Given \/ s = Nothing
      BY <1>3, <2>2 DEF Owned
  <2>8. orphans \subseteq live
      BY <2>5
  <2>9. /\ \A q \in Runs : Owned(q)' =>
              /\ pc'[q] \in {"connect", "remote", "close", "delete"}
              /\ mine'[q] \notin orphans' /\ \A p \in Runs \ {q} : mine'[p] # mine'[q]
        /\ \A q \in Runs : pc'[q] = "delete" => Owned(q)'
    <3>1. ASSUME NEW q \in Runs \ {r}, Owned(q)
          PROVE  /\ mine[q] \notin orphans /\ mine[q] # s
                 /\ pc[q] \in {"connect", "remote", "close", "delete"}
                 /\ \A p \in Runs \ {q} : mine[p] # mine[q]
        BY <1>1, <2>7, <3>1 DEF Held, SessionsAccounted, Owned
    <3>2. Owned(r)' => s \notin orphans /\ \A p \in Runs \ {r} : mine[p] # s
        BY <1>3, <2>1, <2>7, <2>8
    <3>3. \A q \in Runs : pc'[q] = "delete" => Owned(q)'
        BY <1>1, <1>2, <2>1 DEF Held
    <3> QED
        BY <1>1, <1>2, <1>4, <2>1, <3>1, <3>2, <3>3
  <2> QED
      BY <1>1, <2>6, <2>9 DEF Held, SessionsAccounted
<1>7. Lent' /\ res[r].attempted # <<>>
    BY <1>1, <1>2, <1>5, Aside
<1> QED
    BY <1>1, <1>5, <1>6, <1>7, TriedStays DEF Inv

\* A session that nobody will have is left at the provider.
LEMMA HeldOrphan ==
    ASSUME Types, Held, NEW r \in Runs, Others(r), ~ Owned(r), ~ Owned(r)', pc'[r] # "delete",
           NEW s \in Sessions \ live, live' = live \cup {s}, orphans' = orphans \cup {s}
    PROVE  Held'
<1>1. \A q \in Runs \ {r} : mine'[q] = mine[q] /\ Owned(q)' = Owned(q)
    BY DEF Others, Owned
<1>2. Given \in live /\ \A q \in Runs : Owned(q) => mine[q] \in live
    BY DEF Held, SessionsAccounted
<1> DEFINE owned == {mine[q] : q \in {p \in Runs : Owned(p)}}
<1>3. owned' = owned
    BY <1>1
<1>4. live = {Given} \cup orphans \cup owned
    BY DEF Held, SessionsAccounted
<1>5. live' = {Given} \cup orphans' \cup owned'
    BY <1>3, <1>4
<1>6. /\ \A q \in Runs : Owned(q)' =>
            /\ pc'[q] \in {"connect", "remote", "close", "delete"}
            /\ mine'[q] \notin orphans' /\ \A p \in Runs \ {q} : mine'[p] # mine'[q]
      /\ \A q \in Runs : pc'[q] = "delete" => Owned(q)'
  <2>1. ASSUME NEW q \in Runs \ {r}, Owned(q)
        PROVE  /\ mine[q] \notin orphans /\ mine[q] # s
               /\ pc[q] \in {"connect", "remote", "close", "delete"}
               /\ \A p \in Runs \ {q, r} : mine[p] # mine[q]
      BY <1>2, <2>1 DEF Held, SessionsAccounted
  <2>2. \A q \in Runs : Owned(q)' => mine'[q] # mine'[r]
      BY <1>1, <2>1 DEF Owned, Held, SessionsAccounted
  <2> QED
      BY <1>1, <2>1, <2>2 DEF Held, Others
<1> QED
    BY <1>2, <1>5, <1>6 DEF Held, SessionsAccounted

LEMMA OpenLostInv == ASSUME Inv, NEW r \in Runs, OpenLost(r) PROVE Inv'
<1>1. /\ Types /\ Tried /\ Held /\ pc[r] = "open" /\ ~ Owned(r) /\ res[r].attempted # <<>>
      /\ UNCHANGED <<poolVars, req, ladder, verdict, mine>>
    BY DEF Inv, OpenLost, Held, SessionsAccounted, Tried, Awaits
<1>2. PICK s \in Sessions \ live : live' = live \cup {s} /\ orphans' = orphans \cup {s}
    BY DEF OpenLost
<1>3. /\ pc' \in [Runs -> Awaits \cup {"idle", "next", "done"}] /\ pc'[r] \in {"next", "done"}
      /\ res' \in [Runs -> Result]
      /\ \A q \in Runs \ {r} : pc'[q] = pc[q] /\ res'[q] = res[q]
    BY <1>1, StageEnding DEF OpenLost
<1>4. Types' /\ Others(r)
    BY <1>1, <1>2, <1>3 DEF Types, Others, poolVars
<1>5. ~ Owned(r)'
    BY <1>1 DEF Owned
<1>6. Held'
    BY <1>1, <1>2, <1>3, <1>4, <1>5, HeldOrphan
<1> QED
    BY <1>1, <1>3, <1>4, <1>6, Aside, TriedStays DEF Inv, Awaits

LEMMA ConnectErrInv == ASSUME Inv, NEW r \in Runs, ConnectErr(r) PROVE Inv'
<1>1. /\ Types /\ Tried /\ Held /\ pc[r] = "connect" /\ res[r].attempted # <<>>
      /\ UNCHANGED <<poolVars, req, ladder, live, orphans>>
    BY DEF Inv, ConnectErr, Tried, Awaits
<1>2. CASE Owned(r)
  <2>1. Goto(r, "delete") /\ UNCHANGED <<res, mine>> /\ verdict' = [verdict EXCEPT ![r] = "err"]
      BY <1>2 DEF ConnectErr
  <2>2. /\ pc' \in [Runs -> Awaits \cup {"idle", "next", "done"}] /\ pc'[r] = "delete"
        /\ \A q \in Runs \ {r} : pc'[q] = pc[q]
      BY <1>1, <2>1, Going DEF Awaits
  <2>3. Types' /\ Others(r)
      BY <1>1, <2>1, <2>2, Noting DEF Types, Others, poolVars
  <2> QED
      BY <1>1, <1>2, <2>1, <2>2, <2>3, Aside, HeldStays, TriedStays DEF Inv, remoteVars
<1>3. CASE ~ Owned(r)
  <2>1. StageEnds(r, "err") /\ mine' = [mine EXCEPT ![r] = Nothing] /\ UNCHANGED verdict
      BY <1>3 DEF ConnectErr
  <2>2. /\ pc' \in [Runs -> Awaits \cup {"idle", "next", "done"}] /\ pc'[r] \in {"next", "done"}
        /\ res' \in [Runs -> Result]
        /\ \A q \in Runs \ {r} : pc'[q] = pc[q] /\ res'[q] = res[q]
      BY <1>1, <2>1, StageEnding
  <2>3. Types' /\ Others(r)
      BY <1>1, <2>1, <2>2 DEF Types, Others, poolVars
  <2> QED
      BY <1>1, <1>3, <2>1, <2>2, <2>3, Aside, HeldEnds, TriedStays DEF Inv, Awaits
<1> QED
    BY <1>2, <1>3

LEMMA ConnectOkInv == ASSUME Inv, NEW r \in Runs, ConnectOk(r) \/ RemoteEnds(r) PROVE Inv'
<1>1. /\ Types /\ Tried /\ Held /\ pc[r] \in {"connect", "remote"} /\ res[r].attempted # <<>>
      /\ UNCHANGED <<poolVars, req, ladder, res, remoteVars>>
    BY DEF Inv, ConnectOk, RemoteEnds, Tried, Awaits
<1>2. /\ pc' \in [Runs -> Awaits \cup {"idle", "next", "done"}] /\ pc'[r] \in {"remote", "close"}
      /\ \A q \in Runs \ {r} : pc'[q] = pc[q]
    BY <1>1, Going DEF ConnectOk, RemoteEnds, Awaits
<1>3. verdict' \in [Runs -> Verdicts]
    BY <1>1, Noting DEF ConnectOk, RemoteEnds, Types
<1>4. Types' /\ Others(r)
    BY <1>1, <1>2, <1>3 DEF Types, Others, poolVars, remoteVars
<1> QED
    BY <1>1, <1>2, <1>4, Aside, HeldStays, TriedStays DEF Inv

LEMMA CloseEndsInv == ASSUME Inv, NEW r \in Runs, CloseEnds(r) PROVE Inv'
<1>1. /\ Types /\ Tried /\ Held /\ pc[r] = "close" /\ res[r].attempted # <<>>
      /\ UNCHANGED <<poolVars, req, ladder, live, orphans>>
    BY DEF Inv, CloseEnds, Tried, Awaits
<1>2. CASE Owned(r)
  <2>1. Goto(r, "delete") /\ UNCHANGED <<verdict, res, mine>>
      BY <1>2 DEF CloseEnds
  <2>2. /\ pc' \in [Runs -> Awaits \cup {"idle", "next", "done"}] /\ pc'[r] = "delete"
        /\ \A q \in Runs \ {r} : pc'[q] = pc[q]
      BY <1>1, <2>1, Going DEF Awaits
  <2>3. Types' /\ Others(r)
      BY <1>1, <2>1, <2>2 DEF Types, Others, poolVars
  <2> QED
      BY <1>1, <1>2, <2>1, <2>2, <2>3, Aside, HeldStays, TriedStays DEF Inv, remoteVars
<1>3. CASE ~ Owned(r)
  <2>1. Verdict(r) /\ mine' = [mine EXCEPT ![r] = Nothing]
      BY <1>3 DEF CloseEnds
  <2>2. /\ pc' \in [Runs -> Awaits \cup {"idle", "next", "done"}] /\ pc'[r] \in {"next", "done"}
        /\ res' \in [Runs -> Result] /\ verdict' \in [Runs -> Verdicts]
        /\ \A q \in Runs \ {r} : pc'[q] = pc[q] /\ res'[q] = res[q]
      BY <1>1, <2>1, Ending
  <2>3. Types' /\ Others(r)
      BY <1>1, <2>1, <2>2 DEF Types, Others, poolVars
  <2> QED
      BY <1>1, <1>3, <2>1, <2>2, <2>3, Aside, HeldEnds, TriedStays DEF Inv, Awaits
<1> QED
    BY <1>2, <1>3

LEMMA DeleteEndsInv == ASSUME Inv, NEW r \in Runs, DeleteEnds(r) PROVE Inv'
<1>1. /\ Types /\ Tried /\ Held /\ pc[r] = "delete" /\ res[r].attempted # <<>> /\ Owned(r)
      /\ UNCHANGED <<poolVars, req, ladder>> /\ mine' = [mine EXCEPT ![r] = Nothing]
    BY DEF Inv, DeleteEnds, Tried, Awaits, Held
<1>2. mine[r] \in Sessions
    BY <1>1 DEF Owned, Types
<1>3. \/ live' = live \ {mine[r]} /\ UNCHANGED orphans
      \/ orphans' = orphans \cup {mine[r]} /\ UNCHANGED live
    BY DEF DeleteEnds
<1>4. /\ pc' \in [Runs -> Awaits \cup {"idle", "next", "done"}] /\ pc'[r] \in {"next", "done"}
      /\ res' \in [Runs -> Result] /\ verdict' \in [Runs -> Verdicts]
      /\ \A q \in Runs \ {r} : pc'[q] = pc[q] /\ res'[q] = res[q]
    BY <1>1, Ending DEF DeleteEnds
<1>5. Types' /\ Others(r)
    BY <1>1, <1>2, <1>3, <1>4 DEF Types, Others, poolVars
<1> QED
    BY <1>1, <1>3, <1>4, <1>5, Aside, HeldEnds, TriedStays DEF Inv, Awaits

-----------------------------------------------------------------------------
(* The timeout, and the whole                                              *)

\* What a dropped run leaves behind, whatever it was doing.
LEMMA Abandoning ==
    ASSUME Types, Held, NEW r \in Runs, Others(r), Abandon(r), pc'[r] = "done",
           mine' = [mine EXCEPT ![r] = Nothing]
    PROVE  Held' /\ live' \subseteq Sessions /\ orphans' \subseteq Sessions
<1>1. /\ Owned(r) => mine[r] \in Sessions
      /\ live \subseteq Sessions /\ orphans \subseteq Sessions
      /\ ~ Owned(r)'
    BY DEF Types, Owned
<1>2. CASE Owned(r) /\ orphans' = orphans \cup {mine[r]} /\ UNCHANGED live
    BY <1>1, <1>2, HeldEnds
<1>3. CASE pc[r] = "delete" /\ live' = live \ {mine[r]} /\ UNCHANGED orphans
  <2>1. Owned(r)
      BY <1>3 DEF Held
  <2> QED
      BY <1>1, <1>3, <2>1, HeldEnds
<1>4. CASE pc[r] = "open"
           /\ \E s \in Sessions \ live : live' = live \cup {s} /\ orphans' = orphans \cup {s}
  <2>1. PICK s \in Sessions \ live : live' = live \cup {s} /\ orphans' = orphans \cup {s}
      BY <1>4
  <2>2. ~ Owned(r)
      BY <1>4 DEF Held, SessionsAccounted
  <2> QED
      BY <1>1, <2>1, <2>2, HeldOrphan
<1>5. CASE ~ Owned(r) /\ UNCHANGED <<live, orphans>>
    BY <1>1, <1>5, HeldEnds
<1> QED
    BY <1>2, <1>3, <1>4, <1>5 DEF Abandon

LEMMA TimeoutInv == ASSUME Inv, NEW r \in Runs, Timeout(r) PROVE Inv'
<1>1. /\ Types /\ Tried /\ Lent /\ Held /\ UNCHANGED req /\ Abandon(r)
      /\ mine' = [mine EXCEPT ![r] = Nothing] /\ ladder' = [ladder EXCEPT ![r] = <<>>]
      /\ verdict' = [verdict EXCEPT ![r] = "none"]
    BY DEF Inv, Timeout
<1> DEFINE x == [EmptyResult EXCEPT !.timedOut = TRUE, !.failures = <<TimeoutStrategy(req[r])>>]
<1>2. x \in Result
  <2>1. <<>> \in Seq(Strategies) /\ <<TimeoutStrategy(req[r])>> \in Seq(Strategies)
      BY <1>1, Requested, TimeoutStrategyIsOne
  <2> QED
      BY <2>1 DEF EmptyResult, Result
<1>3. /\ pc' \in [Runs -> Awaits \cup {"idle", "next", "done"}] /\ pc'[r] = "done"
      /\ res' \in [Runs -> Result]
      /\ \A q \in Runs \ {r} : pc'[q] = pc[q] /\ res'[q] = res[q]
    BY <1>1, <1>2, Finishing DEF Timeout
<1>4. /\ mine' \in [Runs -> Sessions \cup {Nothing}] /\ verdict' \in [Runs -> Verdicts]
      /\ DOMAIN ladder' = Runs /\ ladder' \in [Runs -> Seq(Strategies)]
      /\ \A q \in Runs : IsLadder(ladder'[q])
    BY <1>1 DEF Types, Verdicts, IsLadder, Distinct
<1>5. Others(r)
    BY <1>1, <1>3 DEF Types, Others
<1>6. Held' /\ live' \subseteq Sessions /\ orphans' \subseteq Sessions
    BY <1>1, <1>3, <1>5, Abandoning
<1>7. Tried'
    BY <1>1, <1>3, <1>5, TriedStays DEF Awaits
<1>8. CASE hand[r] # Nothing
  <2>1. Pool!Discard(r)
      BY <1>8 DEF Timeout
  <2>2. Types'
      BY <1>1, <1>3, <1>4, <1>6, <2>1, Returning DEF Types
  <2>3. Lent'
      BY <1>1, <1>3, <1>5, <2>1, LentBack
  <2> QED
      BY <1>6, <1>7, <2>2, <2>3 DEF Inv
<1>9. CASE hand[r] = Nothing
  <2>1. Pool!Ask(r, Common)
      BY <1>9 DEF Timeout
  <2>2. /\ ask' \in [Runs -> Hosts \cup {Common}] /\ UNCHANGED <<state, tenant, hand>>
        /\ \A q \in Runs \ {r} : ask'[q] = ask[q]
      BY <1>1, <2>1 DEF Pool!Ask, Types
  <2>3. Types'
      BY <1>1, <1>3, <1>4, <1>6, <2>2 DEF Types
  <2>4. Lent'
      BY <1>1, <1>3, <1>5, <1>9, <2>2, LentFree
  <2> QED
      BY <1>6, <1>7, <2>3, <2>4 DEF Inv
<1> QED
    BY <1>8, <1>9

LEMMA BackgroundInv == ASSUME Inv, Background PROVE Inv'
<1>1. /\ Types /\ Tried /\ Lent /\ Held
      /\ UNCHANGED <<pc, req, ladder, verdict, res, mine, live, orphans>>
    BY DEF Inv, Background, remoteVars
<1>2. /\ UNCHANGED <<hand, ask>>
      /\ state' \in [Browsers -> {"absent", "idle", "lent"}]
      /\ tenant' \in [Browsers -> Hosts \cup {Common}]
      /\ \A b \in Browsers : state[b] = "lent" => state'[b] = "lent" /\ tenant'[b] = tenant[b]
    BY ZenonT(30), <1>1 DEF Types, Background, Pool!Warm, Pool!Close, Pool!Leave
<1>3. Types'
    BY <1>1, <1>2 DEF Types
<1>4. Tried' /\ Held'
    BY <1>1 DEF Tried, Held, SessionsAccounted, Owned
<1>5. Lent'
  <2>1. \A q \in Runs : Due(q)' = Due(q) /\ hand[q] \in Browsers \cup {Nothing}
      BY <1>1 DEF Due, StageTenant, Current, Types
  <2> QED
      BY <1>1, <1>2, <2>1 DEF Lent
<1> QED
    BY <1>3, <1>4, <1>5 DEF Inv

LEMMA NextInv == Inv /\ [Next]_vars => Inv'
<1> SUFFICES ASSUME Inv, [Next]_vars PROVE Inv'
    OBVIOUS
<1>1. CASE UNCHANGED vars
    BY <1>1 DEF vars, poolVars, remoteVars, Inv, Types, Tried, Lent, Due, StageTenant, Current, Held,
                SessionsAccounted, Owned
<1>2. ASSUME NEW r \in Runs, RunStep(r) PROVE Inv'
  <2>1. CASE OwnStep(r)
      BY <2>1, ExhaustedInv, LateInv, StageInv, TimeoutInv DEF OwnStep
  <2>2. CASE Refresh(r) \/ HttpEnds(r) \/ AcquireOk(r) \/ AcquireErr(r) \/ PageEnds(r) \/ Release(r)
      BY <2>2, RefreshInv, HttpEndsInv, AcquireOkInv, AcquireErrInv, PageEndsInv, ReleaseInv
  <2>3. CASE \/ OpenErr(r) \/ OpenOk(r) \/ OpenLost(r) \/ ConnectErr(r) \/ ConnectOk(r)
             \/ RemoteEnds(r) \/ CloseEnds(r) \/ DeleteEnds(r)
      BY <2>3, OpenErrInv, OpenOkInv, OpenLostInv, ConnectErrInv, ConnectOkInv, CloseEndsInv,
         DeleteEndsInv
  <2> QED
      BY <1>2, <2>1, <2>2, <2>3 DEF RunStep
<1> QED
    BY <1>1, <1>2, BeginInv, BackgroundInv DEF Next

LEMMA InvHolds == Spec => []Inv
<1> QED
    BY InitInv, NextInv, PTL DEF Spec

-----------------------------------------------------------------------------
(* The story of the ladder                                                 *)

LEMMA NoMarkerAppend ==
    ASSUME NEW s \in Seq(Strategies), NEW x \in Strategies, x # Marker
    PROVE  NoMarker(Append(s, x)) = Append(NoMarker(s), x)
<1>1. /\ Append(s, x) # <<>>
      /\ Head(Append(s, x)) = IF s = <<>> THEN x ELSE Head(s)
      /\ Tail(Append(s, x)) = IF s = <<>> THEN <<>> ELSE Append(Tail(s), x)
    BY HeadTailAppend, AppendProperties
<1> QED
    BY <1>1 DEF NoMarker

LEMMA FrontAppend ==
    ASSUME NEW s \in Seq(Strategies), NEW x \in Strategies
    PROVE  Front(Append(s, x)) = s
<1> DEFINE t == Append(s, x)
<1>1. /\ t \in Seq(Strategies) /\ Len(t) = Len(s) + 1 /\ Len(s) \in Nat
      /\ \A i \in 1 .. Len(s) : t[i] = s[i]
    BY AppendProperties
<1> HIDE DEF t
<1>2. Front(t) = SubSeq(t, 1, Len(s))
    BY <1>1 DEF Front
<1>3. \A i \in 1 .. Len(s) : t[i] \in Strategies
    BY <1>1
<1>4. /\ Front(t) \in Seq(Strategies) /\ Len(Front(t)) = Len(s)
      /\ \A i \in 1 .. Len(s) : Front(t)[i] = s[i]
    BY <1>1, <1>2, <1>3, SubSeqProperties
<1>5. Front(t) = s
    BY <1>4, SeqEqual
<1> QED
    BY <1>5 DEF t

LEMMA FrontThenLast ==
    ASSUME NEW s \in Seq(Strategies), s # <<>>
    PROVE  /\ Front(s) \in Seq(Strategies) /\ Last(s) \in Strategies
           /\ Append(Front(s), Last(s)) = s
<1>1. PICK t \in Seq(Strategies), x \in Strategies : s = Append(t, x)
    BY SequenceEmptyOrAppend
<1> QED
    BY <1>1, FrontAppend, Appending

\* The marker is nowhere but at the head of a ladder.
HeadOnly(s) == \A i \in 2 .. Len(s) : s[i] # Marker

LEMMA MarkerAtHead == ASSUME NEW q \in Request PROVE HeadOnly(Ladder(q)) /\ Len(Ladder(q)) >= 2
<1> DEFINE s == StrategyLadder(q.mode, q.start)
<1>1. q.mode \in Modes /\ q.start \in Strategies
    BY DEF Request
<1>2. IsLadder(s)
    BY StrategyLadderIsOne
<1>3. HeadOnly(s) /\ Len(s) >= 2
  <2>1. HeadOnly(InvestigateLadder(q.start)) /\ Len(InvestigateLadder(q.start)) >= 2
    <3>1. CASE q.start \in {Marker, Sticky}
        BY <3>1 DEF HeadOnly, InvestigateLadder, Marker, Sticky
    <3>2. CASE q.start = "TlsProfiledHttp"
        BY <3>2 DEF HeadOnly, InvestigateLadder, Marker, Sticky
    <3>3. CASE q.start \notin {Marker, Sticky, "TlsProfiledHttp"}
        BY <3>3 DEF HeadOnly, InvestigateLadder, Marker, Sticky
    <3> QED
        BY <3>1, <3>2, <3>3
  <2>2. CASE q.mode = "Fast"
      BY <2>2 DEF HeadOnly, StrategyLadder, Marker, Sticky
  <2>3. CASE q.mode = "Resilient"
      BY <2>3 DEF HeadOnly, StrategyLadder, Marker, Sticky
  <2>4. CASE q.mode = "Hostile"
      BY <2>4 DEF HeadOnly, StrategyLadder, Marker, Sticky
  <2>5. CASE q.mode = "Investigate"
      BY <2>1, <2>5 DEF StrategyLadder
  <2> QED
      BY <1>1, <2>2, <2>3, <2>4, <2>5 DEF Modes
<1> HIDE DEF s
<1>4. Remote \in Strategies /\ Remote # Marker /\ Sticky # Marker
    BY DEF Remote, Strategies, Marker, Sticky
<1>5. s \in Seq(Strategies) /\ Len(s) \in Nat /\ DOMAIN s = 1 .. Len(s)
    BY <1>2 DEF IsLadder
<1>6. HeadOnly(WithRemote(s)) /\ Len(WithRemote(s)) >= 2
  <2>1. CASE Remote \in ToSet(s)
      BY <1>3, <2>1 DEF WithRemote
  <2>2. CASE Remote \notin ToSet(s) /\ Sticky \in ToSet(s)
    <3>1. PICK n \in 1 .. Len(s) : s[n] = Sticky /\ WithRemote(s) = InsertAt(s, n, Remote)
        BY <1>5, <2>2 DEF WithRemote, ToSet
    <3> DEFINE t == InsertAt(s, n, Remote)
    <3>2. /\ Len(t) = Len(s) + 1
          /\ \A i \in 1 .. Len(s) + 1 :
                t[i] = IF i < n THEN s[i] ELSE IF i = n THEN Remote ELSE s[i - 1]
        BY SMTT(30), <1>4, <1>5, Inserting
    <3> HIDE DEF t
    <3>3. ASSUME NEW i \in 2 .. Len(t) PROVE t[i] # Marker
      <4>1. CASE i < n
          BY <1>3, <1>5, <3>2, <3>3, <4>1 DEF HeadOnly
      <4>2. CASE i = n
          BY <1>4, <1>5, <3>2, <3>3, <4>2
      <4>3. CASE i > n
        <5>1. t[i] = s[i - 1] /\ i - 1 \in 1 .. Len(s)
            BY <1>5, <3>2, <3>3, <4>3
        <5>2. CASE i - 1 = 1
          <6>1. n = 1
              BY <1>5, <3>3, <4>3, <5>2
          <6> QED
              BY <1>4, <3>1, <5>1, <5>2, <6>1
        <5>3. CASE i - 1 \in 2 .. Len(s)
            BY <1>3, <5>1, <5>3 DEF HeadOnly
        <5> QED
            BY <1>5, <5>1, <5>2, <5>3
      <4> QED
          BY <1>5, <3>3, <4>1, <4>2, <4>3
    <3> QED
        BY <1>3, <1>5, <3>1, <3>2, <3>3 DEF HeadOnly, t
  <2>3. CASE Remote \notin ToSet(s) /\ Sticky \notin ToSet(s)
    <3> DEFINE t == Append(s, Remote)
    <3>1. WithRemote(s) = t
        BY <2>3 DEF WithRemote
    <3>2. /\ Len(t) = Len(s) + 1 /\ t[Len(s) + 1] = Remote
          /\ \A i \in 1 .. Len(s) : t[i] = s[i]
        BY <1>4, <1>5, AppendProperties
    <3> HIDE DEF t
    <3>3. ASSUME NEW i \in 2 .. Len(t) PROVE t[i] # Marker
        BY <1>3, <1>4, <1>5, <3>2, <3>3 DEF HeadOnly
    <3> QED
        BY <1>3, <1>5, <3>1, <3>2, <3>3 DEF HeadOnly
  <2> QED
      BY <2>1, <2>2, <2>3
<1> QED
    BY <1>3, <1>6 DEF Ladder, s

\* What is tried next moves from the ladder to the attempts.
LEMMA Moving ==
    ASSUME NEW a \in Seq(Strategies), NEW l \in Seq(Strategies), l # <<>>
    PROVE  /\ Append(a, Head(l)) \o Tail(l) = a \o l
           /\ Len(a) + 1 \in 1 .. Len(a \o l) /\ (a \o l)[Len(a) + 1] = Head(l)
<1> DEFINE b == Append(a, Head(l))
           t == Tail(l)
<1>1. /\ Head(l) \in Strategies /\ t \in Seq(Strategies) /\ Len(t) = Len(l) - 1
      /\ \A i \in 1 .. Len(t) : t[i] = l[i + 1]
    BY HeadTailProperties
<1>2. Len(a) \in Nat /\ Len(l) \in Nat /\ Len(l) > 0 /\ Head(l) = l[1]
    BY EmptySeq
<1>3. /\ b \in Seq(Strategies) /\ Len(b) = Len(a) + 1 /\ b[Len(a) + 1] = Head(l)
      /\ \A i \in 1 .. Len(a) : b[i] = a[i]
    BY <1>1, AppendProperties
<1> HIDE DEF b, t
<1>4. /\ b \o t \in Seq(Strategies) /\ Len(b \o t) = Len(a) + Len(l)
      /\ \A i \in 1 .. Len(a) + Len(l) :
            (b \o t)[i] = IF i <= Len(a) THEN a[i] ELSE l[i - Len(a)]
  <2>1. /\ b \o t \in Seq(Strategies) /\ Len(b \o t) = Len(b) + Len(t)
        /\ \A i \in 1 .. Len(b) + Len(t) :
              (b \o t)[i] = IF i <= Len(b) THEN b[i] ELSE t[i - Len(b)]
      BY ZenonT(30), <1>1, <1>3, ConcatProperties
  <2>2. ASSUME NEW i \in 1 .. Len(a) + Len(l)
        PROVE  (b \o t)[i] = IF i <= Len(a) THEN a[i] ELSE l[i - Len(a)]
    <3>1. CASE i <= Len(a)
        BY <1>1, <1>2, <1>3, <2>1, <3>1
    <3>2. CASE i = Len(a) + 1
        BY <1>1, <1>2, <1>3, <2>1, <3>2
    <3>3. CASE i > Len(a) + 1
      <4>1. i - Len(b) \in 1 .. Len(t) /\ (i - Len(b)) + 1 = i - Len(a)
          BY <1>1, <1>2, <1>3, <3>3
      <4>2. t[i - Len(b)] = l[i - Len(a)]
          BY <1>1, <4>1
      <4> QED
          BY SMTT(30), <1>1, <1>2, <1>3, <2>1, <3>3, <4>2
    <3>4. i <= Len(a) \/ i = Len(a) + 1 \/ i > Len(a) + 1
        BY <1>2, <2>2
    <3> QED
        BY <3>1, <3>2, <3>3, <3>4, Zenon
  <2> QED
      BY <1>1, <1>2, <1>3, <2>1, <2>2
<1>5. /\ a \o l \in Seq(Strategies) /\ Len(a \o l) = Len(a) + Len(l)
      /\ \A i \in 1 .. Len(a) + Len(l) :
            (a \o l)[i] = IF i <= Len(a) THEN a[i] ELSE l[i - Len(a)]
    BY ConcatProperties
<1>6. b \o t = a \o l
    BY <1>4, <1>5, SeqEqual
<1>7. Len(a) + 1 \in 1 .. Len(a \o l) /\ (a \o l)[Len(a) + 1] = Head(l)
    BY <1>2, <1>5
<1> QED
    BY <1>6, <1>7 DEF b, t

LEMMA AttemptsArePrefix ==
    ASSUME NEW a \in Seq(Strategies), NEW l \in Seq(Strategies)
    PROVE  IsPrefix(a, a \o l) /\ (l # <<>> => a # a \o l)
<1>1. Len(a) \in Nat /\ Len(l) \in Nat /\ (l # <<>> => Len(l) > 0)
    BY EmptySeq
<1>2. a \o l \in Seq(Strategies) /\ Len(a \o l) = Len(a) + Len(l)
    BY ConcatProperties
<1>3. SubSeq(a, 1, Len(a)) = a /\ SubSeq(a \o l, 1, Len(a)) = a
    BY SubSeqFull, SubSeqOfConcat1, <1>1
<1>4. Len(a) <= Len(a \o l) /\ (l # <<>> => Len(a) # Len(a \o l))
    BY <1>1, <1>2
<1>5. l # <<>> => a # a \o l
    BY <1>4
<1> QED
    BY <1>3, <1>4, <1>5, Zenon DEF IsPrefix

-----------------------------------------------------------------------------
(* The story as an invariant                                               *)

Stages == Awaits \ {"refresh"}

\* The attempts and what is left of the ladder make up the ladder, nothing is over.
Climbing(x, l, q) == x.attempted \o l = Ladder(q) /\ ~ x.success /\ ~ x.timedOut

\* OutcomeAccounted, of a result and a request.
Outcome(x, q) ==
    \/ /\ x.success /\ x.attempted # <<>> /\ IsPrefix(x.attempted, Ladder(q)) /\ ~ x.timedOut
       /\ Last(x.attempted) # Marker /\ x.failures = NoMarker(Front(x.attempted))
    \/ /\ ~ x.success /\ ~ x.timedOut /\ x.attempted = Ladder(q)
       /\ x.failures = NoMarker(Ladder(q))
    \/ /\ ~ x.success /\ ~ x.timedOut /\ x.attempted = <<>> /\ x.failures = <<Marker>>
       /\ q.gate # "open"
    \/ /\ ~ x.success /\ x.timedOut /\ IsStrictPrefix(x.attempted, Ladder(q))
       /\ x.failures = Append(NoMarker(x.attempted), Ladder(q)[Len(x.attempted) + 1])
    \/ ~ x.success /\ x.timedOut /\ x.attempted = <<>> /\ Len(x.failures) = 1

\* What a run has told so far, at the await p.
Telling(p, x, l, q) ==
    /\ p \in Stages \cup {"next"} => Climbing(x, l, q)
    /\ p = "next" => x.failures = NoMarker(x.attempted)
    /\ p \in Stages => Last(x.attempted) # Marker /\ x.failures = NoMarker(Front(x.attempted))
    /\ p = "refresh" => x = EmptyResult /\ q.gate # "open"
    /\ p = "done" => Outcome(x, q)

Story == \A r \in Runs : Telling(pc[r], res[r], ladder[r], req[r])

\* One run tells something new.
LEMMA Tells ==
    ASSUME Types, Story, NEW r \in Runs, NEW p, NEW x, NEW l, NEW q, Telling(p, x, l, q),
           pc' = [pc EXCEPT ![r] = p], res' = [res EXCEPT ![r] = x],
           ladder' = [ladder EXCEPT ![r] = l], req' = [req EXCEPT ![r] = q]
    PROVE  Story'
<1>1. pc'[r] = p /\ res'[r] = x /\ ladder'[r] = l /\ req'[r] = q
    BY DEF Types
<1>2. \A o \in Runs \ {r} :
          pc'[o] = pc[o] /\ res'[o] = res[o] /\ ladder'[o] = ladder[o] /\ req'[o] = req[o]
    BY DEF Types
<1> QED
    BY <1>1, <1>2 DEF Story

LEMMA TellsOn ==
    ASSUME Types, Story, NEW r \in Runs, NEW p, NEW x, NEW l, Telling(p, x, l, req[r]),
           pc' = [pc EXCEPT ![r] = p], res' = [res EXCEPT ![r] = x],
           ladder' = [ladder EXCEPT ![r] = l], UNCHANGED req
    PROVE  Story'
<1>1. req' = [req EXCEPT ![r] = req[r]]
    BY DEF Types
<1> QED
    BY <1>1, Tells

LEMMA TellsHere ==
    ASSUME Types, Story, NEW r \in Runs, NEW p, NEW x, Telling(p, x, ladder[r], req[r]),
           pc' = [pc EXCEPT ![r] = p], res' = [res EXCEPT ![r] = x], UNCHANGED <<ladder, req>>
    PROVE  Story'
<1>1. ladder' = [ladder EXCEPT ![r] = ladder[r]]
    BY DEF Types
<1> QED
    BY <1>1, TellsOn

\* From one await of a stage to the next.
LEMMA StoryMoves ==
    ASSUME Types, Story, NEW r \in Runs, NEW p \in Stages, pc[r] \in Stages, Goto(r, p),
           UNCHANGED <<req, ladder, res>>
    PROVE  Story'
<1>1. Telling(p, res[r], ladder[r], req[r])
    BY DEF Story, Telling, Stages, Awaits
<1>2. res' = [res EXCEPT ![r] = res[r]] /\ pc' = [pc EXCEPT ![r] = p]
    BY DEF Types, Goto
<1> QED
    BY <1>1, <1>2, TellsHere

\* The end of a stage adds to the story.
LEMMA StoryStageEnds ==
    ASSUME Types, Tried, Story, NEW r \in Runs, NEW outcome, pc[r] \in Stages,
           StageEnds(r, outcome), UNCHANGED <<req, ladder>>
    PROVE  Story'
<1> DEFINE x == res[r]
           a == res[r].attempted
           f == res[r].failures
           q == req[r]
<1>1. x \in Result /\ a \in Seq(Strategies) /\ f \in Seq(Strategies) /\ ladder[r] \in Seq(Strategies)
    BY DEF Types, Result
<1>2. a # <<>>
    BY DEF Tried, Stages
<1>3. /\ Climbing(x, ladder[r], q) /\ Last(a) # Marker /\ f = NoMarker(Front(a))
    BY DEF Story, Telling
<1>4. CASE outcome = "ok"
  <2> DEFINE y == [x EXCEPT !.success = TRUE]
  <2>1. pc' = [pc EXCEPT ![r] = "done"] /\ res' = [res EXCEPT ![r] = y]
      BY <1>4 DEF StageEnds, Finish, Goto
  <2>2. y.success /\ y.attempted = a /\ y.failures = f /\ y.timedOut = x.timedOut
      BY <1>1 DEF Result
  <2>3. IsPrefix(a, Ladder(q)) /\ ~ x.timedOut
      BY <1>1, <1>3, AttemptsArePrefix DEF Climbing
  <2>4. Outcome(y, q)
    <3> HIDE DEF y, x, a, f, q
    <3> QED
        BY <1>2, <1>3, <2>2, <2>3 DEF Outcome
  <2>5. Telling("done", y, ladder[r], q)
      BY <2>4 DEF Telling, Stages, Awaits
  <2> QED
      BY <2>1, <2>5, TellsHere
<1>5. CASE outcome = "err"
  <2> DEFINE g == Append(f, Last(a))
             y == [x EXCEPT !.failures = g]
  <2>1. pc' = [pc EXCEPT ![r] = "next"] /\ res' = [res EXCEPT ![r] = y]
      BY <1>5 DEF StageEnds, Goto, Failed, Current
  <2>2. y.success = x.success /\ y.attempted = a /\ y.failures = g /\ y.timedOut = x.timedOut
      BY <1>1 DEF Result
  <2>3. g = NoMarker(a)
    <3>1. Front(a) \in Seq(Strategies) /\ Last(a) \in Strategies /\ Append(Front(a), Last(a)) = a
        BY <1>1, <1>2, FrontThenLast
    <3>2. NoMarker(Append(Front(a), Last(a))) = Append(NoMarker(Front(a)), Last(a))
        BY <1>3, <3>1, NoMarkerAppend
    <3> HIDE DEF a, f
    <3> QED
        BY <1>3, <3>1, <3>2, Zenon
  <2>4. Telling("next", y, ladder[r], q)
    <3> HIDE DEF y, x, a, f, q, g
    <3> QED
        BY <1>3, <2>2, <2>3 DEF Telling, Climbing, Stages, Awaits, a, x
  <2> QED
      BY <2>1, <2>4, TellsHere
<1> QED
    BY <1>4, <1>5 DEF StageEnds

LEMMA StoryBegin ==
    ASSUME Inv, Story, NEW r \in Runs, NEW q \in Requests, Begin(r, q) PROVE Story'
<1>1. Types /\ req' = [req EXCEPT ![r] = q]
    BY DEF Inv, Begin
<1>2. ladder = [ladder EXCEPT ![r] = ladder[r]]
    BY <1>1 DEF Types
<1>3. CASE q.gate = "reject" /\ Finish(r, [EmptyResult EXCEPT !.failures = <<Marker>>])
           /\ UNCHANGED ladder
  <2> DEFINE x == [EmptyResult EXCEPT !.failures = <<Marker>>]
  <2>1. ~ x.success /\ ~ x.timedOut /\ x.attempted = <<>> /\ x.failures = <<Marker>>
      BY DEF EmptyResult
  <2> HIDE DEF x
  <2>2. Telling("done", x, ladder[r], q)
      BY <1>3, <2>1 DEF Telling, Outcome, Stages, Awaits
  <2> QED
      BY <1>1, <1>2, <1>3, <2>2, Tells DEF Finish, Goto, x
<1>4. CASE q.gate = "refresh" /\ res' = [res EXCEPT ![r] = EmptyResult] /\ Goto(r, "refresh")
           /\ UNCHANGED ladder
  <2>1. Telling("refresh", EmptyResult, ladder[r], q)
      BY <1>4 DEF Telling, Stages
  <2> QED
      BY <1>1, <1>2, <1>4, <2>1, Tells DEF Goto
<1>5. CASE res' = [res EXCEPT ![r] = EmptyResult] /\ Goto(r, "next")
           /\ ladder' = [ladder EXCEPT ![r] = Ladder(q)]
  <2>1. Ladder(q) \in Seq(Strategies)
      BY LadderIsOne DEF IsLadder
  <2>2. <<>> \o Ladder(q) = Ladder(q)
      BY <2>1, ConcatEmptySeq
  <2>3. /\ ~ EmptyResult.success /\ ~ EmptyResult.timedOut
        /\ EmptyResult.attempted = <<>> /\ EmptyResult.failures = <<>>
      BY DEF EmptyResult
  <2>4. Telling("next", EmptyResult, Ladder(q), q)
      BY <2>2, <2>3 DEF Telling, Climbing, NoMarker, Stages, Awaits
  <2> QED
      BY <1>1, <1>5, <2>4, Tells DEF Goto
<1> QED
    BY <1>3, <1>4, <1>5 DEF Begin

LEMMA StoryRefresh == ASSUME Inv, Story, NEW r \in Runs, Refresh(r) PROVE Story'
<1>1. Types /\ pc[r] = "refresh" /\ UNCHANGED <<req, ladder>>
    BY DEF Inv, Refresh
<1>2. res[r] = EmptyResult /\ req[r].gate # "open"
    BY <1>1 DEF Story, Telling
<1> DEFINE x == [EmptyResult EXCEPT !.failures = Append(@, Marker)]
<1>3. res' = [res EXCEPT ![r] = x] /\ pc' = [pc EXCEPT ![r] = "done"]
    BY <1>2 DEF Refresh, Finish, Failed, Goto
<1>4. ~ x.success /\ ~ x.timedOut /\ x.attempted = <<>> /\ x.failures = <<Marker>>
    BY DEF EmptyResult
<1> HIDE DEF x
<1>5. Telling("done", x, ladder[r], req[r])
    BY <1>2, <1>4 DEF Telling, Outcome, Stages, Awaits
<1> QED
    BY <1>1, <1>3, <1>5, TellsHere

LEMMA StoryExhausted == ASSUME Inv, Story, NEW r \in Runs, Exhausted(r) PROVE Story'
<1>1. Types /\ pc[r] = "next" /\ ladder[r] = <<>> /\ UNCHANGED <<req, ladder>>
    BY DEF Inv, Exhausted
<1>2. /\ res[r].attempted \in Seq(Strategies) /\ Climbing(res[r], <<>>, req[r])
      /\ res[r].failures = NoMarker(res[r].attempted)
    BY <1>1 DEF Story, Telling, Types, Result
<1>3. res[r].attempted = Ladder(req[r])
    BY <1>2, ConcatEmptySeq DEF Climbing
<1>4. NoMarker(Ladder(req[r])) # <<>>
  <2>1. Ladder(req[r]) \in Seq(Strategies) /\ Len(Ladder(req[r])) >= 2
      BY <1>1, <1>2, <1>3, Requested, MarkerAtHead
  <2>2. Ladder(req[r]) # <<>>
      BY <2>1
  <2>3. Len(Tail(Ladder(req[r]))) >= 1
      BY <2>1, <2>2, HeadTailProperties
  <2>4. Tail(Ladder(req[r])) # <<>>
      BY <2>3
  <2> QED
      BY <2>2, <2>4 DEF NoMarker
<1>5. res' = [res EXCEPT ![r] = res[r]] /\ pc' = [pc EXCEPT ![r] = "done"]
    BY <1>2, <1>3, <1>4 DEF Exhausted, Finish, Goto
<1>6. Telling("done", res[r], ladder[r], req[r])
    BY <1>2, <1>3 DEF Telling, Outcome, Climbing, Stages, Awaits
<1> QED
    BY <1>1, <1>5, <1>6, TellsHere

LEMMA StoryLate == ASSUME Inv, Story, NEW r \in Runs, LateBeforeStage(r) PROVE Story'
<1>1. Types /\ pc[r] = "next" /\ ladder[r] # <<>> /\ UNCHANGED req
    BY DEF Inv, LateBeforeStage
<1> DEFINE a == res[r].attempted
           l == ladder[r]
           y == Failed(r, Head(l))
           x == [y EXCEPT !.timedOut = TRUE]
<1>2. /\ res[r] \in Result /\ a \in Seq(Strategies) /\ l \in Seq(Strategies)
      /\ Climbing(res[r], l, req[r]) /\ res[r].failures = NoMarker(a)
    BY <1>1 DEF Story, Telling, Types, Result
<1>3. /\ res' = [res EXCEPT ![r] = x] /\ pc' = [pc EXCEPT ![r] = "done"]
      /\ ladder' = [ladder EXCEPT ![r] = <<>>]
    BY DEF LateBeforeStage, Finish, Goto
<1>4. /\ x.success = res[r].success /\ x.timedOut /\ x.attempted = a
      /\ x.failures = Append(NoMarker(a), Head(l))
  <2>1. Head(l) \in Strategies
      BY <1>1, <1>2, HeadTailProperties
  <2>2. y \in Result /\ y = [res[r] EXCEPT !.failures = Append(res[r].failures, Head(l))]
      BY <1>1, <2>1, FailedIsResult DEF Failed
  <2>3. y.success = res[r].success /\ y.attempted = a /\ y.failures = Append(NoMarker(a), Head(l))
      BY <1>2, <2>2 DEF Result
  <2> HIDE DEF y
  <2>4. x.success = y.success /\ x.timedOut /\ x.attempted = y.attempted /\ x.failures = y.failures
      BY <2>2 DEF Result
  <2> QED
      BY <2>3, <2>4
<1>5. IsStrictPrefix(a, Ladder(req[r])) /\ Ladder(req[r])[Len(a) + 1] = Head(l)
  <2>1. a \o l = Ladder(req[r])
      BY <1>2 DEF Climbing
  <2>2. IsPrefix(a, a \o l) /\ a # a \o l
      BY <1>1, <1>2, AttemptsArePrefix
  <2>3. (a \o l)[Len(a) + 1] = Head(l)
      BY <1>1, <1>2, Moving
  <2> QED
      BY <2>1, <2>2, <2>3, Zenon DEF IsStrictPrefix
<1> HIDE DEF x, a, l
<1>6. Outcome(x, req[r])
    BY <1>2, <1>4, <1>5 DEF Outcome, Climbing
<1>7. Telling("done", x, <<>>, req[r])
    BY <1>6 DEF Telling, Stages, Awaits
<1> QED
    BY <1>1, <1>3, <1>7, TellsOn

LEMMA StoryStage == ASSUME Inv, Story, NEW r \in Runs, Stage(r) PROVE Story'
<1> DEFINE l == ladder[r]
           x == Head(l)
           a == res[r].attempted
           f == res[r].failures
           b == Append(a, x)
           tried == [res[r] EXCEPT !.attempted = b]
           failed == [tried EXCEPT !.failures = Append(@, x)]
           refused == (x \in Http /\ req[r].page) \/ (x = Remote /\ ~ req[r].remote)
<1>1. Types /\ pc[r] = "next" /\ l # <<>> /\ UNCHANGED req /\ ladder' = [ladder EXCEPT ![r] = Tail(l)]
    BY DEF Inv, Stage
<1>2. /\ res[r] \in Result /\ a \in Seq(Strategies) /\ f \in Seq(Strategies) /\ l \in Seq(Strategies)
      /\ a \o l = Ladder(req[r]) /\ ~ res[r].success /\ ~ res[r].timedOut /\ f = NoMarker(a)
    BY <1>1 DEF Story, Telling, Climbing, Types, Result
<1>3. x \in Strategies /\ b \in Seq(Strategies) /\ Last(b) = x /\ Front(b) = a
    BY <1>1, <1>2, HeadTailProperties, Appending, FrontAppend
<1>4. b \o Tail(l) = Ladder(req[r])
    BY <1>1, <1>2, Moving
<1>5. /\ tried \in Result /\ tried.success = res[r].success /\ tried.timedOut = res[r].timedOut
      /\ tried.attempted = b /\ tried.failures = f
    BY <1>2, <1>3 DEF Result
<1>6. /\ failed.success = res[r].success /\ failed.timedOut = res[r].timedOut
      /\ failed.attempted = b /\ failed.failures = Append(f, x)
  <2> HIDE DEF tried
  <2> QED
      BY <1>5 DEF Result
<1>7. /\ refused => res' = [res EXCEPT ![r] = failed] /\ x # Marker
      /\ ~ refused => res' = [res EXCEPT ![r] = tried]
    BY DEF Stage, Http, Remote, Marker
<1>8. \/ UNCHANGED pc /\ (x = Marker \/ refused)
      \/ ~ refused /\ x # Marker /\ \E p \in Stages : Goto(r, p)
    BY DEF Stage, Stages, Awaits, Http, Remote, Marker, Sticky
<1> HIDE DEF tried, failed, refused
<1>9. pc = [pc EXCEPT ![r] = "next"]
    BY <1>1 DEF Types
<1>10. CASE UNCHANGED pc /\ refused
  <2>1. x # Marker /\ res' = [res EXCEPT ![r] = failed]
      BY <1>7, <1>10
  <2>2. Append(f, x) = NoMarker(b)
      BY <1>2, <1>3, <2>1, NoMarkerAppend
  <2>3. Telling("next", failed, Tail(l), req[r])
    <3> HIDE DEF a, b, f, l, x
    <3> QED
        BY <1>2, <1>4, <1>6, <2>2 DEF Telling, Climbing, Stages, Awaits
  <2> QED
      BY <1>1, <1>9, <1>10, <2>1, <2>3, TellsOn
<1>11. CASE UNCHANGED pc /\ x = Marker /\ ~ refused
  <2>1. a = <<>>
    <3>1. Len(a) + 1 \in 1 .. Len(Ladder(req[r])) /\ Ladder(req[r])[Len(a) + 1] = Marker
      <4>1. Len(a) + 1 \in 1 .. Len(a \o l) /\ (a \o l)[Len(a) + 1] = Head(l)
        <5> HIDE DEF a, l
        <5> QED
            BY <1>1, <1>2, Moving, Zenon
      <4> QED
          BY <1>2, <1>11, <4>1, Zenon
    <3>2. Len(a) + 1 \notin 2 .. Len(Ladder(req[r]))
        BY <1>1, <3>1, Requested, MarkerAtHead DEF HeadOnly
    <3>3. Len(a) \in Nat /\ Len(Ladder(req[r])) \in Nat
        BY <1>1, <1>2, Requested, LadderIsOne DEF IsLadder
    <3>4. Len(a) = 0
        BY <3>1, <3>2, <3>3
    <3> QED
        BY <1>2, <3>4, EmptySeq
  <2>2. f = <<>> /\ NoMarker(b) = <<>>
      BY <1>2, <1>11, <2>1 DEF NoMarker
  <2>3. Telling("next", tried, Tail(l), req[r])
    <3> HIDE DEF a, b, f, l, x
    <3> QED
        BY <1>2, <1>4, <1>5, <2>2 DEF Telling, Climbing, Stages, Awaits
  <2> QED
      BY <1>1, <1>9, <1>7, <1>11, <2>3, TellsOn
<1>12. ASSUME ~ refused, x # Marker, NEW p \in Stages, Goto(r, p) PROVE Story'
  <2>1. Telling(p, tried, Tail(l), req[r])
    <3> HIDE DEF a, b, f, l, x
    <3> QED
        BY <1>2, <1>3, <1>4, <1>5, <1>12 DEF Telling, Climbing, Stages, Awaits
  <2> QED
      BY <1>1, <1>7, <1>12, <2>1, TellsOn DEF Goto
<1> QED
    BY <1>8, <1>10, <1>11, <1>12

LEMMA StoryTimeout == ASSUME Inv, Story, NEW r \in Runs, Timeout(r) PROVE Story'
<1> DEFINE x == [EmptyResult EXCEPT !.timedOut = TRUE, !.failures = <<TimeoutStrategy(req[r])>>]
<1>1. /\ Types /\ UNCHANGED req /\ ladder' = [ladder EXCEPT ![r] = <<>>]
      /\ res' = [res EXCEPT ![r] = x] /\ pc' = [pc EXCEPT ![r] = "done"]
    BY DEF Inv, Timeout, Finish, Goto
<1>2. ~ x.success /\ x.timedOut /\ x.attempted = <<>> /\ Len(x.failures) = 1
    BY DEF EmptyResult
<1> HIDE DEF x
<1>3. Telling("done", x, <<>>, req[r])
    BY <1>2 DEF Telling, Outcome, Stages, Awaits
<1> QED
    BY <1>1, <1>3, TellsOn

LEMMA StoryNext == ASSUME Inv, Story, [Next]_vars PROVE Story'
<1>1. Types /\ Tried
    BY DEF Inv
<1>2. CASE UNCHANGED <<pc, req, ladder, res>>
    BY <1>2 DEF Story
<1>3. ASSUME NEW r \in Runs, OwnStep(r) \/ Refresh(r) PROVE Story'
    BY <1>3, StoryExhausted, StoryLate, StoryStage, StoryTimeout, StoryRefresh DEF OwnStep
<1>4. ASSUME NEW r \in Runs, HttpEnds(r) \/ AcquireErr(r) \/ Release(r)
                              \/ OpenErr(r) \/ OpenLost(r) \/ DeleteEnds(r)
      PROVE  Story'
  <2>1. /\ pc[r] \in Stages /\ UNCHANGED <<req, ladder>>
        /\ \E outcome \in Verdicts : StageEnds(r, outcome)
      BY <1>1, <1>4 DEF HttpEnds, AcquireErr, Release, OpenErr, OpenLost, DeleteEnds, Verdict, Verdicts,
                        Stages, Awaits, Types
  <2> QED
      BY <1>1, <2>1, StoryStageEnds
<1>5. ASSUME NEW r \in Runs, AcquireOk(r) \/ PageEnds(r) \/ OpenOk(r) \/ ConnectOk(r) \/ RemoteEnds(r)
      PROVE  Story'
  <2>1. /\ pc[r] \in Stages /\ UNCHANGED <<req, ladder, res>>
        /\ \E p \in Stages : Goto(r, p)
      BY <1>5 DEF AcquireOk, PageEnds, OpenOk, ConnectOk, RemoteEnds, Stages, Awaits
  <2> QED
      BY <1>1, <2>1, StoryMoves
<1>6. ASSUME NEW r \in Runs, ConnectErr(r) \/ CloseEnds(r) PROVE Story'
  <2>1. /\ pc[r] \in Stages /\ UNCHANGED <<req, ladder>>
        /\ \/ UNCHANGED res /\ Goto(r, "delete")
           \/ \E outcome \in Verdicts : StageEnds(r, outcome)
      BY <1>1, <1>6 DEF ConnectErr, CloseEnds, Verdict, Verdicts, Stages, Awaits, Types
  <2>2. "delete" \in Stages
      BY DEF Stages, Awaits
  <2> QED
      BY <1>1, <2>1, <2>2, StoryMoves, StoryStageEnds
<1>7. UNCHANGED vars \/ Background => UNCHANGED <<pc, req, ladder, res>>
    BY DEF vars, Background
<1> QED
    BY <1>2, <1>3, <1>4, <1>5, <1>6, <1>7, StoryBegin DEF Next, RunStep

LEMMA StoryHolds == Spec => []Story
<1>1. Init => Story
    BY DEF Init, Story, Telling, Stages, Awaits
<1> QED
    BY <1>1, StoryNext, InvHolds, PTL DEF Spec

-----------------------------------------------------------------------------
(* What follows                                                            *)

\* Every variable has its type, and no strategy is on a ladder twice.
THEOREM TypeCorrect == Spec => []TypeOK
<1>1. Inv => TypeOK
    BY DEF Inv, Types, TypeOK, IsLadder, Distinct, IsInjective
<1> QED
    BY <1>1, InvHolds, PTL

\* A run has a browser just while it works on its page or releases it, and it is
\* one of the tenant that its stage calls for.
THEOREM LentToStageHolds == Spec => []LentToStage
<1>1. Inv => LentToStage
    BY DEF Inv, Lent, LentToStage, Due, StageTenant
<1> QED
    BY <1>1, InvHolds, PTL

\* Whatever way a run ends, every session that is alive is accounted for.
THEOREM SessionsAccountedHolds == Spec => []SessionsAccounted
<1>1. Inv => SessionsAccounted
    BY DEF Inv, Held
<1> QED
    BY <1>1, InvHolds, PTL

\* What a run returns tells the story of its ladder, unless the timeout of the
\* whole threw it away.
THEOREM OutcomeAccountedHolds == Spec => []OutcomeAccounted
<1>1. Story => OutcomeAccounted
    BY DEF Story, Telling, Outcome, OutcomeAccounted
<1> QED
    BY <1>1, StoryHolds, PTL

-----------------------------------------------------------------------------
(* The pool                                                                *)

\* What a pool of leases promises to whom it lends: a browser is lent to one
\* run at a time, belongs to the tenant the run has asked for, and there is
\* room for all of them.
Promise ==
    /\ \A r \in Runs : hand[r] # Nothing =>
          /\ hand[r] \in Browsers /\ state[hand[r]] = "lent" /\ tenant[hand[r]] = ask[r]
          /\ \A q \in Runs \ {r} : hand[q] # hand[r]
    /\ Cardinality(Pool!Present) <= MaxSize

PoolInv ==
    /\ state \in [Browsers -> {"absent", "idle", "lent"}]
    /\ tenant \in [Browsers -> Hosts \cup {Common}]
    /\ hand \in [Runs -> Browsers \cup {Nothing}]
    /\ ask \in [Runs -> Hosts \cup {Common}]
    /\ IsFiniteSet(Pool!Present)
    /\ Promise

\* The instance brings a Cardinality of its own, with the same definition.
LEMMA SameCardinality == Pool!Cardinality(Pool!Present) = Cardinality(Pool!Present)
BY DEF Pool!Cardinality, Cardinality

\* There is room for one more when the pool says so.
LEMMA OneMore ==
    ASSUME IsFiniteSet(Pool!Present), NEW b \in Browsers, state[b] = "absent",
           Pool!Cardinality(Pool!Present) < MaxSize,
           Pool!Present' = Pool!Present \cup {b}
    PROVE  IsFiniteSet(Pool!Present)' /\ (Cardinality(Pool!Present) <= MaxSize)'
<1>1. b \notin Pool!Present
    BY DEF Pool!Present
<1>2. IsFiniteSet(Pool!Present') /\ Cardinality(Pool!Present') = Cardinality(Pool!Present) + 1
    BY <1>1, FS_AddElement
<1>3. Cardinality(Pool!Present) \in Nat
    BY FS_CardinalityType
<1> QED
    BY <1>2, <1>3, SameCardinality, SizeAssumption

LEMMA NoMore ==
    ASSUME IsFiniteSet(Pool!Present), Cardinality(Pool!Present) <= MaxSize,
           Pool!Present' \subseteq Pool!Present
    PROVE  IsFiniteSet(Pool!Present)' /\ (Cardinality(Pool!Present) <= MaxSize)'
<1>1. /\ IsFiniteSet(Pool!Present') /\ Cardinality(Pool!Present') <= Cardinality(Pool!Present)
    BY FS_Subset
<1>2. Cardinality(Pool!Present) \in Nat /\ Cardinality(Pool!Present') \in Nat
    BY <1>1, FS_CardinalityType
<1> QED
    BY <1>1, <1>2, SizeAssumption

LEMMA PoolInit == Pool!Init => PoolInv
<1> SUFFICES ASSUME Pool!Init PROVE PoolInv
    OBVIOUS
<1>1. Pool!Present = {}
    BY DEF Pool!Init, Pool!Present
<1>2. IsFiniteSet(Pool!Present) /\ Cardinality(Pool!Present) <= MaxSize
    BY <1>1, FS_EmptySet, SizeAssumption
<1> QED
    BY <1>2 DEF Pool!Init, PoolInv, Promise

LEMMA PoolAsk == ASSUME PoolInv, NEW r \in Runs, NEW h \in Hosts \cup {Common}, Pool!Ask(r, h)
                 PROVE  PoolInv'
<1>1. Pool!Present' = Pool!Present
    BY DEF Pool!Ask, Pool!Present
<1> QED
    BY <1>1 DEF Pool!Ask, PoolInv, Promise

LEMMA PoolWarm == ASSUME PoolInv, NEW b \in Browsers, Pool!Warm(b) PROVE PoolInv'
<1>1. state[b] = "absent" /\ state' = [state EXCEPT ![b] = "idle"] /\ UNCHANGED <<tenant, hand, ask>>
    BY DEF Pool!Warm
<1>2. state' \in [Browsers -> {"absent", "idle", "lent"}]
    BY <1>1 DEF PoolInv
<1>3. Pool!Present' = Pool!Present \cup {b}
    BY <1>1 DEF PoolInv, Pool!Present
<1>4. IsFiniteSet(Pool!Present)' /\ (Cardinality(Pool!Present) <= MaxSize)'
    BY <1>1, <1>3, OneMore DEF PoolInv, Pool!Warm
<1> QED
    BY <1>1, <1>2, <1>4 DEF PoolInv, Promise

LEMMA PoolOpen == ASSUME PoolInv, NEW b \in Browsers, NEW r \in Runs, Pool!Open(b, r) PROVE PoolInv'
<1>1. /\ state[b] = "absent" /\ hand[r] = Nothing /\ UNCHANGED ask
      /\ state' = [state EXCEPT ![b] = "lent"] /\ tenant' = [tenant EXCEPT ![b] = ask[r]]
      /\ hand' = [hand EXCEPT ![r] = b]
    BY DEF Pool!Open
<1>2. /\ state' \in [Browsers -> {"absent", "idle", "lent"}]
      /\ tenant' \in [Browsers -> Hosts \cup {Common}]
      /\ hand' \in [Runs -> Browsers \cup {Nothing}]
    BY <1>1 DEF PoolInv
<1>3. Pool!Present' = Pool!Present \cup {b}
    BY <1>1 DEF PoolInv, Pool!Present
<1>4. IsFiniteSet(Pool!Present)' /\ (Cardinality(Pool!Present) <= MaxSize)'
    BY <1>1, <1>3, OneMore DEF PoolInv, Pool!Open
<1>5. \A q \in Runs : hand[q] # b
    BY <1>1 DEF PoolInv, Promise
<1> QED
    BY <1>1, <1>2, <1>4, <1>5 DEF PoolInv, Promise

LEMMA PoolLend == ASSUME PoolInv, NEW b \in Browsers, NEW r \in Runs, Pool!Lend(b, r) PROVE PoolInv'
<1>1. /\ state[b] = "idle" /\ tenant[b] = ask[r] /\ hand[r] = Nothing /\ UNCHANGED <<tenant, ask>>
      /\ state' = [state EXCEPT ![b] = "lent"] /\ hand' = [hand EXCEPT ![r] = b]
    BY DEF Pool!Lend
<1>2. /\ state' \in [Browsers -> {"absent", "idle", "lent"}]
      /\ hand' \in [Runs -> Browsers \cup {Nothing}]
    BY <1>1 DEF PoolInv
<1>3. Pool!Present' = Pool!Present
    BY <1>1 DEF PoolInv, Pool!Present
<1>5. \A q \in Runs : hand[q] # b
    BY <1>1 DEF PoolInv, Promise
<1> QED
    BY <1>1, <1>2, <1>3, <1>5 DEF PoolInv, Promise

LEMMA PoolReturn ==
    ASSUME PoolInv, NEW r \in Runs, Pool!GiveBack(r) \/ Pool!Discard(r)
    PROVE  PoolInv'
<1>1. /\ hand[r] # Nothing /\ hand[r] \in Browsers /\ state[hand[r]] = "lent"
      /\ hand' = [hand EXCEPT ![r] = Nothing] /\ ask' = [ask EXCEPT ![r] = Common]
      /\ \A q \in Runs \ {r} : hand[q] # hand[r]
    BY DEF Pool!GiveBack, Pool!Discard, Pool!Done, PoolInv, Promise
<1>2. /\ hand' \in [Runs -> Browsers \cup {Nothing}]
      /\ ask' \in [Runs -> Hosts \cup {Common}]
    BY <1>1 DEF PoolInv
<1>3. /\ state' \in [Browsers -> {"absent", "idle", "lent"}]
      /\ tenant' \in [Browsers -> Hosts \cup {Common}]
      /\ \A b \in Browsers \ {hand[r]} : state'[b] = state[b] /\ tenant'[b] = tenant[b]
  <2>1. CASE Pool!GiveBack(r)
      BY <1>1, <2>1 DEF PoolInv, Pool!GiveBack
  <2>2. CASE Pool!Discard(r)
      BY <1>1, <2>2 DEF PoolInv, Pool!Discard, Pool!Leave
  <2> QED
      BY <2>1, <2>2
<1>4. Pool!Present' \subseteq Pool!Present
    BY <1>1, <1>3 DEF Pool!Present
<1>5. IsFiniteSet(Pool!Present)' /\ (Cardinality(Pool!Present) <= MaxSize)'
    BY <1>4, NoMore DEF PoolInv, Promise
<1>6. ASSUME NEW q \in Runs, hand'[q] # Nothing
      PROVE  /\ hand'[q] \in Browsers /\ state'[hand'[q]] = "lent" /\ tenant'[hand'[q]] = ask'[q]
             /\ \A p \in Runs \ {q} : hand'[p] # hand'[q]
  <2>1. q # r /\ hand'[q] = hand[q] /\ ask'[q] = ask[q]
      BY <1>1, <1>6 DEF PoolInv
  <2>2. /\ hand[q] \in Browsers \ {hand[r]} /\ state[hand[q]] = "lent" /\ tenant[hand[q]] = ask[q]
        /\ \A p \in Runs \ {q} : hand[p] # hand[q]
      BY <1>1, <1>6, <2>1 DEF PoolInv, Promise
  <2>3. \A p \in Runs \ {q} : hand'[p] # hand'[q]
      BY <1>1, <1>6, <2>1, <2>2 DEF PoolInv
  <2> QED
      BY <1>3, <2>1, <2>2, <2>3
<1> QED
    BY <1>2, <1>3, <1>5, <1>6 DEF PoolInv, Promise

LEMMA PoolClose == ASSUME PoolInv, NEW S \in SUBSET Browsers, Pool!Close(S) PROVE PoolInv'
<1>1. /\ \A b \in S : state[b] = "idle"
      /\ UNCHANGED <<hand, ask>>
      /\ state' = [b \in Browsers |-> IF b \in S THEN "absent" ELSE state[b]]
      /\ tenant' = [b \in Browsers |-> IF b \in S THEN Common ELSE tenant[b]]
    BY DEF Pool!Close, Pool!Leave
<1>2. /\ state' \in [Browsers -> {"absent", "idle", "lent"}]
      /\ tenant' \in [Browsers -> Hosts \cup {Common}]
    BY <1>1 DEF PoolInv
<1>4. Pool!Present' \subseteq Pool!Present
    BY <1>1 DEF Pool!Present
<1>5. IsFiniteSet(Pool!Present)' /\ (Cardinality(Pool!Present) <= MaxSize)'
    BY <1>4, NoMore DEF PoolInv, Promise
<1> QED
    BY <1>1, <1>2, <1>5 DEF PoolInv, Promise

LEMMA PoolNext == PoolInv /\ [Pool!Next]_(Pool!vars) => PoolInv'
<1> SUFFICES ASSUME PoolInv, [Pool!Next]_(Pool!vars) PROVE PoolInv'
    OBVIOUS
<1>1. CASE UNCHANGED Pool!vars
  <2>1. Pool!Present' = Pool!Present
      BY <1>1 DEF Pool!vars, Pool!Present
  <2> QED
      BY <1>1, <2>1 DEF Pool!vars, PoolInv, Promise
<1>2. CASE \E r \in Runs, h \in Hosts \cup {Common} : Pool!Ask(r, h)
    BY <1>2, PoolAsk
<1>3. CASE \E b \in Browsers : Pool!Warm(b)
    BY <1>3, PoolWarm
<1>4. CASE \E b \in Browsers, r \in Runs : Pool!Open(b, r) \/ Pool!Lend(b, r)
    BY <1>4, PoolOpen, PoolLend
<1>5. CASE \E r \in Runs : Pool!GiveBack(r) \/ Pool!Discard(r)
    BY <1>5, PoolReturn
<1>6. CASE \E S \in SUBSET Browsers : Pool!Close(S)
    BY <1>6, PoolClose
<1> QED
    BY <1>1, <1>2, <1>3, <1>4, <1>5, <1>6 DEF Pool!Next

\* LeasePool: whoever its users are, and whatever they do with its operations,
\* the abstract pool keeps its promise; what BrowserPool implements is enough.
THEOREM PoolKeepsPromise == Pool!Spec => []Promise
<1>1. PoolInv => Promise
    BY DEF PoolInv
<1> QED
    BY PoolInit, PoolNext, <1>1, PTL DEF Pool!Spec

LEMMA StepOfPool == ASSUME Inv, [Next]_vars PROVE [Pool!Next]_(Pool!vars)
<1> DEFINE Goal == Pool!Next \/ UNCHANGED poolVars
<1> SUFFICES Goal
    BY DEF poolVars, Pool!vars
<1>ask. ASSUME NEW r \in Runs, NEW h \in Hosts \cup {Common}, Pool!Ask(r, h) PROVE Goal
    BY <1>ask DEF Pool!Next
<1>take. ASSUME NEW r \in Runs, NEW b \in Browsers, Pool!Lend(b, r) \/ Pool!Open(b, r) PROVE Goal
    BY <1>take DEF Pool!Next
<1>give. ASSUME NEW r \in Runs, Pool!GiveBack(r) \/ Pool!Discard(r) PROVE Goal
    BY <1>give DEF Pool!Next
<1>close. ASSUME NEW S \in SUBSET Browsers, Pool!Close(S) PROVE Goal
    BY <1>close DEF Pool!Next
<1>warm. ASSUME NEW b \in Browsers, Pool!Warm(b) PROVE Goal
    BY <1>warm DEF Pool!Next
<1>same. ASSUME UNCHANGED poolVars PROVE Goal
    BY <1>same
<1> HIDE DEF Goal
<1>1. CASE UNCHANGED vars
    BY <1>1, <1>same DEF vars
<1>2. ASSUME NEW r \in Runs, NEW q \in Requests, Begin(r, q) PROVE Goal
    BY <1>2, <1>same DEF Begin
<1>3. ASSUME NEW r \in Runs, Refresh(r) PROVE Goal
  <2>1. IdleOf(req[r].host) \in SUBSET Browsers /\ Pool!Close(IdleOf(req[r].host))
      BY <1>3 DEF Refresh, IdleOf
  <2> QED
      BY <2>1, <1>close
<1>4. ASSUME NEW r \in Runs, Stage(r) PROVE Goal
  <2>1. \A x : StageTenant(r, x) \in Hosts \cup {Common}
      BY Requested DEF Inv, StageTenant, Request
  <2>2. UNCHANGED poolVars \/ Pool!Ask(r, StageTenant(r, Head(ladder[r])))
      BY <1>4 DEF Stage
  <2> QED
      BY <2>1, <2>2, <1>ask, <1>same
<1>5. ASSUME NEW r \in Runs, AcquireOk(r) PROVE Goal
    BY <1>5, <1>take DEF AcquireOk
<1>6. ASSUME NEW r \in Runs, AcquireErr(r) PROVE Goal
    BY <1>6, <1>ask DEF AcquireErr
<1>7. ASSUME NEW r \in Runs, Release(r) PROVE Goal
    BY <1>7, <1>give DEF Release
<1>8. ASSUME NEW r \in Runs, Timeout(r) PROVE Goal
  <2>1. Pool!Discard(r) \/ Pool!Ask(r, Common)
      BY <1>8 DEF Timeout
  <2> QED
      BY <2>1, <1>give, <1>ask
<1>9. ASSUME NEW r \in Runs,
             \/ Exhausted(r) \/ LateBeforeStage(r) \/ HttpEnds(r) \/ PageEnds(r)
             \/ OpenErr(r) \/ OpenOk(r) \/ OpenLost(r) \/ ConnectErr(r) \/ ConnectOk(r)
             \/ RemoteEnds(r) \/ CloseEnds(r) \/ DeleteEnds(r)
      PROVE  Goal
  <2>1. UNCHANGED poolVars
      BY <1>9 DEF Exhausted, LateBeforeStage, HttpEnds, PageEnds, OpenErr, OpenOk, OpenLost,
         ConnectErr, ConnectOk, RemoteEnds, CloseEnds, DeleteEnds
  <2> QED
      BY <2>1, <1>same
<1>10. CASE Background
  <2>1. PICK b \in Browsers : Pool!Warm(b) \/ Pool!Close({b})
      BY <1>10 DEF Background
  <2> QED
      BY <2>1, <1>warm, <1>close
<1> QED
    BY <1>1, <1>2, <1>3, <1>4, <1>5, <1>6, <1>7, <1>8, <1>9, <1>10 DEF Next, RunStep, OwnStep

\* The runs deal with the pool as its users do: an acquire for the host of the
\* request or for nobody, one handle at a time, given back or dropped, also where
\* the timeout cuts them.  So what any such pool promises holds for them.
THEOREM RunsUsePool == Spec => Pool!Spec
<1>1. Init => Pool!Init
    BY DEF Init
<1> QED
    BY InvHolds, StepOfPool, <1>1, PTL DEF Spec, Pool!Spec

\* A browser in a run's hands is nobody else's, of the tenant asked for, and the
\* limit is kept, by the promise of the pool alone.
THEOREM PromiseKeptToRuns == Spec => []Promise
BY RunsUsePool, PoolKeepsPromise, PTL

=============================================================================
