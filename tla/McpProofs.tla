----------------------------- MODULE McpProofs -----------------------------
(***************************************************************************)
(* Proofs about McpSessions and McpAggregator, for any number of calls,    *)
(* session ids, browsers and tokens: the aggregator is the browser server  *)
(* with one caller that is its own, so what is proved of McpSessions holds *)
(* of it too.                                                              *)
(***************************************************************************)
EXTENDS McpAggregator, TLAPS

USE McpSessionsAssumption, AggregatorAssumption

-----------------------------------------------------------------------------
(* The invariant of McpSessions                                            *)

Backed(s) == hand[s] # Nothing \/ s \in attached

Types ==
    /\ state \in [Browsers -> {"absent", "idle", "lent"}]
    /\ tenant \in [Browsers -> {Common}] /\ ask \in [Ids -> {Common}]
    /\ hand \in [Ids -> Browsers \cup {Nothing}]
    /\ listed \subseteq Ids /\ attached \subseteq Ids /\ visited \subseteq Ids
    /\ pageOn \in [Ids -> Browsers \cup {Remote, Nothing}]
    /\ pageLock \in [Ids -> Calls \cup {Nothing}]
    /\ browserLock \in [Ids -> Calls \cup {Nothing}]
    /\ pc \in [Calls -> Awaits \cup {"idle"}]
    /\ on \in [Calls -> Ids \cup {Nothing}] /\ tool \in [Calls -> Tools \cup {"none"}]

Idle == \A c \in Calls : pc[c] = "idle" <=> on[c] = Nothing

Locks ==
    \A s \in Ids, c \in Calls :
        /\ pageLock[s] = c <=> on[c] = s /\ pc[c] \in {"open", "newpage", "busy"}
        /\ browserLock[s] = c <=> on[c] = s /\ pc[c] = "newpage"

\* The id of a session that is being made is nobody else's.
Alone ==
    \A c \in Calls : pc[c] = "acquire" =>
        /\ on[c] \notin listed /\ on[c] \notin visited
        /\ \A d \in Calls \ {c} : on[d] # on[c]

\* A session is released by one call, and is out of the map from the start.
OneRelease ==
    \A c \in Calls : pc[c] \in {"handle", "close"} =>
        /\ on[c] \notin listed
        /\ pc[c] = "close" => ~ Backed(on[c])
        /\ \A d \in Calls \ {c} : on[d] = on[c] => pc[d] \notin {"handle", "close"}

\* There is no page while one is made, and its browser stays till it is.
Opening ==
    \A c \in Calls :
        /\ pc[c] \in {"open", "newpage"} => pageOn[on[c]] = Nothing
        /\ pc[c] = "newpage" => Backed(on[c])

\* A page that a call has found stays as long as the browser does.
PageStays ==
    /\ \A c \in Calls : pc[c] \in {"work", "busy", "note"} /\ Backed(on[c]) => pageOn[on[c]] # Nothing
    /\ \A s \in visited : Backed(s) => pageOn[s] # Nothing

McpInv ==
    /\ Types /\ Idle /\ Locks /\ Alone /\ OneRelease
    /\ SessionBacked /\ PageGoesWithSession /\ Opening /\ PageStays

LEMMA InitMcp == McpInit => McpInv
<1> SUFFICES ASSUME McpInit PROVE McpInv
    OBVIOUS
<1> USE DEF McpInit, Pool!Init
<1>1. Types
    BY DEF Types
<1> QED
    BY <1>1 DEF McpInv, Idle, Locks, Alone, OneRelease, SessionBacked, PageGoesWithSession,
                Opening, PageStays, Backed

\* How a call moves.

LEMMA Going ==
    ASSUME Types, NEW c \in Calls, NEW p \in Awaits, Goto(c, p)
    PROVE  /\ pc' \in [Calls -> Awaits \cup {"idle"}] /\ pc'[c] = p
           /\ \A d \in Calls \ {c} : pc'[d] = pc[d]
    BY DEF Types, Goto

LEMMA Answering ==
    ASSUME Types, NEW c \in Calls, Answer(c)
    PROVE  /\ pc' \in [Calls -> Awaits \cup {"idle"}] /\ pc'[c] = "idle"
           /\ on' \in [Calls -> Ids \cup {Nothing}] /\ on'[c] = Nothing
           /\ tool' \in [Calls -> Tools \cup {"none"}]
           /\ \A d \in Calls \ {c} : pc'[d] = pc[d] /\ on'[d] = on[d]
    BY DEF Types, Answer, Goto

LEMMA Starting ==
    ASSUME Types, NEW c \in Calls, NEW s \in Ids, NEW t \in Tools \cup {"none"}, NEW p \in Awaits,
           Start(c, s, t, p)
    PROVE  /\ pc' \in [Calls -> Awaits \cup {"idle"}] /\ pc'[c] = p /\ pc[c] = "idle"
           /\ on' \in [Calls -> Ids \cup {Nothing}] /\ on'[c] = s
           /\ tool' \in [Calls -> Tools \cup {"none"}]
           /\ \A d \in Calls \ {c} : pc'[d] = pc[d] /\ on'[d] = on[d]
    BY DEF Types, Start, Goto

LEMMA AcquireMcp == ASSUME McpInv, NEW c \in Calls, NEW s \in Ids, Acquire(c, s) PROVE McpInv'
<1> USE DEF Acquire, Fresh, poolVars, sessionVars, lockVars, callVars
<1>0. Types /\ on[c] \in Ids \cup {Nothing} /\ (pc[c] # "idle" => on[c] \in Ids)
    BY DEF McpInv, Types, Idle
<1>1. /\ pc' \in [Calls -> Awaits \cup {"idle"}] /\ pc'[c] = "acquire" /\ pc[c] = "idle"
      /\ on' \in [Calls -> Ids \cup {Nothing}] /\ on'[c] = s
      /\ tool' \in [Calls -> Tools \cup {"none"}]
      /\ \A d \in Calls \ {c} : pc'[d] = pc[d] /\ on'[d] = on[d]
    BY <1>0, Starting DEF Awaits, Tools
<1>6. Types'
    BY <1>0, <1>1 DEF Types
<1>7. Idle' /\ Locks'
    BY <1>0, <1>1 DEF McpInv, Types, Idle, Locks
<1>8. Alone' /\ OneRelease'
    BY <1>0, <1>1 DEF McpInv, Types, Alone, OneRelease, Backed
<1>9. SessionBacked' /\ PageGoesWithSession'
    BY <1>0, <1>1 DEF McpInv, Types, SessionBacked, GivingBack, PageGoesWithSession, Releasing
<1>10. Opening' /\ PageStays'
    BY <1>0, <1>1 DEF McpInv, Types, Opening, PageStays, Backed
<1> QED
    BY <1>6, <1>7, <1>8, <1>9, <1>10 DEF McpInv

LEMMA AttachMcp == ASSUME McpInv, NEW c \in Calls, NEW s \in Ids, Attach(c, s) PROVE McpInv'
<1> USE DEF Attach, Fresh, poolVars, sessionVars, lockVars, callVars
<1>0. Types /\ on[c] \in Ids \cup {Nothing} /\ (pc[c] # "idle" => on[c] \in Ids)
    BY DEF McpInv, Types, Idle
<1>6. Types'
    BY <1>0 DEF Types
<1>7. Idle' /\ Locks'
    BY <1>0 DEF McpInv, Types, Idle, Locks
<1>8. Alone' /\ OneRelease'
    BY <1>0 DEF McpInv, Types, Alone, OneRelease, Backed
<1>9. SessionBacked' /\ PageGoesWithSession'
    BY <1>0 DEF McpInv, Types, SessionBacked, GivingBack, PageGoesWithSession, Releasing
<1>10. Opening' /\ PageStays'
    BY <1>0 DEF McpInv, Types, Opening, PageStays, Backed
<1> QED
    BY <1>6, <1>7, <1>8, <1>9, <1>10 DEF McpInv

LEMMA AcquireOkMcp == ASSUME McpInv, NEW c \in Calls, AcquireOk(c) PROVE McpInv'
<1> USE DEF AcquireOk, poolVars, sessionVars, lockVars, callVars
<1>0. Types /\ on[c] \in Ids \cup {Nothing} /\ (pc[c] # "idle" => on[c] \in Ids)
    BY DEF McpInv, Types, Idle
<1>5. PICK b \in Browsers : Pool!Lend(b, on[c]) \/ Pool!Open(b, on[c])
    OBVIOUS
<1>1. /\ pc' \in [Calls -> Awaits \cup {"idle"}] /\ pc'[c] = "idle"
      /\ on' \in [Calls -> Ids \cup {Nothing}] /\ on'[c] = Nothing
      /\ tool' \in [Calls -> Tools \cup {"none"}]
      /\ \A d \in Calls \ {c} : pc'[d] = pc[d] /\ on'[d] = on[d]
    BY <1>0, Answering
<1>2. /\ hand' \in [Ids -> Browsers \cup {Nothing}] /\ hand'[on[c]] = b
      /\ \A r \in Ids \ {on[c]} : hand'[r] = hand[r]
    BY <1>0, <1>5 DEF Types, Pool!Lend, Pool!Open
<1>6. Types'
    BY <1>0, <1>1, <1>2, <1>5 DEF Types, Pool!Lend, Pool!Open
<1>7. Idle' /\ Locks'
    BY <1>0, <1>1, <1>2, <1>5 DEF McpInv, Types, Idle, Locks, Pool!Lend, Pool!Open
<1>8. Alone' /\ OneRelease'
    BY <1>0, <1>1, <1>2, <1>5
       DEF McpInv, Types, Idle, Alone, OneRelease, Backed, Pool!Lend, Pool!Open
<1>9. SessionBacked' /\ PageGoesWithSession'
    BY <1>0, <1>1, <1>2, <1>5
       DEF McpInv, Types, Idle, Alone, OneRelease, SessionBacked, GivingBack, PageGoesWithSession, Releasing, Opening, Backed, Pool!Lend, Pool!Open
<1>10. Opening' /\ PageStays'
    BY <1>0, <1>1, <1>2, <1>5
       DEF McpInv, Types, Idle, Locks, Alone, OneRelease, Opening, PageStays, SessionBacked, GivingBack, Backed, Pool!Lend, Pool!Open
<1> QED
    BY <1>6, <1>7, <1>8, <1>9, <1>10 DEF McpInv

LEMMA AcquireErrMcp == ASSUME McpInv, NEW c \in Calls, AcquireErr(c) PROVE McpInv'
<1> USE DEF AcquireErr, poolVars, sessionVars, lockVars, callVars
<1>0. Types /\ on[c] \in Ids \cup {Nothing} /\ (pc[c] # "idle" => on[c] \in Ids)
    BY DEF McpInv, Types, Idle
<1>1. /\ pc' \in [Calls -> Awaits \cup {"idle"}] /\ pc'[c] = "idle"
      /\ on' \in [Calls -> Ids \cup {Nothing}] /\ on'[c] = Nothing
      /\ tool' \in [Calls -> Tools \cup {"none"}]
      /\ \A d \in Calls \ {c} : pc'[d] = pc[d] /\ on'[d] = on[d]
    BY <1>0, Answering
<1>6. Types'
    BY <1>0, <1>1 DEF Types
<1>7. Idle' /\ Locks'
    BY <1>0, <1>1 DEF McpInv, Types, Idle, Locks
<1>8. Alone' /\ OneRelease'
    BY <1>0, <1>1 DEF McpInv, Types, Idle, Alone, OneRelease, Backed
<1>9. SessionBacked' /\ PageGoesWithSession'
    BY <1>0, <1>1 DEF McpInv, Types, SessionBacked, GivingBack, PageGoesWithSession, Releasing
<1>10. Opening' /\ PageStays'
    BY <1>0, <1>1 DEF McpInv, Types, Opening, PageStays, Backed
<1> QED
    BY <1>6, <1>7, <1>8, <1>9, <1>10 DEF McpInv

LEMMA UseMcp == ASSUME McpInv, NEW c \in Calls, NEW s \in Ids, NEW t \in Tools, Use(c, s, t) PROVE McpInv'
<1> USE DEF Use, poolVars, sessionVars, lockVars, callVars
<1>0. Types /\ on[c] \in Ids \cup {Nothing} /\ (pc[c] # "idle" => on[c] \in Ids)
    BY DEF McpInv, Types, Idle
<1>1. /\ pc' \in [Calls -> Awaits \cup {"idle"}] /\ pc'[c] = "page" /\ pc[c] = "idle"
      /\ on' \in [Calls -> Ids \cup {Nothing}] /\ on'[c] = s
      /\ tool' \in [Calls -> Tools \cup {"none"}]
      /\ \A d \in Calls \ {c} : pc'[d] = pc[d] /\ on'[d] = on[d]
    BY <1>0, Starting DEF Awaits, Tools
<1>6. Types'
    BY <1>0, <1>1 DEF Types
<1>7. Idle' /\ Locks'
    BY <1>0, <1>1 DEF McpInv, Types, Idle, Locks
<1>8. Alone' /\ OneRelease'
    BY <1>0, <1>1 DEF McpInv, Types, Alone, OneRelease, Backed
<1>9. SessionBacked' /\ PageGoesWithSession'
    BY <1>0, <1>1 DEF McpInv, Types, SessionBacked, GivingBack, PageGoesWithSession, Releasing
<1>10. Opening' /\ PageStays'
    BY <1>0, <1>1 DEF McpInv, Types, Opening, PageStays, Backed
<1> QED
    BY <1>6, <1>7, <1>8, <1>9, <1>10 DEF McpInv

LEMMA HasPageMcp == ASSUME McpInv, NEW c \in Calls, HasPage(c) PROVE McpInv'
<1> USE DEF HasPage, poolVars, sessionVars, lockVars, callVars
<1>0. Types /\ on[c] \in Ids \cup {Nothing} /\ (pc[c] # "idle" => on[c] \in Ids)
    BY DEF McpInv, Types, Idle
<1>1. /\ pc' \in [Calls -> Awaits \cup {"idle"}] /\ pc'[c] = "work"
      /\ \A d \in Calls \ {c} : pc'[d] = pc[d]
    BY <1>0, Going DEF Awaits
<1>6. Types'
    BY <1>0, <1>1 DEF Types
<1>7. Idle' /\ Locks'
    BY <1>0, <1>1 DEF McpInv, Types, Idle, Locks
<1>8. Alone' /\ OneRelease'
    BY <1>0, <1>1 DEF McpInv, Types, Alone, OneRelease, Backed
<1>9. SessionBacked' /\ PageGoesWithSession'
    BY <1>0, <1>1 DEF McpInv, Types, SessionBacked, GivingBack, PageGoesWithSession, Releasing
<1>10. Opening' /\ PageStays'
    BY <1>0, <1>1 DEF McpInv, Types, Opening, PageStays, Backed
<1> QED
    BY <1>6, <1>7, <1>8, <1>9, <1>10 DEF McpInv

LEMMA MissesPageMcp == ASSUME McpInv, NEW c \in Calls, MissesPage(c) PROVE McpInv'
<1> USE DEF MissesPage, poolVars, sessionVars, lockVars, callVars
<1>0. Types /\ on[c] \in Ids \cup {Nothing} /\ (pc[c] # "idle" => on[c] \in Ids)
    BY DEF McpInv, Types, Idle
<1>1. /\ pc' \in [Calls -> Awaits \cup {"idle"}] /\ pc'[c] = "open"
      /\ \A d \in Calls \ {c} : pc'[d] = pc[d]
    BY <1>0, Going DEF Awaits
<1>2. /\ pageLock' \in [Ids -> Calls \cup {Nothing}] /\ pageLock'[on[c]] = c
      /\ \A r \in Ids \ {on[c]} : pageLock'[r] = pageLock[r]
    BY <1>0 DEF Lock, Types
<1>6. Types'
    BY <1>0, <1>1, <1>2 DEF Types
<1>7. Idle' /\ Locks'
    BY <1>0, <1>1, <1>2 DEF McpInv, Types, Idle, Locks
<1>8. Alone' /\ OneRelease'
    BY <1>0, <1>1, <1>2 DEF McpInv, Types, Alone, OneRelease, Backed
<1>9. SessionBacked' /\ PageGoesWithSession'
    BY <1>0, <1>1, <1>2 DEF McpInv, Types, SessionBacked, GivingBack, PageGoesWithSession, Releasing
<1>10. Opening' /\ PageStays'
    BY <1>0, <1>1, <1>2 DEF McpInv, Types, Opening, PageStays, Backed
<1> QED
    BY <1>6, <1>7, <1>8, <1>9, <1>10 DEF McpInv

LEMMA OpenPageMcp == ASSUME McpInv, NEW c \in Calls, OpenPage(c) PROVE McpInv'
<1> USE DEF OpenPage, poolVars, sessionVars, lockVars, callVars
<1>0. Types /\ on[c] \in Ids \cup {Nothing} /\ (pc[c] # "idle" => on[c] \in Ids)
    BY DEF McpInv, Types, Idle
<1>1. /\ pc' \in [Calls -> Awaits \cup {"idle"}] /\ pc'[c] = "newpage"
      /\ \A d \in Calls \ {c} : pc'[d] = pc[d]
    BY <1>0, Going DEF Awaits
<1>2. /\ browserLock' \in [Ids -> Calls \cup {Nothing}] /\ browserLock'[on[c]] = c
      /\ \A r \in Ids \ {on[c]} : browserLock'[r] = browserLock[r]
    BY <1>0 DEF Lock, Types
<1>6. Types'
    BY <1>0, <1>1, <1>2 DEF Types
<1>7. Idle' /\ Locks'
    BY <1>0, <1>1, <1>2 DEF McpInv, Types, Idle, Locks
<1>8. Alone' /\ OneRelease'
    BY <1>0, <1>1, <1>2 DEF McpInv, Types, Alone, OneRelease, Backed
<1>9. SessionBacked' /\ PageGoesWithSession'
    BY <1>0, <1>1, <1>2 DEF McpInv, Types, SessionBacked, GivingBack, PageGoesWithSession, Releasing
<1>10. Opening' /\ PageStays'
    BY <1>0, <1>1, <1>2 DEF McpInv, Types, Opening, PageStays, Backed
<1> QED
    BY <1>6, <1>7, <1>8, <1>9, <1>10 DEF McpInv

LEMMA OpenTooLateMcp == ASSUME McpInv, NEW c \in Calls, OpenTooLate(c) PROVE McpInv'
<1> USE DEF OpenTooLate, poolVars, sessionVars, lockVars, callVars
<1>0. Types /\ on[c] \in Ids \cup {Nothing} /\ (pc[c] # "idle" => on[c] \in Ids)
    BY DEF McpInv, Types, Idle
<1>1. /\ pc' \in [Calls -> Awaits \cup {"idle"}] /\ pc'[c] = "idle"
      /\ on' \in [Calls -> Ids \cup {Nothing}] /\ on'[c] = Nothing
      /\ tool' \in [Calls -> Tools \cup {"none"}]
      /\ \A d \in Calls \ {c} : pc'[d] = pc[d] /\ on'[d] = on[d]
    BY <1>0, Answering
<1>2. /\ pageLock' \in [Ids -> Calls \cup {Nothing}] /\ pageLock'[on[c]] = Nothing
      /\ \A r \in Ids \ {on[c]} : pageLock'[r] = pageLock[r]
    BY <1>0 DEF Lock, Types
<1>6. Types'
    BY <1>0, <1>1, <1>2 DEF Types
<1>7. Idle' /\ Locks'
    BY <1>0, <1>1, <1>2 DEF McpInv, Types, Idle, Locks
<1>8. Alone' /\ OneRelease'
    BY <1>0, <1>1, <1>2 DEF McpInv, Types, Idle, Alone, OneRelease, Backed
<1>9. SessionBacked' /\ PageGoesWithSession'
    BY <1>0, <1>1, <1>2 DEF McpInv, Types, SessionBacked, GivingBack, PageGoesWithSession, Releasing
<1>10. Opening' /\ PageStays'
    BY <1>0, <1>1, <1>2 DEF McpInv, Types, Opening, PageStays, Backed
<1> QED
    BY <1>6, <1>7, <1>8, <1>9, <1>10 DEF McpInv

LEMMA NewPageOkMcp == ASSUME McpInv, NEW c \in Calls, NewPageOk(c) PROVE McpInv'
<1> USE DEF NewPageOk, poolVars, sessionVars, lockVars, callVars
<1>0. Types /\ on[c] \in Ids \cup {Nothing} /\ (pc[c] # "idle" => on[c] \in Ids)
    BY DEF McpInv, Types, Idle
<1>1. /\ pc' \in [Calls -> Awaits \cup {"idle"}] /\ pc'[c] = "work"
      /\ \A d \in Calls \ {c} : pc'[d] = pc[d]
    BY <1>0, Going DEF Awaits
<1>2. /\ pageLock' \in [Ids -> Calls \cup {Nothing}] /\ pageLock'[on[c]] = Nothing
      /\ \A r \in Ids \ {on[c]} : pageLock'[r] = pageLock[r]
    BY <1>0 DEF Lock, Types
<1>3. /\ browserLock' \in [Ids -> Calls \cup {Nothing}] /\ browserLock'[on[c]] = Nothing
      /\ \A r \in Ids \ {on[c]} : browserLock'[r] = browserLock[r]
    BY <1>0 DEF Lock, Types
<1>4. /\ pageOn' \in [Ids -> Browsers \cup {Remote, Nothing}] /\ pageOn'[on[c]] = IF hand[on[c]] # Nothing THEN hand[on[c]] ELSE Remote
      /\ \A r \in Ids \ {on[c]} : pageOn'[r] = pageOn[r]
    BY <1>0 DEF Types
<1>6. Types'
    BY <1>0, <1>1, <1>2, <1>3, <1>4 DEF Types
<1>7. Idle' /\ Locks'
    BY <1>0, <1>1, <1>2, <1>3, <1>4 DEF McpInv, Types, Idle, Locks
<1>8. Alone' /\ OneRelease'
    BY <1>0, <1>1, <1>2, <1>3, <1>4 DEF McpInv, Types, Alone, OneRelease, Backed
<1>9. SessionBacked' /\ PageGoesWithSession'
    BY <1>0, <1>1, <1>2, <1>3, <1>4
       DEF McpInv, Types, Idle, Alone, OneRelease, SessionBacked, GivingBack, PageGoesWithSession, Releasing, Opening, Backed
<1>10. Opening' /\ PageStays'
    BY <1>0, <1>1, <1>2, <1>3, <1>4 DEF McpInv, Types, Idle, Locks, Opening, PageStays, Backed
<1> QED
    BY <1>6, <1>7, <1>8, <1>9, <1>10 DEF McpInv

LEMMA NewPageErrMcp == ASSUME McpInv, NEW c \in Calls, NewPageErr(c) PROVE McpInv'
<1> USE DEF NewPageErr, poolVars, sessionVars, lockVars, callVars
<1>0. Types /\ on[c] \in Ids \cup {Nothing} /\ (pc[c] # "idle" => on[c] \in Ids)
    BY DEF McpInv, Types, Idle
<1>1. /\ pc' \in [Calls -> Awaits \cup {"idle"}] /\ pc'[c] = "idle"
      /\ on' \in [Calls -> Ids \cup {Nothing}] /\ on'[c] = Nothing
      /\ tool' \in [Calls -> Tools \cup {"none"}]
      /\ \A d \in Calls \ {c} : pc'[d] = pc[d] /\ on'[d] = on[d]
    BY <1>0, Answering
<1>2. /\ pageLock' \in [Ids -> Calls \cup {Nothing}] /\ pageLock'[on[c]] = Nothing
      /\ \A r \in Ids \ {on[c]} : pageLock'[r] = pageLock[r]
    BY <1>0 DEF Lock, Types
<1>3. /\ browserLock' \in [Ids -> Calls \cup {Nothing}] /\ browserLock'[on[c]] = Nothing
      /\ \A r \in Ids \ {on[c]} : browserLock'[r] = browserLock[r]
    BY <1>0 DEF Lock, Types
<1>6. Types'
    BY <1>0, <1>1, <1>2, <1>3 DEF Types
<1>7. Idle' /\ Locks'
    BY SMTT(30), <1>0, <1>1, <1>2, <1>3 DEF McpInv, Types, Idle, Locks
<1>8. Alone' /\ OneRelease'
    BY <1>0, <1>1, <1>2, <1>3 DEF McpInv, Types, Idle, Alone, OneRelease, Backed
<1>9. SessionBacked' /\ PageGoesWithSession'
    BY <1>0, <1>1, <1>2, <1>3
       DEF McpInv, Types, SessionBacked, GivingBack, PageGoesWithSession, Releasing
<1>10. Opening' /\ PageStays'
    BY <1>0, <1>1, <1>2, <1>3 DEF McpInv, Types, Opening, PageStays, Backed
<1> QED
    BY <1>6, <1>7, <1>8, <1>9, <1>10 DEF McpInv

LEMMA WorkBeginsMcp == ASSUME McpInv, NEW c \in Calls, WorkBegins(c) PROVE McpInv'
<1> USE DEF WorkBegins, poolVars, sessionVars, lockVars, callVars
<1>0. Types /\ on[c] \in Ids \cup {Nothing} /\ (pc[c] # "idle" => on[c] \in Ids)
    BY DEF McpInv, Types, Idle
<1>1. /\ pc' \in [Calls -> Awaits \cup {"idle"}] /\ pc'[c] = "busy"
      /\ \A d \in Calls \ {c} : pc'[d] = pc[d]
    BY <1>0, Going DEF Awaits
<1>2. /\ pageLock' \in [Ids -> Calls \cup {Nothing}] /\ pageLock'[on[c]] = c
      /\ \A r \in Ids \ {on[c]} : pageLock'[r] = pageLock[r]
    BY <1>0 DEF Lock, Types
<1>6. Types'
    BY <1>0, <1>1, <1>2 DEF Types
<1>7. Idle' /\ Locks'
    BY <1>0, <1>1, <1>2 DEF McpInv, Types, Idle, Locks
<1>8. Alone' /\ OneRelease'
    BY <1>0, <1>1, <1>2 DEF McpInv, Types, Alone, OneRelease, Backed
<1>9. SessionBacked' /\ PageGoesWithSession'
    BY <1>0, <1>1, <1>2 DEF McpInv, Types, SessionBacked, GivingBack, PageGoesWithSession, Releasing
<1>10. Opening' /\ PageStays'
    BY <1>0, <1>1, <1>2 DEF McpInv, Types, Opening, PageStays, Backed
<1> QED
    BY <1>6, <1>7, <1>8, <1>9, <1>10 DEF McpInv

LEMMA WorkTooLateMcp == ASSUME McpInv, NEW c \in Calls, WorkTooLate(c) PROVE McpInv'
<1> USE DEF WorkTooLate, poolVars, sessionVars, lockVars, callVars
<1>0. Types /\ on[c] \in Ids \cup {Nothing} /\ (pc[c] # "idle" => on[c] \in Ids)
    BY DEF McpInv, Types, Idle
<1>1. /\ pc' \in [Calls -> Awaits \cup {"idle"}] /\ pc'[c] = "idle"
      /\ on' \in [Calls -> Ids \cup {Nothing}] /\ on'[c] = Nothing
      /\ tool' \in [Calls -> Tools \cup {"none"}]
      /\ \A d \in Calls \ {c} : pc'[d] = pc[d] /\ on'[d] = on[d]
    BY <1>0, Answering
<1>6. Types'
    BY <1>0, <1>1 DEF Types
<1>7. Idle' /\ Locks'
    BY <1>0, <1>1 DEF McpInv, Types, Idle, Locks
<1>8. Alone' /\ OneRelease'
    BY <1>0, <1>1 DEF McpInv, Types, Idle, Alone, OneRelease, Backed
<1>9. SessionBacked' /\ PageGoesWithSession'
    BY <1>0, <1>1 DEF McpInv, Types, SessionBacked, GivingBack, PageGoesWithSession, Releasing
<1>10. Opening' /\ PageStays'
    BY <1>0, <1>1 DEF McpInv, Types, Opening, PageStays, Backed
<1> QED
    BY <1>6, <1>7, <1>8, <1>9, <1>10 DEF McpInv

LEMMA WorkOkMcp == ASSUME McpInv, NEW c \in Calls, WorkOk(c) PROVE McpInv'
<1> USE DEF WorkOk, poolVars, sessionVars, lockVars, callVars
<1>0. Types /\ on[c] \in Ids \cup {Nothing} /\ (pc[c] # "idle" => on[c] \in Ids)
    BY DEF McpInv, Types, Idle
<1>1. /\ pc' \in [Calls -> Awaits \cup {"idle"}] /\ pc'[c] = "idle"
      /\ on' \in [Calls -> Ids \cup {Nothing}] /\ on'[c] = Nothing
      /\ tool' \in [Calls -> Tools \cup {"none"}]
      /\ \A d \in Calls \ {c} : pc'[d] = pc[d] /\ on'[d] = on[d]
    BY <1>0, Answering
<1>2. /\ pageLock' \in [Ids -> Calls \cup {Nothing}] /\ pageLock'[on[c]] = Nothing
      /\ \A r \in Ids \ {on[c]} : pageLock'[r] = pageLock[r]
    BY <1>0 DEF Lock, Types
<1>6. Types'
    BY <1>0, <1>1, <1>2 DEF Types
<1>7. Idle' /\ Locks'
    BY <1>0, <1>1, <1>2 DEF McpInv, Types, Idle, Locks
<1>8. Alone' /\ OneRelease'
    BY <1>0, <1>1, <1>2 DEF McpInv, Types, Idle, Alone, OneRelease, Backed
<1>9. SessionBacked' /\ PageGoesWithSession'
    BY <1>0, <1>1, <1>2 DEF McpInv, Types, SessionBacked, GivingBack, PageGoesWithSession, Releasing
<1>10. Opening' /\ PageStays'
    BY <1>0, <1>1, <1>2 DEF McpInv, Types, Opening, PageStays, Backed
<1> QED
    BY <1>6, <1>7, <1>8, <1>9, <1>10 DEF McpInv

LEMMA NavigatedMcp == ASSUME McpInv, NEW c \in Calls, Navigated(c) PROVE McpInv'
<1> USE DEF Navigated, poolVars, sessionVars, lockVars, callVars
<1>0. Types /\ on[c] \in Ids \cup {Nothing} /\ (pc[c] # "idle" => on[c] \in Ids)
    BY DEF McpInv, Types, Idle
<1>1. /\ pc' \in [Calls -> Awaits \cup {"idle"}] /\ pc'[c] = "note"
      /\ \A d \in Calls \ {c} : pc'[d] = pc[d]
    BY <1>0, Going DEF Awaits
<1>2. /\ pageLock' \in [Ids -> Calls \cup {Nothing}] /\ pageLock'[on[c]] = Nothing
      /\ \A r \in Ids \ {on[c]} : pageLock'[r] = pageLock[r]
    BY <1>0 DEF Lock, Types
<1>6. Types'
    BY <1>0, <1>1, <1>2 DEF Types
<1>7. Idle' /\ Locks'
    BY <1>0, <1>1, <1>2 DEF McpInv, Types, Idle, Locks
<1>8. Alone' /\ OneRelease'
    BY <1>0, <1>1, <1>2 DEF McpInv, Types, Alone, OneRelease, Backed
<1>9. SessionBacked' /\ PageGoesWithSession'
    BY <1>0, <1>1, <1>2 DEF McpInv, Types, SessionBacked, GivingBack, PageGoesWithSession, Releasing
<1>10. Opening' /\ PageStays'
    BY <1>0, <1>1, <1>2 DEF McpInv, Types, Opening, PageStays, Backed
<1> QED
    BY <1>6, <1>7, <1>8, <1>9, <1>10 DEF McpInv

LEMMA WorkErrMcp == ASSUME McpInv, NEW c \in Calls, WorkErr(c) PROVE McpInv'
<1> USE DEF WorkErr, poolVars, sessionVars, lockVars, callVars
<1>0. Types /\ on[c] \in Ids \cup {Nothing} /\ (pc[c] # "idle" => on[c] \in Ids)
    BY DEF McpInv, Types, Idle
<1>1. /\ pc' \in [Calls -> Awaits \cup {"idle"}] /\ pc'[c] = "idle"
      /\ on' \in [Calls -> Ids \cup {Nothing}] /\ on'[c] = Nothing
      /\ tool' \in [Calls -> Tools \cup {"none"}]
      /\ \A d \in Calls \ {c} : pc'[d] = pc[d] /\ on'[d] = on[d]
    BY <1>0, Answering
<1>2. /\ pageLock' \in [Ids -> Calls \cup {Nothing}] /\ pageLock'[on[c]] = Nothing
      /\ \A r \in Ids \ {on[c]} : pageLock'[r] = pageLock[r]
    BY <1>0 DEF Lock, Types
<1>6. Types'
    BY <1>0, <1>1, <1>2 DEF Types
<1>7. Idle' /\ Locks'
    BY <1>0, <1>1, <1>2 DEF McpInv, Types, Idle, Locks
<1>8. Alone' /\ OneRelease'
    BY <1>0, <1>1, <1>2 DEF McpInv, Types, Idle, Alone, OneRelease, Backed
<1>9. SessionBacked' /\ PageGoesWithSession'
    BY <1>0, <1>1, <1>2 DEF McpInv, Types, SessionBacked, GivingBack, PageGoesWithSession, Releasing
<1>10. Opening' /\ PageStays'
    BY <1>0, <1>1, <1>2 DEF McpInv, Types, Opening, PageStays, Backed
<1> QED
    BY <1>6, <1>7, <1>8, <1>9, <1>10 DEF McpInv

LEMMA NoteMcp == ASSUME McpInv, NEW c \in Calls, Note(c) PROVE McpInv'
<1> USE DEF Note, poolVars, sessionVars, lockVars, callVars
<1>0. Types /\ on[c] \in Ids \cup {Nothing} /\ (pc[c] # "idle" => on[c] \in Ids)
    BY DEF McpInv, Types, Idle
<1>1. /\ pc' \in [Calls -> Awaits \cup {"idle"}] /\ pc'[c] = "idle"
      /\ on' \in [Calls -> Ids \cup {Nothing}] /\ on'[c] = Nothing
      /\ tool' \in [Calls -> Tools \cup {"none"}]
      /\ \A d \in Calls \ {c} : pc'[d] = pc[d] /\ on'[d] = on[d]
    BY <1>0, Answering
<1>6. Types'
    BY <1>0, <1>1 DEF Types
<1>7. Idle' /\ Locks'
    BY <1>0, <1>1 DEF McpInv, Types, Idle, Locks
<1>8. Alone' /\ OneRelease'
    BY <1>0, <1>1 DEF McpInv, Types, Idle, Alone, OneRelease, Backed
<1>9. SessionBacked' /\ PageGoesWithSession'
    BY <1>0, <1>1 DEF McpInv, Types, SessionBacked, GivingBack, PageGoesWithSession, Releasing
<1>10. Opening' /\ PageStays'
    BY <1>0, <1>1 DEF McpInv, Types, Opening, PageStays, Backed
<1> QED
    BY <1>6, <1>7, <1>8, <1>9, <1>10 DEF McpInv

LEMMA ReleaseMcp == ASSUME McpInv, NEW c \in Calls, NEW s \in Ids, Release(c, s) PROVE McpInv'
<1> USE DEF Release, poolVars, sessionVars, lockVars, callVars
<1>0. Types /\ on[c] \in Ids \cup {Nothing} /\ (pc[c] # "idle" => on[c] \in Ids)
    BY DEF McpInv, Types, Idle
<1>1. /\ pc' \in [Calls -> Awaits \cup {"idle"}] /\ pc'[c] = "handle" /\ pc[c] = "idle"
      /\ on' \in [Calls -> Ids \cup {Nothing}] /\ on'[c] = s
      /\ tool' \in [Calls -> Tools \cup {"none"}]
      /\ \A d \in Calls \ {c} : pc'[d] = pc[d] /\ on'[d] = on[d]
    BY <1>0, Starting DEF Awaits, Tools
<1>6. Types'
    BY <1>0, <1>1 DEF Types
<1>7. Idle' /\ Locks'
    BY <1>0, <1>1 DEF McpInv, Types, Idle, Locks
<1>8. Alone' /\ OneRelease'
    BY <1>0, <1>1 DEF McpInv, Types, Alone, OneRelease, Backed
<1>9. SessionBacked' /\ PageGoesWithSession'
    BY <1>0, <1>1 DEF McpInv, Types, SessionBacked, GivingBack, PageGoesWithSession, Releasing
<1>10. Opening' /\ PageStays'
    BY <1>0, <1>1 DEF McpInv, Types, Opening, PageStays, Backed
<1> QED
    BY <1>6, <1>7, <1>8, <1>9, <1>10 DEF McpInv

LEMMA ReleasePageMcp == ASSUME McpInv, NEW c \in Calls, ReleasePage(c) PROVE McpInv'
<1> USE DEF ReleasePage, poolVars, sessionVars, lockVars, callVars
<1>0. Types /\ on[c] \in Ids \cup {Nothing} /\ (pc[c] # "idle" => on[c] \in Ids)
    BY DEF McpInv, Types, Idle
<1>1. /\ pc' \in [Calls -> Awaits \cup {"idle"}] /\ pc'[c] = "idle"
      /\ on' \in [Calls -> Ids \cup {Nothing}] /\ on'[c] = Nothing
      /\ tool' \in [Calls -> Tools \cup {"none"}]
      /\ \A d \in Calls \ {c} : pc'[d] = pc[d] /\ on'[d] = on[d]
    BY <1>0, Answering
<1>2. /\ pageOn' \in [Ids -> Browsers \cup {Remote, Nothing}] /\ pageOn'[on[c]] = Nothing
      /\ \A r \in Ids \ {on[c]} : pageOn'[r] = pageOn[r]
    BY <1>0 DEF Types
<1>6. Types'
    BY <1>0, <1>1, <1>2 DEF Types
<1>7. Idle' /\ Locks'
    BY <1>0, <1>1, <1>2 DEF McpInv, Types, Idle, Locks
<1>8. Alone' /\ OneRelease'
    BY <1>0, <1>1, <1>2 DEF McpInv, Types, Idle, Alone, OneRelease, Backed
<1>9. SessionBacked' /\ PageGoesWithSession'
    BY <1>0, <1>1, <1>2 DEF McpInv, Types, SessionBacked, GivingBack, PageGoesWithSession, Releasing
<1>10. Opening' /\ PageStays'
    BY <1>0, <1>1, <1>2
       DEF McpInv, Types, Idle, Locks, Alone, OneRelease, Opening, PageStays, SessionBacked, GivingBack, Backed
<1> QED
    BY <1>6, <1>7, <1>8, <1>9, <1>10 DEF McpInv

LEMMA ReleaseBrowserMcp == ASSUME McpInv, NEW c \in Calls, ReleaseBrowser(c) PROVE McpInv'
<1> DEFINE s == on[c]
<1>0. Types /\ s \in Ids /\ pc[c] = "handle" /\ browserLock[s] = Nothing
    BY DEF McpInv, Types, Idle, ReleaseBrowser
<1>1. /\ pc' \in [Calls -> Awaits \cup {"idle"}] /\ pc'[c] = "close"
      /\ \A d \in Calls \ {c} : pc'[d] = pc[d]
    BY <1>0, Going DEF Awaits, ReleaseBrowser
<1>2. /\ UNCHANGED <<listed, pageOn, visited, pageLock, browserLock, on, tool>>
      /\ attached' = attached \ {s}
    BY DEF ReleaseBrowser, lockVars
<1>3. /\ hand' \in [Ids -> Browsers \cup {Nothing}] /\ hand'[s] = Nothing
      /\ \A r \in Ids \ {s} : hand'[r] = hand[r]
  <2>1. CASE hand[s] # Nothing
    <3>1. Pool!Done(s)
        BY <2>1 DEF ReleaseBrowser, Pool!GiveBack, Pool!Discard
    <3> QED
        BY <1>0, <3>1 DEF Types, Pool!Done
  <2>2. CASE hand[s] = Nothing
      BY <1>0, <2>2 DEF Types, ReleaseBrowser, poolVars
  <2> QED
      BY <2>1, <2>2
<1>4. /\ state' \in [Browsers -> {"absent", "idle", "lent"}]
      /\ tenant' \in [Browsers -> {Common}] /\ ask' \in [Ids -> {Common}]
    BY <1>0 DEF Types, ReleaseBrowser, poolVars, Pool!GiveBack, Pool!Discard, Pool!Leave, Pool!Done
<1> HIDE DEF s
<1>5. s = on[c]
    BY DEF s
<1>6. Types'
    BY <1>0, <1>1, <1>2, <1>3, <1>4 DEF Types
<1>7. Idle' /\ Locks'
    BY <1>0, <1>1, <1>2, <1>5 DEF McpInv, Types, Idle, Locks
<1>8. Alone' /\ OneRelease'
    BY <1>0, <1>1, <1>2, <1>3, <1>5 DEF McpInv, Types, Idle, Alone, OneRelease, Backed
<1>9. SessionBacked' /\ PageGoesWithSession'
    BY <1>0, <1>1, <1>2, <1>3, <1>5
       DEF McpInv, Types, OneRelease, SessionBacked, GivingBack, PageGoesWithSession, Releasing
<1>10. Opening' /\ PageStays'
    BY <1>0, <1>1, <1>2, <1>3, <1>5 DEF McpInv, Types, Idle, Locks, Opening, PageStays, Backed
<1> QED
    BY <1>6, <1>7, <1>8, <1>9, <1>10 DEF McpInv

LEMMA PoolStepMcp == ASSUME McpInv, PoolStep PROVE McpInv'
<1>1. UNCHANGED <<hand, ask>> /\ UNCHANGED <<sessionVars, lockVars, callVars>>
    BY DEF PoolStep, Pool!Warm, Pool!Close
<1>2. /\ state' \in [Browsers -> {"absent", "idle", "lent"}]
      /\ tenant' \in [Browsers -> {Common}]
    BY DEF McpInv, Types, PoolStep, Pool!Warm, Pool!Close, Pool!Leave
<1> QED
    BY <1>1, <1>2
       DEF McpInv, Types, Idle, Locks, Alone, OneRelease, SessionBacked, GivingBack,
           PageGoesWithSession, Releasing, Opening, PageStays, Backed,
           sessionVars, lockVars, callVars

LEMMA NextMcp == McpInv /\ [McpNext]_browserMcpVars => McpInv'
<1> SUFFICES ASSUME McpInv, [McpNext]_browserMcpVars PROVE McpInv'
    OBVIOUS
<1>1. CASE UNCHANGED browserMcpVars
    BY <1>1
       DEF McpInv, Types, Idle, Locks, Alone, OneRelease, SessionBacked, GivingBack,
           PageGoesWithSession, Releasing, Opening, PageStays, Backed,
           browserMcpVars, poolVars, sessionVars, lockVars, callVars
<1>2. ASSUME NEW c \in Calls, McpBegin(c) PROVE McpInv'
    BY <1>2, AcquireMcp, AttachMcp, ReleaseMcp, UseMcp DEF McpBegin, Tools
<1>3. ASSUME NEW c \in Calls, GoesOn(c) PROVE McpInv'
    BY <1>3, HasPageMcp, MissesPageMcp, OpenPageMcp, NewPageOkMcp, WorkBeginsMcp, NavigatedMcp,
       ReleaseBrowserMcp DEF GoesOn
<1>4. ASSUME NEW c \in Calls, Succeeds(c) PROVE McpInv'
    BY <1>4, AcquireOkMcp, WorkOkMcp, NoteMcp, ReleasePageMcp DEF Succeeds
<1>5. ASSUME NEW c \in Calls, Fails(c) PROVE McpInv'
    BY <1>5, AcquireErrMcp, OpenTooLateMcp, NewPageErrMcp, WorkTooLateMcp, WorkErrMcp DEF Fails
<1>6. CASE PoolStep
    BY <1>6, PoolStepMcp
<1> QED
    BY <1>1, <1>2, <1>3, <1>4, <1>5, <1>6 DEF McpNext, McpStep

LEMMA McpInvHolds == McpSpec => []McpInv
<1> QED
    BY InitMcp, NextMcp, PTL DEF McpSpec

-----------------------------------------------------------------------------
(* The composition                                                         *)

\* Whatever the aggregator and the clients of the two servers do, the browser
\* server sees one of its own steps, or none: its loop is one more caller.
LEMMA StepOfBrowser == McpInv /\ [Next]_vars => [McpNext]_browserMcpVars
<1> SUFFICES ASSUME McpInv, [Next]_vars PROVE [McpNext]_browserMcpVars
    OBVIOUS
<1>1. CASE UNCHANGED vars
    BY <1>1 DEF vars
<1>2. CASE BrowserTool
  <2>1. Open \subseteq Calls
      BY DEF Open
  <2> QED
      BY <1>2, <2>1 DEF BrowserTool, McpNext
<1>3. CASE ProxyTool \/ HandlesAge
    BY <1>3 DEF ProxyTool, HandlesAge
<1>4. CASE PoolTurns
    BY <1>4 DEF PoolTurns, McpNext
<1>5. CASE ScrapeProxied
    BY <1>5 DEF ScrapeProxied, Begin, TakeProxy, NoProxy, Scraped, PutBackProxy
<1> QED
    BY <1>1, <1>2, <1>3, <1>4, <1>5 DEF Next

\* The aggregator implements the browser server of McpSessions.
THEOREM AggregatorIsBrowserServer == Spec => McpSpec
<1>1. Init => McpInit
    BY DEF Init
<1> QED
    BY <1>1, InitMcp, NextMcp, StepOfBrowser, PTL DEF Spec, McpSpec

\* A session in the map has its browser, and a browser that a session has is
\* in the map or with the one call that releases it.
THEOREM SessionBackedHolds == Spec => []SessionBacked
<1>1. McpInv => SessionBacked
    BY DEF McpInv
<1> QED
    BY <1>1, AggregatorIsBrowserServer, McpInvHolds, PTL

\* No call keeps a page, or makes one, once its session is released.
THEOREM PageGoesWithSessionHolds == Spec => []PageGoesWithSession
<1>1. McpInv => PageGoesWithSession
    BY DEF McpInv
<1> QED
    BY <1>1, AggregatorIsBrowserServer, McpInvHolds, PTL

\* A session whose URL is noted keeps its one page until it is released.
THEOREM PageOnceHolds == Spec => []PageOnce
<1>1. McpInv => PageOnce
    BY DEF McpInv, PageOnce, Types, SessionBacked, Opening, PageStays, Backed
<1> QED
    BY <1>1, AggregatorIsBrowserServer, McpInvHolds, PTL

-----------------------------------------------------------------------------
(* The pool below the sessions                                             *)

LEMMA OnIsSession == ASSUME McpInv, NEW c \in Calls, pc[c] # "idle" PROVE on[c] \in Ids
BY DEF McpInv, Types, Idle

LEMMA StepOfPool == ASSUME McpInv, [McpNext]_browserMcpVars PROVE [Pool!Next]_(Pool!vars)
<1> DEFINE Goal == Pool!Next \/ UNCHANGED poolVars
<1> SUFFICES Goal
    BY DEF poolVars, Pool!vars
<1>same. ASSUME UNCHANGED poolVars PROVE Goal
    BY <1>same
<1>take. ASSUME NEW s \in Ids, NEW b \in Browsers, Pool!Lend(b, s) \/ Pool!Open(b, s) PROVE Goal
    BY <1>take DEF Pool!Next
<1>give. ASSUME NEW s \in Ids, Pool!GiveBack(s) \/ Pool!Discard(s) PROVE Goal
    BY <1>give DEF Pool!Next
<1>turn. ASSUME NEW b \in Browsers, Pool!Warm(b) \/ Pool!Close({b}) PROVE Goal
    BY <1>turn DEF Pool!Next
<1> HIDE DEF Goal
<1>1. CASE UNCHANGED browserMcpVars
    BY <1>1, <1>same DEF browserMcpVars
<1>2. ASSUME NEW c \in Calls, McpBegin(c) PROVE Goal
    BY <1>2, <1>same DEF McpBegin, Acquire, Attach, Release, Use
<1>3. ASSUME NEW c \in Calls, AcquireOk(c) PROVE Goal
  <2>1. on[c] \in Ids
      BY <1>3, OnIsSession DEF AcquireOk
  <2> QED
      BY <1>3, <2>1, <1>take DEF AcquireOk
<1>4. ASSUME NEW c \in Calls, ReleaseBrowser(c) PROVE Goal
  <2>1. on[c] \in Ids
      BY <1>4, OnIsSession DEF ReleaseBrowser
  <2> QED
      BY <1>4, <2>1, <1>give, <1>same DEF ReleaseBrowser
<1>5. ASSUME NEW c \in Calls,
             \/ HasPage(c) \/ MissesPage(c) \/ OpenPage(c) \/ NewPageOk(c) \/ WorkBegins(c)
             \/ Navigated(c) \/ WorkOk(c) \/ Note(c) \/ ReleasePage(c) \/ Fails(c)
      PROVE  Goal
  <2>1. UNCHANGED poolVars
      BY <1>5 DEF HasPage, MissesPage, OpenPage, NewPageOk, WorkBegins, Navigated, WorkOk, Note,
         ReleasePage, Fails, AcquireErr, OpenTooLate, NewPageErr, WorkTooLate, WorkErr
  <2> QED
      BY <2>1, <1>same
<1>6. CASE PoolStep
    BY <1>6, <1>turn DEF PoolStep
<1> QED
    BY <1>1, <1>2, <1>3, <1>4, <1>5, <1>6 DEF McpNext, McpStep, GoesOn, Succeeds

\* Each session of the browser server is a user of the pool: it takes a browser
\* with nothing in hand, and the one call that releases it gives that one back.
LEMMA SessionsUsePool == McpSpec => Pool!Spec
<1>1. McpInit => Pool!Init
    BY DEF McpInit
<1> QED
    BY <1>1, McpInvHolds, StepOfPool, PTL DEF McpSpec, Pool!Spec

\* And so it is in the aggregator.
THEOREM AggregatorUsesPool == Spec => Pool!Spec
BY AggregatorIsBrowserServer, SessionsUsePool, PTL

\* A browser that one session has is lent, and is no other session's.
LentApart ==
    /\ state \in [Browsers -> {"absent", "idle", "lent"}]
    /\ hand \in [Ids -> Browsers \cup {Nothing}]
    /\ \A s \in Ids : hand[s] # Nothing =>
          /\ state[hand[s]] = "lent"
          /\ \A t \in Ids \ {s} : hand[t] # hand[s]

\* A step that takes b, idle or absent, for session s.
LEMMA Taking ==
    ASSUME LentApart, NEW s \in Ids, NEW b \in Browsers, state[b] # "lent", hand[s] = Nothing,
           state' = [state EXCEPT ![b] = "lent"], hand' = [hand EXCEPT ![s] = b]
    PROVE  LentApart'
<1>1. /\ state' \in [Browsers -> {"absent", "idle", "lent"}]
      /\ hand' \in [Ids -> Browsers \cup {Nothing}]
    BY DEF LentApart
<1>2. \A t \in Ids : hand[t] # b
    BY DEF LentApart
<1> QED
    BY <1>1, <1>2 DEF LentApart

\* A step after which the browsers in the hands that keep theirs are as before.
LEMMA Keeping ==
    ASSUME LentApart,
           state' \in [Browsers -> {"absent", "idle", "lent"}],
           hand' \in [Ids -> Browsers \cup {Nothing}],
           \A s \in Ids : hand'[s] # Nothing => hand'[s] = hand[s] /\ state'[hand[s]] = "lent"
    PROVE  LentApart'
<1>1. ASSUME NEW s \in Ids, hand'[s] # Nothing
      PROVE  state'[hand'[s]] = "lent" /\ \A t \in Ids \ {s} : hand'[t] # hand'[s]
    BY <1>1 DEF LentApart
<1> QED
    BY <1>1 DEF LentApart

LEMMA LentApartNext == LentApart /\ [Pool!Next]_(Pool!vars) => LentApart'
<1> SUFFICES ASSUME LentApart, [Pool!Next]_(Pool!vars) PROVE LentApart'
    OBVIOUS
<1>1. CASE UNCHANGED Pool!vars
    BY <1>1 DEF Pool!vars, LentApart
<1>2. ASSUME NEW s \in Ids, NEW k \in {Common}, Pool!Ask(s, k) PROVE LentApart'
    BY <1>2 DEF Pool!Ask, LentApart
<1>3. ASSUME NEW b \in Browsers, Pool!Warm(b) PROVE LentApart'
  <2>1. /\ state[b] = "absent" /\ hand' = hand
        /\ state' = [state EXCEPT ![b] = "idle"]
      BY <1>3 DEF Pool!Warm
  <2>2. /\ state' \in [Browsers -> {"absent", "idle", "lent"}]
        /\ \A s \in Ids : hand[s] # Nothing => hand[s] \in Browsers \ {b}
      BY <2>1 DEF LentApart
  <2>3. \A s \in Ids : hand'[s] # Nothing => hand'[s] = hand[s] /\ state'[hand[s]] = "lent"
      BY <2>1, <2>2 DEF LentApart
  <2> QED
      BY <2>1, <2>2, <2>3, Keeping DEF LentApart
<1>4. ASSUME NEW b \in Browsers, NEW s \in Ids, Pool!Open(b, s) \/ Pool!Lend(b, s) PROVE LentApart'
    BY <1>4, Taking DEF Pool!Open, Pool!Lend
<1>5. ASSUME NEW s \in Ids, Pool!GiveBack(s) \/ Pool!Discard(s) PROVE LentApart'
  <2>1. /\ hand[s] \in Browsers /\ hand' = [hand EXCEPT ![s] = Nothing]
        /\ \A t \in Ids \ {s} : hand[t] # hand[s]
      BY <1>5 DEF Pool!GiveBack, Pool!Discard, Pool!Done, LentApart
  <2>2. /\ state' \in [Browsers -> {"absent", "idle", "lent"}]
        /\ \A b \in Browsers \ {hand[s]} : state'[b] = state[b]
    <3>1. CASE Pool!GiveBack(s)
        BY <2>1, <3>1 DEF Pool!GiveBack, LentApart
    <3>2. CASE Pool!Discard(s)
        BY <2>1, <3>2 DEF Pool!Discard, Pool!Leave, LentApart
    <3> QED
        BY <1>5, <3>1, <3>2
  <2>3. /\ hand' \in [Ids -> Browsers \cup {Nothing}] /\ hand'[s] = Nothing
        /\ \A t \in Ids \ {s} : hand'[t] = hand[t]
      BY <2>1 DEF LentApart
  <2>4. \A t \in Ids : hand'[t] # Nothing => hand'[t] = hand[t] /\ state'[hand[t]] = "lent"
      BY <2>1, <2>2, <2>3 DEF LentApart
  <2> QED
      BY <2>2, <2>3, <2>4, Keeping
<1>6. ASSUME NEW S \in SUBSET Browsers, Pool!Close(S) PROVE LentApart'
  <2>1. /\ \A b \in S : state[b] = "idle"
        /\ hand' = hand
        /\ state' = [b \in Browsers |-> IF b \in S THEN "absent" ELSE state[b]]
      BY <1>6 DEF Pool!Close, Pool!Leave
  <2>2. /\ state' \in [Browsers -> {"absent", "idle", "lent"}]
        /\ \A s \in Ids : hand'[s] # Nothing => hand'[s] = hand[s] /\ state'[hand[s]] = "lent"
      BY <2>1 DEF LentApart
  <2> QED
      BY <2>1, <2>2, Keeping DEF LentApart
<1> QED
    BY <1>1, <1>2, <1>3, <1>4, <1>5, <1>6 DEF Pool!Next

\* Two sessions have pages on the same pooled browser only while one of them is
\* being released.  tool_browser_release gives the browser back before it closes
\* the page, so the next holder may meet the page of the last one, and nobody
\* else's.
PagesApart ==
    \A s, t \in Ids :
        s # t /\ pageOn[s] \in Browsers /\ pageOn[s] = pageOn[t] => Releasing(s) \/ Releasing(t)

\* A page is on its session's own browser, and the pool lends a browser once.
THEOREM PagesApartHolds == Spec => []PagesApart
<1>1. Pool!Init => LentApart
    BY DEF Pool!Init, LentApart
<1>2. Pool!Spec => []LentApart
    BY <1>1, LentApartNext, PTL DEF Pool!Spec
<1>3. McpInv /\ LentApart => PagesApart
    BY DEF McpInv, PageGoesWithSession, LentApart, PagesApart
<1> QED
    BY <1>2, <1>3, AggregatorIsBrowserServer, AggregatorUsesPool, McpInvHolds, PTL

-----------------------------------------------------------------------------
(* What scrape_proxied leaves behind                                       *)

\* Of the aggregator's own variables; the tool has a handle from the moment it is
\* taken to the answer, and clients only know of handles that are in the store.
ToolOK ==
    /\ front \in {"browser", "proxy", "aggregator"}
    /\ stage \in {"idle", "proxy", "scrape", "release"} /\ good \in BOOLEAN
    /\ stage # "idle" => front = "aggregator"
    /\ tok \in Tokens \cup {Nothing}
    /\ tok = Nothing <=> stage \in {"idle", "proxy"}

HandlesOK ==
    /\ ProxyTypeOK
    /\ clients \subseteq stored
    /\ stored \subseteq clients \cup {tok}
    /\ tok # Nothing => tok \in stored \ clients

AggInv == ToolOK /\ HandlesOK

LEMMA InitAgg == Init => AggInv
BY DEF Init, AggInv, ToolOK, HandlesOK, ProxyInit, ProxyTypeOK

\* Proxy tools of clients, and the cleanup, do not meet a handle of scrape_proxied.
LEMMA HandlesAgg == ASSUME AggInv, ProxyTool \/ HandlesAge PROVE AggInv'
<1> USE AggregatorAssumption DEF AggInv, HandlesOK, ProxyTypeOK
<1>1. UNCHANGED <<front, stage, tok, good>>
    BY DEF ProxyTool, HandlesAge, aggVars
<1>2. ToolOK'
    BY <1>1 DEF ToolOK
<1>3. CASE ProxyTool
  <2>1. tok = Nothing /\ clients' = (clients \cup (stored' \ stored)) \ (stored \ stored')
      BY <1>3 DEF ProxyTool, ToolOK
  <2>2. ASSUME NEW t \in Tokens, ProxyAcquire(t) PROVE HandlesOK'
      BY <1>1, <2>1, <2>2 DEF ProxyAcquire
  <2>3. ASSUME NEW t \in clients, NEW b \in BOOLEAN, ProxyRelease(t, b) PROVE HandlesOK'
      BY <1>1, <2>1, <2>3 DEF ProxyRelease, Resolve
  <2> QED
      BY <1>2, <1>3, <2>2, <2>3 DEF ProxyTool
<1>4. CASE HandlesAge
  <2>1. clients' = clients \ (stored \ stored')
      BY <1>4 DEF HandlesAge
  <2>2. ASSUME NEW t \in Tokens, Grow(t) PROVE HandlesOK'
      BY <1>1, <2>1, <2>2 DEF Grow
  <2>3. ASSUME front = "proxy", Cleanup PROVE HandlesOK'
    <3>1. tok = Nothing
        BY <2>3 DEF ToolOK
    <3> QED
        BY <1>1, <2>1, <2>3, <3>1 DEF Cleanup, Resolve
  <2> QED
      BY <1>2, <1>4, <2>2, <2>3 DEF HandlesAge
<1> QED
    BY <1>3, <1>4

LEMMA ToolAgg == ASSUME AggInv, ScrapeProxied PROVE AggInv'
<1> USE AggregatorAssumption DEF AggInv, HandlesOK, ProxyTypeOK, ToStage
<1>0. UNCHANGED <<front, clients>>
    BY DEF ScrapeProxied
<1>1. CASE Begin \/ NoProxy \/ Scraped
  <2>1. UNCHANGED <<stored, old, verdict, tok>>
      BY <1>1 DEF Begin, NoProxy, Scraped, proxyMcpVars
  <2>2. ToolOK'
      BY <1>0, <1>1, <2>1 DEF Begin, NoProxy, Scraped, ToolOK
  <2> QED
      BY <1>0, <2>1, <2>2
<1>2. CASE TakeProxy
  <2>1. ToolOK'
      BY <1>0, <1>2 DEF TakeProxy, ToolOK
  <2>2. PICK t \in Tokens : ProxyAcquire(t) /\ tok' = t
      BY <1>2 DEF TakeProxy
  <2>3. HandlesOK'
      BY <1>0, <1>2, <2>2 DEF TakeProxy, ProxyAcquire, ToolOK
  <2> QED
      BY <2>1, <2>3
<1>3. CASE PutBackProxy
  <2>1. ToolOK'
      BY <1>0, <1>3 DEF PutBackProxy, ToolOK
  <2>2. HandlesOK'
      BY <1>0, <1>3 DEF PutBackProxy, ProxyRelease, Resolve
  <2> QED
      BY <2>1, <2>2
<1> QED
    BY <1>1, <1>2, <1>3 DEF ScrapeProxied

LEMMA NextAgg == AggInv /\ [Next]_vars => AggInv'
<1> SUFFICES ASSUME AggInv, [Next]_vars PROVE AggInv'
    OBVIOUS
<1>1. CASE BrowserTool \/ PoolTurns \/ UNCHANGED vars
  <2>1. UNCHANGED <<stored, old, verdict, front, stage, tok, good, clients>>
      BY <1>1 DEF BrowserTool, PoolTurns, vars, proxyMcpVars, aggVars
  <2> QED
      BY <2>1 DEF AggInv, ToolOK, HandlesOK, ProxyTypeOK
<1> QED
    BY <1>1, HandlesAgg, ToolAgg DEF Next

LEMMA AggInvHolds == Spec => []AggInv
<1> QED
    BY InitAgg, NextAgg, PTL DEF Spec

\* Every variable of the servers and of the aggregator has its type.
THEOREM AggregatorTypes == Spec => []TypeOK
<1>1. McpInv /\ AggInv => TypeOK
    BY DEF AggInv, TypeOK, McpTypeOK, McpInv, Types, Idle, Locks, ToolOK, HandlesOK, ProxyTypeOK
<1> QED
    BY <1>1, AggInvHolds, AggregatorIsBrowserServer, McpInvHolds, PTL

\* No handle is in the store that nobody remembers, and nobody takes away the
\* handle scrape_proxied works with: it is there to be given back on either outcome.
THEOREM NothingLeftHolds == Spec => []NothingLeft
<1>1. AggInv => NothingLeft
    BY DEF AggInv, NothingLeft, ToolOK, HandlesOK
<1> QED
    BY <1>1, AggInvHolds, PTL

=============================================================================
