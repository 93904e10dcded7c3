------------------------- MODULE ProxyManagerProofs -------------------------
(***************************************************************************)
(* The inductive invariant of ProxyManager: who holds the lock of the      *)
(* breakers, what a call's snapshots may name, and that a proxy in the     *)
(* storage has a breaker unless add_proxy is between the two.              *)
(***************************************************************************)
EXTENDS MCProxyManager, TLAPS

LocksOK ==
    /\ LockDiscipline
    /\ \A t \in Tasks : pc[t] \in {"add", "register"} => writer = t

\* Whatever a call or a session names has been drawn, and an id is drawn once.
KnownOK ==
    /\ \A t \in Tasks : /\ hand[t] \in drawn \cup {NoProxy}
                        /\ listed[t] \subseteq drawn /\ cands[t] \subseteq drawn
                        /\ pc[t] \in {"register", "unregister"} => hand[t] # NoProxy
    /\ \A d \in Domains : session[d] \in drawn \cup {NoProxy}

PoolOK ==
    /\ \A p \in store \ registered : \E t \in Tasks : pc[t] = "register" /\ hand[t] = p
    /\ \A t \in Tasks : pc[t] = "unregister" => hand[t] \notin store

SelectOK ==
    /\ \A t \in Tasks : pc[t] = "select" => cands[t] \cap store \subseteq registered
    /\ SelectedHasBreaker

StoredOK ==
    \A t \in Tasks : pc[t] \in Acquiring =>
      /\ store \subseteq stored[t]
      /\ pc[t] \in {"cands", "ask"} => listed[t] \subseteq stored[t]
      /\ pc[t] = "select" => cands[t] \subseteq stored[t]
      /\ pc[t] \in {"breaker", "bind"} => hand[t] \in stored[t]

UsableOK ==
    \A t \in Tasks : pc[t] \in Acquiring =>
      /\ \A p \in registered : Available(p) => p \in usable[t]
      /\ pc[t] = "select" => cands[t] \cap registered \subseteq usable[t]
      /\ pc[t] = "breaker" /\ hand[t] \in registered => hand[t] \in usable[t]
      /\ pc[t] \in {"url", "bind"} => hand[t] \in usable[t]

IInv == /\ TypeOK /\ LocksOK /\ KnownOK /\ PoolOK
        /\ SelectOK /\ StoredOK /\ UsableOK

----------------------------------------------------------------------------
LEMMA NextCases ==
  ASSUME Next, NEW P,
         \A t \in Tasks : AcquirePlain(t) => P,
         \A t \in Tasks : \A d \in Domains : AcquireFresh(t, d) => P,
         \A t \in Tasks : \A d \in Domains : AcquireSticky(t, d) => P,
         \A t \in Tasks : CheckBound(t) => P,
         \A t \in Tasks : BoundUrl(t) => P,
         \A t \in Tasks : DropStale(t) => P,
         \A t \in Tasks : List(t) => P,
         \A t \in Tasks : Candidates(t) => P,
         \A t \in Tasks : Select(t) => P,
         \A t \in Tasks : TakeBreaker(t) => P,
         \A t \in Tasks : Bind(t) => P,
         \A t \in Tasks : CancelCall(t) => P,
         \A t \in Tasks : DropMarked(t) => P,
         \A t \in Tasks : DropUnmarked(t) => P,
         \A t \in Tasks : UnbindOnFailure(t) => P,
         \A t \in Tasks : AddLock(t) => P,
         \A t \in Tasks : AddStore(t) => P,
         \A t \in Tasks : Register(t) => P,
         \A t \in Tasks : AddFails(t) => P,
         \A t \in Tasks : RemoveStore(t) => P,
         \A t \in Tasks : Unregister(t) => P,
         \A t \in Tasks : CancelRemove(t) => P,
         HealthCheck => P,
         \A t \in Tasks : Tally(t) => P,
         WindowOver => P,
         Expire => P,
         \A t \in Tasks : LookHealth(t) => P,
         \A t \in Tasks : StatsList(t) => P,
         \A t \in Tasks : StatsHealth(t) => P
  PROVE  P
BY DEF Next, Acquire, Release, Stats, Mutate

LEMMA TypeStep ==
  ASSUME IInv, Next
  PROVE  TypeOK'
<1>1. ASSUME NEW t \in Tasks, AcquirePlain(t) PROVE TypeOK'
  BY <1>1 DEF IInv, TypeOK, Locations, Acquiring, AcquirePlain, Begin, Goto, poolVars,
     breakerVars, lockVars
<1>2. ASSUME NEW t \in Tasks, NEW d \in Domains, AcquireFresh(t, d) PROVE TypeOK'
  BY <1>2 DEF IInv, TypeOK, Locations, Acquiring, AcquireFresh, Begin, Goto, UnbindSession,
     BindSession, Skipped, poolVars, breakerVars, lockVars
<1>3. ASSUME NEW t \in Tasks, NEW d \in Domains, AcquireSticky(t, d) PROVE TypeOK'
  BY <1>3 DEF IInv, TypeOK, Locations, Acquiring, AcquireSticky, Begin, Goto, Lookups, poolVars,
     breakerVars, lockVars
<1>4. ASSUME NEW t \in Tasks, CheckBound(t) PROVE TypeOK'
  BY <1>4 DEF IInv, TypeOK, Circuits, Locations, Acquiring, CheckBound, Ask, Goto, poolVars,
     seenVars
<1>5. ASSUME NEW t \in Tasks, BoundUrl(t) PROVE TypeOK'
  BY SMTT(30), <1>5 DEF IInv, TypeOK, Locations, Acquiring, BoundUrl, Grant, Goto, poolVars, breakerVars,
     seenVars
<1>6. ASSUME NEW t \in Tasks, DropStale(t) PROVE TypeOK'
  BY <1>6 DEF IInv, TypeOK, Locations, Acquiring, DropStale, UnbindSession, BindSession, Skipped,
     Goto, poolVars, breakerVars, lockVars, seenVars
<1>7. ASSUME NEW t \in Tasks, List(t) PROVE TypeOK'
  BY SMTT(30), <1>7 DEF IInv, TypeOK, Locations, Acquiring, List, Leave, Goto, poolVars, breakerVars,
     lockVars, seenVars
<1>8. ASSUME NEW t \in Tasks, Candidates(t) PROVE TypeOK'
  BY <1>8 DEF IInv, TypeOK, Circuits, Locations, Acquiring, Candidates, Keep, Healthy, Ask, Goto, poolVars,
     lockVars, seenVars
<1>9. ASSUME NEW t \in Tasks, Select(t) PROVE TypeOK'
  BY SMTT(30), <1>9 DEF IInv, TypeOK, Locations, Acquiring, Select, Leave, Goto, poolVars, breakerVars,
     lockVars, seenVars
<1>10. ASSUME NEW t \in Tasks, TakeBreaker(t) PROVE TypeOK'
  BY SMTT(30), <1>10 DEF IInv, TypeOK, Locations, Acquiring, TakeBreaker, Leave, Grant, Goto, poolVars,
     breakerVars, lockVars, seenVars
<1>11. ASSUME NEW t \in Tasks, Bind(t) PROVE TypeOK'
  BY <1>11 DEF IInv, TypeOK, Locations, Bind, BindSession, Skipped, Grant, Goto, poolVars,
     breakerVars, lockVars
<1>12. ASSUME NEW t \in Tasks, CancelCall(t) PROVE TypeOK'
  BY <1>12 DEF IInv, TypeOK, Locations, CancelCall, Leave, Goto, poolVars, breakerVars
<1>13. ASSUME NEW t \in Tasks, DropMarked(t) PROVE TypeOK'
  <2>1. hand[t] \in Proxies => fails[hand[t]] \in 0..Threshold
    BY DEF IInv, TypeOK
  <2>2. Threshold \in Nat /\ 0 \in 0..Threshold
    BY ManagerAssumption
  <2>3. circuit' \in [Proxies -> Circuits] /\ ripe' \subseteq {p \in Proxies : circuit'[p] = "open"}
    BY <1>13 DEF IInv, TypeOK, Circuits, DropMarked, RecordSuccess
  <2>4. fails' \in [Proxies -> 0..Threshold]
    BY <1>13, <2>2 DEF IInv, TypeOK, DropMarked, RecordSuccess
  <2> QED BY <1>13, <2>3, <2>4 DEF IInv, TypeOK, Locations, DropMarked, Leave, Goto, poolVars,
             lockVars
<1>14. ASSUME NEW t \in Tasks, DropUnmarked(t) PROVE TypeOK'
  <2>1. Threshold \in Nat
    BY ManagerAssumption
  <2>2. hand[t] \in Proxies => fails[hand[t]] \in 0..Threshold
    BY DEF IInv, TypeOK
  <2>3. circuit' \in [Proxies -> Circuits]
    BY <1>14 DEF IInv, TypeOK, Circuits, DropUnmarked, RecordFailure
  <2>4. ripe' \subseteq {p \in Proxies : circuit'[p] = "open"}
    BY <1>14 DEF IInv, TypeOK, Circuits, DropUnmarked, RecordFailure
  <2>5. fails' \in [Proxies -> 0..Threshold]
    <3> DEFINE n == IF fails[hand[t]] < Threshold THEN fails[hand[t]] + 1 ELSE Threshold
    <3>1. fails' = [fails EXCEPT ![hand[t]] = n]
      BY <1>14 DEF DropUnmarked, RecordFailure
    <3>2. hand[t] \in Proxies => n \in 0..Threshold
      BY <2>1, <2>2
    <3> HIDE DEF n
    <3> QED BY <3>1, <3>2 DEF IInv, TypeOK
  <2>6. pc' \in [Tasks -> Locations]
    BY <1>14 DEF IInv, TypeOK, Locations, DropUnmarked, Leave, Goto
  <2> QED BY SMTT(30), <1>14, <2>3, <2>4, <2>5, <2>6 DEF IInv, TypeOK, DropUnmarked, Leave, poolVars,
             lockVars, seenVars
<1>15. ASSUME NEW t \in Tasks, UnbindOnFailure(t) PROVE TypeOK'
  BY <1>15 DEF IInv, TypeOK, Locations, UnbindOnFailure, UnbindSession, BindSession, Skipped,
     Leave, Goto, poolVars, breakerVars, lockVars
<1>16. ASSUME NEW t \in Tasks, AddLock(t) PROVE TypeOK'
  BY <1>16 DEF IInv, TypeOK, Locations, AddLock, Goto, poolVars, breakerVars, seenVars
<1>17. ASSUME NEW t \in Tasks, AddStore(t) PROVE TypeOK'
  BY <1>17 DEF IInv, TypeOK, Locations, AddStore, Goto, Note, breakerVars, lockVars
<1>18. ASSUME NEW t \in Tasks, Register(t) PROVE TypeOK'
  BY <1>18 DEF IInv, TypeOK, KnownOK, Locations, Register, Goto, Note, breakerVars
<1>19. ASSUME NEW t \in Tasks, AddFails(t) PROVE TypeOK'
  BY <1>19 DEF IInv, TypeOK, Locations, AddFails, Leave, Goto, poolVars, breakerVars
<1>20. ASSUME NEW t \in Tasks, RemoveStore(t) PROVE TypeOK'
  BY <1>20 DEF IInv, TypeOK, Locations, RemoveStore, Goto, breakerVars, lockVars, seenVars
<1>21. ASSUME NEW t \in Tasks, Unregister(t) PROVE TypeOK'
  BY <1>21 DEF IInv, TypeOK, Locations, Unregister, Leave, Goto, breakerVars, lockVars
<1>22. ASSUME NEW t \in Tasks, CancelRemove(t) PROVE TypeOK'
  BY <1>22 DEF IInv, TypeOK, Locations, CancelRemove, Leave, Goto, poolVars, breakerVars, lockVars
<1>23. ASSUME HealthCheck PROVE TypeOK'
  BY <1>23 DEF IInv, TypeOK, HealthCheck, poolVars, breakerVars, lockVars, seenVars, callVars
<1>24. ASSUME NEW t \in Tasks, Tally(t) PROVE TypeOK'
  BY <1>24 DEF IInv, TypeOK, Circuits, Locations, Acquiring, Tally, Leave, Ask, Goto, poolVars,
     breakerVars, lockVars, seenVars
<1>25. ASSUME WindowOver PROVE TypeOK'
  BY <1>25 DEF IInv, TypeOK, WindowOver, Note, poolVars, lockVars, callVars
<1>26. ASSUME Expire PROVE TypeOK'
  BY <1>26 DEF IInv, TypeOK, Expire, poolVars, breakerVars, lockVars, seenVars, callVars
<1>27. ASSUME NEW t \in Tasks, LookHealth(t) PROVE TypeOK'
  BY <1>27 DEF IInv, TypeOK, Locations, Acquiring, LookHealth, Goto, poolVars, breakerVars,
     lockVars, seenVars
<1>28. ASSUME NEW t \in Tasks, StatsList(t) PROVE TypeOK'
  BY <1>28 DEF IInv, TypeOK, Locations, Acquiring, StatsList, Goto, poolVars, breakerVars,
     lockVars, seenVars
<1>29. ASSUME NEW t \in Tasks, StatsHealth(t) PROVE TypeOK'
  BY <1>29 DEF IInv, TypeOK, Locations, Acquiring, StatsHealth, Goto, poolVars, breakerVars,
     lockVars, seenVars
<1> QED
  BY NextCases, <1>1, <1>2, <1>3, <1>4, <1>5, <1>6, <1>7, <1>8, <1>9, <1>10, <1>11, <1>12, <1>13,
     <1>14, <1>15, <1>16, <1>17, <1>18, <1>19, <1>20, <1>21, <1>22, <1>23, <1>24, <1>25, <1>26,
     <1>27, <1>28, <1>29

LEMMA LocksStep ==
  ASSUME IInv, Next
  PROVE  LocksOK'
<1>1. ASSUME NEW t \in Tasks, AcquirePlain(t) PROVE LocksOK'
  BY <1>1 DEF IInv, LocksOK, LockDiscipline, AcquirePlain, Goto, lockVars
<1>2. ASSUME NEW t \in Tasks, NEW d \in Domains, AcquireFresh(t, d) PROVE LocksOK'
  BY <1>2 DEF IInv, LocksOK, LockDiscipline, AcquireFresh, Goto, lockVars
<1>3. ASSUME NEW t \in Tasks, NEW d \in Domains, AcquireSticky(t, d) PROVE LocksOK'
  BY <1>3 DEF IInv, LocksOK, LockDiscipline, AcquireSticky, Goto, lockVars
<1>4. ASSUME NEW t \in Tasks, CheckBound(t) PROVE LocksOK'
  BY <1>4 DEF IInv, TypeOK, LocksOK, LockDiscipline, CheckBound, Goto, ReadFree
<1>5. ASSUME NEW t \in Tasks, BoundUrl(t) PROVE LocksOK'
  BY <1>5 DEF IInv, TypeOK, LocksOK, LockDiscipline, BoundUrl, Grant, Goto
<1>6. ASSUME NEW t \in Tasks, DropStale(t) PROVE LocksOK'
  BY <1>6 DEF IInv, LocksOK, LockDiscipline, DropStale, Goto, lockVars
<1>7. ASSUME NEW t \in Tasks, List(t) PROVE LocksOK'
  BY <1>7 DEF IInv, TypeOK, LocksOK, LockDiscipline, List, Leave, Goto, lockVars
<1>8. ASSUME NEW t \in Tasks, Candidates(t) PROVE LocksOK'
  BY <1>8 DEF IInv, LocksOK, LockDiscipline, Candidates, Keep, Healthy, Goto, lockVars
<1>9. ASSUME NEW t \in Tasks, Select(t) PROVE LocksOK'
  BY <1>9 DEF IInv, TypeOK, LocksOK, LockDiscipline, Select, Leave, Goto, lockVars
<1>10. ASSUME NEW t \in Tasks, TakeBreaker(t) PROVE LocksOK'
  BY <1>10 DEF IInv, TypeOK, LocksOK, LockDiscipline, TakeBreaker, Leave, Grant, Goto, lockVars
<1>11. ASSUME NEW t \in Tasks, Bind(t) PROVE LocksOK'
  BY <1>11 DEF IInv, LocksOK, LockDiscipline, Bind, Grant, Goto, lockVars
<1>12. ASSUME NEW t \in Tasks, CancelCall(t) PROVE LocksOK'
  BY <1>12 DEF IInv, LocksOK, LockDiscipline, CancelCall, Leave, Goto
<1>13. ASSUME NEW t \in Tasks, DropMarked(t) PROVE LocksOK'
  BY <1>13 DEF IInv, LocksOK, LockDiscipline, DropMarked, Leave, Goto, lockVars
<1>14. ASSUME NEW t \in Tasks, DropUnmarked(t) PROVE LocksOK'
  BY <1>14 DEF IInv, TypeOK, LocksOK, LockDiscipline, DropUnmarked, Leave, Goto, lockVars
<1>15. ASSUME NEW t \in Tasks, UnbindOnFailure(t) PROVE LocksOK'
  BY <1>15 DEF IInv, LocksOK, LockDiscipline, UnbindOnFailure, Leave, Goto, lockVars
<1>16. ASSUME NEW t \in Tasks, AddLock(t) PROVE LocksOK'
  BY <1>16, ManagerAssumption DEF IInv, TypeOK, LocksOK, LockDiscipline, AddLock, WriteFree, Goto
<1>17. ASSUME NEW t \in Tasks, AddStore(t) PROVE LocksOK'
  BY <1>17 DEF IInv, LocksOK, LockDiscipline, AddStore, Goto, lockVars
<1>18. ASSUME NEW t \in Tasks, Register(t) PROVE LocksOK'
  BY <1>18 DEF IInv, TypeOK, LocksOK, LockDiscipline, Register, Goto
<1>19. ASSUME NEW t \in Tasks, AddFails(t) PROVE LocksOK'
  BY <1>19 DEF IInv, TypeOK, LocksOK, LockDiscipline, AddFails, Leave, Goto
<1>20. ASSUME NEW t \in Tasks, RemoveStore(t) PROVE LocksOK'
  BY <1>20 DEF IInv, LocksOK, LockDiscipline, RemoveStore, Goto, lockVars
<1>21. ASSUME NEW t \in Tasks, Unregister(t) PROVE LocksOK'
  BY <1>21 DEF IInv, LocksOK, LockDiscipline, Unregister, Leave, Goto, lockVars
<1>22. ASSUME NEW t \in Tasks, CancelRemove(t) PROVE LocksOK'
  BY <1>22 DEF IInv, LocksOK, LockDiscipline, CancelRemove, Leave, Goto, lockVars
<1>23. ASSUME HealthCheck PROVE LocksOK'
  BY <1>23 DEF IInv, LocksOK, LockDiscipline, HealthCheck, lockVars, callVars
<1>24. ASSUME NEW t \in Tasks, Tally(t) PROVE LocksOK'
  BY <1>24 DEF IInv, TypeOK, LocksOK, LockDiscipline, Tally, Leave, Goto, lockVars
<1>25. ASSUME WindowOver PROVE LocksOK'
  BY <1>25 DEF IInv, LocksOK, LockDiscipline, WindowOver, lockVars, callVars
<1>26. ASSUME Expire PROVE LocksOK'
  BY <1>26 DEF IInv, LocksOK, LockDiscipline, Expire, lockVars, callVars
<1>27. ASSUME NEW t \in Tasks, LookHealth(t) PROVE LocksOK'
  BY <1>27 DEF IInv, TypeOK, LocksOK, LockDiscipline, LookHealth, Goto, lockVars
<1>28. ASSUME NEW t \in Tasks, StatsList(t) PROVE LocksOK'
  BY <1>28 DEF IInv, TypeOK, LocksOK, LockDiscipline, StatsList, Goto, lockVars
<1>29. ASSUME NEW t \in Tasks, StatsHealth(t) PROVE LocksOK'
  BY <1>29 DEF IInv, TypeOK, LocksOK, LockDiscipline, StatsHealth, Goto, lockVars
<1> QED
  BY NextCases, <1>1, <1>2, <1>3, <1>4, <1>5, <1>6, <1>7, <1>8, <1>9, <1>10, <1>11, <1>12, <1>13,
     <1>14, <1>15, <1>16, <1>17, <1>18, <1>19, <1>20, <1>21, <1>22, <1>23, <1>24, <1>25, <1>26,
     <1>27, <1>28, <1>29

LEMMA KnownStep ==
  ASSUME IInv, Next
  PROVE  KnownOK'
<1>1. ASSUME NEW t \in Tasks, AcquirePlain(t) PROVE KnownOK'
  BY <1>1 DEF IInv, KnownOK, AcquirePlain, Goto, poolVars
<1>2. ASSUME NEW t \in Tasks, NEW d \in Domains, AcquireFresh(t, d) PROVE KnownOK'
  BY <1>2 DEF IInv, TypeOK, KnownOK, AcquireFresh, Goto, UnbindSession, BindSession, Skipped,
     poolVars
<1>3. ASSUME NEW t \in Tasks, NEW d \in Domains, AcquireSticky(t, d) PROVE KnownOK'
  BY <1>3 DEF IInv, KnownOK, AcquireSticky, Goto, Lookups, poolVars
<1>4. ASSUME NEW t \in Tasks, CheckBound(t) PROVE KnownOK'
  BY <1>4 DEF IInv, KnownOK, CheckBound, Goto, poolVars
<1>5. ASSUME NEW t \in Tasks, BoundUrl(t) PROVE KnownOK'
  BY <1>5 DEF IInv, TypeOK, KnownOK, BoundUrl, Grant, Goto, poolVars
<1>6. ASSUME NEW t \in Tasks, DropStale(t) PROVE KnownOK'
  BY <1>6 DEF IInv, TypeOK, KnownOK, DropStale, UnbindSession, BindSession, Skipped, Goto, poolVars
<1>7. ASSUME NEW t \in Tasks, List(t) PROVE KnownOK'
  BY <1>7 DEF IInv, TypeOK, KnownOK, List, Leave, Goto, poolVars
<1>8. ASSUME NEW t \in Tasks, Candidates(t) PROVE KnownOK'
  BY <1>8 DEF IInv, KnownOK, Candidates, Keep, Healthy, Goto, poolVars
<1>9. ASSUME NEW t \in Tasks, Select(t) PROVE KnownOK'
  BY <1>9 DEF IInv, TypeOK, KnownOK, Select, Leave, Goto, poolVars
<1>10. ASSUME NEW t \in Tasks, TakeBreaker(t) PROVE KnownOK'
  BY <1>10 DEF IInv, TypeOK, KnownOK, TakeBreaker, Leave, Grant, Goto, poolVars
<1>11. ASSUME NEW t \in Tasks, Bind(t) PROVE KnownOK'
  BY <1>11 DEF IInv, TypeOK, KnownOK, Bind, BindSession, Skipped, Grant, Goto, poolVars
<1>12. ASSUME NEW t \in Tasks, CancelCall(t) PROVE KnownOK'
  BY <1>12 DEF IInv, KnownOK, CancelCall, Leave, Goto, poolVars
<1>13. ASSUME NEW t \in Tasks, DropMarked(t) PROVE KnownOK'
  BY <1>13 DEF IInv, KnownOK, DropMarked, Leave, Goto, poolVars
<1>14. ASSUME NEW t \in Tasks, DropUnmarked(t) PROVE KnownOK'
  BY <1>14 DEF IInv, TypeOK, KnownOK, DropUnmarked, Leave, Goto, poolVars
<1>15. ASSUME NEW t \in Tasks, UnbindOnFailure(t) PROVE KnownOK'
  BY <1>15 DEF IInv, TypeOK, KnownOK, UnbindOnFailure, UnbindSession, BindSession, Skipped, Leave,
     Goto, poolVars
<1>16. ASSUME NEW t \in Tasks, AddLock(t) PROVE KnownOK'
  BY <1>16 DEF IInv, KnownOK, AddLock, Goto, poolVars
<1>17. ASSUME NEW t \in Tasks, AddStore(t) PROVE KnownOK'
  BY <1>17, ManagerAssumption DEF IInv, TypeOK, KnownOK, AddStore, Goto
<1>18. ASSUME NEW t \in Tasks, Register(t) PROVE KnownOK'
  BY <1>18 DEF IInv, TypeOK, KnownOK, Register, Goto
<1>19. ASSUME NEW t \in Tasks, AddFails(t) PROVE KnownOK'
  BY <1>19 DEF IInv, KnownOK, AddFails, Leave, Goto, poolVars
<1>20. ASSUME NEW t \in Tasks, RemoveStore(t) PROVE KnownOK'
  BY <1>20, ManagerAssumption DEF IInv, TypeOK, KnownOK, RemoveStore, Goto
<1>21. ASSUME NEW t \in Tasks, Unregister(t) PROVE KnownOK'
  BY <1>21 DEF IInv, TypeOK, KnownOK, Unregister, Leave, Goto
<1>22. ASSUME NEW t \in Tasks, CancelRemove(t) PROVE KnownOK'
  BY <1>22 DEF IInv, TypeOK, KnownOK, CancelRemove, Leave, Goto, poolVars
<1>23. ASSUME HealthCheck PROVE KnownOK'
  BY <1>23 DEF IInv, KnownOK, HealthCheck, poolVars, callVars
<1>24. ASSUME NEW t \in Tasks, Tally(t) PROVE KnownOK'
  BY <1>24 DEF IInv, TypeOK, KnownOK, Tally, Leave, Goto, poolVars
<1>25. ASSUME WindowOver PROVE KnownOK'
  BY <1>25 DEF IInv, KnownOK, WindowOver, poolVars, callVars
<1>26. ASSUME Expire PROVE KnownOK'
  BY <1>26 DEF IInv, KnownOK, Expire, poolVars, callVars
<1>27. ASSUME NEW t \in Tasks, LookHealth(t) PROVE KnownOK'
  BY <1>27 DEF IInv, TypeOK, KnownOK, LookHealth, Goto, poolVars
<1>28. ASSUME NEW t \in Tasks, StatsList(t) PROVE KnownOK'
  BY <1>28 DEF IInv, TypeOK, KnownOK, StatsList, Goto, poolVars
<1>29. ASSUME NEW t \in Tasks, StatsHealth(t) PROVE KnownOK'
  BY <1>29 DEF IInv, TypeOK, KnownOK, StatsHealth, Goto, poolVars
<1> QED
  BY NextCases, <1>1, <1>2, <1>3, <1>4, <1>5, <1>6, <1>7, <1>8, <1>9, <1>10, <1>11, <1>12, <1>13,
     <1>14, <1>15, <1>16, <1>17, <1>18, <1>19, <1>20, <1>21, <1>22, <1>23, <1>24, <1>25, <1>26,
     <1>27, <1>28, <1>29

LEMMA PoolStep ==
  ASSUME IInv, Next
  PROVE  PoolOK'
<1>1. ASSUME NEW t \in Tasks, AcquirePlain(t) PROVE PoolOK'
  BY <1>1 DEF IInv, PoolOK, AcquirePlain, Goto, poolVars
<1>2. ASSUME NEW t \in Tasks, NEW d \in Domains, AcquireFresh(t, d) PROVE PoolOK'
  BY <1>2 DEF IInv, PoolOK, AcquireFresh, Goto, poolVars
<1>3. ASSUME NEW t \in Tasks, NEW d \in Domains, AcquireSticky(t, d) PROVE PoolOK'
  BY <1>3 DEF IInv, PoolOK, AcquireSticky, Goto, poolVars
<1>4. ASSUME NEW t \in Tasks, CheckBound(t) PROVE PoolOK'
  BY <1>4 DEF IInv, PoolOK, CheckBound, Goto, poolVars
<1>5. ASSUME NEW t \in Tasks, BoundUrl(t) PROVE PoolOK'
  BY <1>5 DEF IInv, TypeOK, PoolOK, BoundUrl, Grant, Goto, poolVars
<1>6. ASSUME NEW t \in Tasks, DropStale(t) PROVE PoolOK'
  BY <1>6 DEF IInv, PoolOK, DropStale, Goto, poolVars
<1>7. ASSUME NEW t \in Tasks, List(t) PROVE PoolOK'
  BY <1>7 DEF IInv, TypeOK, PoolOK, List, Goto, poolVars
<1>8. ASSUME NEW t \in Tasks, Candidates(t) PROVE PoolOK'
  BY <1>8 DEF IInv, PoolOK, Candidates, Keep, Healthy, Goto, poolVars
<1>9. ASSUME NEW t \in Tasks, Select(t) PROVE PoolOK'
  BY <1>9 DEF IInv, TypeOK, PoolOK, Select, Leave, Goto, poolVars
<1>10. ASSUME NEW t \in Tasks, TakeBreaker(t) PROVE PoolOK'
  BY <1>10 DEF IInv, TypeOK, PoolOK, TakeBreaker, Leave, Grant, Goto, poolVars
<1>11. ASSUME NEW t \in Tasks, Bind(t) PROVE PoolOK'
  BY <1>11 DEF IInv, PoolOK, Bind, Grant, Goto, poolVars
<1>12. ASSUME NEW t \in Tasks, CancelCall(t) PROVE PoolOK'
  BY <1>12 DEF IInv, PoolOK, CancelCall, Leave, Goto, poolVars
<1>13. ASSUME NEW t \in Tasks, DropMarked(t) PROVE PoolOK'
  BY <1>13 DEF IInv, PoolOK, DropMarked, Leave, Goto, poolVars
<1>14. ASSUME NEW t \in Tasks, DropUnmarked(t) PROVE PoolOK'
  BY <1>14 DEF IInv, TypeOK, PoolOK, DropUnmarked, Leave, Goto, poolVars
<1>15. ASSUME NEW t \in Tasks, UnbindOnFailure(t) PROVE PoolOK'
  BY <1>15 DEF IInv, PoolOK, UnbindOnFailure, Leave, Goto, poolVars
<1>16. ASSUME NEW t \in Tasks, AddLock(t) PROVE PoolOK'
  BY <1>16 DEF IInv, PoolOK, AddLock, Goto, poolVars
<1>17. ASSUME NEW t \in Tasks, AddStore(t) PROVE PoolOK'
  BY <1>17 DEF IInv, TypeOK, KnownOK, PoolOK, AddStore, Goto
<1>18. ASSUME NEW t \in Tasks, Register(t) PROVE PoolOK'
  BY <1>18 DEF IInv, PoolOK, Register, Goto
<1>19. ASSUME NEW t \in Tasks, AddFails(t) PROVE PoolOK'
  BY <1>19 DEF IInv, PoolOK, AddFails, Leave, Goto, poolVars
<1>20. ASSUME NEW t \in Tasks, RemoveStore(t) PROVE PoolOK'
  BY <1>20 DEF IInv, TypeOK, PoolOK, RemoveStore, Goto
<1>21. ASSUME NEW t \in Tasks, Unregister(t) PROVE PoolOK'
  BY <1>21 DEF IInv, TypeOK, PoolOK, Unregister, Leave, Goto
<1>22. ASSUME NEW t \in Tasks, CancelRemove(t) PROVE PoolOK'
  BY <1>22 DEF IInv, TypeOK, PoolOK, CancelRemove, Leave, Goto, poolVars
<1>23. ASSUME HealthCheck PROVE PoolOK'
  BY <1>23 DEF IInv, PoolOK, HealthCheck, poolVars, callVars
<1>24. ASSUME NEW t \in Tasks, Tally(t) PROVE PoolOK'
  BY <1>24 DEF IInv, TypeOK, PoolOK, Tally, Leave, Goto, poolVars
<1>25. ASSUME WindowOver PROVE PoolOK'
  BY <1>25 DEF IInv, PoolOK, WindowOver, poolVars, callVars
<1>26. ASSUME Expire PROVE PoolOK'
  BY <1>26 DEF IInv, PoolOK, Expire, poolVars, callVars
<1>27. ASSUME NEW t \in Tasks, LookHealth(t) PROVE PoolOK'
  BY <1>27 DEF IInv, TypeOK, PoolOK, LookHealth, Goto, poolVars
<1>28. ASSUME NEW t \in Tasks, StatsList(t) PROVE PoolOK'
  BY <1>28 DEF IInv, TypeOK, PoolOK, StatsList, Goto, poolVars
<1>29. ASSUME NEW t \in Tasks, StatsHealth(t) PROVE PoolOK'
  BY <1>29 DEF IInv, TypeOK, PoolOK, StatsHealth, Goto, poolVars
<1> QED
  BY NextCases, <1>1, <1>2, <1>3, <1>4, <1>5, <1>6, <1>7, <1>8, <1>9, <1>10, <1>11, <1>12, <1>13,
     <1>14, <1>15, <1>16, <1>17, <1>18, <1>19, <1>20, <1>21, <1>22, <1>23, <1>24, <1>25, <1>26,
     <1>27, <1>28, <1>29

LEMMA SelectStep ==
  ASSUME IInv, Next
  PROVE  SelectOK'
<1>1. ASSUME NEW t \in Tasks, AcquirePlain(t) PROVE SelectOK'
  BY <1>1 DEF IInv, SelectOK, SelectedHasBreaker, AcquirePlain, Goto, poolVars
<1>2. ASSUME NEW t \in Tasks, NEW d \in Domains, AcquireFresh(t, d) PROVE SelectOK'
  BY <1>2 DEF IInv, SelectOK, SelectedHasBreaker, AcquireFresh, Goto, poolVars
<1>3. ASSUME NEW t \in Tasks, NEW d \in Domains, AcquireSticky(t, d) PROVE SelectOK'
  BY <1>3 DEF IInv, SelectOK, SelectedHasBreaker, AcquireSticky, Goto, poolVars
<1>4. ASSUME NEW t \in Tasks, CheckBound(t) PROVE SelectOK'
  BY <1>4 DEF IInv, SelectOK, SelectedHasBreaker, CheckBound, Goto, poolVars
<1>5. ASSUME NEW t \in Tasks, BoundUrl(t) PROVE SelectOK'
  BY <1>5 DEF IInv, TypeOK, SelectOK, SelectedHasBreaker, BoundUrl, Grant, Goto, poolVars
<1>6. ASSUME NEW t \in Tasks, DropStale(t) PROVE SelectOK'
  BY <1>6 DEF IInv, SelectOK, SelectedHasBreaker, DropStale, Goto, poolVars
<1>7. ASSUME NEW t \in Tasks, List(t) PROVE SelectOK'
  BY <1>7 DEF IInv, TypeOK, SelectOK, SelectedHasBreaker, List, Goto, poolVars
<1>8. ASSUME NEW t \in Tasks, Candidates(t) PROVE SelectOK'
  BY <1>8, ManagerAssumption DEF IInv, LocksOK, PoolOK, SelectOK, SelectedHasBreaker, Candidates, Keep, Healthy,
     ReadFree, poolVars
<1>9. ASSUME NEW t \in Tasks, Select(t) PROVE SelectOK'
  BY <1>9 DEF IInv, TypeOK, SelectOK, SelectedHasBreaker, Select, Leave, Goto, poolVars
<1>10. ASSUME NEW t \in Tasks, TakeBreaker(t) PROVE SelectOK'
  BY SMTT(30), <1>10 DEF IInv, TypeOK, SelectOK, SelectedHasBreaker, TakeBreaker, Leave, Grant, Goto, poolVars
<1>11. ASSUME NEW t \in Tasks, Bind(t) PROVE SelectOK'
  BY <1>11 DEF IInv, SelectOK, SelectedHasBreaker, Bind, Grant, Goto, poolVars
<1>12. ASSUME NEW t \in Tasks, CancelCall(t) PROVE SelectOK'
  BY <1>12 DEF IInv, KnownOK, PoolOK, SelectOK, SelectedHasBreaker, CancelCall, Leave, Goto,
     poolVars
<1>13. ASSUME NEW t \in Tasks, DropMarked(t) PROVE SelectOK'
  BY <1>13 DEF IInv, SelectOK, SelectedHasBreaker, DropMarked, Leave, Goto, poolVars
<1>14. ASSUME NEW t \in Tasks, DropUnmarked(t) PROVE SelectOK'
  BY <1>14 DEF IInv, TypeOK, SelectOK, SelectedHasBreaker, DropUnmarked, Leave, Goto, poolVars
<1>15. ASSUME NEW t \in Tasks, UnbindOnFailure(t) PROVE SelectOK'
  BY <1>15 DEF IInv, SelectOK, SelectedHasBreaker, UnbindOnFailure, Leave, Goto, poolVars
<1>16. ASSUME NEW t \in Tasks, AddLock(t) PROVE SelectOK'
  BY <1>16 DEF IInv, SelectOK, SelectedHasBreaker, AddLock, Goto, poolVars
<1>17. ASSUME NEW t \in Tasks, AddStore(t) PROVE SelectOK'
  BY <1>17, ManagerAssumption DEF IInv, KnownOK, SelectOK, SelectedHasBreaker, AddStore, Goto
<1>18. ASSUME NEW t \in Tasks, Register(t) PROVE SelectOK'
  BY <1>18 DEF IInv, SelectOK, SelectedHasBreaker, Register, Goto
<1>19. ASSUME NEW t \in Tasks, AddFails(t) PROVE SelectOK'
  BY <1>19 DEF IInv, SelectOK, SelectedHasBreaker, AddFails, Leave, Goto, poolVars
<1>20. ASSUME NEW t \in Tasks, RemoveStore(t) PROVE SelectOK'
  BY <1>20 DEF IInv, SelectOK, SelectedHasBreaker, RemoveStore, Goto
<1>21. ASSUME NEW t \in Tasks, Unregister(t) PROVE SelectOK'
  BY <1>21 DEF IInv, PoolOK, SelectOK, SelectedHasBreaker, Unregister, Leave, Goto
<1>22. ASSUME NEW t \in Tasks, CancelRemove(t) PROVE SelectOK'
  BY <1>22 DEF IInv, SelectOK, SelectedHasBreaker, CancelRemove, Leave, Goto, poolVars
<1>23. ASSUME HealthCheck PROVE SelectOK'
  BY <1>23 DEF IInv, SelectOK, SelectedHasBreaker, HealthCheck, poolVars, callVars
<1>24. ASSUME NEW t \in Tasks, Tally(t) PROVE SelectOK'
  BY <1>24 DEF IInv, TypeOK, SelectOK, SelectedHasBreaker, Tally, Leave, Goto, poolVars
<1>25. ASSUME WindowOver PROVE SelectOK'
  BY <1>25 DEF IInv, SelectOK, SelectedHasBreaker, WindowOver, poolVars, callVars
<1>26. ASSUME Expire PROVE SelectOK'
  BY <1>26 DEF IInv, SelectOK, SelectedHasBreaker, Expire, poolVars, callVars
<1>27. ASSUME NEW t \in Tasks, LookHealth(t) PROVE SelectOK'
  BY <1>27 DEF IInv, TypeOK, SelectOK, SelectedHasBreaker, LookHealth, Goto, poolVars
<1>28. ASSUME NEW t \in Tasks, StatsList(t) PROVE SelectOK'
  BY <1>28 DEF IInv, TypeOK, SelectOK, SelectedHasBreaker, StatsList, Goto, poolVars
<1>29. ASSUME NEW t \in Tasks, StatsHealth(t) PROVE SelectOK'
  BY <1>29 DEF IInv, TypeOK, SelectOK, SelectedHasBreaker, StatsHealth, Goto, poolVars
<1> QED
  BY NextCases, <1>1, <1>2, <1>3, <1>4, <1>5, <1>6, <1>7, <1>8, <1>9, <1>10, <1>11, <1>12, <1>13,
     <1>14, <1>15, <1>16, <1>17, <1>18, <1>19, <1>20, <1>21, <1>22, <1>23, <1>24, <1>25, <1>26,
     <1>27, <1>28, <1>29

LEMMA StoredStep ==
  ASSUME IInv, Next
  PROVE  StoredOK'
<1>1. ASSUME NEW t \in Tasks, AcquirePlain(t) PROVE StoredOK'
  BY <1>1 DEF IInv, TypeOK, StoredOK, AcquirePlain, Begin, Goto, poolVars
<1>2. ASSUME NEW t \in Tasks, NEW d \in Domains, AcquireFresh(t, d) PROVE StoredOK'
  BY <1>2 DEF IInv, TypeOK, StoredOK, AcquireFresh, Begin, Goto, poolVars
<1>3. ASSUME NEW t \in Tasks, NEW d \in Domains, AcquireSticky(t, d) PROVE StoredOK'
  BY <1>3 DEF IInv, TypeOK, StoredOK, AcquireSticky, Begin, Goto, poolVars
<1>4. ASSUME NEW t \in Tasks, CheckBound(t) PROVE StoredOK'
  BY <1>4 DEF IInv, Acquiring, StoredOK, CheckBound, Goto, poolVars, seenVars
<1>5. ASSUME NEW t \in Tasks, BoundUrl(t) PROVE StoredOK'
  BY <1>5 DEF IInv, TypeOK, Acquiring, StoredOK, BoundUrl, Grant, Goto, poolVars, seenVars
<1>6. ASSUME NEW t \in Tasks, DropStale(t) PROVE StoredOK'
  BY <1>6 DEF IInv, Acquiring, StoredOK, DropStale, Goto, poolVars, seenVars
<1>7. ASSUME NEW t \in Tasks, List(t) PROVE StoredOK'
  BY <1>7 DEF IInv, TypeOK, Acquiring, StoredOK, List, Leave, Goto, poolVars, seenVars
<1>8. ASSUME NEW t \in Tasks, Candidates(t) PROVE StoredOK'
  BY <1>8 DEF IInv, TypeOK, Acquiring, StoredOK, Candidates, Keep, Healthy, Goto, poolVars, seenVars
<1>9. ASSUME NEW t \in Tasks, Select(t) PROVE StoredOK'
  BY <1>9 DEF IInv, TypeOK, Acquiring, StoredOK, Select, Leave, Goto, poolVars, seenVars
<1>10. ASSUME NEW t \in Tasks, TakeBreaker(t) PROVE StoredOK'
  BY <1>10 DEF IInv, TypeOK, Acquiring, StoredOK, TakeBreaker, Leave, Grant, Goto, poolVars,
     seenVars
<1>11. ASSUME NEW t \in Tasks, Bind(t) PROVE StoredOK'
  BY <1>11 DEF IInv, TypeOK, Acquiring, StoredOK, Bind, Grant, Goto, poolVars
<1>12. ASSUME NEW t \in Tasks, CancelCall(t) PROVE StoredOK'
  BY <1>12 DEF IInv, TypeOK, Acquiring, StoredOK, CancelCall, Leave, Goto, poolVars
<1>13. ASSUME NEW t \in Tasks, DropMarked(t) PROVE StoredOK'
  BY <1>13 DEF IInv, Acquiring, StoredOK, DropMarked, Leave, Goto, poolVars
<1>14. ASSUME NEW t \in Tasks, DropUnmarked(t) PROVE StoredOK'
  BY <1>14 DEF IInv, TypeOK, Acquiring, StoredOK, DropUnmarked, Leave, Goto, poolVars, seenVars
<1>15. ASSUME NEW t \in Tasks, UnbindOnFailure(t) PROVE StoredOK'
  BY <1>15 DEF IInv, Acquiring, StoredOK, UnbindOnFailure, Leave, Goto, poolVars
<1>16. ASSUME NEW t \in Tasks, AddLock(t) PROVE StoredOK'
  BY <1>16 DEF IInv, Acquiring, StoredOK, AddLock, Goto, poolVars, seenVars
<1>17. ASSUME NEW t \in Tasks, AddStore(t) PROVE StoredOK'
  BY <1>17 DEF IInv, Acquiring, StoredOK, AddStore, Goto, Note
<1>18. ASSUME NEW t \in Tasks, Register(t) PROVE StoredOK'
  BY <1>18 DEF IInv, Acquiring, StoredOK, Register, Goto
<1>19. ASSUME NEW t \in Tasks, AddFails(t) PROVE StoredOK'
  BY <1>19 DEF IInv, Acquiring, StoredOK, AddFails, Leave, Goto, poolVars
<1>20. ASSUME NEW t \in Tasks, RemoveStore(t) PROVE StoredOK'
  BY <1>20 DEF IInv, Acquiring, StoredOK, RemoveStore, Goto, seenVars
<1>21. ASSUME NEW t \in Tasks, Unregister(t) PROVE StoredOK'
  BY <1>21 DEF IInv, Acquiring, StoredOK, Unregister, Leave, Goto
<1>22. ASSUME NEW t \in Tasks, CancelRemove(t) PROVE StoredOK'
  BY <1>22 DEF IInv, Acquiring, StoredOK, CancelRemove, Leave, Goto, poolVars
<1>23. ASSUME HealthCheck PROVE StoredOK'
  BY <1>23 DEF IInv, StoredOK, HealthCheck, poolVars, seenVars, callVars
<1>24. ASSUME NEW t \in Tasks, Tally(t) PROVE StoredOK'
  BY <1>24 DEF IInv, TypeOK, Acquiring, StoredOK, Tally, Leave, Goto, poolVars, seenVars
<1>25. ASSUME WindowOver PROVE StoredOK'
  BY <1>25 DEF IInv, StoredOK, WindowOver, poolVars, callVars
<1>26. ASSUME Expire PROVE StoredOK'
  BY <1>26 DEF IInv, StoredOK, Expire, poolVars, seenVars, callVars
<1>27. ASSUME NEW t \in Tasks, LookHealth(t) PROVE StoredOK'
  BY <1>27 DEF IInv, TypeOK, Acquiring, StoredOK, LookHealth, Goto, poolVars, seenVars
<1>28. ASSUME NEW t \in Tasks, StatsList(t) PROVE StoredOK'
  BY <1>28 DEF IInv, TypeOK, Acquiring, StoredOK, StatsList, Goto, poolVars, seenVars
<1>29. ASSUME NEW t \in Tasks, StatsHealth(t) PROVE StoredOK'
  BY <1>29 DEF IInv, TypeOK, Acquiring, StoredOK, StatsHealth, Goto, poolVars, seenVars
<1> QED
  BY NextCases, <1>1, <1>2, <1>3, <1>4, <1>5, <1>6, <1>7, <1>8, <1>9, <1>10, <1>11, <1>12, <1>13,
     <1>14, <1>15, <1>16, <1>17, <1>18, <1>19, <1>20, <1>21, <1>22, <1>23, <1>24, <1>25, <1>26,
     <1>27, <1>28, <1>29

LEMMA UsableStep ==
  ASSUME IInv, Next
  PROVE  UsableOK'
<1>1. ASSUME NEW t \in Tasks, AcquirePlain(t) PROVE UsableOK'
  BY <1>1 DEF IInv, TypeOK, Available, UsableOK, AcquirePlain, Begin, Goto, poolVars, breakerVars
<1>2. ASSUME NEW t \in Tasks, NEW d \in Domains, AcquireFresh(t, d) PROVE UsableOK'
  BY <1>2 DEF IInv, TypeOK, Available, UsableOK, AcquireFresh, Begin, Goto, poolVars, breakerVars
<1>3. ASSUME NEW t \in Tasks, NEW d \in Domains, AcquireSticky(t, d) PROVE UsableOK'
  BY <1>3 DEF IInv, TypeOK, Available, UsableOK, AcquireSticky, Begin, Goto, poolVars, breakerVars
<1>4. ASSUME NEW t \in Tasks, CheckBound(t) PROVE UsableOK'
  BY <1>4 DEF IInv, TypeOK, Acquiring, Available, UsableOK, CheckBound, Ask, Goto, poolVars,
     seenVars
<1>5. ASSUME NEW t \in Tasks, BoundUrl(t) PROVE UsableOK'
  BY <1>5 DEF IInv, TypeOK, Acquiring, Available, UsableOK, BoundUrl, Grant, Goto, poolVars,
     breakerVars, seenVars
<1>6. ASSUME NEW t \in Tasks, DropStale(t) PROVE UsableOK'
  BY <1>6 DEF IInv, Acquiring, Available, UsableOK, DropStale, Goto, poolVars, breakerVars, seenVars
<1>7. ASSUME NEW t \in Tasks, List(t) PROVE UsableOK'
  BY <1>7 DEF IInv, TypeOK, Acquiring, Available, UsableOK, List, Leave, Goto, poolVars,
     breakerVars, seenVars
<1>8. ASSUME NEW t \in Tasks, Candidates(t) PROVE UsableOK'
  BY <1>8 DEF IInv, TypeOK, Acquiring, Available, UsableOK, Candidates, Keep, Healthy, Ask, Goto, poolVars,
     seenVars
<1>9. ASSUME NEW t \in Tasks, Select(t) PROVE UsableOK'
  BY <1>9 DEF IInv, TypeOK, Acquiring, Available, UsableOK, Select, Leave, Goto, poolVars,
     breakerVars, seenVars
<1>10. ASSUME NEW t \in Tasks, TakeBreaker(t) PROVE UsableOK'
  BY <1>10 DEF IInv, TypeOK, Acquiring, Available, UsableOK, TakeBreaker, Leave, Grant, Goto,
     poolVars, breakerVars, seenVars
<1>11. ASSUME NEW t \in Tasks, Bind(t) PROVE UsableOK'
  BY <1>11 DEF IInv, TypeOK, Acquiring, Available, UsableOK, Bind, Grant, Goto, poolVars,
     breakerVars
<1>12. ASSUME NEW t \in Tasks, CancelCall(t) PROVE UsableOK'
  BY <1>12 DEF IInv, TypeOK, Acquiring, Available, UsableOK, CancelCall, Leave, Goto, poolVars,
     breakerVars
<1>13. ASSUME NEW t \in Tasks, DropMarked(t) PROVE UsableOK'
  BY <1>13 DEF IInv, Acquiring, Available, UsableOK, DropMarked, RecordSuccess, Leave, Goto,
     poolVars
<1>14. ASSUME NEW t \in Tasks, DropUnmarked(t) PROVE UsableOK'
  BY <1>14 DEF IInv, TypeOK, Acquiring, Available, UsableOK, DropUnmarked, RecordFailure, Leave,
     Goto, poolVars, seenVars
<1>15. ASSUME NEW t \in Tasks, UnbindOnFailure(t) PROVE UsableOK'
  BY <1>15 DEF IInv, Acquiring, Available, UsableOK, UnbindOnFailure, Leave, Goto, poolVars,
     breakerVars
<1>16. ASSUME NEW t \in Tasks, AddLock(t) PROVE UsableOK'
  BY <1>16 DEF IInv, Acquiring, Available, UsableOK, AddLock, Goto, poolVars, breakerVars, seenVars
<1>17. ASSUME NEW t \in Tasks, AddStore(t) PROVE UsableOK'
  BY <1>17 DEF IInv, Acquiring, Available, UsableOK, AddStore, Goto, breakerVars
<1>18. ASSUME NEW t \in Tasks, Register(t) PROVE UsableOK'
  BY <1>18 DEF IInv, Acquiring, Available, UsableOK, Register, Goto, Note, breakerVars
<1>19. ASSUME NEW t \in Tasks, AddFails(t) PROVE UsableOK'
  BY <1>19 DEF IInv, Acquiring, Available, UsableOK, AddFails, Leave, Goto, poolVars, breakerVars
<1>20. ASSUME NEW t \in Tasks, RemoveStore(t) PROVE UsableOK'
  BY <1>20 DEF IInv, Acquiring, Available, UsableOK, RemoveStore, Goto, breakerVars, seenVars
<1>21. ASSUME NEW t \in Tasks, Unregister(t) PROVE UsableOK'
  BY <1>21 DEF IInv, Acquiring, Available, UsableOK, Unregister, Leave, Goto, breakerVars
<1>22. ASSUME NEW t \in Tasks, CancelRemove(t) PROVE UsableOK'
  BY <1>22 DEF IInv, Acquiring, Available, UsableOK, CancelRemove, Leave, Goto, poolVars,
     breakerVars
<1>23. ASSUME HealthCheck PROVE UsableOK'
  BY <1>23 DEF IInv, Available, UsableOK, HealthCheck, poolVars, breakerVars, seenVars, callVars
<1>24. ASSUME NEW t \in Tasks, Tally(t) PROVE UsableOK'
  BY <1>24 DEF IInv, TypeOK, Acquiring, Available, UsableOK, Tally, Leave, Ask, Goto, poolVars,
     breakerVars, seenVars
<1>25. ASSUME WindowOver PROVE UsableOK'
  BY <1>25 DEF IInv, Available, UsableOK, WindowOver, Note, poolVars, callVars
<1>26. ASSUME Expire PROVE UsableOK'
  BY <1>26 DEF IInv, Available, UsableOK, Expire, poolVars, breakerVars, seenVars, callVars
<1>27. ASSUME NEW t \in Tasks, LookHealth(t) PROVE UsableOK'
  BY <1>27 DEF IInv, TypeOK, Acquiring, Available, UsableOK, LookHealth, Goto, poolVars,
     breakerVars, seenVars
<1>28. ASSUME NEW t \in Tasks, StatsList(t) PROVE UsableOK'
  BY <1>28 DEF IInv, TypeOK, Acquiring, Available, UsableOK, StatsList, Goto, poolVars,
     breakerVars, seenVars
<1>29. ASSUME NEW t \in Tasks, StatsHealth(t) PROVE UsableOK'
  BY <1>29 DEF IInv, TypeOK, Acquiring, Available, UsableOK, StatsHealth, Goto, poolVars,
     breakerVars, seenVars
<1> QED
  BY NextCases, <1>1, <1>2, <1>3, <1>4, <1>5, <1>6, <1>7, <1>8, <1>9, <1>10, <1>11, <1>12, <1>13,
     <1>14, <1>15, <1>16, <1>17, <1>18, <1>19, <1>20, <1>21, <1>22, <1>23, <1>24, <1>25, <1>26,
     <1>27, <1>28, <1>29

----------------------------------------------------------------------------
LEMMA IInvInit == Init => IInv
<1> SUFFICES ASSUME Init PROVE IInv
  OBVIOUS
<1>1. TypeOK
  BY ManagerAssumption DEF Init, TypeOK, Circuits, Locations, Acquiring
<1>2. LocksOK
  BY ManagerAssumption DEF Init, LocksOK, LockDiscipline
<1>3. KnownOK /\ PoolOK
  BY DEF Init, KnownOK, PoolOK
<1>4. SelectOK /\ StoredOK /\ UsableOK
  BY DEF Init, SelectOK, SelectedHasBreaker, StoredOK, UsableOK, Acquiring
<1> QED BY <1>1, <1>2, <1>3, <1>4 DEF IInv

LEMMA IInvNext == IInv /\ [Next]_vars => IInv'
<1> SUFFICES ASSUME IInv, [Next]_vars PROVE IInv'
  OBVIOUS
<1>1. CASE Next
  BY <1>1, TypeStep, LocksStep, KnownStep, PoolStep, SelectStep, StoredStep, UsableStep DEF IInv
<1>2. CASE UNCHANGED vars
  BY <1>2 DEF IInv, vars, poolVars, breakerVars, lockVars, seenVars, callVars, TypeOK, LocksOK,
     LockDiscipline, KnownOK, PoolOK, SelectOK, SelectedHasBreaker, StoredOK, UsableOK, Available
<1> QED BY <1>1, <1>2

\* Every reachable state satisfies the inductive invariant.
THEOREM Invariance == Spec => []IInv
BY IInvInit, IInvNext, PTL DEF Spec

\* The variables keep their types.
THEOREM TypeCorrect == Spec => []TypeOK
<1>1. IInv => TypeOK
  BY DEF IInv
<1> QED BY <1>1, Invariance, PTL

\* A proxy that a call has selected has a breaker, or has left the storage,
\* whatever is added and removed meanwhile.
THEOREM SelectedHasBreakerHolds == Spec => []SelectedHasBreaker
<1>1. IInv => SelectedHasBreaker
  BY DEF IInv, SelectOK
<1> QED BY <1>1, Invariance, PTL

\* The lock of the breakers is only held at steps that release it.
THEOREM LockDisciplineHolds == Spec => []LockDiscipline
<1>1. IInv => LockDiscipline
  BY DEF IInv, LocksOK
<1> QED BY <1>1, Invariance, PTL

----------------------------------------------------------------------------
(* What a step that gives a handle knows of the proxy *)

GrantKnows ==
    \A u \in Tasks : pc[u] \in Acquiring /\ pc'[u] = "holding"
      => hand[u] \in stored[u] /\ hand[u] \in usable[u]

LEMMA GrantStep ==
  ASSUME IInv, Next
  PROVE  GrantKnows
<1>1. ASSUME NEW t \in Tasks, AcquirePlain(t) PROVE GrantKnows
  BY <1>1 DEF GrantKnows, IInv, TypeOK, Acquiring, AcquirePlain, Goto
<1>2. ASSUME NEW t \in Tasks, NEW d \in Domains, AcquireFresh(t, d) PROVE GrantKnows
  BY <1>2 DEF GrantKnows, IInv, TypeOK, Acquiring, AcquireFresh, Goto
<1>3. ASSUME NEW t \in Tasks, NEW d \in Domains, AcquireSticky(t, d) PROVE GrantKnows
  BY <1>3 DEF GrantKnows, IInv, TypeOK, Acquiring, AcquireSticky, Goto
<1>4. ASSUME NEW t \in Tasks, CheckBound(t) PROVE GrantKnows
  BY <1>4 DEF GrantKnows, IInv, TypeOK, Acquiring, CheckBound, Goto
<1>5. ASSUME NEW t \in Tasks, BoundUrl(t) PROVE GrantKnows
  BY <1>5 DEF GrantKnows, IInv, TypeOK, Acquiring, StoredOK, UsableOK, BoundUrl, Grant, Goto
<1>6. ASSUME NEW t \in Tasks, DropStale(t) PROVE GrantKnows
  BY <1>6 DEF GrantKnows, IInv, TypeOK, Acquiring, DropStale, Goto
<1>7. ASSUME NEW t \in Tasks, List(t) PROVE GrantKnows
  BY <1>7 DEF GrantKnows, IInv, TypeOK, Acquiring, List, Leave, Goto
<1>8. ASSUME NEW t \in Tasks, Candidates(t) PROVE GrantKnows
  BY <1>8 DEF GrantKnows, IInv, TypeOK, Acquiring, Candidates, Keep, Healthy, Goto
<1>9. ASSUME NEW t \in Tasks, Select(t) PROVE GrantKnows
  BY <1>9 DEF GrantKnows, IInv, TypeOK, Acquiring, Select, Leave, Goto
<1>10. ASSUME NEW t \in Tasks, TakeBreaker(t) PROVE GrantKnows
  BY <1>10 DEF GrantKnows, IInv, TypeOK, Acquiring, StoredOK, UsableOK, TakeBreaker, Leave, Grant,
     Goto
<1>11. ASSUME NEW t \in Tasks, Bind(t) PROVE GrantKnows
  BY <1>11 DEF GrantKnows, IInv, TypeOK, Acquiring, StoredOK, UsableOK, Bind, Grant, Goto
<1>12. ASSUME NEW t \in Tasks, CancelCall(t) PROVE GrantKnows
  BY <1>12 DEF GrantKnows, IInv, TypeOK, Acquiring, CancelCall, Leave, Goto
<1>13. ASSUME NEW t \in Tasks, DropMarked(t) PROVE GrantKnows
  BY <1>13 DEF GrantKnows, IInv, TypeOK, Acquiring, DropMarked, Leave, Goto
<1>14. ASSUME NEW t \in Tasks, DropUnmarked(t) PROVE GrantKnows
  BY <1>14 DEF GrantKnows, IInv, TypeOK, Acquiring, DropUnmarked, Leave, Goto
<1>15. ASSUME NEW t \in Tasks, UnbindOnFailure(t) PROVE GrantKnows
  BY <1>15 DEF GrantKnows, IInv, TypeOK, Acquiring, UnbindOnFailure, Leave, Goto
<1>16. ASSUME NEW t \in Tasks, AddLock(t) PROVE GrantKnows
  BY <1>16 DEF GrantKnows, IInv, TypeOK, Acquiring, AddLock, Goto
<1>17. ASSUME NEW t \in Tasks, AddStore(t) PROVE GrantKnows
  BY <1>17 DEF GrantKnows, IInv, TypeOK, Acquiring, AddStore, Goto
<1>18. ASSUME NEW t \in Tasks, Register(t) PROVE GrantKnows
  BY <1>18 DEF GrantKnows, IInv, TypeOK, Acquiring, Register, Goto
<1>19. ASSUME NEW t \in Tasks, AddFails(t) PROVE GrantKnows
  BY <1>19 DEF GrantKnows, IInv, TypeOK, Acquiring, AddFails, Leave, Goto
<1>20. ASSUME NEW t \in Tasks, RemoveStore(t) PROVE GrantKnows
  BY <1>20 DEF GrantKnows, IInv, TypeOK, Acquiring, RemoveStore, Goto
<1>21. ASSUME NEW t \in Tasks, Unregister(t) PROVE GrantKnows
  BY <1>21 DEF GrantKnows, IInv, TypeOK, Acquiring, Unregister, Leave, Goto
<1>22. ASSUME NEW t \in Tasks, CancelRemove(t) PROVE GrantKnows
  BY <1>22 DEF GrantKnows, IInv, TypeOK, Acquiring, CancelRemove, Leave, Goto
<1>23. ASSUME HealthCheck PROVE GrantKnows
  BY <1>23 DEF GrantKnows, Acquiring, HealthCheck, callVars
<1>24. ASSUME NEW t \in Tasks, Tally(t) PROVE GrantKnows
  BY <1>24 DEF GrantKnows, IInv, TypeOK, Acquiring, Tally, Leave, Goto
<1>25. ASSUME WindowOver PROVE GrantKnows
  BY <1>25 DEF GrantKnows, Acquiring, WindowOver, callVars
<1>26. ASSUME Expire PROVE GrantKnows
  BY <1>26 DEF GrantKnows, Acquiring, Expire, callVars
<1>27. ASSUME NEW t \in Tasks, LookHealth(t) PROVE GrantKnows
  BY <1>27 DEF GrantKnows, IInv, TypeOK, Acquiring, LookHealth, Goto
<1>28. ASSUME NEW t \in Tasks, StatsList(t) PROVE GrantKnows
  BY <1>28 DEF GrantKnows, IInv, TypeOK, Acquiring, StatsList, Goto
<1>29. ASSUME NEW t \in Tasks, StatsHealth(t) PROVE GrantKnows
  BY <1>29 DEF GrantKnows, IInv, TypeOK, Acquiring, StatsHealth, Goto
<1> QED
  BY NextCases, <1>1, <1>2, <1>3, <1>4, <1>5, <1>6, <1>7, <1>8, <1>9, <1>10, <1>11, <1>12, <1>13,
     <1>14, <1>15, <1>16, <1>17, <1>18, <1>19, <1>20, <1>21, <1>22, <1>23, <1>24, <1>25, <1>26,
     <1>27, <1>28, <1>29

LEMMA GrantBox ==
  ASSUME IInv, [Next]_vars, NEW u \in Tasks, pc[u] \in Acquiring, pc'[u] = "holding"
  PROVE  hand[u] \in stored[u] /\ hand[u] \in usable[u]
<1>1. CASE Next
  BY <1>1, GrantStep DEF GrantKnows
<1>2. CASE UNCHANGED vars
  BY <1>2 DEF vars, callVars, Acquiring
<1> QED BY <1>1, <1>2

\* A handle is only given for a proxy that was in the storage at some time
\* during the call.
THEOREM GrantedStoredHolds == Spec => GrantedStored
<1>1. IInv /\ [Next]_vars =>
        [\A t \in Tasks : pc[t] \in Acquiring /\ pc'[t] = "holding" => hand[t] \in stored[t]]_vars
  BY GrantBox
<1> QED BY <1>1, Invariance, PTL DEF Spec, GrantedStored

\* A handle is only given for a proxy whose breaker let requests through at
\* some time during the call.
THEOREM GrantedUsableHolds == Spec => GrantedUsable
<1>1. IInv /\ [Next]_vars =>
        [\A t \in Tasks : pc[t] \in Acquiring /\ pc'[t] = "holding" => hand[t] \in usable[t]]_vars
  BY GrantBox
<1> QED BY <1>1, Invariance, PTL DEF Spec, GrantedUsable

----------------------------------------------------------------------------
(* The binding of a domain, with one call for it at a time                 *)

\* A domain has one sticky call or handle at a time.
OneCallPerDomain ==
    \A t, u \in Tasks : t # u /\ key[t] = key[u] => key[t] = NoDomain

Naming == {"check", "url", "holding", "unbind"}

\* What the session map says of the domain of a handle, or of a call that has
\* found its domain bound: the proxy of the call, or nothing any more.
Bound ==
    \A t \in Tasks :
      /\ pc[t] \in Naming /\ key[t] # NoDomain => session[key[t]] \in {hand[t], NoProxy}
      /\ pc[t] = "unbind" => key[t] # NoDomain

\* Bindings only go, and no call names a proxy that did not do so before.
LEMMA BoundStays ==
  ASSUME TypeOK, Bound,
         \A d \in Domains : session'[d] = session[d] \/ session'[d] = NoProxy,
         \A t \in Tasks :
            \/ pc'[t] \notin Naming
            \/ /\ pc[t] \in Naming /\ key'[t] = key[t] /\ hand'[t] = hand[t]
               /\ pc'[t] = "unbind" => pc[t] = "unbind" \/ key[t] # NoDomain
  PROVE  Bound'
<1> SUFFICES ASSUME NEW t \in Tasks, pc'[t] \in Naming
             PROVE  /\ key'[t] # NoDomain => session'[key'[t]] \in {hand'[t], NoProxy}
                    /\ pc'[t] = "unbind" => key'[t] # NoDomain
  BY DEF Bound, Naming
<1>1. /\ pc[t] \in Naming /\ key'[t] = key[t] /\ hand'[t] = hand[t]
      /\ pc'[t] = "unbind" => key[t] # NoDomain
  BY DEF Bound
<1>2. key[t] # NoDomain => key[t] \in Domains /\ session[key[t]] \in {hand[t], NoProxy}
  BY <1>1 DEF Bound, TypeOK
<1> QED
  BY <1>1, <1>2

\* A binding is put down: nobody else's domain is meant.
LEMMA BoundSet ==
  ASSUME TypeOK, Bound, OneCallPerDomain, NEW t \in Tasks, pc[t] = "bind",
         session' = [session EXCEPT ![key[t]] = hand[t]], UNCHANGED <<key, hand>>,
         pc'[t] = "holding", \A u \in Tasks \ {t} : pc'[u] = pc[u]
  PROVE  Bound'
<1> SUFFICES ASSUME NEW u \in Tasks, pc'[u] \in Naming
             PROVE  /\ key'[u] # NoDomain => session'[key'[u]] \in {hand'[u], NoProxy}
                    /\ pc'[u] = "unbind" => key'[u] # NoDomain
  BY DEF Bound, Naming
<1>1. key[u] # NoDomain => key[u] \in Domains
  BY DEF TypeOK
<1>2. CASE u = t
  BY <1>1, <1>2 DEF TypeOK
<1>3. CASE u # t
  <2>1. pc[u] \in Naming /\ (pc[u] = "unbind" => key[u] # NoDomain)
    BY <1>3 DEF Bound
  <2>2. key[u] # NoDomain => key[u] # key[t]
    BY <1>3 DEF OneCallPerDomain
  <2> QED
    BY <1>1, <1>3, <2>1, <2>2 DEF Bound, TypeOK
<1> QED
  BY <1>2, <1>3

LEMMA BoundStep ==
  ASSUME ~Contended, TypeOK, Bound, OneCallPerDomain, Next
  PROVE  Bound'
<1>0. /\ pc \in [Tasks -> Locations] /\ key \in [Tasks -> Domains \cup {NoDomain}]
      /\ hand \in [Tasks -> Proxies \cup {NoProxy}]
      /\ session \in [Domains -> Proxies \cup {NoProxy}]
  BY DEF TypeOK
<1>1. ASSUME NEW t \in Tasks, AcquirePlain(t) PROVE Bound'
  BY <1>0, <1>1, BoundStays DEF AcquirePlain, Goto, Naming
<1>2. ASSUME NEW t \in Tasks, NEW d \in Domains, AcquireFresh(t, d) PROVE Bound'
  BY <1>0, <1>2, BoundStays DEF AcquireFresh, UnbindSession, BindSession, Skipped, Goto, Naming
<1>3. ASSUME NEW t \in Tasks, NEW d \in Domains, AcquireSticky(t, d) PROVE Bound'
  <2>1. PICK p \in Lookups(d) : hand' = [hand EXCEPT ![t] = p] /\ Goto(t, IF p = NoProxy THEN "list" ELSE "check")
    BY <1>3 DEF AcquireSticky
  <2>2. p = session[d] /\ p \in Proxies \cup {NoProxy}
    BY <1>0 DEF Lookups
  <2>3. /\ hand'[t] = session[d] /\ key'[t] = d /\ session' = session
        /\ pc'[t] \in {"list", "check"}
        /\ \A u \in Tasks \ {t} : pc'[u] = pc[u] /\ key'[u] = key[u] /\ hand'[u] = hand[u]
    BY <1>0, <1>3, <2>1, <2>2 DEF AcquireSticky, Goto
  <2>4. ASSUME NEW u \in Tasks \ {t}, pc'[u] \in Naming
        PROVE  /\ key'[u] # NoDomain => session'[key'[u]] \in {hand'[u], NoProxy}
               /\ pc'[u] = "unbind" => key'[u] # NoDomain
    BY <2>3, <2>4 DEF Bound
  <2> QED
    BY <2>3, <2>4 DEF Bound, Naming
<1>4. ASSUME NEW t \in Tasks, CheckBound(t) PROVE Bound'
  BY <1>0, <1>4, BoundStays DEF CheckBound, Goto, Naming
<1>5. ASSUME NEW t \in Tasks, BoundUrl(t) PROVE Bound'
  BY <1>0, <1>5, BoundStays DEF BoundUrl, Grant, Goto, Naming
<1>6. ASSUME NEW t \in Tasks, DropStale(t) PROVE Bound'
  BY <1>0, <1>6, BoundStays DEF DropStale, UnbindSession, BindSession, Skipped, Goto, Naming
<1>7. ASSUME NEW t \in Tasks, List(t) PROVE Bound'
  BY <1>0, <1>7, BoundStays DEF List, Leave, Goto, Naming
<1>8. ASSUME NEW t \in Tasks, Candidates(t) PROVE Bound'
  BY <1>0, <1>8, BoundStays DEF Candidates, Keep, Healthy, Goto, Naming
<1>9. ASSUME NEW t \in Tasks, Select(t) PROVE Bound'
  BY <1>0, <1>9, BoundStays DEF Select, Leave, Goto, Naming
<1>10. ASSUME NEW t \in Tasks, TakeBreaker(t) PROVE Bound'
  <2>1. session' = session /\ pc[t] = "breaker"
    BY <1>10 DEF TakeBreaker
  <2>2. \A u \in Tasks \ {t} : pc'[u] = pc[u] /\ key'[u] = key[u] /\ hand'[u] = hand[u]
    BY <1>0, <1>10 DEF TakeBreaker, Leave, Grant, Goto
  <2>3. pc'[t] \in {"out", "bind"} \/ (pc'[t] = "holding" /\ key'[t] = NoDomain)
    BY <1>0, <1>10 DEF TakeBreaker, Leave, Grant, Goto
  <2>4. ASSUME NEW u \in Tasks \ {t}, pc'[u] \in Naming
        PROVE  /\ key'[u] # NoDomain => session'[key'[u]] \in {hand'[u], NoProxy}
               /\ pc'[u] = "unbind" => key'[u] # NoDomain
    BY <2>1, <2>2, <2>4 DEF Bound
  <2> QED
    BY <2>1, <2>2, <2>3, <2>4 DEF Bound, Naming
<1>11. ASSUME NEW t \in Tasks, Bind(t) PROVE Bound'
  <2>1. /\ pc[t] = "bind" /\ session' = [session EXCEPT ![key[t]] = hand[t]]
        /\ UNCHANGED <<key, hand>>
        /\ pc'[t] = "holding" /\ \A u \in Tasks \ {t} : pc'[u] = pc[u]
    BY <1>0, <1>11 DEF Bind, BindSession, Skipped, Grant, Goto
  <2> QED
    BY <2>1, BoundSet
<1>12. ASSUME NEW t \in Tasks, CancelCall(t) PROVE Bound'
  BY <1>0, <1>12, BoundStays DEF CancelCall, Leave, Goto, Naming
<1>13. ASSUME NEW t \in Tasks, DropMarked(t) PROVE Bound'
  BY <1>0, <1>13, BoundStays DEF DropMarked, Leave, Goto, Naming
<1>14. ASSUME NEW t \in Tasks, DropUnmarked(t) PROVE Bound'
  BY <1>0, <1>14, BoundStays DEF DropUnmarked, Leave, Goto, Naming
<1>15. ASSUME NEW t \in Tasks, UnbindOnFailure(t) PROVE Bound'
  BY <1>0, <1>15, BoundStays DEF UnbindOnFailure, UnbindSession, BindSession, Skipped, Leave, Goto, Naming
<1>16. ASSUME NEW t \in Tasks, AddLock(t) PROVE Bound'
  BY <1>0, <1>16, BoundStays DEF AddLock, Goto, Naming
<1>17. ASSUME NEW t \in Tasks, AddStore(t) PROVE Bound'
  BY <1>0, <1>17, BoundStays DEF AddStore, Goto, Naming
<1>18. ASSUME NEW t \in Tasks, Register(t) PROVE Bound'
  BY <1>0, <1>18, BoundStays DEF Register, Goto, Naming
<1>19. ASSUME NEW t \in Tasks, AddFails(t) PROVE Bound'
  BY <1>0, <1>19, BoundStays DEF AddFails, Leave, Goto, Naming
<1>20. ASSUME NEW t \in Tasks, RemoveStore(t) PROVE Bound'
  BY <1>0, <1>20, BoundStays DEF RemoveStore, Goto, Naming
<1>21. ASSUME NEW t \in Tasks, Unregister(t) PROVE Bound'
  BY <1>0, <1>21, BoundStays DEF Unregister, Leave, Goto, Naming
<1>22. ASSUME NEW t \in Tasks, CancelRemove(t) PROVE Bound'
  BY <1>0, <1>22, BoundStays DEF CancelRemove, Leave, Goto, Naming
<1>23. ASSUME HealthCheck PROVE Bound'
  BY <1>0, <1>23, BoundStays DEF HealthCheck, callVars
<1>24. ASSUME NEW t \in Tasks, Tally(t) PROVE Bound'
  BY <1>0, <1>24, BoundStays DEF Tally, Leave, Goto, Naming
<1>25. ASSUME WindowOver PROVE Bound'
  BY <1>0, <1>25, BoundStays DEF WindowOver, callVars
<1>26. ASSUME Expire PROVE Bound'
  BY <1>0, <1>26, BoundStays DEF Expire, callVars
<1>27. ASSUME NEW t \in Tasks, LookHealth(t) PROVE Bound'
  BY <1>0, <1>27, BoundStays DEF LookHealth, Goto, Naming
<1>28. ASSUME NEW t \in Tasks, StatsList(t) PROVE Bound'
  BY <1>0, <1>28, BoundStays DEF StatsList, Goto, Naming
<1>29. ASSUME NEW t \in Tasks, StatsHealth(t) PROVE Bound'
  BY <1>0, <1>29, BoundStays DEF StatsHealth, Goto, Naming
<1> QED
  BY NextCases, <1>1, <1>2, <1>3, <1>4, <1>5, <1>6, <1>7, <1>8, <1>9, <1>10, <1>11, <1>12, <1>13,
     <1>14, <1>15, <1>16, <1>17, <1>18, <1>19, <1>20, <1>21, <1>22, <1>23, <1>24, <1>25, <1>26,
     <1>27, <1>28, <1>29

\* sticky-sessions.md says that a binding stays for the remainder of its TTL; a
\* run refutes it when several handles for a domain are out.  With one sticky
\* call or handle per domain at a time, and the lock of the session map never
\* contended, it holds of the code: a handle that fails only takes away the
\* binding to its own proxy, whatever purges and vendors' policies unbind.
THEOREM UnbindsOwnOneAtATime ==
  ASSUME ~Contended
  PROVE  Spec /\ []OneCallPerDomain => UnbindsOwn
<1>1. Init => Bound
  BY DEF Init, Bound, Naming
<1>2. TypeOK /\ OneCallPerDomain /\ Bound /\ [Next]_vars => Bound'
  <2> SUFFICES ASSUME TypeOK, OneCallPerDomain, Bound, [Next]_vars PROVE Bound'
    OBVIOUS
  <2>1. CASE UNCHANGED vars
    BY <2>1 DEF Bound, vars, callVars
  <2>2. CASE Next
    BY <2>2, BoundStep
  <2> QED
    BY <2>1, <2>2
<1>3. Bound /\ [Next]_vars =>
        [\A t \in Tasks :
           pc[t] = "unbind" /\ pc'[t] = "out" /\ session[key[t]] # NoProxy /\ session'[key[t]] = NoProxy
             => session[key[t]] = hand[t]]_vars
  BY DEF Bound, Naming
<1> QED
  BY <1>1, <1>2, <1>3, TypeCorrect, PTL DEF Spec, UnbindsOwn

=============================================================================
