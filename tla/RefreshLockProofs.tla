------------------------- MODULE RefreshLockProofs -------------------------
(***************************************************************************)
(* Proofs about the refresh lock: single flight and a truthful status, for *)
(* any number of processes, with whatever crashes, errors and failed reads.*)
(***************************************************************************)
EXTENDS RefreshLock, TLAPS

USE DEF vars, Owner, NoOwner, Me, Guarding, Holding, Over, Steps, Absent, Torn,
        OwnedBy, Goto, Lives, Matches

\* The initial state satisfies the invariant.
LEMMA InitInv == Init => RefreshInv
<1> SUFFICES ASSUME Init
             PROVE RefreshInv
  OBVIOUS
<1> USE DEF Init
<1>0. stale \in BOOLEAN
  OBVIOUS
<1>1. TypeOK
  BY <1>0, RefreshAssumption DEF TypeOK
<1>2. GuardInv /\ OneRefresher /\ StatusInv
  BY DEF GuardInv, OneRefresher, StatusInv
<1> QED
  BY <1>1, <1>2 DEF RefreshInv

\* A step keeps every variable in its type.
LEMMA StepType == RefreshInv /\ [Next]_vars => TypeOK'
<1> SUFFICES ASSUME RefreshInv, [Next]_vars
             PROVE TypeOK'
  OBVIOUS
<1> USE DEF RefreshInv, TypeOK
<1>0. ASSUME NEW p \in Processes, NEW reads \in SUBSET Readings, Examine(p, reads)
      PROVE TypeOK'
  BY <1>0, RefreshAssumption DEF Examine
<1>1. CASE UNCHANGED vars
  BY <1>1
<1>2. ASSUME NEW p \in Processes, Work(p)
      PROVE TypeOK'
  <2>1. CASE Begin(p) \/ TakeGuard(p)
    BY <2>1 DEF Begin, TakeGuard
  <2>2. CASE Create(p) \/ Fill(p) \/ Reclaim(p)
    BY <2>2 DEF Create, Fill, Reclaim
  <2>3. CASE Recheck(p) \/ Announce(p) \/ StopHeartbeat(p) \/ Report(p) \/ DropLock(p)
    BY <2>3 DEF Recheck, Announce, StopHeartbeat, Report, DropLock, WriteStatus
  <2>20. CASE Examine(p, Readings)
    BY <1>0, <2>20
  <2>21. CASE Exit(p)
    BY <2>21 DEF Exit
  <2> QED
    BY <1>2, <2>1, <2>2, <2>3, <2>20, <2>21 DEF Work
<1>3. ASSUME NEW p \in Processes, Renew(p) \/ Fail(p) \/ Crash(p)
      PROVE TypeOK'
  <2>1. CASE Renew(p)
    BY <1>3, <2>1 DEF Renew
  <2>2. CASE Fail(p)
    BY <1>3, <2>2 DEF Fail, WriteFails, WriteStatus
  <2>3. CASE Crash(p)
    BY <1>3, <2>3 DEF Crash
  <2> QED
    BY <1>3, <2>1, <2>2, <2>3
<1>4. ASSUME NEW p \in Processes, Restart(p)
      PROVE TypeOK'
  BY <1>4 DEF Restart
<1>5. ASSUME NEW p \in Processes, NEW fresh \in BOOLEAN, Index(p, fresh)
      PROVE TypeOK'
  BY <1>5 DEF Index
<1>6. CASE StatusAges \/ LockAges
  BY <1>6 DEF StatusAges, LockAges
<1>7. CASE Edit
  BY <1>7 DEF Edit
<1> QED
  BY <1>0, <1>1, <1>2, <1>3, <1>4, <1>5, <1>6, <1>7 DEF Next

\* Whoever is inside try_acquire holds the guard, and decided on a lock file
\* that is still as it was.
LEMMA StepGuard == RefreshInv /\ [Next]_vars => GuardInv'
<1> SUFFICES ASSUME RefreshInv, [Next]_vars
             PROVE GuardInv'
  OBVIOUS
<1> USE DEF RefreshInv, TypeOK, GuardInv, OneRefresher
<1>0. ASSUME NEW p \in Processes, NEW reads \in SUBSET Readings, Examine(p, reads)
      PROVE GuardInv'
  <2> SUFFICES ASSUME NEW q \in Processes
               PROVE /\ pc'[q] \in Guarding => guard' = q
                     /\ pc'[q] = "fill" => lock' = Torn
                     /\ pc'[q] = "reclaim" /\ Lives(lock.by)' => lock'.by.p \in misread'
    BY Zenon
  <2>1. life' = life /\ lock' = lock /\ guard = p
    BY <1>0 DEF Examine
  <2>2. \A r \in Processes \ {p} : pc'[r] = pc[r] /\ pc[r] \notin Guarding
    BY <1>0, <2>1 DEF Examine
  <2>3. CASE q # p
    BY <2>2, <2>3
  <2>4. CASE q = p /\ ~ActiveStatus(reads) /\ LockIsStale(reads)
    <3>1. pc'[p] = "reclaim" /\ guard' = p
      BY <1>0, <2>1, <2>4 DEF Examine
    <3>2. lock.by # NoOwner => lock.file = "owned"
      BY <1>0
    <3>3. Lives(lock.by) => "lock" \notin reads
      BY <3>2, <2>4 DEF LockIsStale
    <3>4. Lives(lock.by)' => Lives(lock.by)
      <4> SUFFICES ASSUME lock'.by # NoOwner, pc'[lock'.by.p] # "ended",
                          life'[lock'.by.p] = lock'.by.life
                   PROVE Lives(lock.by)
        BY Zenon
      <4>1. lock.by # NoOwner /\ life[lock.by.p] = lock.by.life
        BY <2>1
      <4>2. lock.by.p \in Processes /\ pc[p] = "examine"
        BY <4>1, <1>0 DEF Examine
      <4>3. pc[lock.by.p] # "ended"
        BY <2>1, <2>2, <4>2
      <4> QED
        BY <4>1, <4>3
    <3> QED
      BY <1>0, <2>1, <2>4, <3>1, <3>3, <3>4 DEF Examine
  <2>5. CASE q = p /\ ~(~ActiveStatus(reads) /\ LockIsStale(reads))
    BY <1>0, <2>5 DEF Examine
  <2> QED
    BY <2>3, <2>4, <2>5
<1>1. CASE UNCHANGED vars
  BY <1>1
<1>2. ASSUME NEW p \in Processes, Work(p)
      PROVE GuardInv'
  <2>1. CASE Begin(p)
    BY <2>1 DEF Begin
  <2>2. CASE TakeGuard(p)
    <3>1. \A q \in Processes : pc[q] \notin Guarding
      BY <2>2, RefreshAssumption DEF TakeGuard
    <3>2. \A q \in Processes \ {p} : pc'[q] = pc[q]
      BY <2>2 DEF TakeGuard
    <3>3. pc'[p] = "create" /\ guard' = p
      BY <2>2 DEF TakeGuard
    <3> QED
      BY <3>1, <3>2, <3>3
  <2>3. CASE Create(p)
    BY <2>3 DEF Create
  <2>5. CASE Reclaim(p)
    BY <2>5 DEF Reclaim
  <2>6. CASE Recheck(p)
    BY <2>6 DEF Recheck
  <2>7. CASE Announce(p)
    BY <2>7 DEF Announce, WriteStatus
  <2>8. CASE StopHeartbeat(p)
    BY <2>8 DEF StopHeartbeat
  <2>9. CASE Report(p)
    BY <2>9 DEF Report, WriteStatus
  <2>10. CASE DropLock(p)
    BY <2>10 DEF DropLock
  <2>11. CASE Fill(p)
    BY <2>11 DEF Fill
  <2>20. CASE Examine(p, Readings)
    BY <1>0, <2>20
  <2>21. CASE Exit(p)
    BY <2>21 DEF Exit
  <2> QED
    BY <1>2, <2>1, <2>2, <2>3, <2>5, <2>6, <2>7, <2>8, <2>9, <2>10, <2>11, <2>20, <2>21 DEF Work
<1>3. ASSUME NEW p \in Processes, Fail(p)
      PROVE GuardInv'
  BY <1>3 DEF Fail, WriteFails, WriteStatus
<1>4. ASSUME NEW p \in Processes, Renew(p)
      PROVE GuardInv'
  BY <1>4 DEF Renew
<1>5. ASSUME NEW p \in Processes, Crash(p)
      PROVE GuardInv'
  BY <1>5 DEF Crash
<1>6. ASSUME NEW p \in Processes, Restart(p)
      PROVE GuardInv'
  BY <1>6 DEF Restart
<1>7. ASSUME NEW p \in Processes, NEW fresh \in BOOLEAN, Index(p, fresh)
      PROVE GuardInv'
  BY <1>7 DEF Index
<1>8. CASE StatusAges \/ LockAges \/ Edit
  BY <1>8 DEF StatusAges, LockAges, Edit
<1> QED
  BY <1>0, <1>1, <1>2, <1>3, <1>4, <1>5, <1>6, <1>7, <1>8 DEF Next

\* Only the holder removes a lock that names it, and a lock is only reclaimed
\* when the process it names is gone or its file could not be read.
LEMMA StepHolder == RefreshInv /\ [Next]_vars => OneRefresher'
<1> SUFFICES ASSUME RefreshInv, [Next]_vars
             PROVE OneRefresher'
  OBVIOUS
<1> USE DEF RefreshInv, TypeOK, GuardInv, OneRefresher
<1>0. ASSUME NEW p \in Processes, NEW reads \in SUBSET Readings, Examine(p, reads)
      PROVE OneRefresher'
  BY <1>0 DEF Examine
<1>1. CASE UNCHANGED vars
  BY <1>1
<1>2. ASSUME NEW p \in Processes, Work(p)
      PROVE OneRefresher'
  <2>1. CASE Begin(p) \/ TakeGuard(p)
    BY <2>1 DEF Begin, TakeGuard
  <2>2. CASE Create(p)
    BY <2>2 DEF Create
  <2>3. CASE Reclaim(p)
    <3>1. Lives(lock.by) => lock.by.p \in misread
      BY <2>3 DEF Reclaim
    <3>2. ASSUME NEW q \in Processes, pc[q] \in Holding
          PROVE q \in misread
      <4>1. CASE Matches(q)
        <5>1. lock.by.p = q /\ lock.by.life = life[q]
          BY <4>1
        <5>2. lock.by # NoOwner
          BY <5>1, RefreshAssumption
        <5> QED
          BY <3>1, <3>2, <5>1, <5>2
      <4> QED
        BY <3>2, <4>1
    <3>3. \A q \in Processes : pc'[q] \in Holding => pc[q] \in Holding
      BY <2>3 DEF Reclaim
    <3>4. misread' = misread
      BY <2>3 DEF Reclaim
    <3> QED
      BY <3>2, <3>3, <3>4
  <2>4. CASE Recheck(p) \/ StopHeartbeat(p)
    BY <2>4 DEF Recheck, StopHeartbeat
  <2>5. CASE Announce(p) \/ Report(p)
    BY <2>5 DEF Announce, Report, WriteStatus
  <2>6. CASE DropLock(p)
    BY <2>6 DEF DropLock
  <2>7. CASE Fill(p)
    BY <2>7 DEF Fill
  <2>20. CASE Examine(p, Readings)
    BY <1>0, <2>20
  <2>21. CASE Exit(p)
    BY <2>21 DEF Exit
  <2> QED
    BY <1>2, <2>1, <2>2, <2>3, <2>4, <2>5, <2>6, <2>7, <2>20, <2>21 DEF Work
<1>3. ASSUME NEW p \in Processes, Fail(p)
      PROVE OneRefresher'
  BY <1>3 DEF Fail, WriteFails, WriteStatus
<1>4. ASSUME NEW p \in Processes, Renew(p) \/ Crash(p)
      PROVE OneRefresher'
  BY <1>4 DEF Renew, Crash
<1>5. ASSUME NEW p \in Processes, Restart(p)
      PROVE OneRefresher'
  BY <1>5 DEF Restart
<1>6. ASSUME NEW p \in Processes, NEW fresh \in BOOLEAN, Index(p, fresh)
      PROVE OneRefresher'
  BY <1>6 DEF Index
<1>7. CASE StatusAges \/ LockAges \/ Edit
  BY <1>7 DEF StatusAges, LockAges, Edit
<1> QED
  BY <1>0, <1>1, <1>2, <1>3, <1>4, <1>5, <1>6, <1>7 DEF Next

\* A refresher leaves "refreshing" behind only by dying, by an error or with its
\* lock lost; when its Drop goes well no lock is in its name any more.
LEMMA StepStatus == RefreshInv /\ [Next]_vars => StatusInv'
<1> SUFFICES ASSUME RefreshInv, [Next]_vars
             PROVE StatusInv'
  OBVIOUS
<1> USE DEF RefreshInv, TypeOK, GuardInv, OneRefresher, StatusInv
<1>0. ASSUME NEW p \in Processes, NEW reads \in SUBSET Readings, Examine(p, reads)
      PROVE StatusInv'
  BY <1>0 DEF Examine
<1>1. CASE UNCHANGED vars
  BY <1>1
<1>2. ASSUME NEW p \in Processes, Work(p)
      PROVE StatusInv'
  <2>1. CASE Begin(p) \/ TakeGuard(p) \/ Create(p)  \/ Reclaim(p)
    BY <2>1 DEF Begin, TakeGuard, Create, Reclaim
  <2>2. CASE Recheck(p) \/ StopHeartbeat(p) \/ DropLock(p)
    BY <2>2 DEF Recheck, StopHeartbeat, DropLock
  <2>3. CASE Announce(p)
    BY <2>3 DEF Announce, WriteStatus
  <2>4. CASE Report(p)
    BY <2>4 DEF Report, WriteStatus
  <2>5. CASE Fill(p)
    BY <2>5 DEF Fill
  <2>20. CASE Examine(p, Readings)
    BY <1>0, <2>20
  <2>21. CASE Exit(p)
    BY <2>21 DEF Exit
  <2> QED
    BY <1>2, <2>1, <2>2, <2>3, <2>4, <2>5, <2>20, <2>21 DEF Work
<1>3. ASSUME NEW p \in Processes, Fail(p)
      PROVE StatusInv'
  BY <1>3 DEF Fail, WriteFails, WriteStatus
<1>4. ASSUME NEW p \in Processes, Renew(p) \/ Crash(p)
      PROVE StatusInv'
  BY <1>4 DEF Renew, Crash
<1>5. ASSUME NEW p \in Processes, Restart(p)
      PROVE StatusInv'
  BY <1>5 DEF Restart
<1>6. ASSUME NEW p \in Processes, NEW fresh \in BOOLEAN, Index(p, fresh)
      PROVE StatusInv'
  BY <1>6 DEF Index
<1>7. CASE StatusAges \/ LockAges \/ Edit
  BY <1>7 DEF StatusAges, LockAges, Edit
<1> QED
  BY <1>0, <1>1, <1>2, <1>3, <1>4, <1>5, <1>6, <1>7 DEF Next

\* The invariant holds in every reachable state.
THEOREM Invariance == Spec => []RefreshInv
<1>1. RefreshInv /\ [Next]_vars => RefreshInv'
  BY StepType, StepGuard, StepHolder, StepStatus DEF RefreshInv
<1> QED
  BY <1>1, InitInv, PTL DEF Spec

\* Every variable keeps its type.
THEOREM TypeCorrect == Spec => []TypeOK
<1>1. RefreshInv => TypeOK
  BY DEF RefreshInv
<1> QED
  BY <1>1, Invariance, PTL

\* Single flight: of any number of processes that fail, crash and reuse process
\* numbers anywhere in try_acquire, each that believes it holds the refresh lock
\* does, or lost it to one that could not read the lock file.
THEOREM SingleFlight == Spec => []OneRefresher
<1>1. RefreshInv => OneRefresher
  BY DEF RefreshInv
<1> QED
  BY <1>1, Invariance, PTL

\* A status that readers take for a refresh in progress names a process that is
\* refreshing, on its way out after an error, or could not remove its lock:
\* whatever status writes failed, also the ignored last one.
THEOREM StatusIsTrue == Spec => []RefreshingIsTrue
<1>1. RefreshInv => RefreshingIsTrue
  <2> SUFFICES ASSUME RefreshInv, ActiveStatus(Readings)
               PROVE pc[status.by.p] \in {"index", "stop", "report", "abandon", "kept"}
    BY DEF RefreshingIsTrue
  <2>1. status.state = "refreshing" /\ Lives(status.by) /\ lock = OwnedBy(status.by)
    BY DEF ActiveStatus, Readings
  <2> QED
    BY <2>1 DEF RefreshInv, StatusInv
<1> QED
  BY <1>1, Invariance, PTL
=============================================================================
