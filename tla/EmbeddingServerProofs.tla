------------------------ MODULE EmbeddingServerProofs ------------------------
(***************************************************************************)
(* Proofs, for any number of handlers and any capacity, that the embedding *)
(* server of EmbeddingServer drains only when it is idle and keeps what it *)
(* has in progress visible to the idle check.                              *)
(*                                                                         *)
(* The properties are not inductive: what a committed drain has observed   *)
(* under three locks, one after the other, stays true only because of      *)
(* where each handler is.  Invariant ties the registries and the engine's  *)
(* state to the handlers' positions, and the observations to the gate.     *)
(***************************************************************************)
EXTENDS EmbeddingServer, FiniteSetTheorems, TLAPS

\* Handlers between begin_request and finish_request, and those with a lease.
Registered == {"engine", "submit", "wait", "ensure", "lease", "leased", "finish"}
Holding == {"leased", "holding", "unlease", "unlease2"}
NotSubmitted == {"admit", "acquire", "begin", "engine", "submit"}
InEngine == {"queue", "hand", "active"}

\* Only operations that go through admission take its steps.
OpsFit ==
    \A h \in Handlers :
        conn[h] \in {"admit", "acquire", "begin", "engine"} =>
            op[h] \notin {"cancel", "incompatible"}

\* A registered handler is in the registry; a lease connection has its lease.
HandlersRegistered ==
    \A h \in Handlers :
        /\ conn[h] \in Registered => h \in active
        /\ conn[h] \in Holding => h \in leased

\* The engine has a live request only while its handler waits for the answer, or
\* when it left with a failed probe.
LiveWorkAwaited ==
    \A h \in Handlers :
        /\ conn[h] \in NotSubmitted => place[h] = "out"
        /\ (place[h] \in InEngine /\ fate[h] = "live") => conn[h] = "wait" \/ h \in orphaned
        /\ fate[h] = "committed" => place[h] = "done"

\* The gate is held for as long as the decision is open, by someone who does
\* nothing else, with the flag up; what has been seen of the registry stays so.
GateProtects ==
    /\ \A h \in Handlers : gate = h => conn[h] = "drain"
    /\ gate /= "free" => draining /\ closed = "no"
    /\ gate /= "free" /\ checking /= "active" => active = {}

\* A committed drain.
Drained ==
    closed /= "no" =>
        /\ draining /\ active = {} /\ leased = {}
        /\ \A h \in Handlers : ~(place[h] = "queue" /\ fate[h] = "live")

Positions == OpsFit /\ HandlersRegistered /\ LiveWorkAwaited
Invariant == TypeOK /\ Positions /\ GateProtects /\ Drained

----------------------------------------------------------------------------
(* What each step preserves *)

\* Giving back a permit keeps the depths natural numbers.
LEMMA ReleaseKeepsTypes ==
    ASSUME TypeOK, NEW h \in Handlers, ReleasePermit(h)
    PROVE  permits' \subseteq Handlers /\ depth' \in [Classes -> Nat]
<1>1. Class(h) \in Classes
  BY DEF Class, Classes
<1>2. CASE h \in permits
  BY <1>1, <1>2 DEF ReleasePermit, TypeOK
<1>3. CASE h \notin permits
  BY <1>3 DEF ReleasePermit, TypeOK
<1> QED BY <1>2, <1>3

\* Every step keeps the types.
LEMMA TypeStep ==
    ASSUME TypeOK, OpsFit, Step
    PROVE  TypeOK'
<1> USE DEF TypeOK, ConnStates, Go,
            handlerVars, admissionVars, registryVars, drainVars, engineVars
<1>1. ASSUME NEW h \in Handlers, ReadExecution(h) PROVE TypeOK'
  <2>1. LastActive(Class(h)) \in BOOLEAN
    BY Zenon DEF LastActive
  <2>2. executing' \in [Handlers -> BOOLEAN]
    BY <1>1, <2>1 DEF ReadExecution
  <2> QED BY <1>1, <2>2 DEF ReadExecution
<1>2. ASSUME NEW h \in Handlers, TryAcquire(h) PROVE TypeOK'
  BY <1>2 DEF TryAcquire, Class, Classes
<1>3. ASSUME NEW h \in Handlers, ExpireAdmitted(h) PROVE TypeOK'
  BY <1>3 DEF ExpireAdmitted, ReleasePermit, Class, Classes
<1>4. ASSUME NEW h \in Handlers, BeginRequest(h) PROVE TypeOK'
  <2>1. CASE draining
    <3>1. permits' \subseteq Handlers /\ depth' \in [Classes -> Nat]
      BY <1>4, <2>1, ReleaseKeepsTypes DEF BeginRequest
    <3> QED BY <1>4, <2>1, <3>1, ZenonT(60) DEF BeginRequest
  <2>2. CASE ~draining
    BY <1>4, <2>2, ZenonT(60) DEF BeginRequest
  <2> QED BY <2>1, <2>2
<1>5. ASSUME NEW h \in Handlers, EngineCall(h) PROVE TypeOK'
  <2>1. op[h] \in {"query", "bulk", "lease", "ensure"}
    BY <1>5 DEF EngineCall, OpsFit, AllOps
  <2>2. conn' \in [Handlers -> ConnStates]
    BY <1>5, <2>1 DEF EngineCall, Embeds
  <2>3. engineUp' \in BOOLEAN
    BY <1>5 DEF EngineCall
  <2> QED BY <1>5, <2>2, <2>3 DEF EngineCall
<1>6. ASSUME NEW h \in Handlers, Submit(h) PROVE TypeOK'
  BY <1>6 DEF Submit
<1>7. ASSUME NEW h \in Handlers, Expire(h) PROVE TypeOK'
  BY <1>7 DEF Expire
<1>31. ASSUME NEW h \in Handlers, ProbeFails(h) PROVE TypeOK'
  BY <1>31 DEF ProbeFails
<1>8. ASSUME NEW h \in Handlers, Respond(h) PROVE TypeOK'
  BY <1>8 DEF Respond
<1>9. ASSUME NEW h \in Handlers, EnsureResident(h) PROVE TypeOK'
  BY <1>9 DEF EnsureResident
<1>10. ASSUME NEW h \in Handlers, Finish(h) PROVE TypeOK'
  BY <1>10 DEF Finish
<1>11. ASSUME NEW h \in Handlers, FinishCancellation(h) PROVE TypeOK'
  BY <1>11 DEF FinishCancellation, ReleasePermit, Class, Classes
<1>12. ASSUME NEW h \in Handlers, FinishIdleWindow(h) PROVE TypeOK'
  BY <1>12, ZenonT(60) DEF FinishIdleWindow, RenewContext
<1>13. ASSUME NEW h \in Handlers, AcquireLease(h) PROVE TypeOK'
  BY <1>13 DEF AcquireLease
<1>14. ASSUME NEW h \in Handlers, ReportLease(h) PROVE TypeOK'
  BY <1>14 DEF ReportLease
<1>15. ASSUME NEW h \in Handlers, EndLease(h) PROVE TypeOK'
  BY <1>15 DEF EndLease
<1>16. ASSUME NEW h \in Handlers, RestartIdleWindow(h) PROVE TypeOK'
  BY <1>16, ZenonT(60) DEF RestartIdleWindow
<1>17. ASSUME NEW h \in Handlers, DropNativeLease(h) PROVE TypeOK'
  BY <1>17 DEF DropNativeLease
<1>18. ASSUME NEW h \in Handlers, CancelRequest(h) PROVE TypeOK'
  BY <1>18 DEF CancelRequest, ReleasePermit, Class, Classes
<1>19. ASSUME NEW h \in Handlers, WorkerTakes(h) PROVE TypeOK'
  BY <1>19 DEF WorkerTakes, EngineMove
<1>20. ASSUME NEW h \in Handlers, WorkerBegins(h) PROVE TypeOK'
  BY <1>20 DEF WorkerBegins, EngineMove
<1>21. ASSUME NEW h \in Handlers, WorkerCommits(h) PROVE TypeOK'
  BY <1>21 DEF WorkerCommits, EngineMove
<1>22. ASSUME NEW h \in Handlers, WorkerAnswersCancelled(h) PROVE TypeOK'
  BY <1>22 DEF WorkerAnswersCancelled, EngineMove
<1>23. ASSUME NEW h \in Handlers, WorkerFailsLoad(h) PROVE TypeOK'
  BY <1>23 DEF WorkerFailsLoad, EngineMove
<1>24. ASSUME NEW a \in Handlers \cup {"main"}, RaiseDraining(a) PROVE TypeOK'
  BY <1>24, ZenonT(60) DEF RaiseDraining, DrainReturns, WantsToDrain
<1>25. ASSUME NEW a \in Handlers \cup {"main"}, CheckIdle(a) PROVE TypeOK'
  BY <1>25 DEF CheckIdle, Found
<1>26. ASSUME NEW a \in Handlers \cup {"main"}, GiveUpDraining(a) PROVE TypeOK'
  BY <1>26 DEF GiveUpDraining, DrainReturns
<1>27. ASSUME NEW a \in Handlers \cup {"main"}, CommitDraining(a) PROVE TypeOK'
  BY <1>27 DEF CommitDraining, DrainReturns, EngineIdle
<1>28. ASSUME NEW h \in Handlers, NEW o \in Ops, Accept(h, o) PROVE TypeOK'
  BY <1>28, ServerAssumption DEF Accept, FirstStep, RenewContext, AllOps
<1>29. CASE MainTop \/ MainHint \/ MainElapsed \/ MainNoConnection \/ MainAcceptFails
  BY <1>29 DEF MainTop, MainHint, MainElapsed, MainNoConnection, MainAcceptFails, MainStep
<1>30. CASE MainExit
  BY <1>30 DEF MainExit
<1> QED
  BY <1>1, <1>2, <1>3, <1>4, <1>5, <1>6, <1>7, <1>8, <1>9, <1>10, <1>11, <1>12, <1>13,
     <1>14, <1>15, <1>16, <1>17, <1>18, <1>19, <1>20, <1>21, <1>22, <1>23, <1>24, <1>25,
     <1>26, <1>27, <1>28, <1>29, <1>30, <1>31
     DEF Step, Main, Handler, Drain, EngineWorker

\* Every step keeps handlers, registries and engine in line.
LEMMA PositionStep ==
    ASSUME TypeOK, Positions, GateProtects, Step
    PROVE  Positions'
<1> USE DEF TypeOK, Positions, GateProtects, OpsFit, HandlersRegistered, LiveWorkAwaited,
            Registered, Holding, NotSubmitted, InEngine, Go,
            handlerVars, admissionVars, registryVars, drainVars, engineVars
<1>1. ASSUME NEW h \in Handlers, ReadExecution(h) PROVE Positions'
  BY <1>1 DEF ReadExecution
<1>2. ASSUME NEW h \in Handlers, TryAcquire(h) PROVE Positions'
  BY <1>2 DEF TryAcquire
<1>3. ASSUME NEW h \in Handlers, ExpireAdmitted(h) PROVE Positions'
  BY <1>3 DEF ExpireAdmitted, ReleasePermit
<1>4. ASSUME NEW h \in Handlers, BeginRequest(h) PROVE Positions'
  BY <1>4 DEF BeginRequest, ReleasePermit
<1>5. ASSUME NEW h \in Handlers, EngineCall(h) PROVE Positions'
  BY <1>5 DEF EngineCall, Embeds, AllOps
<1>6. ASSUME NEW h \in Handlers, Submit(h) PROVE Positions'
  BY <1>6 DEF Submit
<1>7. ASSUME NEW h \in Handlers, Expire(h) PROVE Positions'
  BY <1>7 DEF Expire
<1>31. ASSUME NEW h \in Handlers, ProbeFails(h) PROVE Positions'
  BY <1>31 DEF ProbeFails
<1>8. ASSUME NEW h \in Handlers, Respond(h) PROVE Positions'
  BY <1>8 DEF Respond
<1>9. ASSUME NEW h \in Handlers, EnsureResident(h) PROVE Positions'
  BY <1>9 DEF EnsureResident
<1>10. ASSUME NEW h \in Handlers, Finish(h) PROVE Positions'
  BY <1>10 DEF Finish
<1>11. ASSUME NEW h \in Handlers, FinishCancellation(h) PROVE Positions'
  BY <1>11 DEF FinishCancellation, ReleasePermit
<1>12. ASSUME NEW h \in Handlers, FinishIdleWindow(h) PROVE Positions'
  BY <1>12 DEF FinishIdleWindow, RenewContext
<1>13. ASSUME NEW h \in Handlers, AcquireLease(h) PROVE Positions'
  BY <1>13 DEF AcquireLease
<1>14. ASSUME NEW h \in Handlers, ReportLease(h) PROVE Positions'
  BY <1>14 DEF ReportLease
<1>15. ASSUME NEW h \in Handlers, EndLease(h) PROVE Positions'
  BY <1>15 DEF EndLease
<1>16. ASSUME NEW h \in Handlers, RestartIdleWindow(h) PROVE Positions'
  BY <1>16 DEF RestartIdleWindow
<1>17. ASSUME NEW h \in Handlers, DropNativeLease(h) PROVE Positions'
  BY <1>17 DEF DropNativeLease
<1>18. ASSUME NEW h \in Handlers, CancelRequest(h) PROVE Positions'
  BY <1>18 DEF CancelRequest, ReleasePermit
<1>19. ASSUME NEW h \in Handlers, WorkerTakes(h) PROVE Positions'
  BY <1>19 DEF WorkerTakes, EngineMove
<1>20. ASSUME NEW h \in Handlers, WorkerBegins(h) PROVE Positions'
  BY <1>20 DEF WorkerBegins, EngineMove
<1>21. ASSUME NEW h \in Handlers, WorkerCommits(h) PROVE Positions'
  BY <1>21 DEF WorkerCommits, EngineMove
<1>22. ASSUME NEW h \in Handlers, WorkerAnswersCancelled(h) PROVE Positions'
  BY <1>22 DEF WorkerAnswersCancelled, EngineMove
<1>23. ASSUME NEW h \in Handlers, WorkerFailsLoad(h) PROVE Positions'
  BY <1>23 DEF WorkerFailsLoad, EngineMove
<1>24. ASSUME NEW a \in Handlers \cup {"main"}, RaiseDraining(a) PROVE Positions'
  BY <1>24 DEF RaiseDraining, DrainReturns, WantsToDrain
<1>25. ASSUME NEW a \in Handlers \cup {"main"}, CheckIdle(a) PROVE Positions'
  BY <1>25 DEF CheckIdle, Found
<1>26. ASSUME NEW a \in Handlers \cup {"main"}, GiveUpDraining(a) PROVE Positions'
  BY <1>26 DEF GiveUpDraining, DrainReturns
<1>27. ASSUME NEW a \in Handlers \cup {"main"}, CommitDraining(a) PROVE Positions'
  BY <1>27 DEF CommitDraining, DrainReturns, EngineIdle
<1>28. ASSUME NEW h \in Handlers, NEW o \in Ops, Accept(h, o) PROVE Positions'
  BY <1>28 DEF Accept, FirstStep, RenewContext, AllOps
<1>29. CASE MainTop \/ MainHint \/ MainElapsed \/ MainNoConnection \/ MainAcceptFails
  BY <1>29 DEF MainTop, MainHint, MainElapsed, MainNoConnection, MainAcceptFails, MainStep
<1>30. CASE MainExit
  BY <1>30 DEF MainExit
<1> QED
  BY <1>1, <1>2, <1>3, <1>4, <1>5, <1>6, <1>7, <1>8, <1>9, <1>10, <1>11, <1>12, <1>13,
     <1>14, <1>15, <1>16, <1>17, <1>18, <1>19, <1>20, <1>21, <1>22, <1>23, <1>24, <1>25,
     <1>26, <1>27, <1>28, <1>29, <1>30, <1>31
     DEF Step, Main, Handler, Drain, EngineWorker

\* Every step keeps what the drain has observed.
LEMMA DrainStep ==
    ASSUME Invariant, Step
    PROVE  GateProtects' /\ Drained'
<1> USE DEF Invariant, TypeOK, Positions, GateProtects, Drained, HandlersRegistered,
            Registered, Go, handlerVars, admissionVars, registryVars, drainVars, engineVars
<1>1. ASSUME NEW h \in Handlers, ReadExecution(h) PROVE GateProtects' /\ Drained'
  BY <1>1 DEF ReadExecution
<1>2. ASSUME NEW h \in Handlers, TryAcquire(h) PROVE GateProtects' /\ Drained'
  BY <1>2 DEF TryAcquire
<1>3. ASSUME NEW h \in Handlers, ExpireAdmitted(h) PROVE GateProtects' /\ Drained'
  BY <1>3 DEF ExpireAdmitted, ReleasePermit
<1>4. ASSUME NEW h \in Handlers, BeginRequest(h) PROVE GateProtects' /\ Drained'
  BY <1>4 DEF BeginRequest, ReleasePermit
<1>5. ASSUME NEW h \in Handlers, EngineCall(h) PROVE GateProtects' /\ Drained'
  BY <1>5 DEF EngineCall, Embeds
<1>6. ASSUME NEW h \in Handlers, Submit(h) PROVE GateProtects' /\ Drained'
  BY <1>6 DEF Submit
<1>7. ASSUME NEW h \in Handlers, Expire(h) PROVE GateProtects' /\ Drained'
  BY <1>7 DEF Expire
<1>31. ASSUME NEW h \in Handlers, ProbeFails(h) PROVE GateProtects' /\ Drained'
  BY <1>31 DEF ProbeFails
<1>8. ASSUME NEW h \in Handlers, Respond(h) PROVE GateProtects' /\ Drained'
  BY <1>8 DEF Respond
<1>9. ASSUME NEW h \in Handlers, EnsureResident(h) PROVE GateProtects' /\ Drained'
  BY <1>9 DEF EnsureResident
<1>10. ASSUME NEW h \in Handlers, Finish(h) PROVE GateProtects' /\ Drained'
  BY <1>10 DEF Finish
<1>11. ASSUME NEW h \in Handlers, FinishCancellation(h) PROVE GateProtects' /\ Drained'
  BY <1>11 DEF FinishCancellation, ReleasePermit
<1>12. ASSUME NEW h \in Handlers, FinishIdleWindow(h) PROVE GateProtects' /\ Drained'
  BY <1>12 DEF FinishIdleWindow, RenewContext
<1>13. ASSUME NEW h \in Handlers, AcquireLease(h) PROVE GateProtects' /\ Drained'
  BY <1>13 DEF AcquireLease
<1>14. ASSUME NEW h \in Handlers, ReportLease(h) PROVE GateProtects' /\ Drained'
  BY <1>14 DEF ReportLease
<1>15. ASSUME NEW h \in Handlers, EndLease(h) PROVE GateProtects' /\ Drained'
  BY <1>15 DEF EndLease
<1>16. ASSUME NEW h \in Handlers, RestartIdleWindow(h) PROVE GateProtects' /\ Drained'
  BY <1>16 DEF RestartIdleWindow
<1>17. ASSUME NEW h \in Handlers, DropNativeLease(h) PROVE GateProtects' /\ Drained'
  BY <1>17 DEF DropNativeLease
<1>18. ASSUME NEW h \in Handlers, CancelRequest(h) PROVE GateProtects' /\ Drained'
  BY <1>18 DEF CancelRequest, ReleasePermit
<1>19. ASSUME NEW h \in Handlers, WorkerTakes(h) PROVE GateProtects' /\ Drained'
  BY <1>19 DEF WorkerTakes, EngineMove
<1>20. ASSUME NEW h \in Handlers, WorkerBegins(h) PROVE GateProtects' /\ Drained'
  BY <1>20 DEF WorkerBegins, EngineMove
<1>21. ASSUME NEW h \in Handlers, WorkerCommits(h) PROVE GateProtects' /\ Drained'
  BY <1>21 DEF WorkerCommits, EngineMove
<1>22. ASSUME NEW h \in Handlers, WorkerAnswersCancelled(h) PROVE GateProtects' /\ Drained'
  BY <1>22 DEF WorkerAnswersCancelled, EngineMove
<1>23. ASSUME NEW h \in Handlers, WorkerFailsLoad(h) PROVE GateProtects' /\ Drained'
  BY <1>23 DEF WorkerFailsLoad, EngineMove
<1>24. ASSUME NEW a \in Handlers \cup {"main"}, RaiseDraining(a)
      PROVE GateProtects' /\ Drained'
  BY <1>24, ServerAssumption DEF RaiseDraining, DrainReturns, WantsToDrain
<1>25. ASSUME NEW a \in Handlers \cup {"main"}, CheckIdle(a) PROVE GateProtects' /\ Drained'
  BY <1>25 DEF CheckIdle, Found
<1>26. ASSUME NEW a \in Handlers \cup {"main"}, GiveUpDraining(a)
      PROVE GateProtects' /\ Drained'
  BY <1>26, ServerAssumption DEF GiveUpDraining, DrainReturns
<1>27. ASSUME NEW a \in Handlers \cup {"main"}, CommitDraining(a)
      PROVE GateProtects' /\ Drained'
  BY <1>27, ServerAssumption DEF CommitDraining, DrainReturns, EngineIdle
<1>28. ASSUME NEW h \in Handlers, NEW o \in Ops, Accept(h, o)
      PROVE GateProtects' /\ Drained'
  BY <1>28 DEF Accept, FirstStep, RenewContext, AllOps
<1>29. CASE MainTop \/ MainHint \/ MainElapsed \/ MainNoConnection \/ MainAcceptFails
  BY <1>29 DEF MainTop, MainHint, MainElapsed, MainNoConnection, MainAcceptFails, MainStep
<1>30. CASE MainExit
  BY <1>30 DEF MainExit
<1> QED
  BY <1>1, <1>2, <1>3, <1>4, <1>5, <1>6, <1>7, <1>8, <1>9, <1>10, <1>11, <1>12, <1>13,
     <1>14, <1>15, <1>16, <1>17, <1>18, <1>19, <1>20, <1>21, <1>22, <1>23, <1>24, <1>25,
     <1>26, <1>27, <1>28, <1>29, <1>30, <1>31
     DEF Step, Main, Handler, Drain, EngineWorker

\* Time touches nothing but stale.
LEMMA InvariantStep ==
    Invariant /\ [Next]_vars => Invariant'
<1> SUFFICES ASSUME Invariant, [Next]_vars PROVE Invariant'
  OBVIOUS
<1>1. CASE Step
  BY <1>1, TypeStep, PositionStep, DrainStep DEF Invariant, Positions
<1>2. CASE TimePasses
  BY <1>2 DEF TimePasses, Invariant, TypeOK, Positions, OpsFit, HandlersRegistered,
              LiveWorkAwaited, GateProtects, Drained, handlerVars, admissionVars,
              registryVars, drainVars, engineVars
<1>3. CASE UNCHANGED vars
  BY <1>3 DEF Invariant, TypeOK, Positions, OpsFit, HandlersRegistered, LiveWorkAwaited,
              GateProtects, Drained, vars, handlerVars, admissionVars, registryVars,
              drainVars, engineVars
<1> QED
  BY <1>1, <1>2, <1>3 DEF Next, Exited

LEMMA InvariantInit ==
    Init => Invariant
<1> SUFFICES ASSUME Init PROVE Invariant
  OBVIOUS
<1>1. TypeOK
  BY DEF Init, TypeOK, ConnStates, AllOps, Classes
<1>2. Positions
  BY DEF Init, Positions, OpsFit, HandlersRegistered, LiveWorkAwaited, Registered, Holding,
         NotSubmitted, InEngine
<1>3. GateProtects /\ Drained
  BY ServerAssumption DEF Init, GateProtects, Drained
<1> QED BY <1>1, <1>2, <1>3 DEF Invariant

THEOREM InvariantHolds ==
    Spec => []Invariant
BY InvariantInit, InvariantStep, PTL DEF Spec

----------------------------------------------------------------------------
(* The properties *)

\* The types of EmbeddingServer, for any set of handlers and any capacity.
THEOREM TypeCorrect ==
    Spec => []TypeOK
<1>1. Invariant => TypeOK
  BY DEF Invariant
<1> QED BY <1>1, InvariantHolds, PTL

\* Live work in the engine and calls under way belong to registered requests.
THEOREM LiveWorkIsRegistered ==
    Spec => []LiveWorkRegistered
<1>1. Invariant => LiveWorkRegistered
  BY DEF Invariant, Positions, HandlersRegistered, LiveWorkAwaited, LiveWorkRegistered,
         Registered, InEngine
<1> QED BY <1>1, InvariantHolds, PTL

\* From grant to drop the idle check can see a lease.
THEOREM LeaseIsVisible ==
    Spec => []LeaseAlwaysVisible
<1>1. Invariant => LeaseAlwaysVisible
  BY DEF Invariant, Positions, HandlersRegistered, LeaseAlwaysVisible, Registered, Holding
<1> QED BY <1>1, InvariantHolds, PTL

\* When begin_draining_if_idle has succeeded nothing is in progress, and
\* nothing ever will be.
THEOREM DrainMeansIdle ==
    Spec => []ClosedMeansIdle
<1>1. Invariant => ClosedMeansIdle
  <2> SUFFICES ASSUME Invariant, closed /= "no", NEW h \in Handlers, place[h] \in InEngine
               PROVE  fate[h] = "cancelled" \/ (h \in orphaned /\ place[h] /= "queue")
    BY DEF Invariant, Drained, ClosedMeansIdle, InEngine
  <2>1. conn[h] /= "wait"
    BY DEF Invariant, Drained, Positions, HandlersRegistered, Registered
  <2>2. fate[h] /= "committed" /\ (fate[h] = "live" => h \in orphaned)
    BY <2>1 DEF Invariant, Positions, LiveWorkAwaited, InEngine
  <2>3. fate[h] = "live" => place[h] /= "queue"
    BY DEF Invariant, Drained
  <2> QED BY <2>2, <2>3 DEF Invariant, TypeOK
<1> QED BY <1>1, InvariantHolds, PTL

\* A drain that has been committed is never taken back.
THEOREM DrainFinal ==
    Spec => DrainIsFinal
<1>1. Invariant /\ [Next]_vars => [closed /= "no" => closed' = closed /\ draining']_vars
  <2> SUFFICES ASSUME Invariant, Next, closed /= "no" PROVE closed' = closed /\ draining'
    BY DEF Invariant
  <2>1. closed' = closed
    <3>1. gate = "free"
      BY DEF Invariant, GateProtects
    <3>2. ASSUME NEW a \in Handlers \cup {"main"} PROVE ~CommitDraining(a)
      BY <3>1, ServerAssumption DEF CommitDraining
    <3>3. CASE Step
      BY <3>2, <3>3, ZenonT(60)
         DEF Step, Main, Handler, Drain, EngineWorker, EngineMove, MainStep, drainVars, vars,
             ReadExecution, TryAcquire, ExpireAdmitted, BeginRequest, EngineCall, Submit,
             Expire, ProbeFails, Respond, EnsureResident, Finish, FinishCancellation, FinishIdleWindow,
             AcquireLease, ReportLease, EndLease, RestartIdleWindow, DropNativeLease,
             CancelRequest, RaiseDraining, CheckIdle, GiveUpDraining, Accept, MainExit,
             MainTop, MainHint, MainElapsed, MainNoConnection, MainAcceptFails, WorkerTakes, WorkerBegins,
             WorkerCommits, WorkerAnswersCancelled, WorkerFailsLoad
    <3>4. CASE ~Step
      BY <3>4 DEF Next, TimePasses, Exited, drainVars, vars
    <3> QED BY <3>3, <3>4
  <2>2. draining'
    BY <2>1, InvariantStep DEF Invariant, Drained
  <2> QED BY <2>1, <2>2
<1> QED BY <1>1, InvariantHolds, PTL DEF Spec, DrainIsFinal

----------------------------------------------------------------------------
(* Permit accounting *)

\* Who may still have a permit: it is given back on every way out.
PermitsPlaced ==
    \A h \in permits :
        \/ conn[h] \in Registered \cup {"begin", "finish2"}
        \/ conn[h] \in {"unlease", "unlease2"} /\ h \in active

Holders(c) == {h \in permits : Class(h) = c}

LEMMA HoldersFinite ==
    ASSUME TypeOK, NEW c
    PROVE  IsFiniteSet(Holders(c)) /\ Cardinality(Holders(c)) \in Nat
<1>1. Holders(c) \subseteq Handlers
  BY DEF Holders, TypeOK
<1> QED BY <1>1, ServerAssumption, FS_Subset, FS_CardinalityType

\* One more permit, one more in the depth of its class.
LEMMA AcquireCounts ==
    ASSUME TypeOK, PermitAccounting, NEW h \in Handlers, h \notin permits, op' = op,
           permits' = permits \cup {h}, depth' = [depth EXCEPT ![Class(h)] = @ + 1]
    PROVE  PermitAccounting'
<1> SUFFICES ASSUME NEW c \in Classes PROVE depth'[c] = Cardinality(Holders(c)')
  BY DEF PermitAccounting, Holders
<1>1. depth[c] = Cardinality(Holders(c)) /\ depth[c] \in Nat
  BY DEF PermitAccounting, Holders, TypeOK
<1>2. CASE c = Class(h)
  <2>1. Holders(c)' = Holders(c) \cup {h} /\ h \notin Holders(c)
    BY <1>2 DEF Holders, Class
  <2>2. Cardinality(Holders(c) \cup {h}) = Cardinality(Holders(c)) + 1
    BY <2>1, HoldersFinite, FS_AddElement
  <2> QED BY <1>1, <1>2, <2>1, <2>2 DEF TypeOK
<1>3. CASE c /= Class(h)
  <2>1. Holders(c)' = Holders(c)
    BY <1>3 DEF Holders, Class
  <2> QED BY <1>1, <1>3, <2>1 DEF TypeOK
<1> QED BY <1>2, <1>3

\* A release counts once, and never below zero.
LEMMA ReleaseCounts ==
    ASSUME TypeOK, PermitAccounting, NEW h \in Handlers, ReleasePermit(h), op' = op
    PROVE  PermitAccounting'
<1> SUFFICES ASSUME NEW c \in Classes PROVE depth'[c] = Cardinality(Holders(c)')
  BY DEF PermitAccounting, Holders
<1>1. depth[c] = Cardinality(Holders(c)) /\ depth[c] \in Nat
  BY DEF PermitAccounting, Holders, TypeOK
<1>2. CASE h \notin permits
  <2>1. Holders(c)' = Holders(c)
    BY <1>2 DEF Holders, Class, ReleasePermit
  <2> QED BY <1>1, <1>2, <2>1 DEF ReleasePermit
<1>3. CASE h \in permits /\ c /= Class(h)
  <2>1. Holders(c)' = Holders(c)
    BY <1>3 DEF Holders, Class, ReleasePermit
  <2> QED BY <1>1, <1>3, <2>1 DEF ReleasePermit, TypeOK
<1>4. CASE h \in permits /\ c = Class(h)
  <2>1. Holders(c)' = Holders(c) \ {h} /\ h \in Holders(c)
    BY <1>4 DEF Holders, Class, ReleasePermit
  <2>2. Cardinality(Holders(c) \ {h}) = Cardinality(Holders(c)) - 1
    BY <2>1, HoldersFinite, FS_RemoveElement
  <2>3. Holders(c) /= {} /\ depth[c] /= 0
    BY <1>1, <2>1, HoldersFinite, FS_EmptySet
  <2>4. depth'[c] = depth[c] - 1
    BY <1>4, <2>3 DEF ReleasePermit, TypeOK
  <2> QED BY <1>1, <2>1, <2>2, <2>4
<1> QED BY <1>2, <1>3, <1>4

\* Nothing changes for those who have a permit.
LEMMA SameCounts ==
    ASSUME PermitAccounting, permits' = permits, depth' = depth,
           \A h \in permits : op'[h] = op[h]
    PROVE  PermitAccounting'
<1>1. \A c \in Classes : {h \in permits' : (Class(h) = c)'} = {h \in permits : Class(h) = c}
  BY DEF Class
<1> QED BY <1>1 DEF PermitAccounting

LEMMA PermitStep ==
    ASSUME Invariant, PermitsPlaced, PermitAccounting, Step
    PROVE  PermitsPlaced' /\ PermitAccounting'
<1> USE DEF Invariant, TypeOK, Positions, GateProtects, PermitsPlaced, Registered, Go,
            handlerVars, admissionVars, registryVars, drainVars, engineVars
<1>1. ASSUME NEW h \in Handlers, ReadExecution(h) PROVE PermitsPlaced' /\ PermitAccounting'
  BY <1>1, SameCounts DEF ReadExecution
<1>2. ASSUME NEW h \in Handlers, TryAcquire(h) PROVE PermitsPlaced' /\ PermitAccounting'
  <2>1. h \notin permits
    BY <1>2 DEF TryAcquire
  <2>2. PermitAccounting'
    BY <1>2, <2>1, AcquireCounts, SameCounts DEF TryAcquire
  <2> QED BY <1>2, <2>2 DEF TryAcquire
<1>3. ASSUME NEW h \in Handlers, ExpireAdmitted(h) PROVE PermitsPlaced' /\ PermitAccounting'
  <2>1. PermitAccounting'
    BY <1>3, ReleaseCounts DEF ExpireAdmitted
  <2> QED BY <1>3, <2>1 DEF ExpireAdmitted, ReleasePermit
<1>4. ASSUME NEW h \in Handlers, BeginRequest(h) PROVE PermitsPlaced' /\ PermitAccounting'
  <2>1. PermitAccounting'
    BY <1>4, ReleaseCounts, SameCounts DEF BeginRequest
  <2>2. CASE draining
    <3>1. permits' \subseteq permits \ {h}
      BY <1>4, <2>2 DEF BeginRequest, ReleasePermit
    <3> QED BY <1>4, <2>1, <2>2, <3>1 DEF BeginRequest
  <2>3. CASE ~draining
    BY <1>4, <2>1, <2>3, ZenonT(60) DEF BeginRequest
  <2> QED BY <2>2, <2>3
<1>5. ASSUME NEW h \in Handlers, EngineCall(h) PROVE PermitsPlaced' /\ PermitAccounting'
  BY <1>5, SameCounts DEF EngineCall, Embeds, OpsFit, AllOps
<1>6. ASSUME NEW h \in Handlers, Submit(h) PROVE PermitsPlaced' /\ PermitAccounting'
  BY <1>6, SameCounts DEF Submit
<1>7. ASSUME NEW h \in Handlers, Expire(h) PROVE PermitsPlaced' /\ PermitAccounting'
  BY <1>7, SameCounts DEF Expire
<1>31. ASSUME NEW h \in Handlers, ProbeFails(h) PROVE PermitsPlaced' /\ PermitAccounting'
  BY <1>31, SameCounts DEF ProbeFails
<1>8. ASSUME NEW h \in Handlers, Respond(h) PROVE PermitsPlaced' /\ PermitAccounting'
  BY <1>8, SameCounts DEF Respond
<1>9. ASSUME NEW h \in Handlers, EnsureResident(h) PROVE PermitsPlaced' /\ PermitAccounting'
  BY <1>9, SameCounts DEF EnsureResident
<1>10. ASSUME NEW h \in Handlers, Finish(h) PROVE PermitsPlaced' /\ PermitAccounting'
  BY <1>10, SameCounts DEF Finish
<1>11. ASSUME NEW h \in Handlers, FinishCancellation(h)
      PROVE PermitsPlaced' /\ PermitAccounting'
  <2>1. PermitAccounting'
    BY <1>11, ReleaseCounts DEF FinishCancellation
  <2> QED BY <1>11, <2>1 DEF FinishCancellation, ReleasePermit
<1>12. ASSUME NEW h \in Handlers, FinishIdleWindow(h)
      PROVE PermitsPlaced' /\ PermitAccounting'
  BY <1>12, SameCounts DEF FinishIdleWindow, RenewContext
<1>13. ASSUME NEW h \in Handlers, AcquireLease(h) PROVE PermitsPlaced' /\ PermitAccounting'
  BY <1>13, SameCounts DEF AcquireLease
<1>14. ASSUME NEW h \in Handlers, ReportLease(h) PROVE PermitsPlaced' /\ PermitAccounting'
  BY <1>14, SameCounts DEF ReportLease, HandlersRegistered
<1>15. ASSUME NEW h \in Handlers, EndLease(h) PROVE PermitsPlaced' /\ PermitAccounting'
  BY <1>15, SameCounts DEF EndLease
<1>16. ASSUME NEW h \in Handlers, RestartIdleWindow(h)
      PROVE PermitsPlaced' /\ PermitAccounting'
  BY <1>16, SameCounts DEF RestartIdleWindow
<1>17. ASSUME NEW h \in Handlers, DropNativeLease(h)
      PROVE PermitsPlaced' /\ PermitAccounting'
  BY <1>17, SameCounts DEF DropNativeLease
<1>18. ASSUME NEW h \in Handlers, CancelRequest(h) PROVE PermitsPlaced' /\ PermitAccounting'
  <2>1. PermitAccounting'
    BY <1>18, ReleaseCounts, SameCounts DEF CancelRequest
  <2>2. permits' \subseteq permits
    BY <1>18 DEF CancelRequest, ReleasePermit
  <2> QED BY <1>18, <2>1, <2>2 DEF CancelRequest
<1>19. ASSUME NEW h \in Handlers, WorkerTakes(h) PROVE PermitsPlaced' /\ PermitAccounting'
  BY <1>19, SameCounts DEF WorkerTakes, EngineMove
<1>20. ASSUME NEW h \in Handlers, WorkerBegins(h) PROVE PermitsPlaced' /\ PermitAccounting'
  BY <1>20, SameCounts DEF WorkerBegins, EngineMove
<1>21. ASSUME NEW h \in Handlers, WorkerCommits(h) PROVE PermitsPlaced' /\ PermitAccounting'
  BY <1>21, SameCounts DEF WorkerCommits, EngineMove
<1>22. ASSUME NEW h \in Handlers, WorkerAnswersCancelled(h)
      PROVE PermitsPlaced' /\ PermitAccounting'
  BY <1>22, SameCounts DEF WorkerAnswersCancelled, EngineMove
<1>23. ASSUME NEW h \in Handlers, WorkerFailsLoad(h)
      PROVE PermitsPlaced' /\ PermitAccounting'
  BY <1>23, SameCounts DEF WorkerFailsLoad, EngineMove
<1>24. ASSUME NEW a \in Handlers \cup {"main"}, RaiseDraining(a)
      PROVE PermitsPlaced' /\ PermitAccounting'
  BY <1>24, SameCounts, ServerAssumption DEF RaiseDraining, DrainReturns, WantsToDrain
<1>25. ASSUME NEW a \in Handlers \cup {"main"}, CheckIdle(a)
      PROVE PermitsPlaced' /\ PermitAccounting'
  BY <1>25, SameCounts, ServerAssumption DEF CheckIdle
<1>26. ASSUME NEW a \in Handlers \cup {"main"}, GiveUpDraining(a)
      PROVE PermitsPlaced' /\ PermitAccounting'
  BY <1>26, SameCounts, ServerAssumption DEF GiveUpDraining, DrainReturns
<1>27. ASSUME NEW a \in Handlers \cup {"main"}, CommitDraining(a)
      PROVE PermitsPlaced' /\ PermitAccounting'
  BY <1>27, SameCounts, ServerAssumption DEF CommitDraining, DrainReturns
<1>28. ASSUME NEW h \in Handlers, NEW o \in Ops, Accept(h, o)
      PROVE PermitsPlaced' /\ PermitAccounting'
  <2>1. h \notin permits
    BY <1>28 DEF Accept
  <2> QED BY <1>28, <2>1, SameCounts DEF Accept
<1>29. CASE MainTop \/ MainHint \/ MainElapsed \/ MainNoConnection \/ MainAcceptFails
  BY <1>29, SameCounts DEF MainTop, MainHint, MainElapsed, MainNoConnection, MainAcceptFails, MainStep
<1>30. CASE MainExit
  BY <1>30, SameCounts DEF MainExit
<1> QED
  BY <1>1, <1>2, <1>3, <1>4, <1>5, <1>6, <1>7, <1>8, <1>9, <1>10, <1>11, <1>12, <1>13,
     <1>14, <1>15, <1>16, <1>17, <1>18, <1>19, <1>20, <1>21, <1>22, <1>23, <1>24, <1>25,
     <1>26, <1>27, <1>28, <1>29, <1>30, <1>31
     DEF Step, Main, Handler, Drain, EngineWorker

\* The depth of a class is the number of its permits that are out, however
\* many clones of a permit are dropped and whoever cancels first.
THEOREM PermitsAccounted ==
    Spec => []PermitAccounting
<1> DEFINE PInv == PermitsPlaced /\ PermitAccounting
<1>1. Init => PInv
  <2> SUFFICES ASSUME Init PROVE PInv
    OBVIOUS
  <2>1. \A c \in Classes : Holders(c) = {} /\ depth[c] = 0
    BY DEF Init, Holders
  <2> QED BY <2>1, FS_EmptySet DEF Init, PermitsPlaced, PermitAccounting, Holders
<1>2. Invariant /\ PInv /\ [Next]_vars => PInv'
  <2> SUFFICES ASSUME Invariant, PInv, [Next]_vars PROVE PInv'
    OBVIOUS
  <2>1. CASE Step
    BY <2>1, PermitStep
  <2>2. CASE ~Step
    <3>1. permits' = permits /\ depth' = depth /\ conn' = conn /\ op' = op /\ active' = active
      BY <2>2 DEF Next, TimePasses, Exited, vars, handlerVars, admissionVars, registryVars
    <3> QED BY <3>1, SameCounts DEF PermitsPlaced
  <2> QED BY <2>1, <2>2
<1> QED BY <1>1, <1>2, InvariantHolds, PTL DEF Spec
=============================================================================
