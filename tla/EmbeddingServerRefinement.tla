---------------------- MODULE EmbeddingServerRefinement ----------------------
(***************************************************************************)
(* Proof that whatever the server's handlers and the engine's worker do,   *)
(* in EmbeddingServer, is allowed by EmbeddingService: requests move only  *)
(* along submit, take, activate and commit, cancel wins only before        *)
(* commit, each request is answered once, and leases come and go one by    *)
(* one.  gen is constant: the server never looks at the load generation.   *)
(***************************************************************************)
EXTENDS EmbeddingServerProofs

\* There is an answer only where the engine is done.
AnswersInPlace == \A h \in Handlers : place[h] /= "done" => result[h] = "none"

serviceStep == [Service!ServiceNext]_(Service!serviceVars)

\* The engine is not concerned.
LEMMA Untouched ==
    ASSUME place' = place, fate' = fate, result' = result, leased' = leased
    PROVE  serviceStep
BY DEF serviceStep, Service!serviceVars

\* One request moves as the service allows, and no lease.
LEMMA OneMove ==
    ASSUME TypeOK, NEW h \in Handlers, NEW p, NEW f, NEW a,
           place' = [place EXCEPT ![h] = p], fate' = [fate EXCEPT ![h] = f],
           result' = [result EXCEPT ![h] = a], leased' = leased,
           Service!RequestMove(h, p, f, a)
    PROVE  serviceStep
<1>1. Service!RequestStep
  <2> SUFFICES ASSUME NEW r \in Handlers
               PROVE \/ UNCHANGED <<place[r], fate[r], result[r]>>
                     \/ Service!RequestMove(r, place'[r], fate'[r], result'[r])
    BY DEF Service!RequestStep
  <2>1. CASE r = h
    <3>1. place'[r] = p /\ fate'[r] = f /\ result'[r] = a
      BY <2>1 DEF TypeOK
    <3> QED BY <2>1, <3>1
  <2>2. CASE r /= h
    BY <2>2 DEF TypeOK
  <2> QED BY <2>1, <2>2
<1>2. Service!LeaseStep
  BY DEF Service!LeaseStep
<1>3. Service!GenerationStep
  BY DEF Service!GenerationStep
<1> QED BY <1>1, <1>2, <1>3 DEF serviceStep, Service!ServiceNext

\* One lease is granted or dropped, and no request moves.
LEMMA OneLease ==
    ASSUME TypeOK, NEW h \in Handlers, place' = place, fate' = fate, result' = result,
           leased' \in {leased \cup {h}, leased \ {h}}
    PROVE  serviceStep
<1>1. Service!RequestStep
  BY DEF Service!RequestStep
<1>2. Service!LeaseStep
  BY DEF Service!LeaseStep, Service!NoLease
<1>3. Service!GenerationStep
  BY DEF Service!GenerationStep
<1> QED BY <1>1, <1>2, <1>3 DEF serviceStep, Service!ServiceNext

LEMMA AnswersStep ==
    ASSUME Invariant, AnswersInPlace, [Next]_vars
    PROVE  AnswersInPlace'
<1> USE DEF AnswersInPlace, Invariant, TypeOK, engineVars
<1>1. ASSUME NEW h \in Handlers, EngineWorker(h) PROVE AnswersInPlace'
  BY <1>1 DEF EngineWorker, EngineMove, WorkerTakes, WorkerBegins, WorkerCommits,
              WorkerAnswersCancelled, WorkerFailsLoad
<1>2. ASSUME NEW h \in Handlers, FinishIdleWindow(h) PROVE AnswersInPlace'
  BY <1>2 DEF FinishIdleWindow, RenewContext
<1>3. ASSUME NEW h \in Handlers, NEW o \in Ops, Accept(h, o) PROVE AnswersInPlace'
  BY <1>3 DEF Accept, RenewContext
<1>4. ASSUME NEW h \in Handlers, Submit(h) PROVE AnswersInPlace'
  BY <1>4 DEF Submit, Positions, LiveWorkAwaited, NotSubmitted
<1>5. CASE place' = place /\ result' = result
  BY <1>5
<1> QED
  BY <1>1, <1>2, <1>3, <1>4, <1>5, ZenonT(60)
     DEF Next, Step, Main, Handler, Drain, TimePasses, Exited, vars, MainStep, MainTop,
         MainHint, MainElapsed, MainNoConnection, MainAcceptFails, MainExit, ReadExecution, TryAcquire,
         ExpireAdmitted, BeginRequest, EngineCall, Expire, ProbeFails, Respond, EnsureResident, Finish,
         FinishCancellation, AcquireLease, ReportLease, EndLease, RestartIdleWindow,
         DropNativeLease, CancelRequest, RaiseDraining, CheckIdle, GiveUpDraining,
         CommitDraining

LEMMA ServiceSteps ==
    ASSUME Invariant, AnswersInPlace, Step
    PROVE  serviceStep
<1> USE DEF engineVars
<1>1. TypeOK
  BY DEF Invariant
<1>2. ASSUME NEW h \in Handlers,
             ReadExecution(h) \/ TryAcquire(h) \/ ExpireAdmitted(h) \/
             BeginRequest(h) \/ EngineCall(h) \/ ProbeFails(h) \/ Respond(h) \/ EnsureResident(h) \/
             Finish(h) \/ FinishCancellation(h) \/ ReportLease(h) \/ EndLease(h) \/
             RestartIdleWindow(h)
      PROVE serviceStep
  BY <1>2, Untouched
     DEF ReadExecution, TryAcquire, ExpireAdmitted, BeginRequest, EngineCall, ProbeFails, Respond,
         EnsureResident, Finish, FinishCancellation, ReportLease, EndLease,
         RestartIdleWindow
<1>3. ASSUME NEW h \in Handlers, Submit(h) PROVE serviceStep
  <2>1. place[h] = "out" /\ result[h] = "none"
    BY <1>3 DEF Submit, Invariant, Positions, LiveWorkAwaited, NotSubmitted, AnswersInPlace
  <2>2. CASE place' = [place EXCEPT ![h] = "queue"]
    <3>1. Service!RequestMove(h, "queue", fate[h], result[h])
      BY <2>1 DEF Service!RequestMove, Service!Accepted
    <3>2. fate' = [fate EXCEPT ![h] = fate[h]] /\ result' = [result EXCEPT ![h] = result[h]]
      BY <1>3 DEF Submit, Invariant, TypeOK
    <3> QED BY <1>3, <1>1, <2>2, <3>1, <3>2, OneMove, ZenonT(60) DEF Submit
  <2>3. CASE place' = place
    BY <1>3, <2>3, Untouched DEF Submit
  <2> QED BY <1>3, <2>2, <2>3 DEF Submit
<1>4. ASSUME NEW h \in Handlers, Expire(h) PROVE serviceStep
  <2>1. CASE fate[h] = "live"
    <3>1. Service!RequestMove(h, place[h], "cancelled", result[h])
      BY <2>1 DEF Service!RequestMove, Service!CancelWins
    <3>2. /\ place' = [place EXCEPT ![h] = place[h]]
          /\ fate' = [fate EXCEPT ![h] = "cancelled"]
          /\ result' = [result EXCEPT ![h] = result[h]]
      BY <1>4, <2>1 DEF Expire, Invariant, TypeOK
    <3>3. leased' = leased
      BY <1>4 DEF Expire
    <3> QED BY <1>1, <2>1, <3>1, <3>2, <3>3, OneMove
  <2>2. CASE fate[h] /= "live"
    BY <1>4, <2>2, Untouched DEF Expire, Invariant, TypeOK
  <2> QED BY <2>1, <2>2
<1>5. ASSUME NEW h \in Handlers, CancelRequest(h) PROVE serviceStep
  <2>1. ASSUME NEW k \in Handlers, fate[k] = "live",
               fate' = [fate EXCEPT ![k] = "cancelled"]
        PROVE serviceStep
    <3>1. Service!RequestMove(k, place[k], "cancelled", result[k])
      BY <2>1 DEF Service!RequestMove, Service!CancelWins
    <3>2. /\ place' = [place EXCEPT ![k] = place[k]]
          /\ fate' = [fate EXCEPT ![k] = "cancelled"]
          /\ result' = [result EXCEPT ![k] = result[k]]
      BY <1>5, <2>1 DEF CancelRequest, Invariant, TypeOK
    <3>3. leased' = leased
      BY <1>5 DEF CancelRequest
    <3> QED BY <1>1, <2>1, <3>1, <3>2, <3>3, OneMove
  <2>2. CASE fate' = fate
    BY <1>5, <2>2, Untouched DEF CancelRequest
  <2> QED BY <1>5, <2>1, <2>2 DEF CancelRequest, Invariant, TypeOK
<1>6. ASSUME NEW h \in Handlers, FinishIdleWindow(h) PROVE serviceStep
  <2>1. CASE place[h] \in {"out", "done"}
    <3>1. Service!RequestMove(h, "out", "live", "none")
      BY <2>1 DEF Service!RequestMove, Service!Renewed
    <3> QED BY <1>6, <1>1, <2>1, <3>1, OneMove DEF FinishIdleWindow, RenewContext
  <2>2. CASE place[h] \notin {"out", "done"}
    BY <1>6, <2>2, Untouched DEF FinishIdleWindow
  <2> QED BY <2>1, <2>2
<1>7. ASSUME NEW h \in Handlers, NEW o \in Ops, Accept(h, o) PROVE serviceStep
  <2>1. place[h] \in {"out", "done"}
    BY <1>7 DEF Accept
  <2>2. Service!RequestMove(h, "out", "live", "none")
    BY <2>1 DEF Service!RequestMove, Service!Renewed
  <2> QED BY <1>7, <1>1, <2>2, OneMove DEF Accept, RenewContext
<1>8. ASSUME NEW h \in Handlers, AcquireLease(h) PROVE serviceStep
  BY <1>8, <1>1, OneLease, Untouched DEF AcquireLease
<1>9. ASSUME NEW h \in Handlers, DropNativeLease(h) PROVE serviceStep
  BY <1>9, <1>1, OneLease DEF DropNativeLease
<1>10. ASSUME NEW h \in Handlers, WorkerTakes(h) PROVE serviceStep
  <2>1. Service!RequestMove(h, "hand", "live", "none")
    BY <1>10 DEF WorkerTakes, Service!RequestMove, Service!Taken
  <2> QED BY <1>10, <1>1, <2>1, OneMove DEF WorkerTakes, EngineMove
<1>11. ASSUME NEW h \in Handlers, WorkerBegins(h) PROVE serviceStep
  <2>1. Service!RequestMove(h, "active", "live", "none")
    BY <1>11 DEF WorkerBegins, Service!RequestMove, Service!Activated
  <2> QED BY <1>11, <1>1, <2>1, OneMove DEF WorkerBegins, EngineMove
<1>12. ASSUME NEW h \in Handlers, WorkerCommits(h) PROVE serviceStep
  <2>1. Service!RequestMove(h, "done", "committed", "ok")
    BY <1>12 DEF WorkerCommits, Service!RequestMove, Service!CommitWins
  <2> QED BY <1>12, <1>1, <2>1, OneMove DEF WorkerCommits, EngineMove
<1>13. ASSUME NEW h \in Handlers, WorkerAnswersCancelled(h) PROVE serviceStep
  <2>1. Service!RequestMove(h, "done", "cancelled", "cancelled")
    BY <1>13 DEF WorkerAnswersCancelled, Service!RequestMove, Service!CancelAnswered
  <2> QED BY <1>13, <1>1, <2>1, OneMove DEF WorkerAnswersCancelled, EngineMove
<1>14. ASSUME NEW h \in Handlers, WorkerFailsLoad(h) PROVE serviceStep
  <2>1. Service!RequestMove(h, "done", fate[h], "failed")
    BY <1>14 DEF WorkerFailsLoad, Service!RequestMove, Service!LoadFailed
  <2> QED BY <1>14, <1>1, <2>1, OneMove DEF WorkerFailsLoad, EngineMove
<1>15. ASSUME NEW a \in Handlers \cup {"main"}, Drain(a) PROVE serviceStep
  BY <1>15, Untouched DEF Drain, RaiseDraining, CheckIdle, GiveUpDraining, CommitDraining
<1>16. CASE MainTop \/ MainHint \/ MainElapsed \/ MainNoConnection \/ MainExit
            \/ MainAcceptFails
  BY <1>16, Untouched DEF MainTop, MainHint, MainElapsed, MainNoConnection, MainStep, MainExit,
                          MainAcceptFails
<1> QED
  BY <1>2, <1>3, <1>4, <1>5, <1>6, <1>7, <1>8, <1>9, <1>10, <1>11, <1>12, <1>13, <1>14,
     <1>15, <1>16
     DEF Step, Main, Handler, EngineWorker

\* The server uses the engine as EmbeddingService allows, for any number of
\* handlers: the refinement of UsesService.
THEOREM ServerUsesService ==
    Spec => UsesService
<1>1. Init => Service!ServiceInit /\ AnswersInPlace
  BY DEF Init, AnswersInPlace, Service!ServiceInit, Service!NoLease
<1>2. Invariant /\ AnswersInPlace /\ [Next]_vars => serviceStep
  <2> SUFFICES ASSUME Invariant, AnswersInPlace, [Next]_vars PROVE serviceStep
    OBVIOUS
  <2>1. CASE Step
    BY <2>1, ServiceSteps
  <2>2. CASE ~Step
    BY <2>2, Untouched DEF Next, TimePasses, Exited, vars, engineVars
  <2> QED BY <2>1, <2>2
<1>3. Invariant /\ AnswersInPlace /\ [Next]_vars => AnswersInPlace'
  BY AnswersStep
<1> QED
  BY <1>1, <1>2, <1>3, InvariantHolds, PTL
     DEF Spec, UsesService, Service!ServiceSpec, serviceStep
=============================================================================
