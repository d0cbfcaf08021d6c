--------------------------- MODULE EmbeddingServer ---------------------------
(***************************************************************************)
(* The per-user embedding server of crates/codestory-retrieval: the accept *)
(* loop, one handler thread per connection, front-door admission, the      *)
(* registry of active requests and their cancellations, and the admission  *)
(* gate under which requests are registered and the server decides to      *)
(* drain.  The engine behind it is the one EmbeddingService describes.     *)
(*                                                                         *)
(* A handler slot is one connection at a time.  A deadline, or a peer that *)
(* is gone, may be noticed at every point where the code looks for it.     *)
(* Time is one bit, stale: "idle_timeout has elapsed since                 *)
(* last_work_ended_ns".                                                    *)
(*                                                                         *)
(* Left out: framing and identity checks of the handshake (a connection    *)
(* starts after them), observe connections and snapshots (they change no   *)
(* state modelled here), connection and pre-request counts, the watchdog,  *)
(* and the qualification hooks.                                            *)
(***************************************************************************)
EXTENDS Integers, FiniteSets

CONSTANTS
    Handlers,   \* connection handler threads
    Ops,        \* the operations that connections may bring
    Capacity,   \* per class, at the front door and in the engine's queue
    Faults      \* system calls that may fail: "probe" of a client's liveness, "accept"

AllOps == {"query", "bulk", "lease", "ensure", "cancel", "incompatible"}

ASSUME ServerAssumption ==
    /\ Ops \subseteq AllOps
    /\ Capacity \in Nat \ {0}
    /\ Faults \subseteq {"probe", "accept"}
    /\ "main" \notin Handlers /\ "free" \notin Handlers
    /\ IsFiniteSet(Handlers)

VARIABLES
    conn,         \* where each handler is
    op,           \* the operation its connection brought
    executing,    \* its reading of active_execution
    permits,      \* handlers whose ServerRequestAdmissionPermit is not released
    depth,        \* ServerRequestAdmissionDepths
    active,       \* registry of active requests
    cancellable,  \* registry of cancellations
    draining,     \* the draining flag
    gate,         \* who holds admission_gate across begin_draining_if_idle
    checking,     \* how far that call is
    main,         \* where the accept loop is
    stale,        \* idle_timeout has elapsed since last_work_ended_ns
    engineUp,     \* the engine has been initialized
    leased,       \* handlers that hold a native residency lease
    place, fate, result,  \* the engine's requests, as in EmbeddingService
    closed,       \* history: which way begin_draining_if_idle succeeded
    orphaned      \* history: requests left in the engine when their client could not be probed

handlerVars == <<conn, op, executing>>
admissionVars == <<permits, depth>>
registryVars == <<active, cancellable>>
drainVars == <<draining, gate, checking, closed>>
engineVars == <<engineUp, place, fate, result, orphaned>>
vars == <<handlerVars, admissionVars, registryVars, drainVars, main, stale, leased,
          engineVars>>

Classes == {"query", "bulk"}
Class(h) == IF op[h] = "query" THEN "query" ELSE "bulk"
Embeds(h) == op[h] \in {"query", "bulk"}

ConnStates ==
    {"free", "admit", "acquire", "begin", "engine", "submit", "wait", "ensure",
     "lease", "leased", "holding", "unlease", "unlease2", "finish", "finish2",
     "finish3", "cancel", "drain"}

TypeOK ==
    /\ conn \in [Handlers -> ConnStates]
    /\ op \in [Handlers -> AllOps]
    /\ executing \in [Handlers -> BOOLEAN]
    /\ permits \subseteq Handlers
    /\ depth \in [Classes -> Nat]
    /\ active \subseteq Handlers
    /\ cancellable \subseteq Handlers
    /\ draining \in BOOLEAN
    /\ gate \in Handlers \cup {"main", "free"}
    /\ checking \in {"none", "active", "depth", "engine"}
    /\ closed \in {"no", "idle", "handover"}
    /\ main \in {"top", "hint", "elapsed", "drain", "accept", "exit", "exited"}
    /\ stale \in BOOLEAN
    /\ leased \subseteq Handlers
    /\ engineUp \in BOOLEAN
    /\ place \in [Handlers -> {"out", "queue", "hand", "active", "done"}]
    /\ fate \in [Handlers -> {"live", "cancelled", "committed"}]
    /\ result \in [Handlers -> {"none", "ok", "failed", "cancelled"}]
    /\ orphaned \subseteq Handlers

Init ==
    /\ conn = [h \in Handlers |-> "free"]
    /\ op = [h \in Handlers |-> "cancel"]
    /\ executing = [h \in Handlers |-> FALSE]
    /\ permits = {}
    /\ depth = [c \in Classes |-> 0]
    /\ active = {}
    /\ cancellable = {}
    /\ draining = FALSE
    /\ gate = "free"
    /\ checking = "none"
    /\ closed = "no"
    /\ main = "top"
    /\ stale = FALSE
    /\ leased = {}
    /\ engineUp = FALSE
    /\ place = [h \in Handlers |-> "out"]
    /\ fate = [h \in Handlers |-> "live"]
    /\ result = [h \in Handlers |-> "none"]
    /\ orphaned = {}

Go(h, state) == conn' = [conn EXCEPT ![h] = state]

\* The request context is dropped; the slot's next one is new.
RenewContext(h) ==
    /\ place' = [place EXCEPT ![h] = "out"]
    /\ fate' = [fate EXCEPT ![h] = "live"]
    /\ result' = [result EXCEPT ![h] = "none"]

----------------------------------------------------------------------------
(* Front-door admission *)

\* Faulty: every clone decrements.
ReleaseEveryClone(h) ==
    /\ permits' = permits \ {h}
    /\ depth' = [depth EXCEPT ![Class(h)] = IF @ = 0 THEN 0 ELSE @ - 1]

\* ServerRequestAdmissionPermit::release: the first call of all its clones
\* decrements the class depth.
ReleasePermit(h) ==
    IF h \in permits
    THEN /\ permits' = permits \ {h}
         /\ depth' = [depth EXCEPT ![Class(h)] = IF @ = 0 THEN 0 ELSE @ - 1]
    ELSE UNCHANGED <<permits, depth>>

\* admission_snapshot().active_request: the last of the active requests, a
\* nested query rather than the bulk request below it.
LastActive(class) ==
    /\ \E k \in Handlers : place[k] = "active" /\ Class(k) = class
    /\ class = "bulk" => \A k \in Handlers : place[k] = "active" => Class(k) = "bulk"

\* try_admit_request: is a request of this class executing right now?  An
\* engine that cannot be locked at once shows none.
ReadExecution(h) ==
    /\ conn[h] = "admit"
    /\ \E seen \in {FALSE, LastActive(Class(h))} :
          executing' = [executing EXCEPT ![h] = seen]
    /\ Go(h, "acquire")
    /\ UNCHANGED <<op, admissionVars, registryVars, drainVars, main, stale, leased,
                   engineVars>>

\* try_acquire, with room for one more than the queue while one is executing.
TryAcquire(h) ==
    /\ conn[h] = "acquire"
    /\ IF depth[Class(h)] >= Capacity + (IF executing[h] THEN 1 ELSE 0)
       THEN /\ Go(h, "free")
            /\ UNCHANGED admissionVars
       ELSE /\ Go(h, "begin")
            /\ permits' = permits \cup {h}
            /\ depth' = [depth EXCEPT ![Class(h)] = @ + 1]
    /\ executing' = [executing EXCEPT ![h] = FALSE]
    /\ UNCHANGED <<op, registryVars, drainVars, main, stale, leased,
                   engineVars>>

\* The deadline check between admission and registration.
ExpireAdmitted(h) ==
    /\ conn[h] = "begin"
    /\ Embeds(h)
    /\ Go(h, "free")
    /\ ReleasePermit(h)
    /\ UNCHANGED <<op, executing, registryVars, drainVars, main, stale, leased, engineVars>>

----------------------------------------------------------------------------
(* Request handlers *)

\* Faulty: registration does not take the gate.
BeginRequestUngated(h) ==
    /\ conn[h] = "begin"
    /\ Go(h, "engine")
    /\ active' = active \cup {h}
    /\ cancellable' = cancellable \cup {h}
    /\ UNCHANGED <<op, executing, admissionVars, drainVars, main, stale, leased, engineVars>>

\* begin_request, under the admission gate.  When the server drains the permit
\* goes with the failed registration and the connection is closed.
BeginRequest(h) ==
    /\ conn[h] = "begin"
    /\ gate = "free"
    /\ IF draining
       THEN /\ Go(h, "free")
            /\ ReleasePermit(h)
            /\ UNCHANGED registryVars
       ELSE /\ Go(h, "engine")
            /\ active' = active \cup {h}
            /\ cancellable' = cancellable \cup {h}
            /\ UNCHANGED admissionVars
    /\ UNCHANGED <<op, executing, drainVars, main, stale, leased, engineVars>>

\* Faulty: a draining server's refusal is not handled.
EngineCallUnrefused(h) ==
    /\ conn[h] = "engine"
    /\ gate = "free" /\ ~draining
    /\ engineUp' = TRUE
    /\ Go(h, IF Embeds(h) THEN "submit" ELSE op[h])
    /\ UNCHANGED <<op, executing, admissionVars, registryVars, drainVars, main, stale,
                   leased, place, fate, result, orphaned>>

\* engine(): under the gate, refused while draining; the first call
\* initializes the engine, which may fail.
EngineCall(h) ==
    /\ conn[h] = "engine"
    /\ gate = "free"
    /\ \/ /\ ~draining
          /\ engineUp' = TRUE
          /\ Go(h, IF Embeds(h) THEN "submit" ELSE op[h])
       \/ /\ draining \/ ~engineUp
          /\ Go(h, "finish")
          /\ UNCHANGED engineUp
    /\ UNCHANGED <<op, executing, admissionVars, registryVars, drainVars, main, stale,
                   leased, place, fate, result, orphaned>>

\* serve_embedding_request hands the request to the engine unless it has been
\* cancelled meanwhile or the engine's queue is full.
Submit(h) ==
    /\ conn[h] = "submit"
    /\ LET queued == {k \in Handlers :
                        place[k] = "queue" /\ fate[k] = "live" /\ Class(k) = Class(h)} IN
       IF fate[h] = "cancelled" \/ Cardinality(queued) >= Capacity
       THEN /\ Go(h, "finish")
            /\ UNCHANGED place
       ELSE /\ Go(h, "wait")
            /\ place' = [place EXCEPT ![h] = "queue"]
    /\ UNCHANGED <<op, executing, admissionVars, registryVars, drainVars, main, stale,
                   leased, engineUp, fate, result, orphaned>>

\* Faulty: the handler leaves without cancelling.
ExpireUncancelled(h) ==
    /\ conn[h] \in {"engine", "submit", "wait"}
    /\ Embeds(h)
    /\ Go(h, "finish")
    /\ UNCHANGED <<op, executing, admissionVars, registryVars, drainVars, main, stale,
                   leased, engineVars>>

\* Faulty: a committed request is cancelled too.
ExpireCommitted(h) ==
    /\ conn[h] \in {"engine", "submit", "wait"}
    /\ Embeds(h)
    /\ fate' = [fate EXCEPT ![h] = "cancelled"]
    /\ Go(h, "finish")
    /\ UNCHANGED <<op, executing, admissionVars, registryVars, drainVars, main, stale,
                   leased, engineUp, place, result, orphaned>>

\* The deadline has elapsed or the peer is dead: cancel, unless committed.
Expire(h) ==
    /\ conn[h] \in {"engine", "submit", "wait"}
    /\ Embeds(h)
    /\ fate' = [fate EXCEPT ![h] = IF @ = "live" THEN "cancelled" ELSE @]
    /\ Go(h, "finish")
    /\ UNCHANGED <<op, executing, admissionVars, registryVars, drainVars, main, stale,
                   leased, engineUp, place, result, orphaned>>

\* The probe itself fails: the handler leaves with the error and cancels nothing,
\* so that a request the engine has stays there with nobody to wait for it.
ProbeFails(h) ==
    /\ "probe" \in Faults
    /\ conn[h] \in {"submit", "wait"}
    /\ Embeds(h)
    /\ Go(h, "finish")
    /\ orphaned' = IF place[h] \in {"out", "done"} THEN orphaned ELSE orphaned \cup {h}
    /\ UNCHANGED <<op, executing, admissionVars, registryVars, drainVars, main, stale,
                   leased, engineUp, place, fate, result>>

\* The engine has answered; the response is written.
Respond(h) ==
    /\ conn[h] = "wait"
    /\ place[h] = "done"
    /\ Go(h, "finish")
    /\ UNCHANGED <<op, executing, admissionVars, registryVars, drainVars, main, stale,
                   leased, engineVars>>

\* ensure_resident returns.
EnsureResident(h) ==
    /\ conn[h] = "ensure"
    /\ Go(h, "finish")
    /\ UNCHANGED <<op, executing, admissionVars, registryVars, drainVars, main, stale,
                   leased, engineVars>>

\* Drop of ServerRequestGuard, finish_request: the request leaves the active
\* registry ...
Finish(h) ==
    /\ conn[h] = "finish"
    /\ active' = active \ {h}
    /\ Go(h, "finish2")
    /\ UNCHANGED <<op, executing, admissionVars, cancellable, drainVars, main, stale,
                   leased, engineVars>>

\* Faulty: the permit is leaked.
FinishKeepingPermit(h) ==
    /\ conn[h] = "finish2"
    /\ cancellable' = cancellable \ {h}
    /\ Go(h, "finish3")
    /\ UNCHANGED <<op, executing, admissionVars, active, drainVars, main, stale, leased,
                   engineVars>>

\* ... then the cancellations, whose clone of the permit is dropped ...
FinishCancellation(h) ==
    /\ conn[h] = "finish2"
    /\ cancellable' = cancellable \ {h}
    /\ ReleasePermit(h)
    /\ Go(h, "finish3")
    /\ UNCHANGED <<op, executing, active, drainVars, main, stale, leased, engineVars>>

\* ... and only then the idle window restarts.
FinishIdleWindow(h) ==
    /\ conn[h] = "finish3"
    /\ stale' = FALSE
    /\ Go(h, IF h \in leased THEN "holding" ELSE "free")
    /\ IF place[h] \in {"out", "done"}
       THEN RenewContext(h)
       ELSE UNCHANGED <<place, fate, result>>
    /\ UNCHANGED <<op, executing, admissionVars, registryVars, drainVars, main, leased,
                   engineUp, orphaned>>

----------------------------------------------------------------------------
(* Lease connections *)

\* acquire_residency_lease returns a lease or an error.
AcquireLease(h) ==
    /\ conn[h] = "lease"
    /\ \/ /\ leased' = leased \cup {h}
          /\ Go(h, "leased")
       \/ /\ Go(h, "finish")
          /\ UNCHANGED leased
    /\ UNCHANGED <<op, executing, admissionVars, registryVars, drainVars, main, stale,
                   engineVars>>

\* The lease is reported and its registration dropped, or the deadline or a
\* dead peer drops the lease first.
ReportLease(h) ==
    /\ conn[h] = "leased"
    /\ conn' \in {[conn EXCEPT ![h] = s] : s \in {"finish", "unlease"}}
    /\ UNCHANGED <<op, executing, admissionVars, registryVars, drainVars, main, stale,
                   leased, engineVars>>

\* The client releases the lease, goes away, or sends what is not allowed.
EndLease(h) ==
    /\ conn[h] = "holding"
    /\ Go(h, "unlease")
    /\ UNCHANGED <<op, executing, admissionVars, registryVars, drainVars, main, stale,
                   leased, engineVars>>

\* Faulty: the native lease is dropped first.
DropLeaseFirst(h) ==
    /\ conn[h] = "unlease"
    /\ leased' = leased \ {h}
    /\ Go(h, "unlease2")
    /\ UNCHANGED <<op, executing, admissionVars, registryVars, drainVars, main, stale,
                   engineVars>>

\* Drop of ServerLeaseActivity: the idle window restarts before ...
RestartIdleWindow(h) ==
    /\ conn[h] = "unlease"
    /\ stale' = FALSE
    /\ Go(h, "unlease2")
    /\ UNCHANGED <<op, executing, admissionVars, registryVars, drainVars, main, leased,
                   engineVars>>

\* ... the native lease is dropped.
DropNativeLease(h) ==
    /\ conn[h] = "unlease2"
    /\ leased' = leased \ {h}
    /\ Go(h, IF h \in active THEN "finish" ELSE "free")
    /\ UNCHANGED <<op, executing, admissionVars, registryVars, drainVars, main, stale,
                   engineVars>>

----------------------------------------------------------------------------
(* Cancel connections *)

\* state.cancel: under the cancellations lock, at most one registered request
\* that carries a matching token; a cancel that wins gives back the permit.
CancelRequest(h) ==
    /\ conn[h] = "cancel"
    /\ Go(h, "free")
    /\ \/ UNCHANGED <<permits, depth, fate>>
       \/ \E k \in cancellable :
            /\ Embeds(k)
            /\ fate[k] = "live"
            /\ fate' = [fate EXCEPT ![k] = "cancelled"]
            /\ ReleasePermit(k)
    /\ UNCHANGED <<op, executing, registryVars, drainVars, main, stale, leased,
                   engineUp, place, result, orphaned>>

----------------------------------------------------------------------------
(* begin_draining_if_idle, by the accept loop or by a handler that meets an
   incompatible activating client *)

EngineIdle ==
    /\ \A h \in Handlers : ~(place[h] = "queue" /\ fate[h] = "live")
    /\ \A h \in Handlers : place[h] /= "active"
    /\ leased = {}

NoAdmission == \A c \in Classes : depth[c] = 0

TrueIdle == active = {} /\ NoAdmission /\ EngineIdle

WantsToDrain(a) == IF a = "main" THEN main = "drain" ELSE conn[a] = "drain"

\* What the caller does with the answer.
DrainReturns(a, success) ==
    IF a = "main"
    THEN /\ main' = IF success THEN "exit" ELSE "accept"
         /\ UNCHANGED conn
    ELSE /\ Go(a, "free")
         /\ UNCHANGED main

\* Take the gate and raise the flag; it may be up for good already.
RaiseDraining(a) ==
    /\ WantsToDrain(a)
    /\ gate = "free"
    /\ IF draining
       THEN /\ DrainReturns(a, TrueIdle)
            /\ UNCHANGED drainVars
       ELSE /\ draining' = TRUE
            /\ gate' = a
            /\ checking' = "active"
            /\ UNCHANGED <<closed, conn, main>>
    /\ UNCHANGED <<op, executing, admissionVars, registryVars, stale, leased, engineVars>>

\* true_idle looks at the registry, then at the admission depths, then at the
\* engine, each under its own lock.
Found(what) ==
    CASE what = "active" -> active = {}
      [] what = "depth" -> NoAdmission
      [] what = "engine" -> EngineIdle

CheckIdle(a) ==
    /\ gate = a
    /\ checking \in {"active", "depth"}
    /\ Found(checking)
    /\ checking' = IF checking = "active" THEN "depth" ELSE "engine"
    /\ UNCHANGED <<handlerVars, admissionVars, registryVars, draining, gate, closed, main,
                   stale, leased, engineVars>>

\* Not idle after all: lower the flag.
GiveUpDraining(a) ==
    /\ gate = a
    /\ ~Found(checking)
    /\ draining' = FALSE
    /\ gate' = "free"
    /\ checking' = "none"
    /\ DrainReturns(a, FALSE)
    /\ UNCHANGED <<op, executing, admissionVars, registryVars, closed, stale, leased,
                   engineVars>>

\* Idle: the flag stays up.
CommitDraining(a) ==
    /\ gate = a
    /\ checking = "engine"
    /\ EngineIdle
    /\ gate' = "free"
    /\ checking' = "none"
    /\ closed' = IF a = "main" THEN "idle" ELSE "handover"
    /\ DrainReturns(a, TRUE)
    /\ UNCHANGED <<op, executing, admissionVars, registryVars, draining, stale, leased,
                   engineVars>>

----------------------------------------------------------------------------
(* The accept loop of run_per_user_embedding_server *)

MainStep(from, to) ==
    /\ main = from
    /\ main' = to
    /\ UNCHANGED <<handlerVars, admissionVars, registryVars, drainVars, stale, leased,
                   engineVars>>

MainTop == MainStep("top", IF draining THEN "exit" ELSE "hint")
MainHint == MainStep("hint", IF TrueIdle THEN "elapsed" ELSE "accept")
MainElapsed == MainStep("elapsed", IF stale THEN "drain" ELSE "accept")
MainNoConnection == MainStep("accept", "top")

\* An error of accept, or of the thread to be spawned, ends the loop.
MainAcceptFails == "accept" \in Faults /\ MainStep("accept", "exit")

FirstStep(o) ==
    CASE o = "cancel" -> "cancel"
      [] o = "incompatible" -> "drain"
      [] OTHER -> "admit"

\* A connection arrives; its handler gets a new request context.
Accept(h, o) ==
    /\ main = "accept"
    /\ conn[h] = "free"
    /\ place[h] \in {"out", "done"}
    /\ main' = "top"
    /\ Go(h, FirstStep(o))
    /\ op' = [op EXCEPT ![h] = o]
    /\ RenewContext(h)
    /\ UNCHANGED <<executing, admissionVars, registryVars, drainVars, stale, leased, engineUp,
                   orphaned>>

\* The loop is left: the flag goes up, the listener and the engine go.
MainExit ==
    /\ main = "exit"
    /\ main' = "exited"
    /\ draining' = TRUE
    /\ UNCHANGED <<handlerVars, admissionVars, registryVars, gate, checking, closed, stale,
                   leased, engineVars>>

----------------------------------------------------------------------------
(* The engine's worker, and time *)

\* The worker has one request in hand, or a bulk request with one query nested.
WorkerFree(h) ==
    \A k \in Handlers :
        place[k] \in {"hand", "active"} =>
            op[h] = "query" /\ op[k] = "bulk" /\ place[k] = "active"

\* To the server it makes no difference whether the encode succeeded.
EngineMove(h, to, f, answer) ==
    /\ place' = [place EXCEPT ![h] = to]
    /\ fate' = [fate EXCEPT ![h] = f]
    /\ result' = [result EXCEPT ![h] = answer]
    /\ orphaned' = IF to = "done" THEN orphaned \ {h} ELSE orphaned
    /\ UNCHANGED <<handlerVars, admissionVars, registryVars, drainVars, main, stale,
                   leased, engineUp>>

WorkerTakes(h) ==
    /\ place[h] = "queue" /\ fate[h] = "live" /\ WorkerFree(h)
    /\ EngineMove(h, "hand", "live", "none")
WorkerBegins(h) ==
    /\ place[h] = "hand" /\ fate[h] = "live"
    /\ EngineMove(h, "active", "live", "none")
WorkerCommits(h) ==
    /\ place[h] = "active" /\ fate[h] = "live"
    /\ EngineMove(h, "done", "committed", "ok")
WorkerAnswersCancelled(h) ==
    /\ place[h] \in {"queue", "hand", "active"} /\ fate[h] = "cancelled"
    /\ EngineMove(h, "done", "cancelled", "cancelled")
WorkerFailsLoad(h) ==
    /\ place[h] = "hand"
    /\ EngineMove(h, "done", fate[h], "failed")

TimePasses ==
    /\ stale' = TRUE
    /\ UNCHANGED <<handlerVars, admissionVars, registryVars, drainVars, main, leased,
                   engineVars>>

----------------------------------------------------------------------------
Handler(h) ==
    \/ ReadExecution(h) \/ TryAcquire(h) \/ BeginRequest(h) \/ EngineCall(h)
    \/ Submit(h) \/ Respond(h) \/ EnsureResident(h)
    \/ Finish(h) \/ FinishCancellation(h) \/ FinishIdleWindow(h)
    \/ AcquireLease(h) \/ ReportLease(h) \/ RestartIdleWindow(h) \/ DropNativeLease(h)
    \/ CancelRequest(h)

Drain(a) == RaiseDraining(a) \/ CheckIdle(a) \/ GiveUpDraining(a) \/ CommitDraining(a)

EngineWorker(h) ==
    \/ WorkerTakes(h) \/ WorkerBegins(h) \/ WorkerCommits(h)
    \/ WorkerAnswersCancelled(h) \/ WorkerFailsLoad(h)

Main == MainTop \/ MainHint \/ MainElapsed \/ MainNoConnection \/ MainExit \/ Drain("main")
        \/ MainAcceptFails

Step ==
    \/ Main
    \/ \E h \in Handlers :
         \/ Handler(h) \/ ExpireAdmitted(h) \/ Expire(h) \/ ProbeFails(h) \/ EndLease(h)
         \/ Drain(h) \/ EngineWorker(h)
         \/ \E o \in Ops : Accept(h, o)

\* Work is what keeps the server from being idle: registered requests and leases.
NoWork == active = {} /\ leased = {}

\* The process ends some time after the loop is left.
Exited == main = "exited" /\ UNCHANGED vars

Next == Step \/ TimePasses \/ Exited

Spec == Init /\ [][Next]_vars

TakesGate(h) == BeginRequest(h) \/ EngineCall(h) \/ RaiseDraining(h)

\* Threads run, whoever waits for the gate gets it in the end although others
\* take it meanwhile, the engine answers, and time passes.  Nothing makes
\* clients connect, release their leases or run into their deadlines.
Fairness ==
    /\ WF_vars(Main)
    /\ \A h \in Handlers :
         /\ WF_vars(Handler(h) \/ Drain(h))
         /\ SF_vars(TakesGate(h))
         /\ WF_vars(EngineWorker(h))
    /\ WF_vars(TimePasses)

FairSpec == Spec /\ Fairness

----------------------------------------------------------------------------
(* Properties *)

\* Each class depth is the number of permits of that class that nobody has
\* released, whichever of finish_request, cancel, a refused registration and
\* an elapsed deadline releases them and in whatever order: no decrement is
\* lost, doubled or saturated.
PermitAccounting ==
    \A c \in Classes :
        depth[c] = Cardinality({h \in permits : Class(h) = c})

\* What the engine has that is not cancelled belongs to a registered request,
\* except what a failed probe left there (cancel_if_peer_dead returns through ?
\* without cancelling); so do the calls whose effect the engine's own counters
\* do not show yet (a request between queue and activation, a lease being
\* acquired).
LiveWorkRegistered ==
    \A h \in Handlers :
        /\ (place[h] \in {"queue", "hand", "active"} /\ fate[h] = "live") =>
               h \in active \cup orphaned
        /\ conn[h] \in {"engine", "submit", "wait", "ensure", "lease"} => h \in active

\* A lease that is held is seen by the idle check: it is registered, or
\* counted by the engine, at every moment between grant and drop.
LeaseAlwaysVisible ==
    \A h \in Handlers :
        conn[h] \in {"lease", "leased", "holding", "unlease", "unlease2"} =>
            h \in active \/ h \in leased

\* Once begin_draining_if_idle has succeeded nothing is in progress and
\* nothing can start: no registered request, no lease, nothing live in the
\* engine, although requests are admitted at the front door, and true_idle
\* reads three locks one after the other, while it decides.  The one thing it
\* can miss is a request nobody waits for any more, whose client could not be
\* probed, between queue and activation.
ClosedMeansIdle ==
    closed /= "no" =>
        /\ active = {} /\ leased = {}
        /\ \A h \in Handlers :
              place[h] \in {"queue", "hand", "active"} =>
                  fate[h] = "cancelled" \/ (h \in orphaned /\ place[h] /= "queue")

\* A drain that has been committed is final.
DrainIsFinal == [][closed /= "no" => closed' = closed /\ draining']_vars

\* The accept loop leaves, and takes the process with it, only when there is
\* no active or leased work.
ExitsOnlyWhenIdle == main \in {"exit", "exited"} => NoWork

\* A server that is left alone exits: no permit, registration, lease count or
\* gate is left behind that would keep it up.
IdleServerExits ==
    <>[](\A h \in Handlers : conn[h] = "free") => <>(main = "exited")

\* Every connection but a held lease comes to its end.
ConnectionEnds ==
    \A h \in Handlers : (conn[h] /= "free") ~> (conn[h] \in {"free", "holding"})

----------------------------------------------------------------------------
(* The engine as the server sees it is the engine of EmbeddingService. *)

Service == INSTANCE EmbeddingService WITH
    Requests <- Handlers,
    Callers <- Handlers,
    lease <- [h \in Handlers |-> [state |-> IF h \in leased THEN "held" ELSE "none",
                                  gen |-> 0]],
    gen <- 0

\* Whatever handlers and the worker do to the engine is a step of the service.
UsesService == Service!ServiceSpec
=============================================================================
