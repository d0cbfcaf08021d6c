--------------------------- MODULE EmbeddingEngine ---------------------------
(***************************************************************************)
(* The in-process embedding engine of crates/codestory-llama-sys: one      *)
(* worker thread that owns the model, two bounded cancellable request      *)
(* queues with a one-slot wake-up signal each, an unbounded control        *)
(* channel, and the request contexts whose lifecycle word is raced by      *)
(* cancel, activate and commit.                                            *)
(*                                                                         *)
(* Requests and callers are slots: a slot is used again once the engine    *)
(* has let go of its previous request.  A request of class Query is one    *)
(* batch; a request of class Bulk is Batches batches, between which the    *)
(* worker may serve one query (a nested handle_request).                   *)
(*                                                                         *)
(* Left out: vectors, tokens and telemetry, the diagnostic owner_state and *)
(* event counters, and the qualification hooks.  Time is one bit, idle:    *)
(* "the idle timeout has elapsed since last_activity".                     *)
(***************************************************************************)
EXTENDS Integers, Sequences, FiniteSets

CONSTANTS
    Queries,        \* request slots of class Query
    Bulks,          \* request slots of class Bulk
    Callers,        \* threads that call ensure_resident / acquire_residency_lease
    QueueCapacity,  \* EMBEDDING_QUERY_QUEUE_CAPACITY = EMBEDDING_BULK_QUEUE_CAPACITY
    Batches,        \* batches of a bulk request
    MaxGeneration   \* bound: model loads explored

ASSUME EngineAssumption ==
    /\ Queries \cap Bulks = {}
    /\ QueueCapacity \in Nat \ {0}
    /\ Batches \in Nat \ {0}
    /\ MaxGeneration \in Nat \ {0}
    /\ IsFiniteSet(Callers)

VARIABLES
    life,      \* RequestLifecycle of each request context
    handle,    \* the submitter's EmbeddingRequestHandle
    resp,      \* the bounded(1) response channel of each request
    queue,     \* CancellableRequestQueue.requests, per class
    signal,    \* CancellableRequestQueue.signal_*, per class: is the slot full?
    control,   \* the control channel
    caller,    \* what each caller is doing, with the load generation it was given
    slot,      \* the EmbeddingEngine value held by the embedding server
    pc,        \* where the worker thread is
    wake,      \* WakeReason of the generation being loaded or just loaded
    stack,     \* handle_request activations of the worker, innermost last
    turn,      \* FairRequestScheduler.next_when_both_ready
    leases,    \* ResidencyTracker.leases
    idle,      \* idle_timeout has elapsed since ResidencyTracker.last_activity
    published  \* EngineLifecycleSnapshot: residency and load_generation

requestVars == <<life, handle, resp>>
queueVars == <<queue, signal>>
workerVars == <<pc, wake, stack, turn, leases, idle, published>>
vars == <<requestVars, queueVars, control, caller, slot, workerVars>>

Requests == Queries \cup Bulks
Classes == {"Query", "Bulk"}
Class(r) == IF r \in Queries THEN "Query" ELSE "Bulk"
BatchCount(r) == IF r \in Queries THEN 1 ELSE Batches
Other(c) == IF c = "Query" THEN "Bulk" ELSE "Query"
\* FairRequestScheduler: after serving class c, whose turn it is.
QueryFirst(c) == "Query"  \* faulty: strict priority
NextTurn(c) == Other(c)

NoOne == "no one"
Msg(kind, who) == [kind |-> kind, who |-> who]
Startup == Msg("startup", NoOne)
NoWake == Msg("none", NoOne)
Resting == [doing |-> "nothing", gen |-> 0]

Lives == {"Unsubmitted", "Queued", "Active", "Committed", "Cancelled"}
Results == {"ok", "failed", "cancelled"}
CallerStates ==
    {"nothing", "ensuring", "acquiring", "resident", "granted", "refused",
     "held", "releasing"}
Frames ==
    [req : Requests, at : {"begin", "batch", "between", "decide", "commit"},
     left : 0..Batches, result : Results, sawCancel : BOOLEAN]

TypeOK ==
    /\ life \in [Requests -> Lives]
    /\ handle \in [Requests -> {"none", "waiting", "abandoned"}]
    /\ resp \in [Requests -> Seq(Results)]
    /\ queue \in [Classes -> Seq(Requests)]
    /\ signal \in [Classes -> BOOLEAN]
    /\ control \in Seq([kind : {"shutdown", "ensure", "lease", "release"},
                        who : Callers \cup {NoOne}])
    /\ caller \in [Callers -> [doing : CallerStates, gen : 0..MaxGeneration]]
    /\ slot \in {"starting", "open", "failed", "taken", "stopped"}
    /\ pc \in {"load", "prime", "wake", "loop", "select", "exec", "sleep", "stopped"}
    /\ wake \in [kind : {"startup", "request", "ensure", "lease", "none"},
                 who : Requests \cup Callers \cup {NoOne}]
    /\ stack \in Seq(Frames)
    /\ turn \in Classes
    /\ leases \in Nat
    /\ idle \in BOOLEAN
    /\ published \in [residency : {"None", "Resident", "Sleeping"},
                      gen : 0..MaxGeneration]

Init ==
    /\ life = [r \in Requests |-> "Unsubmitted"]
    /\ handle = [r \in Requests |-> "none"]
    /\ resp = [r \in Requests |-> <<>>]
    /\ queue = [c \in Classes |-> <<>>]
    /\ signal = [c \in Classes |-> FALSE]
    /\ control = <<>>
    /\ caller = [c \in Callers |-> Resting]
    /\ slot = "starting"
    /\ pc = "load"
    /\ wake = Startup
    /\ stack = <<>>
    /\ turn = "Query"
    /\ leases = 0
    /\ idle = FALSE
    /\ published = [residency |-> "None", gen |-> 0]

----------------------------------------------------------------------------
(* CancellableRequestQueue *)

IsLive(r) == life[r] /= "Cancelled"

\* The entries of a sequence at some of its positions, in their order.
Nth(positions, k) ==
    CHOOSE i \in positions : Cardinality({j \in positions : j <= i}) = k
Subsequence(s, positions) ==
    [k \in 1..Cardinality(positions) |-> s[Nth(positions, k)]]

\* The queue without its cancelled entries (prune_cancelled), and the entries
\* that it drops; each of those is answered Cancelled.
LivePositions(c) == {i \in DOMAIN queue[c] : IsLive(queue[c][i])}
Pruned(c) == Subsequence(queue[c], LivePositions(c))
Dropped(c) == {queue[c][i] : i \in DOMAIN queue[c]} \ {r \in Requests : IsLive(r)}
DropSilently(dropped) == UNCHANGED resp  \* faulty: pruned and forgotten
AnswerCancelled(dropped) ==
    resp' = [r \in Requests |-> IF r \in dropped THEN Append(resp[r], "cancelled")
                                ELSE resp[r]]

\* try_pop raises the signal again if requests remain behind the one it takes.
NeverResignalled(c) == FALSE  \* faulty: one signal per request is assumed
Resignalled(c) == Len(Pruned(c)) > 1

----------------------------------------------------------------------------
(* Submitters: submit, EmbeddingRequestHandle, EmbeddingRequestContext *)

\* Faulty: the push does not raise the signal.
SubmitUnsignalled(r) ==
    LET c == Class(r) IN
    /\ slot = "open" /\ handle[r] = "none"
    /\ AnswerCancelled(Dropped(c))
    /\ Len(Pruned(c)) < QueueCapacity
    /\ queue' = [queue EXCEPT ![c] = Append(Pruned(c), r)]
    /\ life' = [life EXCEPT ![r] = "Queued"]
    /\ handle' = [handle EXCEPT ![r] = "waiting"]
    /\ UNCHANGED <<signal, control, caller, slot, workerVars>>

\* submit: try_push prunes, refuses a full queue (AdmissionFull), else pushes
\* and raises the signal.  A context cancelled before it is pushed ends up as
\* one cancelled right after; a request without inputs is answered at once and
\* never reaches the engine.
Submit(r) ==
    LET c == Class(r) IN
    /\ slot = "open"
    /\ handle[r] = "none"
    /\ AnswerCancelled(Dropped(c))
    /\ IF Len(Pruned(c)) >= QueueCapacity
       THEN /\ queue' = [queue EXCEPT ![c] = Pruned(c)]
            /\ UNCHANGED <<life, handle, signal>>
       ELSE /\ queue' = [queue EXCEPT ![c] = Append(Pruned(c), r)]
            /\ signal' = [signal EXCEPT ![c] = TRUE]
            /\ life' = [life EXCEPT ![r] = "Queued"]
            /\ handle' = [handle EXCEPT ![r] = "waiting"]
    /\ UNCHANGED <<control, caller, slot, workerVars>>

\* EmbeddingRequestContext::cancel, by whoever holds the context.
Cancel(r) ==
    /\ life[r] \in {"Queued", "Active"}
    /\ life' = [life EXCEPT ![r] = "Cancelled"]
    /\ UNCHANGED <<handle, resp, queueVars, control, caller, slot, workerVars>>

\* The submitter gives up: on its deadline or a dead peer it cancels the context,
\* on an error it does not; either way it drops the handle without waiting.
Abandon(r) ==
    /\ handle[r] = "waiting"
    /\ handle' = [handle EXCEPT ![r] = "abandoned"]
    /\ \/ life' = [life EXCEPT ![r] = IF @ \in {"Queued", "Active"} THEN "Cancelled" ELSE @]
       \/ UNCHANGED life
    /\ UNCHANGED <<resp, queueVars, control, caller, slot, workerVars>>

\* recv / try_recv of the answer; an answer to an abandoned handle is lost.
Collect(r) ==
    /\ handle[r] /= "none"
    /\ resp[r] /= <<>>
    /\ handle' = [handle EXCEPT ![r] = "none"]
    /\ life' = [life EXCEPT ![r] = "Unsubmitted"]
    /\ resp' = [resp EXCEPT ![r] = <<>>]
    /\ UNCHANGED <<queueVars, control, caller, slot, workerVars>>

----------------------------------------------------------------------------
(* Callers: ensure_resident, acquire_residency_lease, EmbeddingResidencyLease *)

Call(c, doing, kind) ==
    /\ slot = "open"
    /\ caller[c] = Resting
    /\ caller' = [caller EXCEPT ![c].doing = doing]
    /\ control' = Append(control, Msg(kind, c))
    /\ UNCHANGED <<requestVars, queueVars, slot, workerVars>>

EnsureResident(c) == Call(c, "ensuring", "ensure")
AcquireLease(c) == Call(c, "acquiring", "lease")

\* Both calls block on the response; a granted lease is counted by
\* lease_acquired, anything else ends the call.
Return(c) ==
    /\ caller[c].doing \in {"resident", "granted", "refused"}
    /\ caller' = [caller EXCEPT ![c] =
                    IF @.doing = "granted" THEN [@ EXCEPT !.doing = "held"] ELSE Resting]
    /\ UNCHANGED <<requestVars, queueVars, control, slot, workerVars>>

\* Faulty: the ReleaseLease message is not sent.
DropLeaseSilently(c) ==
    /\ caller[c].doing = "held"
    /\ caller' = [caller EXCEPT ![c] = Resting]
    /\ UNCHANGED <<requestVars, queueVars, control, slot, workerVars>>

\* Drop of EmbeddingResidencyLease: lease_released, then ReleaseLease is sent.
DropLease(c) ==
    /\ caller[c].doing = "held"
    /\ caller' = [caller EXCEPT ![c].doing = "releasing"]
    /\ control' = Append(control, Msg("release", c))
    /\ UNCHANGED <<requestVars, queueVars, slot, workerVars>>

----------------------------------------------------------------------------
(* The owner of the engine value *)

\* Every thread inside an engine call, and every lease, holds a clone.
LeaseInUse == \E c \in Callers : caller[c].doing = "held"  \* faulty: leases only
InUse ==
    \/ \E r \in Requests : handle[r] = "waiting"
    \/ \E c \in Callers : caller[c].doing \notin {"nothing", "releasing"}

TakeEngine ==
    /\ slot = "open"
    /\ slot' = "taken"
    /\ UNCHANGED <<requestVars, queueVars, control, caller, workerVars>>

\* Drop of EngineShared with the last clone: stop_worker.
StopWorker ==
    /\ slot = "taken"
    /\ ~InUse
    /\ slot' = "stopped"
    /\ control' = Append(control, Msg("shutdown", NoOne))
    /\ UNCHANGED <<requestVars, queueVars, caller, workerVars>>

----------------------------------------------------------------------------
(* The worker: run_engine_owner, run_resident_generation *)

Reply(c, doing) == [caller EXCEPT ![c] = [doing |-> doing, gen |-> published.gen]]

\* run_resident_generation loads the model and publishes the new generation.
LoadSucceeds ==
    /\ pc = "load"
    /\ published' = [residency |-> "Resident", gen |-> published.gen + 1]
    /\ leases' = 0
    /\ turn' = "Query"
    /\ idle' = FALSE
    /\ pc' = "prime"
    /\ UNCHANGED <<requestVars, queueVars, control, caller, slot, wake, stack>>

\* fail_wake, for a control message that asked for the load.
FailedCallsForgotten == caller  \* faulty: only request wakes are answered
FailedCalls ==
    IF wake.kind \in {"ensure", "lease"}
    THEN [caller EXCEPT ![wake.who].doing = "refused"] ELSE caller

\* ResidentRunResult::LoadFailed: the wake that asked for the load is answered
\* with the error (fail_wake) and the worker sleeps; a failed startup ends it.
LoadFails ==
    /\ pc = "load"
    /\ wake' = NoWake
    /\ pc' = IF wake.kind = "startup" THEN "stopped" ELSE "sleep"
    /\ slot' = IF wake.kind = "startup" THEN "failed" ELSE slot
    /\ resp' = [r \in Requests |-> IF wake = Msg("request", r)
                                   THEN Append(resp[r], "failed") ELSE resp[r]]
    /\ caller' = FailedCalls
    /\ UNCHANGED <<life, handle, queueVars, control, stack, turn, leases,
                   idle, published>>

\* handle_resident_control on the first message; next is where the worker
\* goes on.
HandleControl(next) ==
    LET m == Head(control) IN
    /\ control' = Tail(control)
    /\ CASE m.kind = "shutdown" ->
              /\ pc' = "stopped"
              /\ UNCHANGED <<caller, leases, idle>>
         [] m.kind = "ensure" ->
              /\ pc' = next
              /\ caller' = Reply(m.who, "resident")
              /\ idle' = FALSE
              /\ UNCHANGED leases
         [] m.kind = "lease" ->
              /\ pc' = next
              /\ caller' = Reply(m.who, "granted")
              /\ leases' = leases + 1
              /\ UNCHANGED idle
         [] m.kind = "release" ->
              /\ pc' = next
              /\ caller' = [caller EXCEPT ![m.who] = Resting]
              /\ leases' = IF leases = 0 THEN 0 ELSE leases - 1
              /\ idle' = FALSE
    /\ UNCHANGED <<requestVars, queueVars, slot, wake, stack, turn, published>>

\* serve_resident_generation looks at the control channel once before it
\* serves the wake.
Prime ==
    /\ pc = "prime"
    /\ IF control /= <<>> THEN HandleControl("wake")
       ELSE /\ pc' = "wake"
            /\ UNCHANGED <<requestVars, queueVars, control, caller, slot, wake, stack,
                           turn, leases, idle, published>>

Activation(r) ==
    [req |-> r, at |-> "begin", left |-> BatchCount(r), result |-> "ok",
     sawCancel |-> FALSE]

ServeWake ==
    /\ pc = "wake"
    /\ wake' = NoWake
    /\ CASE wake.kind = "startup" ->
              /\ slot' = "open"
              /\ pc' = "loop"
              /\ UNCHANGED <<caller, stack, turn, leases, idle>>
         [] wake.kind = "request" ->
              /\ stack' = <<Activation(wake.who)>>
              /\ turn' = NextTurn(Class(wake.who))
              /\ pc' = "exec"
              /\ UNCHANGED <<caller, slot, leases, idle>>
         [] wake.kind = "ensure" ->
              /\ caller' = Reply(wake.who, "resident")
              /\ idle' = FALSE
              /\ pc' = "loop"
              /\ UNCHANGED <<slot, stack, turn, leases>>
         [] wake.kind = "lease" ->
              /\ caller' = Reply(wake.who, "granted")
              /\ leases' = leases + 1
              /\ pc' = "loop"
              /\ UNCHANGED <<slot, stack, turn, idle>>
    /\ UNCHANGED <<requestVars, queueVars, control, published>>

\* The loop drains control first.
LoopControl ==
    /\ pc = "loop"
    /\ control /= <<>>
    /\ HandleControl("loop")

\* FairRequestScheduler::try_pop: the class whose turn it is, else the other;
\* a queue that is looked at is pruned.
LoopPop ==
    LET c == IF Pruned(turn) /= <<>> THEN turn ELSE Other(turn)
        seen == {turn, c} IN
    /\ pc = "loop"
    /\ control = <<>>
    /\ Pruned(c) /= <<>>
    /\ queue' = [k \in Classes |-> IF k = c THEN Tail(Pruned(c))
                                   ELSE IF k \in seen THEN Pruned(k) ELSE queue[k]]
    /\ AnswerCancelled(UNION {Dropped(k) : k \in seen})
    /\ signal' = [signal EXCEPT ![c] = @ \/ Resignalled(c)]
    /\ stack' = <<Activation(Head(Pruned(c)))>>
    /\ turn' = NextTurn(c)
    /\ pc' = "exec"
    /\ UNCHANGED <<life, handle, control, caller, slot, wake, leases, idle, published>>

\* Nothing to serve: both queues have been pruned to nothing.
LoopEmpty ==
    /\ pc = "loop"
    /\ control = <<>>
    /\ \A c \in Classes : Pruned(c) = <<>>
    /\ queue' = [c \in Classes |-> <<>>]
    /\ AnswerCancelled(Dropped("Query") \cup Dropped("Bulk"))
    /\ pc' = "select"
    /\ UNCHANGED <<life, handle, signal, control, caller, slot, wake, stack, turn,
                   leases, idle, published>>

\* select_biased!: control, then the query signal, then the bulk signal, then
\* the idle timer.
SelectControl ==
    /\ pc = "select"
    /\ control /= <<>>
    /\ HandleControl("loop")

FirstSignal(c) == signal[c] /\ (c = "Bulk" => ~signal["Query"])

SelectSignal ==
    /\ pc = "select"
    /\ control = <<>>
    /\ \E c \in Classes :
         /\ FirstSignal(c)
         /\ signal' = [signal EXCEPT ![c] = FALSE]
    /\ pc' = "loop"
    /\ UNCHANGED <<requestVars, queue, control, caller, slot, wake, stack, turn,
                   leases, idle, published>>

\* Faulty: should_sleep looks at the clock only.
SelectSleepLeased ==
    /\ pc = "select" /\ control = <<>> /\ idle
    /\ \A c \in Classes : ~signal[c]
    /\ published.gen < MaxGeneration
    /\ published' = [published EXCEPT !.residency = "Sleeping"]
    /\ pc' = "sleep"
    /\ UNCHANGED <<requestVars, queueVars, control, caller, slot, wake, stack, turn,
                   leases, idle>>

\* The timer fires and should_sleep holds: the generation is unloaded.
SelectSleep ==
    /\ pc = "select"
    /\ control = <<>>
    /\ \A c \in Classes : ~signal[c]
    /\ idle
    /\ leases = 0
    /\ published.gen < MaxGeneration
    /\ published' = [published EXCEPT !.residency = "Sleeping"]
    /\ pc' = "sleep"
    /\ UNCHANGED <<requestVars, queueVars, control, caller, slot, wake, stack, turn,
                   leases, idle>>

\* The timer fires while a lease is held: remaining is idle_timeout again.
SelectTick ==
    /\ pc = "select"
    /\ control = <<>>
    /\ \A c \in Classes : ~signal[c]
    /\ leases > 0
    /\ pc' = "loop"
    /\ UNCHANGED <<requestVars, queueVars, control, caller, slot, wake, stack, turn,
                   leases, idle, published>>

\* idle_timeout passes with no activity.
IdleTimeElapses ==
    /\ pc = "select"
    /\ ~idle
    /\ idle' = TRUE
    /\ UNCHANGED <<requestVars, queueVars, control, caller, slot, pc, wake, stack,
                   turn, leases, published>>

\* wait_for_wake, control branch.
WakeControl ==
    LET m == Head(control) IN
    /\ pc = "sleep"
    /\ control /= <<>>
    /\ control' = Tail(control)
    /\ CASE m.kind = "shutdown" -> pc' = "stopped" /\ UNCHANGED <<caller, wake>>
         [] m.kind \in {"ensure", "lease"} ->
              pc' = "load" /\ wake' = m /\ UNCHANGED caller
         [] m.kind = "release" ->
              /\ caller' = [caller EXCEPT ![m.who] = Resting]
              /\ UNCHANGED <<pc, wake>>
    /\ UNCHANGED <<requestVars, queueVars, slot, stack, turn, leases, idle, published>>

\* wait_for_wake, signal branches: take the signal, then try_pop that queue.
WakeSignal ==
    /\ pc = "sleep"
    /\ control = <<>>
    /\ \E c \in Classes :
         /\ FirstSignal(c)
         /\ signal' = [signal EXCEPT ![c] = Resignalled(c)]
         /\ AnswerCancelled(Dropped(c))
         /\ IF Pruned(c) = <<>>
            THEN /\ queue' = [queue EXCEPT ![c] = <<>>]
                 /\ UNCHANGED <<pc, wake>>
            ELSE /\ queue' = [queue EXCEPT ![c] = Tail(Pruned(c))]
                 /\ wake' = Msg("request", Head(Pruned(c)))
                 /\ pc' = "load"
    /\ UNCHANGED <<life, handle, control, caller, slot, stack, turn, leases, idle,
                   published>>

----------------------------------------------------------------------------
(* The worker: handle_request and embed_inputs, on the innermost activation *)

Top == stack[Len(stack)]
AtTop(f) == [stack EXCEPT ![Len(stack)] = f]
At(point) == pc = "exec" /\ Top.at = point

\* The innermost activation answers and returns; when it was the only one,
\* complete_activity restarts the idle clock and the serve loop goes on.
Answer(r, result) ==
    /\ resp' = [resp EXCEPT ![r] = Append(@, result)]
    /\ stack' = SubSeq(stack, 1, Len(stack) - 1)
    /\ pc' = IF Len(stack) = 1 THEN "loop" ELSE "exec"
    /\ idle' = IF Len(stack) = 1 THEN FALSE ELSE idle

\* EmbeddingAdmissionTracker::begin: activate, or answer a context that was
\* cancelled after it was popped.
Begin ==
    LET r == Top.req IN
    /\ At("begin")
    /\ IF life[r] = "Queued"
       THEN /\ life' = [life EXCEPT ![r] = "Active"]
            /\ stack' = AtTop([Top EXCEPT !.at = "batch"])
            /\ UNCHANGED <<resp, pc, idle>>
       ELSE /\ Answer(r, "cancelled")
            /\ UNCHANGED life
    /\ UNCHANGED <<handle, queueVars, control, caller, slot, wake, turn, leases, published>>

\* One turn of the batch loop: the liveness check, then the native encode,
\* which may fail.
Batch ==
    /\ At("batch")
    /\ stack' \in
         IF ~IsLive(Top.req)
         THEN {AtTop([Top EXCEPT !.at = "decide", !.result = "cancelled"])}
         ELSE {AtTop([Top EXCEPT !.at = "decide", !.result = "failed"]),
               AtTop([Top EXCEPT !.at = IF Top.left = 1 THEN "decide" ELSE "between",
                                 !.left = @ - 1])}
    /\ UNCHANGED <<requestVars, queueVars, control, caller, slot, pc, wake, turn,
                   leases, idle, published>>

\* take_query_between_bulk_batches: at most one query is served, nested.
Between ==
    LET resumed == AtTop([Top EXCEPT !.at = "batch"]) IN
    /\ At("between")
    /\ AnswerCancelled(Dropped("Query"))
    /\ signal' = [signal EXCEPT !["Query"] = @ \/ Resignalled("Query")]
    /\ IF Pruned("Query") = <<>>
       THEN /\ queue' = [queue EXCEPT !["Query"] = <<>>]
            /\ stack' = resumed
       ELSE /\ queue' = [queue EXCEPT !["Query"] = Tail(Pruned("Query"))]
            /\ stack' = Append(resumed, Activation(Head(Pruned("Query"))))
    /\ UNCHANGED <<life, handle, control, caller, slot, pc, wake, turn, leases, idle,
                   published>>

\* handle_request reads is_cancelled ...
Decide ==
    /\ At("decide")
    /\ stack' = AtTop([Top EXCEPT !.at = "commit", !.sawCancel = ~IsLive(Top.req)])
    /\ UNCHANGED <<requestVars, queueVars, control, caller, slot, pc, wake, turn,
                   leases, idle, published>>

\* Faulty: the outcome of commit is ignored.
CommitRegardless ==
    /\ At("commit")
    /\ UNCHANGED life
    /\ Answer(Top.req, IF Top.sawCancel THEN "cancelled" ELSE Top.result)
    /\ UNCHANGED <<handle, queueVars, control, caller, slot, wake, turn, leases, published>>

\* ... and then races cancel with commit; the loser's outcome is Cancelled.
Commit ==
    LET r == Top.req
        wins == ~Top.sawCancel /\ life[r] = "Active" IN
    /\ At("commit")
    /\ life' = IF wins THEN [life EXCEPT ![r] = "Committed"] ELSE life
    /\ Answer(r, IF wins THEN Top.result ELSE "cancelled")
    /\ UNCHANGED <<handle, queueVars, control, caller, slot, wake, turn, leases, published>>

----------------------------------------------------------------------------
Worker ==
    \/ LoadSucceeds \/ LoadFails \/ Prime \/ ServeWake
    \/ LoopControl \/ LoopPop \/ LoopEmpty
    \/ SelectControl \/ SelectSignal \/ SelectSleep \/ SelectTick
    \/ WakeControl \/ WakeSignal
    \/ Begin \/ Batch \/ Between \/ Decide \/ Commit

Clients ==
    \/ \E r \in Requests : Submit(r) \/ Cancel(r) \/ Abandon(r) \/ Collect(r)
    \/ \E c \in Callers :
         EnsureResident(c) \/ AcquireLease(c) \/ Return(c) \/ DropLease(c)

\* After shutdown (or a failed startup) the engine is gone.
Stopped == pc = "stopped" /\ UNCHANGED vars

Next == Worker \/ Clients \/ IdleTimeElapses \/ TakeEngine \/ StopWorker \/ Stopped

Spec == Init /\ [][Next]_vars

\* The worker thread runs; a client blocked on an answer takes it when it is
\* there.  Nothing makes clients call, cancel or release.
Fairness ==
    /\ WF_vars(Worker)
    /\ \A r \in Requests : WF_vars(Collect(r))
    /\ \A c \in Callers : WF_vars(Return(c))

FairSpec == Spec /\ Fairness

----------------------------------------------------------------------------
(* Properties *)

\* The places where the engine may have a request in hand, each with the
\* number of times it is there.
Held(r) ==
    Cardinality({i \in DOMAIN queue["Query"] : queue["Query"][i] = r})
    + Cardinality({i \in DOMAIN queue["Bulk"] : queue["Bulk"][i] = r})
    + (IF wake = Msg("request", r) THEN 1 ELSE 0)
    + Cardinality({i \in DOMAIN stack : stack[i].req = r})
    + Len(resp[r])

\* Custody: a submitted request is in exactly one place (a queue, the pending
\* wake, an activation, or the answer in its response channel) until its
\* submitter has collected the answer.  So pruning, popping, waking, nesting
\* and failing neither lose a request nor answer it twice (a second send on
\* the bounded(1) channel would block the worker for good), and what has not
\* been submitted is nowhere.
Custody == \A r \in Requests : Held(r) = IF handle[r] = "none" THEN 0 ELSE 1

\* No lost wake-up: whenever the worker is blocked (select_biased! or
\* wait_for_wake) with a live request in a queue, that queue's signal is
\* raised; try_pop and try_push keep it so although a signal slot holds one
\* token however many requests there are.
NoLostWakeup ==
    \A c \in Classes :
        (pc \in {"select", "sleep"} /\ Pruned(c) /= <<>>) => signal[c]

\* Cancel and commit have one winner, and the answer tells who it was: vectors
\* are answered only when commit won, Cancelled only when a cancel won, at
\* whatever point of queueing, waking, nesting or encoding it came.
CancelCommitOneWinner ==
    \A r \in Requests :
        /\ resp[r] = <<"ok">> => life[r] = "Committed"
        /\ resp[r] = <<"cancelled">> => life[r] = "Cancelled"

\* A residency lease pins its load generation: from the grant until the
\* holder drops it the model stays resident under the generation the lease
\* names, so a publication that revalidates its lease never sees it changed.
LeasePinsGeneration ==
    \A c \in Callers :
        caller[c].doing \in {"granted", "held"} =>
            /\ published = [residency |-> "Resident", gen |-> caller[c].gen]
            /\ pc \notin {"load", "sleep", "stopped"}

\* ResidencyTracker.leases is exactly the number of leases granted whose
\* ReleaseLease has not been handled: the saturating_sub never saturates and
\* wait_for_wake never swallows a release that was due.
LeaseAccounting ==
    (pc \notin {"load", "sleep", "stopped"}) =>
        leases = Cardinality({c \in Callers :
                                caller[c].doing \in {"granted", "held", "releasing"}})

\* The worker is never gone while someone waits for it: Shutdown is sent by
\* the drop of the last clone, and a thread that waits holds one.
NobodyWaitsOnStoppedWorker ==
    pc = "stopped" =>
        /\ \A r \in Requests : handle[r] = "waiting" => resp[r] /= <<>>
        /\ \A c \in Callers : caller[c].doing \notin {"ensuring", "acquiring"}

\* The callers come to rest.  The resident loop drains its control channel
\* before it looks at the queues, so callers that never stop calling starve
\* the requests; nothing else may.
CallersRest ==
    <>[](\A c \in Callers : caller[c].doing \in {"nothing", "held"})

\* Every submitted query is answered once the callers come to rest: sleeping,
\* waking, failing loads, cancellations, leases and bulk work do not strand it.
QueryAnswered ==
    \A r \in Queries :
        CallersRest => ((handle[r] = "waiting") ~> (handle[r] /= "waiting"))

\* A bulk request is answered whatever the query traffic, provided the model
\* stays loaded: FairRequestScheduler alternates the classes.  (While asleep
\* wait_for_wake always prefers the query signal, so queries that are
\* cancelled in time, or whose loads fail, can keep a bulk request waiting;
\* the design documents promise no bound.)
BulkAnswered ==
    \A r \in Bulks :
        (CallersRest /\ <>[](pc \notin {"load", "sleep"})) =>
            ((handle[r] = "waiting") ~> (handle[r] /= "waiting"))

\* Every ensure_resident / acquire_residency_lease call returns.
CallAnswered ==
    \A c \in Callers :
        (caller[c].doing \in {"ensuring", "acquiring"}) ~>
            (caller[c].doing \in {"nothing", "held"})
----------------------------------------------------------------------------
(* What the engine promises, as EmbeddingService states it. *)

In(q, r) == \E i \in DOMAIN q : q[i] = r

PlaceOf(r) ==
    CASE resp[r] /= <<>> -> "done"
      [] In(queue[Class(r)], r) -> "queue"
      [] \E i \in DOMAIN stack : stack[i].req = r /\ stack[i].at /= "begin" -> "active"
      [] wake = Msg("request", r)
            \/ (\E i \in DOMAIN stack : stack[i].req = r /\ stack[i].at = "begin") -> "hand"
      [] OTHER -> "out"

FateOf(r) ==
    CASE life[r] = "Cancelled" -> "cancelled"
      [] life[r] = "Committed" -> "committed"
      [] OTHER -> "live"

LeaseOf(c) ==
    IF caller[c].doing \in {"granted", "held"}
    THEN [state |-> "held", gen |-> caller[c].gen]
    ELSE [state |-> "none", gen |-> 0]

Service == INSTANCE EmbeddingService WITH
    place <- [r \in Requests |-> PlaceOf(r)],
    fate <- [r \in Requests |-> FateOf(r)],
    result <- [r \in Requests |-> IF resp[r] = <<>> THEN "none" ELSE resp[r][1]],
    lease <- [c \in Callers |-> LeaseOf(c)],
    gen <- published.gen

\* Every step of the engine is a step the service allows, or none: a request
\* moves only along submit, pop, activate, commit, with cancel deciding it at
\* any point before commit and each request answered once, and a lease names
\* the generation loaded for as long as it is held.
ImplementsService == Service!ServiceSpec
=============================================================================
