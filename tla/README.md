# CodeStory: TLA+ specifications

Specifications, model-checking runs and proofs for CodeStory, a local code
index and retrieval tool (Rust, nine crates). They cover the parts of the
program where several threads, processes and crashes meet:

* the **embedding server**, one process per user that keeps an embedding model
  loaded and serves every CodeStory process of that user: its engine, its
  handlers, and the election that gives the user one server;
* the **promotion of a core index**, by which a refresh replaces the live
  SQLite store of a repository while other processes open it;
* **retrieval generations**: building, publishing, pruning and querying the
  artifacts that clones of one repository share;
* the **stdio server**, which serves an agent host over a pipe;
* the **refresh lock**, by which commands agree on who refreshes an index.

`PROJECT.json` maps every definition to the source lines it models and lists the
components, hazards, runs, mutants and theorems.

## The system

| Part | State it keeps | Operations | Talks to |
|---|---|---|---|
| `codestory-workspace` | none of its own; files on disk | discovery, repository identity, refresh plans, atomic file replacement, owned deletion | everything |
| `codestory-indexer` | intermediate storage of one indexing | parse, resolve, cancel | runtime |
| `codestory-store` | one SQLite store per repository; rollback copy and journals during promotion; promotion lock | open (with recovery), staged build, promote, read, write manifests | runtime, retrieval |
| `codestory-runtime` | index writer lock, in-process search state | full and incremental refresh, commit, republish, rehydrate, read services | store, indexer, retrieval |
| `codestory-retrieval` | generations of lexical, vector and SCIP artifacts, retention leases and markers, query cache | build, fence, publish, pin and query, clean up | store, embedding server |
| `codestory-retrieval/per_user_embedding` | server: registries, admission depths, drain flag, idle timestamp; client: connection, lease | embed, ensure, lease, cancel, observe, drain, exit; connect, spawn, replay | engine, CLI transport |
| `codestory-llama-sys` | the worker thread: queues, control channel, lease count, load generation | submit, cancel, ensure resident, lease, sleep, reload, shut down | the server |
| `codestory-cli` | stdio queue and retained projects, refresh lock file, server socket and lifetime authority | commands, stdio and HTTP transports, server election | runtime, retrieval |
| plugin launcher | installed executable | install, start | CLI |

What is hard in it:

* *Threads.* The engine's worker, one handler per connection, the accept loop
  and the watchdog share flags, registries and counters under different locks.
  Cancellation, deadlines and dead peers arrive at any point.
* *Processes.* Openers and refreshes of several processes meet at the files of
  one store, with two advisory locks, of which openers only ever try one.
* *Crashes and failing I/O.* A promotion is a sequence of file operations, each
  of which can be the last; so is the recovery.
* *Time.* Idle sleep of the model, idle exit of the server, request deadlines.

What makes the parts correct:

* Engine: every accepted request is answered exactly once; cancel and commit
  have one winner; no wake-up is lost; a lease pins the load generation.
* Server: it never exits or drains under work; admission is exact;
  it exits when it is left alone; every connection ends.
* Store: there is one published index at any moment; it changes in one step, to
  a later generation; a crash never leaves a third state or one that recovery
  refuses; what was acknowledged stays.
* Retrieval: a manifest is committed only for artifacts that are there and match
  the core index; a pinned session keeps its vectors; pruning takes nothing that
  is published or could be rolled back to; nobody waits in a circle.
* Election: a server that serves can be found, and is the only one; calls are
  replayed at most once and come back; after any crash clients are served again.
* Stdio server: answers in order, cancelled requests silent, no thread left
  behind, no request lost, every request settled, the server ends with its input.
* Refresh lock: one refresher; its status is true; no left-over blocks a refresh.

## Modules

| Module | What it is |
|---|---|
| `EmbeddingEngine` | the engine of `codestory-llama-sys` in full detail |
| `EmbeddingEngineProofs` | inductive invariant and safety theorems of the engine, and its refinement of `EmbeddingService` |
| `EmbeddingService` | what the engine promises to its users: the abstract specification |
| `EmbeddingServer` | the server of `per_user_embedding/server`, on top of `EmbeddingService` |
| `EmbeddingServerProofs` | inductive invariant and safety theorems of the server |
| `EmbeddingServerRefinement` | proof that the server and its worker keep to `EmbeddingService` |
| `StorePromotion` | promotion, recovery, locks and crashes of `codestory-store` |
| `PublishedIndex` | what the store promises: the abstract specification |
| `StorePromotionProofs` | inductive invariant, safety theorems and refinement of the store |
| `RetrievalGenerations` | publication, retention and query sessions of `codestory-retrieval`, over the stores of one artifact scope |
| `RetrievalGenerationsProofs` | inductive invariant and safety theorems of the generations |
| `EmbeddingElection` | the client of `per_user_embedding` and the Unix transport of the CLI, at the system calls |
| `EmbeddingElectionProofs` | inductive invariant and safety theorems of the election |
| `StdioServer` | the loop, the worker and the project contexts of the stdio transport |
| `StdioServerProofs` | inductive invariant and safety theorems of the stdio server |
| `RefreshLock` | the lock, status and heartbeat files of the local refresh, with their caller |
| `RefreshLockProofs` | inductive invariant and safety theorems of the refresh lock |
| `MCEmbeddingEngine`, `MCEmbeddingServer`, `MCStorePromotion`, `MCRetrievalGenerations` | instances for TLC (symmetry sets, the clones and where each process works) |

How they fit together: `EmbeddingEngine` implements `EmbeddingService`, on which
`EmbeddingServer` is built; `EmbeddingElection` takes from the server only that
it admits and answers while it serves and refuses while it drains.
`StorePromotion` implements `PublishedIndex`; `RetrievalGenerations` takes a
promotion as the one step that `PublishedIndex` says it is. `RefreshLock` decides
who runs the refresh that `StorePromotion` models. The definitions marked FAULTY
in a module are plausible bugs of the code below them; they are not part of any
specification, and show that the property named in `PROJECT.json` would find them.

### EmbeddingEngine

One worker thread owns the model. Its program counter `pc` follows
`run_engine_owner`, `run_resident_generation` and `wait_for_wake`; `stack` holds the
activations of `handle_request` (a query may be served between two batches of a
bulk request, nested in it). Each queue has a `signal` with one slot, as the
bounded(1) channel in `CancellableRequestQueue`. `life` is the atomic lifecycle
word that `cancel`, `activate` and `commit` race on; reading the cancel flag and
the compare-and-swap of `commit` are separate steps (`Decide`, `Commit`), as in
the code. Clients submit, cancel, abandon, collect; callers call
`ensure_resident` and `acquire_residency_lease`, and drop leases. `TakeEngine`
and `StopWorker` are the server's shutdown and the drop of the last clone.
Time is one bit, `idle`. Model loads may fail.

Abstracted: vectors and tokens, telemetry, the llama.cpp calls. Requests and
callers are slots that are used again. What `prune_cancelled` keeps of a queue is
written as the subsequence at its live positions (`Pruned`), not with `SelectSeq`,
which is recursive underneath and closed to the prover.

### EmbeddingService

Where each request is (out, queue, hand, active, done), who decided its fate,
its answer, and the leases with the generation they name. `EmbeddingEngine`
implements it (by TLC and by proof, with the refinement mapping at the end of
that module); `EmbeddingServer` contains these variables, and its steps on them are
shown to be steps of the service by TLC and by proof. So the two models fit
together without being composed state by state.

### EmbeddingServer

A handler slot goes through the steps of `serve_embedding_request`,
`serve_lease_connection`, `cancel` or the incompatible Hello: it reads
`active_execution`, acquires a permit, registers under the admission gate,
calls the engine, waits (a deadline or a dead peer may intervene at each point
where the code looks), and finishes in the code's order: registry, cancellation
and permit, idle window. `begin_draining_if_idle` holds the gate over several
steps: raise the flag, look at the registry, at the engine, commit or take back.
The accept loop reads the flag without the gate, and leaves when an accept or the
spawn of a handler fails. `stale` is the bit "the idle
timeout has elapsed since `last_work_ended_ns`".

`Faults` says which errors occur. When the probe of a peer fails
(`cancel_if_peer_dead` returns through `?`), the handler leaves without cancelling:
its guard takes the request out of the registry while the engine still has it.
`orphaned` remembers these requests. They are the only work the idle check may
miss, and `LiveWorkRegistered` and `ClosedMeansIdle` say so: an orphan that is
queued or active still counts for the engine, one that the worker has just popped
does not. Nobody waits for its answer.

`active_execution` looks at the newest activation only, through `try_lock`, and may
see none (`ReadExecution`).

Abstracted: frames and identities, observation connections (they change
nothing), connection counts, watchdog, qualification hooks.

### StorePromotion

A process is idle, opens the store, or refreshes it. `pc` names the next file
operation. The files are values: a database is absent, blank (no publication),
torn (half a copy) or complete with its publication; a journal is absent, torn
or whole. Each file operation is one step and may fail where the code has an
error path, with the outcome that path has: returned error, rollback, or only a
log line. `Crash` may happen at any step of any process; it releases the locks
and leaves the files. Reads under the promotion lock are part of the step that
they decide, as nobody else writes these files then (the one exception, an
opener that creates an absent live store, is a step of its own).

The writer lock is held from `BeginRefresh` to the end of the refresh; the
promotion lock is waited for by promoters and only tried by openers.

Initial states: no store, an empty one, a published one, and with `Legacy` the
remains of an interrupted version that had a backup but no journals.

### PublishedIndex

One variable, the published index, which changes only to a later generation, and
the set of acknowledged publications. The mapping (`Published`) is read off the
files: a committed journal decides for its candidate, a prepared one for the
previous publication, otherwise live. The commit point of the whole promotion is
thus the rename of the journal.

### RetrievalGenerations

The clean clones of a repository share an artifact scope: generation
directories, project lock, global lock; each has a store and a working tree. A
generation is named by the hash of its inputs, so it is modelled as that pair
(core publication, lexical source). What matters of its contents is from which
core publication each part was built: `parts[g]` says so for vectors, lexical
shard, graph artifacts (`scip`) and the evidence that attests the vectors. The
stores in `dense` have the dense-anchor publication of their core, which evidence
is checked against; a rehydrated store has none until it is indexed. A
store's manifest row (active and rollback in one row, written in one SQLite
transaction) is `row`; `staged` is the copy of it that an incremental refresh
carries and puts back on promotion.

A builder goes through `finalize_index`: global lock shared, project lock
exclusive, hash of the sources, input snapshot, previous manifest, the parts one
by one (each kept or built, from what the store holds *at that moment*),
validation, choice of the rollback, the fence, the marker, plan and removal. A
cleaner is `retrieval inventory --apply`. A reader is a `PinnedQuerySession` with
the one retry around it. Refreshes (full, incremental, discarded), edits and
rehydration change the stores without any of these locks. Each operation may fail
or die at every step.

`CacheRoot` says which stores a scan for protected rows can find. `RetentionSafe`
is stated for those: a store kept elsewhere with `--cache-dir` is protected by its
workspace's marker only, which a second store of that workspace overwrites, and
TLC finds its generation pruned then. (The changelog's "protects every
manifest-referenced active generation sharing the sidecar scope" reads stronger,
but does not say where stores may lie, so this is noted here and is no finding.)

### EmbeddingElection

The lifetime authority is a file whose flock the server holds; a client probes it
with the same exclusive flock, so for a moment a client is the holder. The socket
entry names the process that bound it, and is `stale` when that process is gone;
`mode` says whether others may use it, which is so between `bind` and
`set_permissions`. `connect` is split at its system calls (open the authority,
validate the socket, dial, identify the peer, probe, unlock); the server's `bind`
and the drop of its listener as well. `call` holds the locals of
`call_pure_with_replay` and `connect_with_control`: spawn attempt, loss seen,
clock. Time is the two bits of `clock`, one per budget; a budget outlasts a start
in progress (`Settled`). The time of one connect may run out before the dial and
after the peer is identified (`BudgetOut`). A draining server closes the connection
of a request that it does not admit any more; the client takes that for the loss of
the server and replays a pure call.

Server slots are used again, so processes are unbounded in number.

### StdioServer

`run_stdio_server` as it is polled: a read when idle, otherwise `select!` between
the read and the running task. A frame is its number in what the host wrote; its
kind says what the parser makes of it (tool call, plain request, notification,
malformed, oversized, blank, cancellation). The host writes it whole or in two
pieces, and may close stdin between them ("cut"); `line` is the head that a pending
`read_stdio_frame` has consumed, which goes when the future is dropped. The task selects a project (front of the list,
the last one evicted over capacity and waited for) or is refused it, activates it
and waits. A line that stdin's end cuts off is served as what it is: the request
itself when only the line end was missing, otherwise a malformed or oversized one.
Activation threads outlive the request. `silenced` and `torn` are history
variables.

### RefreshLock

A process makes one call of `wait_for_local_freshness` and lives on after it, as
`ready` and `preflight` do ("returned"; "kept" when `Drop` did not get to its lock).
The lock file is absent, torn (created, not filled) or owned; the status file is
replaced atomically.
Everything inside `try_acquire` happens under the guard's flock, step by step;
`write_status`, the heartbeat's renewal and `Drop` take the guard and give it back
in one step. `Fail` has every error path (a status write may fail after the rename
that makes it visible), `Crash` ends a process anywhere. What `Examine` reads of a
lock that exists (status, lock file, age, owner) is a parameter: each read may fail.
A lock that cannot be read is judged by its age, whoever owns it, and `misread`
remembers the live holders who lost their lock that way. A process number goes to a new process under a name that is on no file, which is
what start identity and token tell apart; so two numbers stand for any number of
processes in finitely many states.

## Runs

Each passing run finishes within about three minutes; together they take every
action.

| Run | Instance | What it shows |
|---|---|---|
| `engine_safety` | 2 queries, 1 bulk of 2 batches, queues of 2, 1 caller, 2 loads | custody of requests, no lost wake-up, one winner of cancel and commit, leases pin their generation, exact lease count, shutdown strands nobody |
| `engine_liveness` | 1 query, 1 bulk, 1 caller, fair worker | `EmbeddingService` is implemented; calls return; queries, and bulk requests while the model stays loaded, are answered once callers rest |
| `server` | 2 handlers, all operations, capacity 1, failing probes and accepts, fair | what is in progress is visible to the idle check; a committed drain found the server idle; exact permits; use of the service; a server left alone exits; connections end |
| `server_handover` | 2 handlers, query and incompatible Hello | *violation*, see findings |
| `store` | 3 processes, 2 refreshes, legacy remains, fair | live is old or new, the copy outlives its journal, recovery never meets a conflict, acknowledged publications stay, `PublishedIndex` is implemented, operations end |
| `store_interrupted` | 2 processes, 1 refresh | *violation*, see findings |
| `retrieval` | 2 clones, 2 builders, 1 cleaner, 1 reader, 2 core publications, 1 edit, 3 operations | no circular wait, sessions keep their vectors, retention is safe, commits match the core |
| `retrieval_drift` | 2 clones, 2 builders, 1 reader | *violation*, see findings |
| `election` | 1 caller, 1 observer, 2 server slots, all disturbances, fair | a serving server is reachable, replays are bounded, calls end, clients are served again |
| `stdio` | 3 frames, 2 projects, room for 1, whole and halved frames, panics and failing pipes, fair | order, silence after cancellation, no orphaned activation, no request lost, requests settle, the server ends |
| `stdio_torn_frame` | 2 plain requests, whole and halved | *violation*, see findings |
| `refresh_lock` | 2 process numbers, 3 names each, fair | one refresher unless a lock is misread, true status, a refresh happens in the end |

### Bounds

* Engine: two queries and a queue of two let a signal stand for two requests,
  the case the one-slot signal is about; two batches give one gap in which a
  query nests; two loads give one sleep and one reload (or failed load). Request
  slots are used again, so sequences of requests are unbounded. The proofs remove
  the numbers for safety and for `EmbeddingService`.
* Server: two handlers and the accept loop are the actors of every race between
  a registration and a drain, and with capacity 1 they fill the front door.
  Connections are unbounded in number. The proofs remove these bounds.
* Store: three processes are a promoter, an opener that recovers and one that
  passes it; two refreshes let one meet what another has left. Crashes and
  failures are unbounded. The proofs remove these bounds, too.
* Retrieval: two clones are the fewest that share a generation; two core
  publications and one edit let the inputs change once under a builder; three
  operations are a publication, another one or a cleanup, and a session. Aborts,
  clones of the store and rehydrations are unbounded. The proofs remove these
  bounds. Deadlock is not checked there: the bounds let everyone rest, and
  `NoCircularWait` says what matters.
* Election: one caller and one observer probe and spawn against two server
  processes, one of which starts while the other ends. Calls, crashes and
  processes are unbounded. The proofs remove the numbers for safety.
* Stdio: three frames are one that runs, one that waits and one that cancels
  either; capacity 1 with two projects evicts at every change. The proofs remove
  these bounds for safety.
* Refresh lock: two numbers are a holder and a contender, while any number of
  processes follow each other; three names are the one in use, the one on the
  lock and the one in the status. The proofs remove the numbers.
* Symmetry is used only in runs without liveness properties, over handlers,
  callers, requests of one class or processes, which are interchangeable. The
  bounds are in guards (`MaxGeneration`, `MaxRuns`, `MaxCore`, `MaxEdits`,
  `MaxStarts`, `MaxFrames`), not in state constraints.

Deadlock is checked in the other runs: the models have explicit end states
(`Stopped`, `Exited`, `phase = "ended"`), the store can always be opened again, a
client can always call and a process always be started.

### Fairness

* Engine: weak fairness of the worker thread and of a client that is blocked on
  an answer that is there. Nothing makes clients call, cancel or release.
* Server: weak fairness of each thread and of the engine; strong fairness of the
  steps that take the admission gate, as the mutex is free again and again while
  others take it and a waiter gets it in the end; time passes. Nothing makes a
  client connect, release its lease or run into a deadline.
* Store: weak fairness of each process in an operation, which may crash instead;
  strong fairness of the wait for the promotion lock, as the lock is held only
  for finite recoveries and promotions and a blocked `lock_exclusive` is queued
  by the kernel. Nothing makes a process start an operation.
* Election: weak fairness of every client and server thread; time passes for a
  client that sleeps again and again. Nobody has to call, release, crash or exit.
* Stdio: weak fairness of the loop, of joining a completed task (`select!` polls
  its branches in random order, so frames that keep coming do not hide it), of the
  task and of each activation. The host owes nothing.
* Refresh lock: weak fairness of each process and of the index run, strong fairness
  of the steps that wait for the guard's flock, time for a lock file, and
  callers that keep coming. A heartbeat may be late for ever.

`QueryAnswered` and `BulkAnswered` assume that callers come to rest: the resident
loop drains the control channel before it looks at the queues, so a caller that
never stops calling can hold up requests. `ElectionRecovers` assumes that
disturbances stop, and says which: crashes, drains, deadlines, failing spawns,
other clients' new calls; and two that are the code's own. A server that starts
while a client's probe has the flock ends as `AlreadyOwned`; its client waits out
its budget and fails, and only the next call spawns again. And a server that dies
between `bind` and `set_permissions` leaves an entry that everyone refuses until it
is removed by hand (or the umask had made it private). `RefreshHappens` assumes
that crashes, errors and failing index runs stop.

## Proofs

Checked by tlapm, for all values of the constants that the modules' assumptions
allow: any set of requests, any finite set of callers, any queue capacity; any
finite set of handlers and any capacity; any set of processes and any number of
refreshes; any number of frames and projects, any room for contexts; any number of clones, builders, cleaners and readers; any
number of clients and server slots; any number of process numbers and names.

**Engine** (`EmbeddingEngineProofs`). Assumption: `EngineAssumption` (classes are
disjoint, capacities and counts positive, finitely many callers). None of the
invariants is inductive: where a request is depends on the worker's program
counter, its stack and the pending wake together. `EngineInv` says of each request
in which one place it is (`OnePlace`) and what its lifecycle word may be there
(`LifeOf`); of the control side, what the channel may hold, what each caller waits
for, when the engine is still owned, and which generation leases pin
(`WakeInv`, `ControlInv`, `SlotInv`, `LeaseInv`); and that a signal stands for every
queue with a live request wherever the worker may block (`SignalInv`). Instead of
one argument per action and property, `StepMoves` shows that every action does to
every request one of eight moves (nothing, submitted, given up, collected, popped,
woken, begun, answered), and the moves are shown to keep the request half.
`StepControl` and `StepSignal` are the other two. From it: `TypeOK`, `Custody`,
`NoLostWakeup`, `CancelCommitOneWinner`, `LeasePinsGeneration`, `LeaseAccounting`,
`NobodyWaitsOnStoppedWorker`. `ImplementsService` follows from the same moves:
each is a move of `EmbeddingService` or leaves it alone (`MoveIsService`), a step
moves at most one request or changes leases and generation as the service allows
(`StepCallers`, `StepGeneration`).

`Custody` was strengthened by this proof: a request with a handle is in exactly one
place, also after a shutdown. And the guards of `PlaceOf` overlapped for a
request on the stack, which TLC resolves by order and TLA+ does not; they are
disjoint now.

**Stdio server** (`StdioServerProofs`). Assumption: `StdioAssumption`. The order of
answers is the order of a pipeline: written, then active, then queued (`OrderInv`),
then what is still to be read. The last boundary is `Behind(n)`: frame n was read to
its end, so it precedes the read in progress, every piece in the pipe and what the
host is midway through. No step takes that from a frame, and a frame gets it on
entering the queue because pieces are in order and only a head has more of its
frame after it (`PipeInv`); that also holds of a frame whose head was lost. So a
number enters the queue once, which with `SilenceInv` (wherever a silenced request
still is, it is flagged) gives `CancelledStaysSilent`; `AnswersInOrder` is part of
the invariant. `NoOrphanActivation` needs where the task is: only a task in
"evict" has an evicted project, a task past `select_project` has a context, and the
session is dropped only when no task uses it (`ContextInv`). The list without a
project is `RemoveFirst` (`position` and `remove` in the code), of which
`RemoveFirstKeeps` says that it loses nothing else.

`RequestsKept` has a second invariant over the first (`KeptInv`): only a silenced
request is flagged (`FlagInv`), so skipping a flagged one loses nothing that is owed
an answer; the loop sees the end of stdin with the pipe empty and, unless it fails,
leaves with the queue empty and no task (`DrainInv`); and whoever takes a request
from one place puts it into the next, or its answer out (`CustodyInv`). A frame in
two pieces is read by its rest, so it counts as unread until then; when its head was
dropped it is torn, which is the finding below.

**Server** (`EmbeddingServerProofs`). Assumptions: `ServerAssumption`. The
properties are not inductive: that a committed drain found nothing in progress
depends on three reads under three locks. `Invariant` adds where each handler is
in relation to the registries (`HandlersRegistered`), that the engine has live
work only while its handler waits for it or has orphaned it (`LiveWorkAwaited`), and what the holder
of the gate has seen and nobody can change meanwhile (`GateProtects`). From it:
`TypeOK`, `LiveWorkRegistered`, `LeaseAlwaysVisible`, `ClosedMeansIdle`,
`DrainIsFinal`; and, with a cardinality argument over permits,
`PermitAccounting`. `EmbeddingServerRefinement` shows `UsesService` action by
action: each moves at most one request as `RequestMove` allows, or one lease.

**Store** (`StorePromotionProofs`). Assumption: `PromotionAssumption`.
What has to hold of the files on disk at every moment (`Disk`): at most one
journal; a prepared one has its copy and a live file that is previous or
candidate; a committed one has its candidate live; a copy without a journal is of
the live publication or an earlier one, or the live file is blank. That is inductive only together with what the process at the promotion lock knows of the
files at each of its locations (`Positions`), which in turn needs that it is
alone there (`Locks`). The step lemma is split in control (`ControlStep`), files
(`DiskStep`) and what other processes know (`OthersStay`, `OutsideStays`). From
it: `TypeOK`, `LiveIsOldOrNew`, `RollbackCopyKept`, `NoConflict`. With
`Generations` (a candidate that is staged exceeds what is published,
because its writer holds the writer lock and only a commit publishes):
`AcknowledgedStays` and the refinement of `PublishedIndex`, where `Commit` is the
only step that maps to `Publish` and `RetireBackup`/`RetireJournal` the ones that
map to `Acknowledge`.

The theorems include stores with a legacy backup. There a refresh may pass while
another opener restores the backup, and numbers its candidate from the blank live
file; so `Exceeds` asks of a candidate only that it is a refresh's own where what
it replaces is `Leftover`, and a live file is blank beside a finished copy only
when the copy is `Leftover`. That publication is of generation 1, and no candidate
is of an earlier one, which gives `AcknowledgedStays` with a legacy backup too.

**Retrieval** (`RetrievalGenerationsProofs`). Assumption: `ScopeAssumption`.
`NoCircularWait` needs only the locks: whoever is past "global" holds the global
lock in its mode, whoever is past "project" both, and the wait for the second lock
is for somebody who holds both. The other properties are about what may not change
between two steps of one process, which is different for every location and every
lock mode. `Inv` says what each process may rely on where it is (a builder after
validation: its generation is complete and attested for the publication it was
validated with; a reader: its vectors; a remover: that nothing in its plan is
protected by a row or could become so), and that the rows in stores and staged
copies only speak of generations that a plan made meanwhile spares. A removal is
safe because the remover holds the project lock alone, so no row can come to name
a generation that was not protected when it planned, except one that a staged copy
puts back, and such a row is for a core publication that is not the present one
(so `RetentionSafe` does not speak of it, and `PinnedIntact` says that no session is
admitted to it).

**Election** (`EmbeddingElectionProofs`). Assumption: `ElectionAssumption`.
`ServingIsReachable` is inductive with: every server from "locked" on holds the
authority; the entry at the path belongs to the holder, is stale, or is absent;
and each place of a server says which. `ReplaysBounded` needs that a call that has
been sent once and is on its way again is a pure call marked as replayed, also
after the server closed its connection because it drains.

**Refresh lock** (`RefreshLockProofs`). Assumption: `RefreshAssumption`. The
inductive form adds `GuardInv`: whoever is inside `try_acquire` holds the guard and
has decided on a lock file that is still as it was, or on one that it could not
read, and then its holder is in `misread`. `StatusInv` says of a status
"refreshing" that its writer, if it lives, is still at it or has lost its lock, so
that no reader believes it. A name that is on
no file is what makes a new process differ from the one it replaces.

Each module's `TypeOK` is proved, and is not part of a run.

Only model-checked: liveness (all `~>` and `<>` properties), which is beyond the
prover: `QueryAnswered`, `BulkAnswered`, `CallAnswered`, `IdleServerExits`,
`ConnectionEnds`, `OperationsEnd`, `CallsEnd`, `ElectionRecovers`, `RequestsSettle`,
`ServerEnds` and `RefreshHappens`.
Every other invariant, action property and refinement of a passing run has a theorem.

## Findings

Where the code does something else than a document of the repository says; each
is a run that is expected to be violated.

1. `server_handover`: an incompatible client's Hello raises `draining` for as
   long as the server looks whether it is idle; the accept loop, which reads the
   flag without the gate, may see it and leave with a request active.
2. `store_interrupted`: a process that dies while it fills the rollback copy or
   writes the prepared journal leaves a torn file, and every later open is
   refused although the live store is untouched.
3. `retrieval_drift`: a builder whose store is refreshed while it builds writes
   graph artifacts of the newer publication into the generation named by the older
   one. Its own commit is refused, but another clone finds the artifacts, keeps
   them, and serves a session whose graph does not belong to its store. Vectors are
   attested, graph artifacts are not.
4. `stdio_torn_frame`: the read of a frame is dropped when the running request
   completes, and with it the bytes already consumed; an intact request that came
   in two pieces is answered with a parse error.

Two more the models contain and the properties name as exceptions, without a run
of their own:

* The refresh lock: a lock file that cannot be read or parsed at that moment is
  judged by its age although its owner lives (`local_refresh_status.rs:604-608`);
  nobody renews it, so it is old in any longer refresh. It is removed, and two
  processes refresh at once, where the changelog says that "live local-refresh and
  ready repair locks are not age-reclaimed" (`CHANGELOG.md:180`). `OneRefresher`
  holds for everyone whose lock was not `misread`.
* The embedding server: when the probe of a client fails, its request leaves the
  registry uncancelled (`operation.rs:158`). The engine works on it for nobody, and a
  drain may commit while the worker has just popped it (`orphaned`).

## Not modelled, and the plan

Not modelled: parsing and resolution in the indexer, ranking and planning of
retrieval, the agent's packets, SQL inside one transaction, encoding of frames,
reports and commands, scripts, benchmarks and vendored code. They are by far the
larger part of the source, but they are pure functions of large inputs or plain
I/O: there is nothing in them to interleave, and a model would repeat the code.

Hazards that no property covers:

* Power failures that lose unsynced directory entries of the store need a model of
  the file system that the code does not state.
* The server's watchdog compares counters and clocks with budgets of seconds; what
  it does, ending the server, is a crash in `EmbeddingElection`.
* `finish_request` makes the server idle before it restarts the idle window
  (`server/state.rs:360`), so the server may exit right after a long request. The
  next client starts another one.
* A server that dies between `bind` and `set_permissions` leaves a socket entry that
  everyone refuses; `ElectionRecovers` assumes that it does not stay.
* The non-mutating open of the store checks for artifacts and opens afterwards.

Left for later, in this order:

1. The watchdog, on top of `EmbeddingServer`; the non-mutating open, as one more
   operation of `StorePromotion`.
2. The in-process search state that follows the published index, the Windows
   transport's named pipes, the plugin launcher's installation.
