------------------------ MODULE RetrievalGenerations ------------------------
(***************************************************************************)
(* Retrieval publication, generation retention and query sessions of       *)
(* crates/codestory-retrieval over the core stores of one artifact scope:  *)
(* finalize_index (index.rs), the retention lock, marker, plan and removal *)
(* (retention.rs), `retrieval inventory --apply` (inventory.rs) and        *)
(* PinnedQuerySession (query.rs).                                          *)
(*                                                                         *)
(* The clean clones of one repository share a scope, hence its generation  *)
(* directories and its project lock; each has stores of its own.  A        *)
(* generation is named by the hash of its inputs, the core publication and *)
(* the lexical source, and is modelled as that pair.  What its directories *)
(* hold is modelled by the core publication each part was built from.      *)
(*                                                                         *)
(* The stores change under the builders, cleaners and readers without      *)
(* their locks: StorePromotion has the detail.  The SQLite transaction     *)
(* that restores a promoted database and the one that publishes a manifest *)
(* exclude each other, so each is one step.  Every operation may fail or   *)
(* its process die at any step; the operating system drops the locks.      *)
(*                                                                         *)
(* Left out: the embedding lease (EmbeddingServer), the content of the     *)
(* parts, schema and policy versions (all current), byte accounting, and   *)
(* stores deleted by hand.                                                 *)
(***************************************************************************)
EXTENDS Naturals

CONSTANTS
    Storages,     \* core stores whose projects share the artifact scope
    Workspaces,   \* workspace_id of their roots, which names the marker file
    Workspace,    \* the workspace of each store
    CacheRoot,    \* the stores under user_cache_root(); others use --cache-dir
    Sources,      \* contents of a working tree
    MaxCore,      \* bound on the core publications
    MaxEdits,     \* bound on the changes of working trees
    MaxStarts,    \* bound on the operations started
    Builders, Cleaners, Readers,   \* finalizing, pruning and querying processes
    at            \* the store each process works on

Actors == Builders \cup Cleaners \cup Readers

ASSUME ScopeAssumption ==
    /\ Workspace \in [Storages -> Workspaces]
    /\ CacheRoot \subseteq Storages
    /\ Sources # {}
    /\ MaxCore \in Nat
    /\ MaxEdits \in Nat
    /\ MaxStarts \in Nat
    /\ at \in [Actors -> Storages]
    /\ Builders \cap Cleaners = {}
    /\ Builders \cap Readers = {}
    /\ Cleaners \cap Readers = {}

VARIABLES
    core,         \* complete publication of each store; 0 before the first
    lastCore,     \* publications made so far: their identities are never reused
    source,       \* what each working tree holds
    edits,        \* changes of working trees so far
    dense,        \* the stores with a dense_anchor_publication of their core
    row,          \* retrieval_index_manifest row of each store
    staged,       \* the row in the staged copy of a running refresh
    marker,       \* {workspace_id}.json
    parts,        \* what each generation's directories hold
    globalLock, projectLock,   \* mode in which each process holds them
    pc,
    starts,       \* operations started
    snapshot,     \* the core publication in its open read transaction
    gen,          \* the generation it builds, or its session serves
    previous,     \* previous_manifest of a builder, then the row it publishes
    doomed,       \* parts of the plan still to be removed
    attempt       \* of with_stable_retrieval_publication

storeVars == <<core, lastCore, dense, source, edits, row, staged>>
lockVars == <<globalLock, projectLock>>
localVars == <<snapshot, gen, previous, doomed, attempt>>
vars == <<storeVars, marker, parts, lockVars, pc, starts, localVars>>

-----------------------------------------------------------------------------
(* Generations, rows and parts.                                            *)

Cores == 1..MaxCore

\* sidecar_generation_id of a SidecarInputFingerprint
Generations == [core : Cores, source : Sources]
NoGeneration == [core |-> 0, source |-> CHOOSE s \in Sources : TRUE]
MaybeGenerations == Generations \cup {NoGeneration}

\* The current manifest and its rollback record are one SQLite row.
NoRow == [active |-> NoGeneration, rollback |-> NoGeneration]
Rows == [active : MaybeGenerations, rollback : MaybeGenerations]

\* The staged copy of a refresh that runs, or none.
NoClone == [held |-> FALSE, row |-> NoRow]
Clones == [held : BOOLEAN, row : Rows]

\* The directories of a generation, which are removed one by one.
PartNames == {"vectors", "lexical", "scip"}

\* Which core publication each part was built from, 0 when it is missing.
\* Evidence lies with the vectors, attests their bytes, and is void once they
\* are replaced.
Parts == [PartNames \cup {"evidence"} -> 0..MaxCore]
NoParts == [x \in PartNames \cup {"evidence"} |-> 0]

Holds(g, part) == parts[g][part] # 0

Without(part, p) ==
    [x \in PartNames \cup {"evidence"} |->
        IF x = part \/ (x = "evidence" /\ part = "vectors") THEN 0 ELSE p[x]]

\* The vectors are attested for a core publication.
EvidenceValid(g, c) == Holds(g, "vectors") /\ parts[g]["evidence"] = c

\* validate_generation_evidence_for_publication, which also asks the store for
\* the dense-anchor publication of its core.
EvidenceAdmits(s, g, c) == s \in dense /\ EvidenceValid(g, c)

\* compute_sidecar_input_fingerprint over what a store and its tree hold now
CurrentInput(s) == [core |-> core[s], source |-> source[Workspace[s]]]

Locations ==
    {"idle", "global", "project", "source", "input", "previous", "lexical",
     "semantic", "evidence", "scip", "validate", "rollback", "fence", "marker",
     "plan", "remove", "pin", "ready", "pinned", "dropping"}

\* From the input snapshot to the fence a builder knows its generation.
Building ==
    {"previous", "lexical", "semantic", "evidence", "scip", "validate",
     "rollback", "fence"}

TypeOK ==
    /\ lastCore \in 0..MaxCore
    /\ core \in [Storages -> 0..MaxCore]
    /\ source \in [Workspaces -> Sources]
    /\ edits \in Nat
    /\ dense \subseteq Storages
    /\ row \in [Storages -> Rows]
    /\ staged \in [Storages -> Clones]
    /\ marker \in [Workspaces -> Rows]
    /\ parts \in [Generations -> Parts]
    /\ globalLock \in [Actors -> {"none", "shared", "exclusive"}]
    /\ projectLock \in [Actors -> {"none", "shared", "exclusive"}]
    /\ pc \in [Actors -> Locations]
    /\ starts \in Nat
    /\ snapshot \in [Actors -> 0..MaxCore]
    /\ gen \in [Actors -> [core : 0..MaxCore, source : Sources]]
    /\ \A a \in Actors : pc[a] \in Building => gen[a] \in Generations
    /\ previous \in [Actors -> Rows]
    /\ doomed \in [Actors -> SUBSET (Generations \X PartNames)]
    /\ attempt \in [Actors -> 0..1]

Init ==
    /\ core = [s \in Storages |-> 0]
    /\ lastCore = 0
    /\ source \in {[w \in Workspaces |-> content] : content \in Sources}
    /\ edits = 0
    /\ dense = {}
    /\ row = [s \in Storages |-> NoRow]
    /\ staged = [s \in Storages |-> NoClone]
    /\ marker = [w \in Workspaces |-> NoRow]
    /\ parts = [g \in Generations |-> NoParts]
    /\ globalLock = [a \in Actors |-> "none"]
    /\ projectLock = [a \in Actors |-> "none"]
    /\ pc = [a \in Actors |-> "idle"]
    /\ starts = 0
    /\ snapshot = [a \in Actors |-> 0]
    /\ gen = [a \in Actors |-> NoGeneration]
    /\ previous = [a \in Actors |-> NoRow]
    /\ doomed = [a \in Actors |-> {}]
    /\ attempt = [a \in Actors |-> 0]

-----------------------------------------------------------------------------
(* The stores, which change without the generation locks.                  *)

\* An edit, a checkout or a pull in a working tree.
EditSource(w) ==
    /\ edits < MaxEdits
    /\ edits' = edits + 1
    /\ \E content \in Sources \ {source[w]} : source' = [source EXCEPT ![w] = content]
    /\ UNCHANGED <<core, lastCore, dense, row, staged, marker, parts, lockVars, pc, starts, localVars>>

Publish(s, newRow) ==
    /\ lastCore < MaxCore
    /\ lastCore' = lastCore + 1
    /\ core' = [core EXCEPT ![s] = lastCore + 1]
    /\ dense' = dense \cup {s}
    /\ row' = [row EXCEPT ![s] = newRow]
    /\ staged' = [staged EXCEPT ![s] = NoClone]
    /\ UNCHANGED <<source, edits, marker, parts, lockVars, pc, starts, localVars>>

\* A full refresh stages an empty database: the promoted one has no row.
FullRefresh(s) == ~staged[s].held /\ Publish(s, NoRow)

\* An incremental refresh clones the live database into its staged one ...
CloneLive(s) ==
    /\ core[s] # 0 /\ ~staged[s].held
    /\ staged' = [staged EXCEPT ![s] = [held |-> TRUE, row |-> row[s]]]
    /\ UNCHANGED <<core, lastCore, dense, source, edits, row, marker, parts, lockVars, pc, starts, localVars>>

\* ... and the promotion puts the cloned row back, whatever was published since.
PromoteClone(s) == staged[s].held /\ Publish(s, staged[s].row)

\* The refresh fails and its staged database is discarded.
DiscardClone(s) ==
    /\ staged[s].held
    /\ staged' = [staged EXCEPT ![s] = NoClone]
    /\ UNCHANGED <<core, lastCore, dense, source, edits, row, marker, parts, lockVars, pc, starts, localVars>>

\* A clone's empty cache is filled from another's database, without its row and
\* without the dense-anchor publication, which only core indexing makes again.
Rehydrate(s, from) ==
    /\ core[s] = 0 /\ core[from] # 0
    /\ core' = [core EXCEPT ![s] = core[from]]
    /\ row' = [row EXCEPT ![s] = NoRow]
    /\ dense' = dense \ {s}
    /\ UNCHANGED <<lastCore, source, edits, staged, marker, parts, lockVars, pc, starts, localVars>>

-----------------------------------------------------------------------------
(* Starting, locking and ending.                                           *)

Goto(a, l) ==
    /\ pc' = [pc EXCEPT ![a] = l]
    /\ UNCHANGED <<storeVars, lockVars, starts>>

\* FAULTY: the retention lease outlives the operation that took it.
ReturnKeepingLocks(a) ==
    /\ pc' = [pc EXCEPT ![a] = "idle"]
    /\ snapshot' = [snapshot EXCEPT ![a] = 0]
    /\ gen' = [gen EXCEPT ![a] = NoGeneration]
    /\ previous' = [previous EXCEPT ![a] = NoRow]
    /\ doomed' = [doomed EXCEPT ![a] = {}]
    /\ attempt' = [attempt EXCEPT ![a] = 0]
    /\ UNCHANGED <<storeVars, lockVars, starts>>

\* The operation returns, fails or dies: locals and locks go.
Return(a) ==
    /\ pc' = [pc EXCEPT ![a] = "idle"]
    /\ globalLock' = [globalLock EXCEPT ![a] = "none"]
    /\ projectLock' = [projectLock EXCEPT ![a] = "none"]
    /\ snapshot' = [snapshot EXCEPT ![a] = 0]
    /\ gen' = [gen EXCEPT ![a] = NoGeneration]
    /\ previous' = [previous EXCEPT ![a] = NoRow]
    /\ doomed' = [doomed EXCEPT ![a] = {}]
    /\ attempt' = [attempt EXCEPT ![a] = 0]
    /\ UNCHANGED <<storeVars, starts>>

Start(a) ==
    /\ pc[a] = "idle"
    /\ starts < MaxStarts
    /\ starts' = starts + 1
    /\ pc' = [pc EXCEPT ![a] = "global"]
    /\ UNCHANGED <<storeVars, marker, parts, lockVars, localVars>>

Free(lock, a, mode) ==
    \A b \in Actors \ {a} :
        lock[b] # "exclusive" /\ (mode = "exclusive" => lock[b] = "none")

\* Publication and queries share the global lock, cleanup excludes them.
GlobalMode(a) == IF a \in Cleaners THEN "exclusive" ELSE "shared"

\* FAULTY: publication shares the project lock with the sessions.
ProjectModeShared(a) == IF a \in Cleaners THEN "exclusive" ELSE "shared"

\* Queries share the project lock, publication and cleanup exclude everyone.
ProjectMode(a) == IF a \in Readers THEN "shared" ELSE "exclusive"

AcquireGlobal(a) ==
    /\ pc[a] = "global"
    /\ Free(globalLock, a, GlobalMode(a))
    /\ globalLock' = [globalLock EXCEPT ![a] = GlobalMode(a)]
    /\ pc' = [pc EXCEPT ![a] = "project"]
    /\ UNCHANGED <<storeVars, marker, parts, projectLock, starts, localVars>>

FirstStep(a) ==
    IF a \in Builders THEN "source" ELSE IF a \in Cleaners THEN "plan" ELSE "pin"

AcquireProject(a) ==
    /\ pc[a] = "project"
    /\ Free(projectLock, a, ProjectMode(a))
    /\ projectLock' = [projectLock EXCEPT ![a] = ProjectMode(a)]
    /\ pc' = [pc EXCEPT ![a] = FirstStep(a)]
    /\ UNCHANGED <<storeVars, marker, parts, globalLock, starts, localVars>>

\* An error, a cancellation or a crash at any point.
Abort(a) ==
    /\ pc[a] # "idle"
    /\ Return(a)
    /\ UNCHANGED <<marker, parts>>

-----------------------------------------------------------------------------
(* finalize_index: read the inputs, build what is missing, publish, prune. *)

ReadSource(a) ==
    /\ pc[a] = "source"
    /\ gen' = [gen EXCEPT ![a].source = source[Workspace[at[a]]]]
    /\ Goto(a, "input")
    /\ UNCHANGED <<marker, parts, snapshot, previous, doomed, attempt>>

\* The coherent snapshot; without a core publication the build fails later.
ReadInput(a) ==
    /\ pc[a] = "input"
    /\ core[at[a]] # 0
    /\ gen' = [gen EXCEPT ![a].core = core[at[a]]]
    /\ Goto(a, "previous")
    /\ UNCHANGED <<marker, parts, snapshot, previous, doomed, attempt>>

\* The published generation has these inputs, its evidence is valid for the
\* store's publication of this moment, and its parts are there.
Reusable(a) ==
    /\ row[at[a]].active = gen[a]
    /\ EvidenceAdmits(at[a], gen[a], core[at[a]])
    /\ \A part \in PartNames : Holds(gen[a], part)

\* It is then reused as it is, unless its health is not "full" for a reason
\* beyond these (the lexical engine, the embedding server): it is rebuilt.
ReadPrevious(a) ==
    /\ pc[a] = "previous"
    /\ previous' = [previous EXCEPT ![a] = row[at[a]]]
    /\ \/ Reusable(a) /\ Goto(a, "validate")
       \/ Goto(a, "lexical")
    /\ UNCHANGED <<marker, parts, snapshot, gen, doomed, attempt>>

\* A shard is built only from the expected source and symbols, or not at all.
EnsureLexical(a) ==
    /\ pc[a] = "lexical"
    /\ Holds(gen[a], "lexical") \/ gen[a] = CurrentInput(at[a])
    /\ parts' = [parts EXCEPT ![gen[a]]["lexical"] = gen[a].core]
    /\ Goto(a, "semantic")
    /\ UNCHANGED <<marker, localVars>>

\* ensure_semantic_index pins the publication of this moment: vectors attested
\* for it are kept, others are replaced in place.
EnsureVectors(a) ==
    /\ pc[a] = "semantic"
    /\ IF EvidenceValid(gen[a], core[at[a]])
       THEN Goto(a, "scip") /\ UNCHANGED <<parts, snapshot>>
       ELSE /\ snapshot' = [snapshot EXCEPT ![a] = core[at[a]]]
            /\ parts' = [parts EXCEPT ![gen[a]]["vectors"] = core[at[a]],
                                      ![gen[a]]["evidence"] = 0]
            /\ Goto(a, "evidence")
    /\ UNCHANGED <<marker, gen, previous, doomed, attempt>>

\* The evidence manifest names the snapshot the vectors were built from.
PublishEvidence(a) ==
    /\ pc[a] = "evidence"
    /\ parts' = [parts EXCEPT ![gen[a]]["evidence"] = snapshot[a]]
    /\ snapshot' = [snapshot EXCEPT ![a] = 0]
    /\ Goto(a, "scip")
    /\ UNCHANGED <<marker, gen, previous, doomed, attempt>>

\* Graph artifacts that are there are kept; others come from the store as it is.
EnsureScip(a) ==
    /\ pc[a] = "scip"
    /\ parts' = [parts EXCEPT ![gen[a]]["scip"] = IF @ # 0 THEN @ ELSE core[at[a]]]
    /\ Goto(a, "validate")
    /\ UNCHANGED <<marker, localVars>>

ValidateCandidate(a) ==
    /\ pc[a] = "validate"
    /\ \A part \in PartNames : Holds(gen[a], part)
    /\ EvidenceAdmits(at[a], gen[a], core[at[a]])
    /\ Goto(a, "rollback")
    /\ UNCHANGED <<marker, parts, localVars>>

\* prepare_generation_retention: the newest other generation of the previous
\* row that is valid for the store's publication.  A row's active generation
\* is newer than its rollback.
VerifiedPrevious(a) ==
    LET Verified(g) == g # NoGeneration /\ g # gen[a] /\ EvidenceAdmits(at[a], g, core[at[a]])
    IN  IF Verified(previous[a].active) THEN previous[a].active
        ELSE IF Verified(row[at[a]].rollback) THEN row[at[a]].rollback
        ELSE NoGeneration

\* From here previous holds the pointer pair that is about to be published.
PrepareRetention(a) ==
    /\ pc[a] = "rollback"
    /\ previous' = [previous EXCEPT ![a] =
                       [active |-> gen[a], rollback |-> VerifiedPrevious(a)]]
    /\ Goto(a, "fence")
    /\ UNCHANGED <<marker, parts, snapshot, gen, doomed, attempt>>

\* FAULTY: the inputs are not read again under the write transaction.
PublishManifestUnfenced(a) ==
    /\ pc[a] = "fence"
    /\ row' = [row EXCEPT ![at[a]] = previous[a]]
    /\ pc' = [pc EXCEPT ![a] = "marker"]
    /\ UNCHANGED <<core, lastCore, dense, source, edits, staged, marker, parts, lockVars, starts, localVars>>

\* The fence: under the store's write transaction the inputs are read again
\* and must be the expected ones.
PublishManifest(a) ==
    /\ pc[a] = "fence"
    /\ CurrentInput(at[a]) = gen[a]
    /\ row' = [row EXCEPT ![at[a]] = previous[a]]
    /\ pc' = [pc EXCEPT ![a] = "marker"]
    /\ UNCHANGED <<core, lastCore, dense, source, edits, staged, marker, parts, lockVars, starts, localVars>>

\* The marker is derived from the committed row; when that or the write fails,
\* nothing is pruned.
WriteMarker(a) ==
    /\ pc[a] = "marker"
    /\ \/ /\ row[at[a]].active # NoGeneration
          /\ marker' = [marker EXCEPT ![Workspace[at[a]]] = row[at[a]]]
          /\ Goto(a, "plan")
          /\ UNCHANGED localVars
       \/ Return(a) /\ UNCHANGED marker
    /\ UNCHANGED parts

-----------------------------------------------------------------------------
(* Retention, after a publication or by `retrieval inventory --apply`.     *)

\* FAULTY: the markers alone say what is published.
ProtectedRowsOfMarkers(s) == {marker[w] : w \in Workspaces}

\* scan_retention_protection over the cache root, the own store and the markers
ProtectedRows(s) ==
    {row[t] : t \in CacheRoot \cup {s}} \cup {marker[w] : w \in Workspaces}

Protected(s) ==
    {r.active : r \in ProtectedRows(s)} \cup {r.rollback : r \in ProtectedRows(s)}

\* Unreadable protection, or none, suppresses pruning; so does an own manifest
\* that is missing when a cleaner asks.
PlanRetention(a) ==
    /\ pc[a] = "plan"
    /\ \/ /\ \E r \in ProtectedRows(at[a]) : r.active # NoGeneration
          /\ a \in Cleaners => row[at[a]].active # NoGeneration
          /\ doomed' = [doomed EXCEPT ![a] =
                {d \in Generations \X PartNames :
                    d[1] \notin Protected(at[a]) /\ \E p \in PartNames : Holds(d[1], p)}]
          /\ Goto(a, "remove")
          /\ UNCHANGED <<snapshot, gen, previous, attempt>>
       \/ Return(a)
    /\ UNCHANGED <<marker, parts>>

\* apply_generation_retention: of each generation the vectors go first, then
\* the lexical shard, then the graph artifacts; a removal that fails is skipped.
RemoveParts(a) ==
    /\ pc[a] = "remove"
    /\ \E d \in doomed[a] :
        /\ d[2] # "vectors" => <<d[1], "vectors">> \notin doomed[a]
        /\ d[2] = "scip" => <<d[1], "lexical">> \notin doomed[a]
        /\ doomed' = [doomed EXCEPT ![a] = @ \ {d}]
        /\ \/ parts' = [parts EXCEPT ![d[1]] = Without(d[2], @)]
           \/ UNCHANGED parts
    /\ Goto(a, "remove")
    /\ UNCHANGED <<marker, snapshot, gen, previous, attempt>>

FinishRetention(a) ==
    /\ pc[a] = "remove" /\ doomed[a] = {}
    /\ Return(a)
    /\ UNCHANGED <<marker, parts>>

-----------------------------------------------------------------------------
(* PinnedQuerySession and the runtime's retry around it.                   *)

\* BEGIN DEFERRED and the first read: the publication and the row are pinned.
PinStore(a) ==
    /\ pc[a] = "pin"
    /\ row[at[a]].active # NoGeneration
    /\ snapshot' = [snapshot EXCEPT ![a] = core[at[a]]]
    /\ gen' = [gen EXCEPT ![a] = row[at[a]].active]
    /\ Goto(a, "ready")
    /\ UNCHANGED <<marker, parts, previous, doomed, attempt>>

\* Strict readiness over the pinned publication and the tree of this moment,
\* and the vector evidence.  A store with a row keeps its dense publication, so
\* the pinned one is the present one.
Admit(a) ==
    /\ pc[a] = "ready"
    /\ gen[a] = [core |-> snapshot[a], source |-> source[Workspace[at[a]]]]
    /\ EvidenceAdmits(at[a], gen[a], snapshot[a])
    /\ Goto(a, "pinned")
    /\ UNCHANGED <<marker, parts, localVars>>

\* The answer is assembled and the publication identity read again.
Revalidate(a) ==
    /\ pc[a] = "pinned"
    /\ IF core[at[a]] = snapshot[a] /\ row[at[a]].active = gen[a]
       THEN Return(a)
       ELSE Goto(a, "dropping") /\ UNCHANGED localVars
    /\ UNCHANGED <<marker, parts>>

\* The session is dropped before the operation is retried as a whole, once.
Retry(a) ==
    /\ pc[a] = "dropping" /\ attempt[a] = 0
    /\ attempt' = [attempt EXCEPT ![a] = 1]
    /\ pc' = [pc EXCEPT ![a] = "global"]
    /\ globalLock' = [globalLock EXCEPT ![a] = "none"]
    /\ projectLock' = [projectLock EXCEPT ![a] = "none"]
    /\ snapshot' = [snapshot EXCEPT ![a] = 0]
    /\ gen' = [gen EXCEPT ![a] = NoGeneration]
    /\ UNCHANGED <<storeVars, marker, parts, starts, previous, doomed>>

-----------------------------------------------------------------------------
StoreStep ==
    \/ \E w \in Workspaces : EditSource(w)
    \/ \E s \in Storages :
        \/ FullRefresh(s) \/ CloneLive(s) \/ PromoteClone(s) \/ DiscardClone(s)
        \/ \E t \in Storages : Rehydrate(s, t)

LockStep(a) ==
    \/ Start(a) \/ AcquireGlobal(a) \/ AcquireProject(a) \/ Abort(a)

BuildStep(a) ==
    \/ ReadSource(a) \/ ReadInput(a) \/ ReadPrevious(a)
    \/ EnsureLexical(a) \/ EnsureVectors(a) \/ PublishEvidence(a) \/ EnsureScip(a)
    \/ ValidateCandidate(a) \/ PrepareRetention(a) \/ PublishManifest(a)
    \/ WriteMarker(a)

RetentionStep(a) == PlanRetention(a) \/ RemoveParts(a) \/ FinishRetention(a)

QueryStep(a) == PinStore(a) \/ Admit(a) \/ Revalidate(a) \/ Retry(a)

Next ==
    \/ StoreStep
    \/ \E a \in Actors : LockStep(a) \/ BuildStep(a) \/ RetentionStep(a) \/ QueryStep(a)

Spec == Init /\ [][Next]_vars

-----------------------------------------------------------------------------
(* Properties.                                                             *)

Blocked(a) ==
    \/ pc[a] = "global" /\ ~Free(globalLock, a, GlobalMode(a))
    \/ pc[a] = "project" /\ ~Free(projectLock, a, ProjectMode(a))

\* Whenever someone works, someone can go on: publication, cleanup and
\* queries never wait on each other in a circle.
NoCircularWait ==
    (\E a \in Actors : pc[a] # "idle")
        => \E a \in Actors : pc[a] # "idle" /\ ~Blocked(a)

\* An admitted session reads vectors attested for the very publication its
\* transaction has pinned, until it is dropped, whatever is refreshed,
\* published or pruned meanwhile.
PinnedIntact ==
    \A a \in Readers :
        pc[a] \in {"pinned", "dropping"} =>
            /\ gen[a].core = snapshot[a]
            /\ parts[gen[a]]["vectors"] = snapshot[a]
            /\ parts[gen[a]]["evidence"] = snapshot[a]

\* Every manifest that is committed names a complete generation whose vectors
\* are attested for the core publication in the same store, although the
\* validation and the commit are separate and the store may change in between.
CommitMatchesCore ==
    [][\A s \in Storages : \A a \in Actors :
        pc[a] = "fence" /\ pc'[a] = "marker" /\ at[a] = s =>
            /\ row'[s].active.core = core'[s]
            /\ parts'[row'[s].active]["vectors"] = core'[s]
            /\ parts'[row'[s].active]["evidence"] = core'[s]
            /\ \A part \in PartNames : Holds(row[s].active, part)']_vars

\* A generation that a store in the cache root publishes for its present core,
\* or could roll back to, has all its parts: cleanup by another clone of the
\* scope and a crash before the marker take none away.  A row that a refresh
\* put back names an older core and is not covered.
RetentionSafe ==
    \A s \in CacheRoot : \A g \in {row[s].active, row[s].rollback} :
        g \in Generations /\ g.core = core[s] =>
            \A part \in PartNames : Holds(g, part)

\* The comment on PinnedQuerySession, "One coherent retrieval read, from core
\* SQLite evidence through sidecar execution and candidate resolution": the
\* graph artifacts of an admitted session come from the publication it pinned.
SessionCoherent ==
    \A a \in Readers :
        pc[a] = "pinned" => parts[gen[a]]["scip"] = snapshot[a]

=============================================================================
