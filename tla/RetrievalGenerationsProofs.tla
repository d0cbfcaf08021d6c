--------------------- MODULE RetrievalGenerationsProofs ---------------------
(***************************************************************************)
(* RetrievalGenerations keeps its types, its locks, the sessions it has    *)
(* admitted and the generations its stores publish, for any number of      *)
(* stores, clones, builders, cleaners and readers.                         *)
(*                                                                         *)
(* The argument: whoever writes a part holds the project lock alone        *)
(* (Locking), so what a builder or a session has established about the     *)
(* parts stays true until it lets go of the lock; and the core             *)
(* publications, which no lock protects, have identities that are never    *)
(* used again (Identities), so a builder that finds its own core in the    *)
(* store at the fence knows that it has never changed since.               *)
(***************************************************************************)
EXTENDS RetrievalGenerations, TLAPS

LEMMA EmptyTypes ==
    /\ NoGeneration \in MaybeGenerations
    /\ NoGeneration.core = 0
    /\ NoGeneration \notin Generations
    /\ NoRow \in Rows /\ NoRow.active = NoGeneration /\ NoRow.rollback = NoGeneration
    /\ NoClone \in Clones /\ NoClone.row = NoRow /\ ~NoClone.held
    /\ NoParts \in Parts
    /\ NoGeneration \in [core : 0..MaxCore, source : Sources]
    /\ Generations \subseteq [core : 0..MaxCore, source : Sources]
<1>1. (CHOOSE s \in Sources : TRUE) \in Sources
    BY ScopeAssumption
<1>2. NoGeneration \in [core : 0..MaxCore, source : Sources]
    BY <1>1, ScopeAssumption DEF NoGeneration
<1>3. NoGeneration.core = 0 /\ NoGeneration \notin Generations
    BY DEF NoGeneration, Generations, Cores
<1>4. NoParts \in Parts
    BY ScopeAssumption DEF NoParts, Parts
<1>5. Generations \subseteq [core : 0..MaxCore, source : Sources]
    BY ScopeAssumption DEF Generations, Cores
<1> HIDE DEF NoGeneration
<1>6. NoRow \in Rows /\ NoRow.active = NoGeneration /\ NoRow.rollback = NoGeneration
    BY DEF NoRow, Rows, MaybeGenerations
<1> HIDE DEF NoRow
<1>7. NoClone \in Clones /\ NoClone.row = NoRow /\ ~NoClone.held
    BY <1>6 DEF NoClone, Clones
<1> QED
    BY <1>2, <1>3, <1>4, <1>5, <1>6, <1>7 DEF MaybeGenerations

\* A generation other than none is one.
LEMMA Chosen ==
    ASSUME NEW g \in MaybeGenerations, g # NoGeneration
    PROVE  g \in Generations /\ g.core \in 1..MaxCore
BY DEF MaybeGenerations, Generations, Cores

-----------------------------------------------------------------------------
(* Types.                                                                  *)

LEMMA TypesInit == Init => TypeOK
<1> SUFFICES ASSUME Init PROVE TypeOK
    OBVIOUS
<1> QED
    BY EmptyTypes, ScopeAssumption DEF Init, TypeOK, Locations, Building

\* What a builder's or a session's step does to its own locals.
LEMMA ReturnTypes ==
    ASSUME TypeOK, NEW a \in Actors, Return(a), UNCHANGED <<marker, parts>>
    PROVE  TypeOK'
BY EmptyTypes DEF Return, TypeOK, storeVars, Locations, Building

LEMMA TypesStep == TypeOK /\ [Next]_vars => TypeOK'
<1> SUFFICES ASSUME TypeOK, [Next]_vars PROVE TypeOK'
    OBVIOUS
<1> USE EmptyTypes, ScopeAssumption
<1> USE DEF Goto, Publish, storeVars, lockVars, localVars, TypeOK, Building
<1>1. CASE StoreStep
    <2>1. ASSUME NEW w \in Workspaces, EditSource(w) PROVE TypeOK'
        BY <2>1 DEF EditSource
    <2>2. ASSUME NEW s \in Storages, FullRefresh(s) PROVE TypeOK'
        BY <2>2 DEF FullRefresh
    <2>3. ASSUME NEW s \in Storages, CloneLive(s) PROVE TypeOK'
        BY <2>3 DEF CloneLive, Clones
    <2>4. ASSUME NEW s \in Storages, PromoteClone(s) PROVE TypeOK'
        <3>1. staged[s].row \in Rows
            BY DEF Clones
        <3> QED
            BY <2>4, <3>1 DEF PromoteClone
    <2>5. ASSUME NEW s \in Storages, DiscardClone(s) PROVE TypeOK'
        BY <2>5 DEF DiscardClone
    <2>6. ASSUME NEW s \in Storages, NEW t \in Storages, Rehydrate(s, t) PROVE TypeOK'
        BY <2>6 DEF Rehydrate
    <2> QED
        BY <1>1, <2>1, <2>2, <2>3, <2>4, <2>5, <2>6 DEF StoreStep
<1>2. ASSUME NEW a \in Actors, LockStep(a) PROVE TypeOK'
    <2>1. CASE Start(a)
        BY <2>1 DEF Start, Locations
    <2>2. CASE AcquireGlobal(a)
        BY <2>2 DEF AcquireGlobal, GlobalMode, Locations
    <2>3. CASE AcquireProject(a)
        BY <2>3 DEF AcquireProject, ProjectMode, FirstStep, Locations
    <2>4. CASE Abort(a)
        BY <2>4, ReturnTypes DEF Abort
    <2> QED
        BY <1>2, <2>1, <2>2, <2>3, <2>4 DEF LockStep
<1>3. ASSUME NEW a \in Actors, BuildStep(a) PROVE TypeOK'
    <2> USE DEF Locations
    <2>0. at[a] \in Storages /\ Workspace[at[a]] \in Workspaces
        OBVIOUS
    <2>1. CASE ReadSource(a)
        BY <2>1, <2>0, ZenonT(60) DEF ReadSource
    <2>2. CASE ReadInput(a)
        <3>1. core[at[a]] \in Cores
            BY <2>2, <2>0 DEF ReadInput, Cores
        <3>2. gen'[a] \in Generations
            BY <2>2, <3>1 DEF ReadInput, Generations
        <3> QED
            BY <2>2, <3>1, <3>2, <2>0 DEF ReadInput, Cores
    <2>3. CASE ReadPrevious(a)
        BY <2>3, <2>0 DEF ReadPrevious
    <2>4. CASE EnsureLexical(a)
        BY <2>4, <2>0 DEF EnsureLexical, Parts
    <2>5. CASE EnsureVectors(a)
        <3>1. CASE EvidenceValid(gen[a], core[at[a]])
            BY <2>5, <3>1, ZenonT(60) DEF EnsureVectors
        <3>2. CASE ~EvidenceValid(gen[a], core[at[a]])
            <4>1. parts' = [parts EXCEPT ![gen[a]]["vectors"] = core[at[a]],
                                         ![gen[a]]["evidence"] = 0]
                BY <2>5, <3>2 DEF EnsureVectors
            <4>2. ASSUME NEW g \in Generations PROVE parts'[g] \in Parts
                BY <4>1, <2>0, ZenonT(60) DEF Parts
            <4>3. parts' \in [Generations -> Parts]
                BY <4>1, <4>2
            <4>4. snapshot' = [snapshot EXCEPT ![a] = core[at[a]]]
                BY <2>5, <3>2 DEF EnsureVectors
            <4>5. snapshot' \in [Actors -> 0..MaxCore]
                BY <4>4, <2>0
            <4> QED
                BY <2>5, <3>2, <4>3, <4>5, ZenonT(60) DEF EnsureVectors
        <3> QED
            BY <3>1, <3>2
    <2>6. CASE PublishEvidence(a)
        BY <2>6, <2>0 DEF PublishEvidence, Parts
    <2>7. CASE EnsureScip(a)
        <3> DEFINE c == IF parts[gen[a]]["scip"] # 0 THEN parts[gen[a]]["scip"] ELSE core[at[a]]
        <3>0. gen[a] \in Generations /\ c \in 0..MaxCore
            BY <2>7, <2>0 DEF EnsureScip, Parts, PartNames
        <3>1. parts' = [parts EXCEPT ![gen[a]] = [@ EXCEPT !["scip"] = c]]
            BY <2>7 DEF EnsureScip
        <3> HIDE DEF c
        <3>2. parts' \in [Generations -> Parts]
            BY <3>0, <3>1 DEF Parts
        <3> QED
            BY <2>7, <3>2 DEF EnsureScip
    <2>8. CASE ValidateCandidate(a)
        BY <2>8 DEF ValidateCandidate
    <2>9. CASE PrepareRetention(a)
        <3>1. previous[a] \in Rows /\ row[at[a]] \in Rows
            BY <2>0
        <3>2. VerifiedPrevious(a) \in MaybeGenerations
            BY <3>1 DEF VerifiedPrevious, Rows
        <3>3. gen[a] \in MaybeGenerations
            BY <2>9 DEF PrepareRetention, MaybeGenerations
        <3> QED
            BY <2>9, <3>2, <3>3 DEF PrepareRetention, Rows
    <2>10. CASE PublishManifest(a)
        BY <2>10, <2>0 DEF PublishManifest
    <2>11. CASE WriteMarker(a)
        <3>1. CASE Return(a) /\ UNCHANGED marker
            BY <2>11, <3>1, ReturnTypes DEF WriteMarker
        <3>2. CASE /\ marker' = [marker EXCEPT ![Workspace[at[a]]] = row[at[a]]]
                   /\ Goto(a, "plan")
                   /\ UNCHANGED localVars
            BY <2>11, <3>2, <2>0 DEF WriteMarker
        <3> QED
            BY <2>11, <3>1, <3>2 DEF WriteMarker
    <2> QED
        BY <1>3, <2>1, <2>2, <2>3, <2>4, <2>5, <2>6, <2>7, <2>8, <2>9, <2>10, <2>11
        DEF BuildStep
<1>4. ASSUME NEW a \in Actors, RetentionStep(a) PROVE TypeOK'
    <2> USE DEF Locations
    <2>1. CASE PlanRetention(a)
        <3>1. CASE Return(a)
            BY <2>1, <3>1, ReturnTypes DEF PlanRetention
        <3>2. CASE /\ doomed' = [doomed EXCEPT ![a] =
                        {d \in Generations \X PartNames :
                            /\ d[1] \notin Protected(at[a])
                            /\ \E p \in PartNames : Holds(d[1], p)}]
                   /\ Goto(a, "remove")
                   /\ UNCHANGED <<snapshot, gen, previous, attempt>>
            BY <2>1, <3>2 DEF PlanRetention
        <3> QED
            BY <2>1, <3>1, <3>2 DEF PlanRetention
    <2>2. CASE RemoveParts(a)
        <3>1. PICK d \in doomed[a] :
                  /\ doomed' = [doomed EXCEPT ![a] = @ \ {d}]
                  /\ \/ parts' = [parts EXCEPT ![d[1]] = Without(d[2], @)]
                     \/ UNCHANGED parts
            BY <2>2 DEF RemoveParts
        <3>2. d[1] \in Generations
            BY <3>1
        <3>3. Without(d[2], parts[d[1]]) \in Parts
            BY <3>2 DEF Without, Parts
        <3>4. parts' \in [Generations -> Parts]
            BY <3>1, <3>2, <3>3
        <3> QED
            BY <2>2, <3>1, <3>4 DEF RemoveParts
    <2>3. CASE FinishRetention(a)
        BY <2>3, ReturnTypes DEF FinishRetention
    <2> QED
        BY <1>4, <2>1, <2>2, <2>3 DEF RetentionStep
<1>5. ASSUME NEW a \in Actors, QueryStep(a) PROVE TypeOK'
    <2> USE DEF Locations
    <2>1. CASE PinStore(a)
        BY <2>1 DEF PinStore, Rows, MaybeGenerations
    <2>2. CASE Admit(a)
        BY <2>2 DEF Admit
    <2>3. CASE Revalidate(a)
        <3>1. CASE Return(a)
            BY <2>3, <3>1, ReturnTypes DEF Revalidate
        <3>2. CASE ~Return(a)
            BY <2>3, <3>2, SMTT(60) DEF Revalidate
        <3> QED
            BY <3>1, <3>2
    <2>4. CASE Retry(a)
        BY <2>4 DEF Retry
    <2> QED
        BY <1>5, <2>1, <2>2, <2>3, <2>4 DEF QueryStep
<1>6. CASE UNCHANGED vars
    BY <1>6 DEF vars
<1> QED
    BY <1>1, <1>2, <1>3, <1>4, <1>5, <1>6 DEF Next

\* The publication, retention and query protocol keeps its types.
THEOREM TypeCorrect == Spec => []TypeOK
<1>1. Init => TypeOK
    BY TypesInit
<1>2. TypeOK /\ [Next]_vars => TypeOK'
    BY TypesStep
<1> QED
    BY <1>1, <1>2, PTL DEF Spec

-----------------------------------------------------------------------------
(* Locks.                                                                  *)

HoldsGlobal(a) == pc[a] \notin {"idle", "global"}
HoldsProject(a) == pc[a] \notin {"idle", "global", "project"}

\* Each process holds the locks its place says it holds, in its own mode.
Held ==
    \A a \in Actors :
        /\ globalLock[a] = IF HoldsGlobal(a) THEN GlobalMode(a) ELSE "none"
        /\ projectLock[a] = IF HoldsProject(a) THEN ProjectMode(a) ELSE "none"

\* Who is where in its operation.
Roles ==
    \A a \in Actors :
        /\ pc[a] \in Building \cup {"source", "input", "marker"} => a \in Builders
        /\ pc[a] \in {"plan", "remove"} => a \in Builders \cup Cleaners
        /\ pc[a] \in {"pin", "ready", "pinned", "dropping"} => a \in Readers

\* Who holds the project lock exclusively holds it alone.
Alone ==
    \A a, b \in Actors : a # b /\ projectLock[a] = "exclusive" => projectLock[b] = "none"

Locking == Held /\ Roles /\ Alone

LEMMA LockingInit == Init => Locking
BY DEF Init, Locking, Held, Roles, Alone, HoldsGlobal, HoldsProject, Building

\* Steps that leave the locks alone and move a process on under its lock.
LEMMA LockingKept ==
    ASSUME TypeOK, Locking, UNCHANGED lockVars, NEW a \in Actors,
           NEW l \in Locations, HoldsProject(a), l \notin {"idle", "global", "project"},
           pc' = [pc EXCEPT ![a] = l],
           l \in Building \cup {"source", "input", "marker"} => a \in Builders,
           l \in {"plan", "remove"} => a \in Builders \cup Cleaners,
           l \in {"pin", "ready", "pinned", "dropping"} => a \in Readers
    PROVE  Locking'
<1> USE DEF HoldsGlobal, HoldsProject, lockVars, TypeOK
<1>1. Held'
    BY DEF Locking, Held, GlobalMode, ProjectMode
<1>2. Roles'
    BY DEF Locking, Roles
<1>3. Alone'
    BY DEF Locking, Alone
<1> QED
    BY <1>1, <1>2, <1>3 DEF Locking

LEMMA LockingReturn ==
    ASSUME TypeOK, Locking, NEW a \in Actors, NEW l \in {"idle", "global"},
           pc' = [pc EXCEPT ![a] = l],
           globalLock' = [globalLock EXCEPT ![a] = "none"],
           projectLock' = [projectLock EXCEPT ![a] = "none"]
    PROVE  Locking'
<1> USE DEF HoldsGlobal, HoldsProject, TypeOK
<1>1. Held'
    BY DEF Locking, Held, GlobalMode, ProjectMode
<1>2. Roles'
    BY DEF Locking, Roles, Building
<1>3. Alone'
    BY DEF Locking, Alone
<1> QED
    BY <1>1, <1>2, <1>3 DEF Locking

LEMMA LockingStep == TypeOK /\ Locking /\ [Next]_vars => Locking'
<1> SUFFICES ASSUME TypeOK, Locking, [Next]_vars PROVE Locking'
    OBVIOUS
<1> USE ScopeAssumption
<1>1. CASE UNCHANGED <<lockVars, pc>>
    BY <1>1 DEF lockVars, Locking, Held, Roles, Alone, HoldsGlobal, HoldsProject,
                GlobalMode, ProjectMode
<1>2. CASE StoreStep
    BY <1>2, <1>1 DEF StoreStep, EditSource, FullRefresh, PromoteClone, Publish,
                      CloneLive, DiscardClone, Rehydrate
<1>3. ASSUME NEW a \in Actors, LockStep(a) PROVE Locking'
    <2> USE DEF HoldsGlobal, HoldsProject, TypeOK, lockVars
    <2>1. CASE Start(a)
        <3>1. Held'
            BY <2>1 DEF Start, Locking, Held, GlobalMode, ProjectMode
        <3>2. Roles'
            BY <2>1 DEF Start, Locking, Roles, Building
        <3>3. Alone'
            BY <2>1 DEF Start, Locking, Alone
        <3> QED
            BY <3>1, <3>2, <3>3 DEF Locking
    <2>2. CASE AcquireGlobal(a)
        <3>1. Held'
            BY <2>2 DEF AcquireGlobal, Locking, Held, GlobalMode, ProjectMode
        <3>2. Roles'
            BY <2>2 DEF AcquireGlobal, Locking, Roles, Building
        <3>3. Alone'
            BY <2>2 DEF AcquireGlobal, Locking, Alone
        <3> QED
            BY <3>1, <3>2, <3>3 DEF Locking
    <2>3. CASE AcquireProject(a)
        <3>1. Held'
            BY <2>3 DEF AcquireProject, FirstStep, Locking, Held, GlobalMode, ProjectMode
        <3>2. Roles'
            BY <2>3 DEF AcquireProject, FirstStep, Locking, Roles, Building, Actors
        <3>3. Alone'
            BY <2>3 DEF AcquireProject, Free, ProjectMode, Locking, Alone
        <3> QED
            BY <3>1, <3>2, <3>3 DEF Locking
    <2>4. CASE Abort(a)
        BY <2>4, LockingReturn DEF Abort, Return
    <2> QED
        BY <1>3, <2>1, <2>2, <2>3, <2>4 DEF LockStep
<1>4. ASSUME NEW a \in Actors, BuildStep(a) PROVE Locking'
    <2>1. pc[a] \in Building \cup {"source", "input", "marker"}
        BY <1>4 DEF BuildStep, ReadSource, ReadInput, ReadPrevious, EnsureLexical,
            EnsureVectors, PublishEvidence, EnsureScip, ValidateCandidate,
            PrepareRetention, PublishManifest, WriteMarker, Building
    <2>2. a \in Builders /\ HoldsProject(a)
        BY <2>1 DEF Locking, Roles, HoldsProject, Building
    <2>3. CASE Return(a)
        BY <2>3, LockingReturn DEF Return
    <2>4. CASE ~Return(a)
        <3>1. PICK l \in Building \cup {"input", "marker", "plan"} :
                  pc' = [pc EXCEPT ![a] = l] /\ UNCHANGED lockVars
            BY <1>4, <2>4 DEF BuildStep, ReadSource, ReadInput, ReadPrevious,
                EnsureLexical, EnsureVectors, PublishEvidence, EnsureScip,
                ValidateCandidate, PrepareRetention, PublishManifest, WriteMarker,
                Building, Goto
        <3> QED
            BY <2>2, <3>1, LockingKept DEF Building, Locations
    <2> QED
        BY <2>3, <2>4
<1>5. ASSUME NEW a \in Actors, RetentionStep(a) PROVE Locking'
    <2>1. pc[a] \in {"plan", "remove"}
        BY <1>5 DEF RetentionStep, PlanRetention, RemoveParts, FinishRetention
    <2>2. a \in Builders \cup Cleaners /\ HoldsProject(a)
        BY <2>1 DEF Locking, Roles, HoldsProject
    <2>3. CASE Return(a)
        BY <2>3, LockingReturn DEF Return
    <2>4. CASE ~Return(a)
        <3>1. pc' = [pc EXCEPT ![a] = "remove"] /\ UNCHANGED lockVars
            BY <1>5, <2>4 DEF RetentionStep, PlanRetention, RemoveParts,
                FinishRetention, Goto
        <3> QED
            BY <2>2, <3>1, LockingKept DEF Building, Locations
    <2> QED
        BY <2>3, <2>4
<1>6. ASSUME NEW a \in Actors, QueryStep(a) PROVE Locking'
    <2>1. pc[a] \in {"pin", "ready", "pinned", "dropping"}
        BY <1>6 DEF QueryStep, PinStore, Admit, Revalidate, Retry
    <2>2. a \in Readers /\ HoldsProject(a)
        BY <2>1 DEF Locking, Roles, HoldsProject
    <2>3. CASE Return(a)
        BY <2>3, LockingReturn DEF Return
    <2>4. CASE Retry(a)
        BY <2>4, LockingReturn DEF Retry
    <2>5. CASE ~Return(a) /\ ~Retry(a)
        <3>1. PICK l \in {"ready", "pinned", "dropping"} :
                  pc' = [pc EXCEPT ![a] = l] /\ UNCHANGED lockVars
            BY <1>6, <2>5 DEF QueryStep, PinStore, Admit, Revalidate, Goto
        <3> QED
            BY <2>2, <3>1, LockingKept DEF Building, Locations
    <2> QED
        BY <2>3, <2>4, <2>5
<1>7. CASE UNCHANGED vars
    BY <1>7, <1>1 DEF vars
<1> QED
    BY <1>2, <1>3, <1>4, <1>5, <1>6, <1>7 DEF Next

\* Whoever holds the project lock can go on; if nobody does, whoever waits for
\* it can have it; if nobody does that either, the global lock is free.
LEMMA LockOrder == TypeOK /\ Locking => NoCircularWait
<1> SUFFICES ASSUME TypeOK, Locking, NEW a \in Actors, pc[a] # "idle"
             PROVE  \E b \in Actors : pc[b] # "idle" /\ ~Blocked(b)
    BY DEF NoCircularWait
<1> USE DEF Blocked, HoldsGlobal, HoldsProject
<1>1. CASE \E b \in Actors : HoldsProject(b)
    BY <1>1
<1>2. CASE /\ \A b \in Actors : ~HoldsProject(b)
           /\ \E b \in Actors : pc[b] = "project"
    BY <1>2 DEF Free, Locking, Held
<1>3. CASE \A b \in Actors : ~HoldsGlobal(b)
    BY <1>3 DEF Free, Locking, Held
<1> QED
    BY <1>1, <1>2, <1>3

\* Publication, cleanup and queries never wait for each other in a circle,
\* whatever their number, because each takes the global lock before the
\* project lock and holds neither when it starts.
THEOREM NeverCircular == Spec => []NoCircularWait
<1>1. Init => TypeOK /\ Locking
    BY TypesInit, LockingInit
<1>2. TypeOK /\ Locking /\ [Next]_vars => (TypeOK /\ Locking)'
    BY TypesStep, LockingStep
<1>3. TypeOK /\ Locking => NoCircularWait
    BY LockOrder
<1> QED
    BY <1>1, <1>2, <1>3, PTL DEF Spec

-----------------------------------------------------------------------------
(* Publications, parts and rows.                                           *)

\* Nothing names a core publication that has not been made.
Identities ==
    /\ \A s \in Storages :
        /\ core[s] <= lastCore
        /\ row[s].active.core <= lastCore /\ row[s].rollback.core <= lastCore
        /\ staged[s].row.active.core <= lastCore
        /\ staged[s].row.rollback.core <= lastCore
    /\ \A a \in Actors :
        /\ gen[a].core <= lastCore
        /\ previous[a].active.core <= lastCore /\ previous[a].rollback.core <= lastCore

\* Evidence that is there attests the vectors that are there.
Attested ==
    \A g \in Generations :
        parts[g]["evidence"] # 0 => parts[g]["vectors"] = parts[g]["evidence"]

Complete(g) == \A part \in PartNames : Holds(g, part)

\* What retention owes a store in the cache root.
Kept(g, s) ==
    s \in CacheRoot /\ g \in Generations /\ g.core = core[s] => Complete(g)

\* What a builder knows on its way to the fence.
BuilderKnows(a) ==
    /\ pc[a] \in Building => core[at[a]] # 0
    /\ pc[a] = "evidence" =>
        snapshot[a] # 0 /\ snapshot[a] = parts[gen[a]]["vectors"]
    /\ pc[a] \in Building \ {"previous", "fence"} => Kept(previous[a].active, at[a])
    /\ pc[a] \in {"rollback", "fence"} /\ gen[a].core = core[at[a]] =>
        Complete(gen[a]) /\ parts[gen[a]]["evidence"] = core[at[a]]
    /\ pc[a] = "fence" =>
        previous[a].active = gen[a] /\ Kept(previous[a].rollback, at[a])

\* A plan dooms no generation that a store in the cache root publishes.
PlanSpares(a) ==
    pc[a] = "remove" =>
        \A d \in doomed[a] : \A s \in CacheRoot :
            d[1] \in {row[s].active, row[s].rollback} => d[1].core # core[s]

\* What a session has pinned.
SessionKnows(a) ==
    /\ pc[a] \in {"ready", "pinned", "dropping"} => gen[a] \in Generations
    /\ pc[a] \in {"pinned", "dropping"} =>
        /\ gen[a].core = snapshot[a]
        /\ parts[gen[a]]["vectors"] = snapshot[a]
        /\ parts[gen[a]]["evidence"] = snapshot[a]

RowsKept == \A s \in Storages : Kept(row[s].active, s) /\ Kept(row[s].rollback, s)

Data ==
    /\ Identities /\ Attested /\ RowsKept
    /\ \A a \in Actors : BuilderKnows(a) /\ PlanSpares(a) /\ SessionKnows(a)

LEMMA DataInit == Init => Data
<1> SUFFICES ASSUME Init PROVE Data
    OBVIOUS
<1> USE EmptyTypes DEF Init
<1>1. Identities
    BY ScopeAssumption DEF Identities
<1>2. Attested
    BY DEF Attested, NoParts, PartNames
<1>3. RowsKept
    BY DEF RowsKept, Kept
<1>4. \A a \in Actors : BuilderKnows(a) /\ PlanSpares(a) /\ SessionKnows(a)
    BY DEF BuilderKnows, PlanSpares, SessionKnows, Building
<1> QED
    BY <1>1, <1>2, <1>3, <1>4 DEF Data

\* A process that is not yet inside has nothing to know.
LEMMA OutsideKnows ==
    ASSUME NEW b \in Actors, ~HoldsProject(b)
    PROVE  BuilderKnows(b) /\ PlanSpares(b) /\ SessionKnows(b)
BY DEF HoldsProject, BuilderKnows, PlanSpares, SessionKnows, Building

\* The locals of the other processes stay as they are.
OnlyMoves(a) ==
    \A b \in Actors \ {a} :
        /\ pc'[b] = pc[b]
        /\ snapshot'[b] = snapshot[b] /\ gen'[b] = gen[b]
        /\ previous'[b] = previous[b] /\ doomed'[b] = doomed[b]

\* A step of one process that writes neither stores nor parts.
LEMMA OwnStep ==
    ASSUME Data, UNCHANGED <<core, lastCore, row, staged, parts>>,
           NEW a \in Actors, OnlyMoves(a),
           (BuilderKnows(a) /\ PlanSpares(a) /\ SessionKnows(a))',
           /\ gen'[a].core <= lastCore
           /\ previous'[a].active.core <= lastCore
           /\ previous'[a].rollback.core <= lastCore
    PROVE  Data'
<1>1. Identities'
    BY DEF Data, Identities, OnlyMoves
<1>2. Attested'
    BY DEF Data, Attested
<1>3. RowsKept'
    BY DEF Data, RowsKept, Kept, Complete, Holds
<1>4. ASSUME NEW b \in Actors \ {a}
      PROVE  (BuilderKnows(b) /\ PlanSpares(b) /\ SessionKnows(b))'
    <2>1. BuilderKnows(b) /\ PlanSpares(b) /\ SessionKnows(b)
        BY DEF Data
    <2>2. BuilderKnows(b)'
        BY <2>1 DEF BuilderKnows, OnlyMoves, Kept, Complete, Holds
    <2>3. PlanSpares(b)'
        BY <2>1 DEF PlanSpares, OnlyMoves
    <2>4. SessionKnows(b)'
        BY <2>1 DEF SessionKnows, OnlyMoves
    <2> QED
        BY <2>2, <2>3, <2>4
<1> QED
    BY <1>1, <1>2, <1>3, <1>4 DEF Data

\* A step of a process that holds the project lock alone.
LEMMA AloneStep ==
    ASSUME TypeOK, Locking, Data, NEW a \in Builders \cup Cleaners, HoldsProject(a),
           OnlyMoves(a), Identities', Attested', RowsKept',
           (BuilderKnows(a) /\ PlanSpares(a) /\ SessionKnows(a))'
    PROVE  Data'
<1>1. ASSUME NEW b \in Actors \ {a}
      PROVE  (BuilderKnows(b) /\ PlanSpares(b) /\ SessionKnows(b))'
    <2>0. a \in Actors
        BY DEF Actors
    <2>1. projectLock[a] = "exclusive"
        BY <2>0, ScopeAssumption DEF Locking, Held, ProjectMode
    <2>2. projectLock[b] = "none"
        BY <2>0, <2>1 DEF Locking, Alone
    <2>3. ~HoldsProject(b)
        BY <2>2 DEF Locking, Held, ProjectMode
    <2>4. (~HoldsProject(b))'
        BY <2>3 DEF HoldsProject, OnlyMoves
    <2> QED
        BY <2>4 DEF HoldsProject, BuilderKnows, PlanSpares, SessionKnows, Building
<1> QED
    BY <1>1 DEF Data

\* Nobody's knowledge is about a core publication that is still to come.
LEMMA PublishData ==
    ASSUME TypeOK, Data, NEW s \in Storages, NEW r \in Rows, Publish(s, r),
           r.active.core <= lastCore, r.rollback.core <= lastCore
    PROVE  Data'
<1> USE EmptyTypes, ScopeAssumption DEF Publish, lockVars, localVars
<1>0. core' = [core EXCEPT ![s] = lastCore + 1] /\ lastCore' = lastCore + 1
    OBVIOUS
<1>1. Identities'
    <2>1. ASSUME NEW t \in Storages
          PROVE  /\ core'[t] <= lastCore'
                 /\ row'[t].active.core <= lastCore' /\ row'[t].rollback.core <= lastCore'
                 /\ staged'[t].row.active.core <= lastCore'
                 /\ staged'[t].row.rollback.core <= lastCore'
        <3>1. /\ row[t] \in Rows /\ staged[t].row \in Rows
              /\ core[t] \in Nat /\ lastCore \in Nat
            BY DEF TypeOK, Clones
        <3>2. \A g \in MaybeGenerations : g.core \in Nat
            BY DEF MaybeGenerations, Generations, Cores
        <3> QED
            BY <3>1, <3>2 DEF Data, Identities, TypeOK, Rows
    <2>2. ASSUME NEW a \in Actors
          PROVE  /\ gen'[a].core <= lastCore'
                 /\ previous'[a].active.core <= lastCore'
                 /\ previous'[a].rollback.core <= lastCore'
        <3>1. previous[a] \in Rows /\ gen[a].core \in Nat /\ lastCore \in Nat
            BY DEF TypeOK
        <3>2. \A g \in MaybeGenerations : g.core \in Nat
            BY DEF MaybeGenerations, Generations, Cores
        <3> QED
            BY <3>1, <3>2 DEF Data, Identities, Rows
    <2> QED
        BY <2>1, <2>2 DEF Identities
<1>2. Attested'
    BY DEF Data, Attested
<1>3. ASSUME NEW g, NEW t \in Storages, Kept(g, t), g.core \in Nat, g.core <= lastCore
      PROVE  Kept(g, t)'
    BY <1>0, <1>3 DEF Kept, Complete, Holds, TypeOK
<1>4. \A g \in MaybeGenerations : g.core \in Nat
    BY DEF MaybeGenerations, Generations, Cores
<1>5. RowsKept'
    <2> SUFFICES ASSUME NEW t \in Storages
                 PROVE  (Kept(row[t].active, t) /\ Kept(row[t].rollback, t))'
        BY DEF RowsKept
    <2>1. CASE t = s
        <3>1. row'[t] = r /\ core'[t] = lastCore + 1
            BY <2>1 DEF TypeOK
        <3>2. r.active.core # lastCore + 1 /\ r.rollback.core # lastCore + 1
            BY <1>4 DEF Rows, TypeOK
        <3> QED
            BY <3>1, <3>2 DEF Kept
    <2>2. CASE t # s
        <3>1. row'[t] = row[t] /\ row[t] \in Rows
            BY <2>2 DEF TypeOK
        <3>2. Kept(row[t].active, t) /\ Kept(row[t].rollback, t)
            BY DEF Data, RowsKept
        <3> QED
            BY <3>1, <3>2, <2>2, <1>0 DEF Kept, Complete, Holds, TypeOK
    <2> QED
        BY <2>1, <2>2
<1>6. ASSUME NEW a \in Actors PROVE (BuilderKnows(a) /\ PlanSpares(a) /\ SessionKnows(a))'
    <2>0. BuilderKnows(a) /\ PlanSpares(a) /\ SessionKnows(a)
        BY DEF Data
    <2>1. /\ at[a] \in Storages /\ gen[a].core \in Nat /\ gen[a].core <= lastCore
          /\ previous[a].active.core \in Nat /\ previous[a].active.core <= lastCore
          /\ previous[a].rollback.core \in Nat /\ previous[a].rollback.core <= lastCore
        BY <1>4 DEF TypeOK, Rows, Data, Identities
    <2>2. core[at[a]] # 0 => core'[at[a]] # 0
        BY <1>0, <2>1 DEF TypeOK
    <2>3. gen[a].core = core'[at[a]] => gen[a].core = core[at[a]]
        BY <1>0, <2>1 DEF TypeOK
    <2>4. Kept(previous[a].active, at[a]) => Kept(previous[a].active, at[a])'
        BY <1>3, <2>1
    <2>5. Kept(previous[a].rollback, at[a]) => Kept(previous[a].rollback, at[a])'
        BY <1>3, <2>1
    <2>6. BuilderKnows(a)'
        BY <2>0, <2>2, <2>3, <2>4, <2>5 DEF BuilderKnows, Complete, Holds
    <2>7. PlanSpares(a)'
        <3> SUFFICES ASSUME pc[a] = "remove", NEW d \in doomed[a], NEW t \in CacheRoot,
                            d[1] \in {row'[t].active, row'[t].rollback}
                     PROVE  d[1].core # core'[t]
            BY DEF PlanSpares
        <3>0. t \in Storages
            OBVIOUS
        <3>1. CASE t = s
            BY <3>0, <3>1, <1>0, <1>4 DEF TypeOK, Rows
        <3>2. CASE t # s
            BY <3>0, <3>2, <2>0 DEF TypeOK, PlanSpares
        <3> QED
            BY <3>1, <3>2
    <2>8. SessionKnows(a)'
        BY <2>0 DEF SessionKnows
    <2> QED
        BY <2>6, <2>7, <2>8
<1> QED
    BY <1>1, <1>2, <1>5, <1>6 DEF Data

LEMMA ReturnData ==
    ASSUME TypeOK, Data, NEW a \in Actors, Return(a), UNCHANGED parts
    PROVE  Data'
<1> USE EmptyTypes DEF Return, storeVars, TypeOK
<1>1. OnlyMoves(a)
    BY DEF OnlyMoves
<1>2. (BuilderKnows(a) /\ PlanSpares(a) /\ SessionKnows(a))'
    BY DEF BuilderKnows, PlanSpares, SessionKnows, Building
<1>3. /\ gen'[a].core <= lastCore
      /\ previous'[a].active.core <= lastCore /\ previous'[a].rollback.core <= lastCore
    BY ScopeAssumption
<1> QED
    BY <1>1, <1>2, <1>3, OwnStep

LEMMA StoreData ==
    ASSUME TypeOK, Data, StoreStep
    PROVE  Data'
<1> USE EmptyTypes, ScopeAssumption DEF lockVars, localVars
<1>1. ASSUME NEW w \in Workspaces, EditSource(w) PROVE Data'
    BY <1>1 DEF EditSource, Data, Identities, Attested, RowsKept, Kept, Complete, Holds,
                BuilderKnows, PlanSpares, SessionKnows
<1>2. ASSUME NEW s \in Storages, FullRefresh(s) PROVE Data'
    BY <1>2, PublishData DEF FullRefresh, TypeOK
<1>3. ASSUME NEW s \in Storages, CloneLive(s) PROVE Data'
    <2>1. Identities'
        BY <1>3 DEF CloneLive, Data, Identities, TypeOK
    <2> QED
        BY <1>3, <2>1 DEF CloneLive, Data, Attested, RowsKept, Kept, Complete, Holds,
                          BuilderKnows, PlanSpares, SessionKnows
<1>4. ASSUME NEW s \in Storages, PromoteClone(s) PROVE Data'
    <2>1. /\ staged[s].row \in Rows
          /\ staged[s].row.active.core <= lastCore
          /\ staged[s].row.rollback.core <= lastCore
        BY DEF TypeOK, Clones, Data, Identities
    <2> QED
        BY <1>4, <2>1, PublishData DEF PromoteClone
<1>5. ASSUME NEW s \in Storages, DiscardClone(s) PROVE Data'
    <2>1. Identities'
        BY <1>5 DEF DiscardClone, Data, Identities, TypeOK
    <2> QED
        BY <1>5, <2>1 DEF DiscardClone, Data, Attested, RowsKept, Kept, Complete, Holds,
                          BuilderKnows, PlanSpares, SessionKnows
<1>6. ASSUME NEW s \in Storages, NEW from \in Storages, Rehydrate(s, from) PROVE Data'
    <2> USE <1>6 DEF Rehydrate
    <2>1. Identities'
        BY DEF Data, Identities, TypeOK
    <2>2. Attested'
        BY DEF Data, Attested
    <2>3. RowsKept'
        <3> SUFFICES ASSUME NEW t \in Storages
                     PROVE  (Kept(row[t].active, t) /\ Kept(row[t].rollback, t))'
            BY DEF RowsKept
        <3>1. CASE t = s
            BY <3>1 DEF TypeOK, Kept
        <3>2. CASE t # s
            BY <3>2 DEF TypeOK, Kept, Complete, Holds, Data, RowsKept
        <3> QED
            BY <3>1, <3>2
    <2>4. ASSUME NEW a \in Actors
          PROVE  (BuilderKnows(a) /\ PlanSpares(a) /\ SessionKnows(a))'
        <3>0. BuilderKnows(a) /\ PlanSpares(a) /\ SessionKnows(a) /\ at[a] \in Storages
            BY DEF Data
        <3>1. BuilderKnows(a)'
            <4>1. CASE pc[a] \in Building
                <5>1. at[a] # s
                    BY <4>1, <3>0 DEF BuilderKnows
                <5> QED
                    BY <5>1, <3>0 DEF BuilderKnows, TypeOK, Kept, Complete, Holds
            <4>2. CASE pc[a] \notin Building
                BY <4>2 DEF BuilderKnows, Building
            <4> QED
                BY <4>1, <4>2
        <3>2. PlanSpares(a)'
            <4> SUFFICES ASSUME pc[a] = "remove", NEW d \in doomed[a],
                                NEW t \in CacheRoot,
                                d[1] \in {row'[t].active, row'[t].rollback}
                         PROVE  d[1].core # core'[t]
                BY DEF PlanSpares
            <4>1. t \in Storages /\ d[1] \in Generations
                BY DEF TypeOK
            <4>2. t # s
                BY <4>1 DEF TypeOK
            <4> QED
                BY <4>1, <4>2, <3>0 DEF PlanSpares, TypeOK
        <3>3. SessionKnows(a)'
            BY <3>0 DEF SessionKnows
        <3> QED
            BY <3>1, <3>2, <3>3
    <2> QED
        BY <2>1, <2>2, <2>3, <2>4 DEF Data
<1> QED
    BY <1>1, <1>2, <1>3, <1>4, <1>5, <1>6 DEF StoreStep

LEMMA LockData ==
    ASSUME TypeOK, Data, NEW a \in Actors, LockStep(a)
    PROVE  Data'
<1>1. CASE Abort(a)
    BY <1>1, ReturnData DEF Abort
<1>2. CASE Start(a) \/ AcquireGlobal(a) \/ AcquireProject(a)
    <2> USE <1>2 DEF Start, AcquireGlobal, AcquireProject, storeVars, lockVars, localVars
    <2>1. OnlyMoves(a)
        BY DEF OnlyMoves, TypeOK
    <2>2. pc'[a] \in {"global", "project", "source", "plan", "pin"}
        BY DEF TypeOK, FirstStep
    <2>3. (BuilderKnows(a) /\ PlanSpares(a) /\ SessionKnows(a))'
        BY <2>2 DEF BuilderKnows, PlanSpares, SessionKnows, Building
    <2>4. UNCHANGED <<core, lastCore, row, staged, parts, gen, previous>>
        OBVIOUS
    <2> QED
        BY <2>1, <2>3, <2>4, OwnStep DEF Data, Identities
<1> QED
    BY <1>1, <1>2 DEF LockStep

\* What a part's replacement by another built part leaves true.
LEMMA Replaced ==
    ASSUME TypeOK, Data, NEW g \in Generations, NEW x \in PartNames \cup {"evidence"},
           NEW c \in 0..MaxCore, x # "evidence" => c # 0,
           parts' = [parts EXCEPT ![g] = [@ EXCEPT ![x] = c]],
           UNCHANGED <<core, row>>
    PROVE  /\ RowsKept'
           /\ \A h \in Generations : Complete(h) => Complete(h)'
<1>1. ASSUME NEW h \in Generations, Complete(h) PROVE Complete(h)'
    BY <1>1 DEF Complete, Holds, TypeOK, Parts, PartNames
<1>2. RowsKept'
    BY <1>1 DEF RowsKept, Kept, Data
<1> QED
    BY <1>1, <1>2

LEMMA BuildData ==
    ASSUME TypeOK, TypeOK', Locking, Data, NEW a \in Actors, BuildStep(a)
    PROVE  Data'
<1> USE EmptyTypes, ScopeAssumption DEF Goto, storeVars, lockVars, localVars
<1>1. pc[a] \in Building \cup {"source", "input", "marker"}
    BY DEF BuildStep, ReadSource, ReadInput, ReadPrevious, EnsureLexical,
        EnsureVectors, PublishEvidence, EnsureScip, ValidateCandidate,
        PrepareRetention, PublishManifest, WriteMarker, Building
<1>2. a \in Builders \cup Cleaners /\ HoldsProject(a)
    BY <1>1 DEF Locking, Roles, HoldsProject, Building
<1>3. /\ at[a] \in Storages /\ core[at[a]] \in 0..MaxCore /\ core[at[a]] <= lastCore
      /\ row[at[a]] \in Rows /\ previous[a] \in Rows
      /\ BuilderKnows(a)
      /\ Kept(row[at[a]].active, at[a]) /\ Kept(row[at[a]].rollback, at[a])
      /\ gen[a].core <= lastCore
      /\ previous[a].active.core <= lastCore /\ previous[a].rollback.core <= lastCore
      /\ row[at[a]].active.core <= lastCore /\ row[at[a]].rollback.core <= lastCore
    BY DEF TypeOK, Data, Identities, RowsKept
<1>4. pc[a] \in Building => gen[a] \in Generations /\ core[at[a]] # 0
    BY <1>3 DEF TypeOK, BuilderKnows
<1>5. CASE ReadSource(a)
    <2>1. OnlyMoves(a)
        BY <1>5 DEF ReadSource, OnlyMoves, TypeOK
    <2>2. (BuilderKnows(a) /\ PlanSpares(a) /\ SessionKnows(a))'
        BY <1>5 DEF ReadSource, TypeOK, BuilderKnows, PlanSpares, SessionKnows, Building
    <2> QED
        BY <1>5, <1>3, <2>1, <2>2, OwnStep DEF ReadSource, TypeOK
<1>6. CASE ReadInput(a)
    <2>1. OnlyMoves(a)
        BY <1>6 DEF ReadInput, OnlyMoves, TypeOK
    <2>2. (BuilderKnows(a) /\ PlanSpares(a) /\ SessionKnows(a))'
        BY <1>6 DEF ReadInput, TypeOK, BuilderKnows, PlanSpares, SessionKnows, Building
    <2> QED
        BY <1>6, <1>3, <2>1, <2>2, OwnStep DEF ReadInput, TypeOK
<1>7. CASE ReadPrevious(a)
    <2> USE <1>7 DEF ReadPrevious
    <2>1. OnlyMoves(a)
        BY DEF OnlyMoves, TypeOK
    <2>2. pc'[a] \in {"validate", "lexical"} /\ previous'[a] = row[at[a]]
        BY DEF TypeOK
    <2>3. BuilderKnows(a)'
        BY <1>3, <1>4, <2>2 DEF BuilderKnows, Kept, Complete, Holds, Building
    <2>4. (PlanSpares(a) /\ SessionKnows(a))'
        BY <2>2 DEF PlanSpares, SessionKnows
    <2> QED
        BY <1>3, <2>1, <2>2, <2>3, <2>4, OwnStep
<1>8. CASE EnsureLexical(a)
    <2> USE <1>8 DEF EnsureLexical
    <2>0. gen[a] \in Generations /\ gen[a].core \in 0..MaxCore /\ gen[a].core # 0
        BY <1>4 DEF Building, Generations, Cores
    <2>1. OnlyMoves(a)
        BY DEF OnlyMoves, TypeOK
    <2>2. /\ RowsKept'
          /\ \A h \in Generations : Complete(h) => Complete(h)'
        BY <2>0, Replaced DEF PartNames
    <2>3. Attested'
        BY <2>0 DEF Data, Attested, TypeOK, Parts, PartNames
    <2>4. Identities'
        BY DEF Data, Identities
    <2>5. pc'[a] = "semantic"
        BY DEF TypeOK
    <2>6. (BuilderKnows(a) /\ PlanSpares(a) /\ SessionKnows(a))'
        BY <1>3, <1>4, <2>2, <2>5
        DEF BuilderKnows, PlanSpares, SessionKnows, Kept, Building
    <2> QED
        BY <1>2, <2>1, <2>2, <2>3, <2>4, <2>6, AloneStep
<1>9. CASE EnsureVectors(a)
    <2> USE <1>9 DEF EnsureVectors
    <2>0. gen[a] \in Generations /\ core[at[a]] # 0
        BY <1>4 DEF Building
    <2>1. CASE EvidenceValid(gen[a], core[at[a]])
        <3>1. OnlyMoves(a)
            BY <2>1 DEF OnlyMoves, TypeOK
        <3>2. pc'[a] = "scip" /\ UNCHANGED parts
            BY <2>1 DEF TypeOK
        <3>3. (BuilderKnows(a) /\ PlanSpares(a) /\ SessionKnows(a))'
            BY <1>3, <1>4, <2>1, <3>2
            DEF BuilderKnows, PlanSpares, SessionKnows, Kept, Complete, Holds, Building
        <3> QED
            BY <1>3, <2>1, <3>1, <3>3, OwnStep
    <2>2. CASE ~EvidenceValid(gen[a], core[at[a]])
        <3>0. /\ snapshot' = [snapshot EXCEPT ![a] = core[at[a]]]
              /\ parts' = [parts EXCEPT ![gen[a]]["vectors"] = core[at[a]],
                                        ![gen[a]]["evidence"] = 0]
              /\ pc' = [pc EXCEPT ![a] = "evidence"]
              /\ UNCHANGED <<core, lastCore, row, staged, gen, previous, doomed>>
            BY <2>2
        <3>1. OnlyMoves(a)
            BY <3>0 DEF OnlyMoves, TypeOK
        <3>2. ASSUME NEW h \in Generations, Complete(h) PROVE Complete(h)'
            BY <3>0, <3>2, <2>0 DEF Complete, Holds, TypeOK, Parts, PartNames
        <3>3. RowsKept'
            BY <3>0, <3>2 DEF RowsKept, Kept, Data
        <3>4. Attested'
            BY <3>0, <2>0 DEF Data, Attested, TypeOK, Parts, PartNames
        <3>5. Identities'
            BY <3>0 DEF Data, Identities
        <3>6. pc'[a] = "evidence" /\ snapshot'[a] = core[at[a]]
            BY <3>0 DEF TypeOK
        <3>7. parts'[gen[a]]["vectors"] = core[at[a]]
            BY <3>0, <2>0 DEF TypeOK, Parts, PartNames
        <3>8. (BuilderKnows(a) /\ PlanSpares(a) /\ SessionKnows(a))'
            BY <1>3, <2>0, <3>0, <3>2, <3>6, <3>7
            DEF BuilderKnows, PlanSpares, SessionKnows, Kept, Building
        <3> QED
            BY <1>2, <3>1, <3>3, <3>4, <3>5, <3>8, AloneStep
    <2> QED
        BY <2>1, <2>2
<1>10. CASE PublishEvidence(a)
    <2> USE <1>10 DEF PublishEvidence
    <2>0. /\ gen[a] \in Generations /\ snapshot[a] \in 0..MaxCore
          /\ snapshot[a] = parts[gen[a]]["vectors"]
        BY <1>3, <1>4 DEF Building, BuilderKnows, TypeOK
    <2>1. OnlyMoves(a)
        BY DEF OnlyMoves, TypeOK
    <2>2. /\ RowsKept'
          /\ \A h \in Generations : Complete(h) => Complete(h)'
        BY <2>0, Replaced
    <2>3. Attested'
        BY <2>0 DEF Data, Attested, TypeOK, Parts, PartNames
    <2>4. Identities'
        BY DEF Data, Identities
    <2>5. pc'[a] = "scip"
        BY DEF TypeOK
    <2>6. (BuilderKnows(a) /\ PlanSpares(a) /\ SessionKnows(a))'
        BY <1>3, <1>4, <2>2, <2>5
        DEF BuilderKnows, PlanSpares, SessionKnows, Kept, Building
    <2> QED
        BY <1>2, <2>1, <2>2, <2>3, <2>4, <2>6, AloneStep
<1>11. CASE EnsureScip(a)
    <2> USE <1>11 DEF EnsureScip
    <2> DEFINE c == IF parts[gen[a]]["scip"] # 0 THEN parts[gen[a]]["scip"]
                    ELSE core[at[a]]
    <2>0. gen[a] \in Generations /\ c \in 0..MaxCore /\ c # 0
        BY <1>3, <1>4 DEF Building, TypeOK, Parts, PartNames
    <2>x. parts' = [parts EXCEPT ![gen[a]] = [@ EXCEPT !["scip"] = c]]
        OBVIOUS
    <2> HIDE DEF c
    <2>1. OnlyMoves(a)
        BY DEF OnlyMoves, TypeOK
    <2>2. /\ RowsKept'
          /\ \A h \in Generations : Complete(h) => Complete(h)'
        BY <2>0, <2>x, Replaced DEF PartNames
    <2>3. Attested'
        BY <2>0, <2>x DEF Data, Attested, TypeOK, Parts, PartNames
    <2>4. Identities'
        BY DEF Data, Identities
    <2>5. pc'[a] = "validate"
        BY DEF TypeOK
    <2>6. (BuilderKnows(a) /\ PlanSpares(a) /\ SessionKnows(a))'
        BY <1>3, <1>4, <2>2, <2>5
        DEF BuilderKnows, PlanSpares, SessionKnows, Kept, Building
    <2> QED
        BY <1>2, <2>1, <2>2, <2>3, <2>4, <2>6, AloneStep
<1>12. CASE ValidateCandidate(a)
    <2> USE <1>12 DEF ValidateCandidate
    <2>1. OnlyMoves(a)
        BY DEF OnlyMoves, TypeOK
    <2>2. pc'[a] = "rollback"
        BY DEF TypeOK
    <2>3. (BuilderKnows(a) /\ PlanSpares(a) /\ SessionKnows(a))'
        BY <1>3, <1>4, <2>2 DEF BuilderKnows, PlanSpares, SessionKnows, Kept, Complete,
            Holds, EvidenceAdmits, EvidenceValid, Building
    <2> QED
        BY <1>3, <2>1, <2>3, OwnStep
<1>13. CASE PrepareRetention(a)
    <2> USE <1>13 DEF PrepareRetention
    <2>1. OnlyMoves(a)
        BY DEF OnlyMoves, TypeOK
    <2>2. /\ pc'[a] = "fence"
          /\ previous'[a] = [active |-> gen[a], rollback |-> VerifiedPrevious(a)]
        BY DEF TypeOK
    <2>3. VerifiedPrevious(a) \in {previous[a].active, row[at[a]].rollback, NoGeneration}
        BY DEF VerifiedPrevious
    <2>4. Kept(VerifiedPrevious(a), at[a]) /\ VerifiedPrevious(a).core <= lastCore
        BY <1>3, <2>3 DEF BuilderKnows, Kept, Building, TypeOK
    <2> HIDE DEF VerifiedPrevious
    <2>5. BuilderKnows(a)'
        BY <1>3, <1>4, <2>2, <2>4 DEF BuilderKnows, Kept, Complete, Holds, Building
    <2>6. (PlanSpares(a) /\ SessionKnows(a))'
        BY <2>2 DEF PlanSpares, SessionKnows
    <2> QED
        BY <1>3, <2>1, <2>2, <2>4, <2>5, <2>6, OwnStep
<1>14. CASE PublishManifest(a)
    <2> USE <1>14 DEF PublishManifest
    <2>0. gen[a].core = core[at[a]]
        BY DEF CurrentInput
    <2>1. OnlyMoves(a)
        BY DEF OnlyMoves, TypeOK
    <2>2. Complete(gen[a]) /\ previous[a].active = gen[a] /\ Kept(previous[a].rollback, at[a])
        BY <1>3, <2>0 DEF BuilderKnows
    <2>3. RowsKept'
        <3> SUFFICES ASSUME NEW t \in Storages
                     PROVE  (Kept(row[t].active, t) /\ Kept(row[t].rollback, t))'
            BY DEF RowsKept
        <3>1. CASE t = at[a]
            BY <3>1, <2>2 DEF TypeOK, Kept, Complete, Holds
        <3>2. CASE t # at[a]
            BY <3>2 DEF TypeOK, Kept, Complete, Holds, Data, RowsKept
        <3> QED
            BY <3>1, <3>2
    <2>4. Attested'
        BY DEF Data, Attested
    <2>5. Identities'
        BY <1>3 DEF Data, Identities, TypeOK
    <2>6. (BuilderKnows(a) /\ PlanSpares(a) /\ SessionKnows(a))'
        BY DEF TypeOK, BuilderKnows, PlanSpares, SessionKnows, Building
    <2> QED
        BY <1>2, <2>1, <2>3, <2>4, <2>5, <2>6, AloneStep
<1>15. CASE WriteMarker(a)
    <2>1. CASE Return(a)
        BY <1>15, <2>1, ReturnData DEF WriteMarker
    <2>2. CASE Goto(a, "plan") /\ UNCHANGED localVars
        <3>1. OnlyMoves(a)
            BY <2>2 DEF OnlyMoves, TypeOK
        <3>2. (BuilderKnows(a) /\ PlanSpares(a) /\ SessionKnows(a))'
            BY <2>2 DEF TypeOK, BuilderKnows, PlanSpares, SessionKnows, Building
        <3> QED
            BY <1>15, <1>3, <2>2, <3>1, <3>2, OwnStep DEF WriteMarker
    <2> QED
        BY <1>15, <2>1, <2>2 DEF WriteMarker
<1> QED
    BY <1>5, <1>6, <1>7, <1>8, <1>9, <1>10, <1>11, <1>12, <1>13, <1>14, <1>15
    DEF BuildStep

LEMMA RetentionData ==
    ASSUME TypeOK, TypeOK', Locking, Data, NEW a \in Actors, RetentionStep(a)
    PROVE  Data'
<1> USE EmptyTypes, ScopeAssumption DEF Goto, storeVars, lockVars, localVars
<1>1. pc[a] \in {"plan", "remove"}
    BY DEF RetentionStep, PlanRetention, RemoveParts, FinishRetention
<1>2. a \in Builders \cup Cleaners /\ HoldsProject(a)
    BY <1>1 DEF Locking, Roles, HoldsProject
<1>3. /\ gen[a].core <= lastCore /\ PlanSpares(a)
      /\ previous[a].active.core <= lastCore /\ previous[a].rollback.core <= lastCore
    BY DEF Data, Identities
<1>4. CASE Return(a) /\ UNCHANGED parts
    BY <1>4, ReturnData
<1>5. CASE PlanRetention(a) /\ ~Return(a)
    <2>0. /\ doomed' = [doomed EXCEPT ![a] =
                {d \in Generations \X PartNames :
                    d[1] \notin Protected(at[a]) /\ \E p \in PartNames : Holds(d[1], p)}]
          /\ pc' = [pc EXCEPT ![a] = "remove"]
          /\ UNCHANGED <<core, lastCore, row, staged, parts, snapshot, gen, previous>>
        BY <1>5 DEF PlanRetention
    <2>1. OnlyMoves(a)
        BY <2>0 DEF OnlyMoves, TypeOK
    <2>2. PlanSpares(a)'
        <3> SUFFICES ASSUME NEW d \in doomed'[a], NEW s \in CacheRoot
                     PROVE  d[1] \notin {row[s].active, row[s].rollback}
            BY <2>0 DEF PlanSpares
        <3>1. d[1] \notin Protected(at[a])
            BY <2>0 DEF TypeOK
        <3>2. row[s] \in ProtectedRows(at[a])
            BY DEF ProtectedRows
        <3> QED
            BY <3>1, <3>2 DEF Protected
    <2>3. (BuilderKnows(a) /\ SessionKnows(a))'
        BY <2>0 DEF TypeOK, BuilderKnows, SessionKnows, Building
    <2> QED
        BY <1>3, <2>0, <2>1, <2>2, <2>3, OwnStep
<1>6. CASE RemoveParts(a)
    <2>0. PICK d \in doomed[a] :
              /\ doomed' = [doomed EXCEPT ![a] = @ \ {d}]
              /\ \/ parts' = [parts EXCEPT ![d[1]] = Without(d[2], @)]
                 \/ UNCHANGED parts
        BY <1>6 DEF RemoveParts
    <2>1. /\ pc[a] = "remove" /\ pc' = [pc EXCEPT ![a] = "remove"]
          /\ UNCHANGED <<core, lastCore, row, staged, snapshot, gen, previous>>
        BY <1>6 DEF RemoveParts
    <2>2. OnlyMoves(a)
        BY <2>0, <2>1 DEF OnlyMoves, TypeOK
    <2>3. d[1] \in Generations
        BY DEF TypeOK
    <2>4. Attested'
        BY <2>0, <2>3 DEF Data, Attested, TypeOK, Parts, PartNames, Without
    <2>5. ASSUME NEW g \in Generations, g # d[1], Complete(g) PROVE Complete(g)'
        BY <2>0, <2>3, <2>5 DEF Complete, Holds, TypeOK
    <2>6. RowsKept'
        <3> SUFFICES ASSUME NEW s \in Storages
                     PROVE  (Kept(row[s].active, s) /\ Kept(row[s].rollback, s))'
            BY DEF RowsKept
        <3>1. Kept(row[s].active, s) /\ Kept(row[s].rollback, s)
            BY DEF Data, RowsKept
        <3>2. s \in CacheRoot /\ d[1] \in {row[s].active, row[s].rollback}
                => d[1].core # core[s]
            BY <1>3, <2>1 DEF PlanSpares
        <3> QED
            BY <2>1, <2>5, <3>1, <3>2 DEF Kept
    <2>7. Identities'
        BY <2>1 DEF Data, Identities
    <2>8. (BuilderKnows(a) /\ PlanSpares(a) /\ SessionKnows(a))'
        BY <1>3, <2>0, <2>1
        DEF TypeOK, BuilderKnows, PlanSpares, SessionKnows, Building
    <2> QED
        BY <1>2, <2>2, <2>4, <2>6, <2>7, <2>8, AloneStep
<1>7. PlanRetention(a) \/ FinishRetention(a) => UNCHANGED parts
    BY DEF PlanRetention, FinishRetention
<1> QED
    BY <1>4, <1>5, <1>6, <1>7 DEF RetentionStep, FinishRetention

LEMMA QueryData ==
    ASSUME TypeOK, TypeOK', Data, NEW a \in Actors, QueryStep(a)
    PROVE  Data'
<1> USE EmptyTypes, ScopeAssumption DEF Goto, storeVars, lockVars, localVars
<1>1. /\ at[a] \in Storages /\ row[at[a]] \in Rows /\ SessionKnows(a)
      /\ gen[a].core <= lastCore /\ row[at[a]].active.core <= lastCore
      /\ previous[a].active.core <= lastCore /\ previous[a].rollback.core <= lastCore
    BY DEF TypeOK, Data, Identities
<1>2. CASE PinStore(a)
    <2> USE <1>2 DEF PinStore
    <2>1. OnlyMoves(a)
        BY DEF OnlyMoves, TypeOK
    <2>2. pc'[a] = "ready" /\ gen'[a] = row[at[a]].active
        BY DEF TypeOK
    <2>3. row[at[a]].active \in Generations
        BY <1>1, Chosen DEF Rows
    <2>4. (BuilderKnows(a) /\ PlanSpares(a) /\ SessionKnows(a))'
        BY <2>2, <2>3 DEF BuilderKnows, PlanSpares, SessionKnows, Building
    <2> QED
        BY <1>1, <2>1, <2>2, <2>4, OwnStep
<1>3. CASE Admit(a)
    <2> USE <1>3 DEF Admit
    <2>1. OnlyMoves(a)
        BY DEF OnlyMoves, TypeOK
    <2>2. pc'[a] = "pinned"
        BY DEF TypeOK
    <2>3. /\ gen[a] \in Generations /\ gen[a].core = snapshot[a]
          /\ parts[gen[a]]["evidence"] = snapshot[a]
        BY <1>1 DEF SessionKnows, EvidenceAdmits, EvidenceValid
    <2>4. parts[gen[a]]["vectors"] = snapshot[a]
        <3>1. snapshot[a] # 0
            BY <2>3 DEF Generations, Cores
        <3> QED
            BY <2>3, <3>1 DEF Data, Attested
    <2>5. (BuilderKnows(a) /\ PlanSpares(a) /\ SessionKnows(a))'
        BY <2>2, <2>3, <2>4 DEF BuilderKnows, PlanSpares, SessionKnows, Building
    <2> QED
        BY <1>1, <2>1, <2>5, OwnStep
<1>4. CASE Revalidate(a)
    <2>1. CASE Return(a)
        BY <1>4, <2>1, ReturnData DEF Revalidate
    <2>2. CASE Goto(a, "dropping") /\ UNCHANGED localVars
        <3>1. OnlyMoves(a)
            BY <2>2 DEF OnlyMoves, TypeOK
        <3>2. pc[a] = "pinned" /\ pc'[a] = "dropping" /\ UNCHANGED parts
            BY <1>4, <2>2 DEF Revalidate, TypeOK
        <3>3. (BuilderKnows(a) /\ PlanSpares(a) /\ SessionKnows(a))'
            BY <1>1, <2>2, <3>2 DEF BuilderKnows, PlanSpares, SessionKnows, Building
        <3> QED
            BY <1>1, <2>2, <3>1, <3>2, <3>3, OwnStep
    <2> QED
        BY <1>4, <2>1, <2>2 DEF Revalidate
<1>5. CASE Retry(a)
    <2> USE <1>5 DEF Retry
    <2>1. OnlyMoves(a)
        BY DEF OnlyMoves, TypeOK
    <2>2. pc'[a] = "global" /\ gen'[a] = NoGeneration
        BY DEF TypeOK
    <2>3. (BuilderKnows(a) /\ PlanSpares(a) /\ SessionKnows(a))'
        BY <2>2 DEF BuilderKnows, PlanSpares, SessionKnows, Building
    <2>4. gen'[a].core <= lastCore
        BY <2>2 DEF TypeOK
    <2> QED
        BY <1>1, <2>1, <2>3, <2>4, OwnStep
<1> QED
    BY <1>2, <1>3, <1>4, <1>5 DEF QueryStep

LEMMA DataStep == TypeOK /\ Locking /\ Data /\ [Next]_vars => Data'
<1> SUFFICES ASSUME TypeOK, Locking, Data, [Next]_vars PROVE Data'
    OBVIOUS
<1>1. TypeOK'
    BY TypesStep
<1>2. CASE StoreStep
    BY <1>2, StoreData
<1>3. ASSUME NEW a \in Actors,
             LockStep(a) \/ BuildStep(a) \/ RetentionStep(a) \/ QueryStep(a)
      PROVE  Data'
    BY <1>1, <1>3, LockData, BuildData, RetentionData, QueryData
<1>4. CASE UNCHANGED vars
    BY <1>4 DEF vars, storeVars, localVars, Data, Identities, Attested, RowsKept, Kept,
                Complete, Holds, BuilderKnows, PlanSpares, SessionKnows
<1> QED
    BY <1>2, <1>3, <1>4 DEF Next

Inv == TypeOK /\ Locking /\ Data

\* The inductive invariant of the protocol.
THEOREM Invariance == Spec => []Inv
<1>1. Init => Inv
    BY TypesInit, LockingInit, DataInit DEF Inv
<1>2. Inv /\ [Next]_vars => Inv'
    BY TypesStep, LockingStep, DataStep DEF Inv
<1> QED
    BY <1>1, <1>2, PTL DEF Spec

\* An admitted session reads vectors attested for the core publication it has
\* pinned until it is dropped, however many builders and cleaners there are.
THEOREM SessionsIntact == Spec => []PinnedIntact
<1>1. Inv => PinnedIntact
    BY DEF Inv, Data, SessionKnows, PinnedIntact, Actors
<1> QED
    BY <1>1, Invariance, PTL

\* No cleanup takes a part of a generation that a store in the cache root
\* publishes for its present core or could roll back to.
THEOREM RetentionIsSafe == Spec => []RetentionSafe
<1>1. Inv => RetentionSafe
    BY ScopeAssumption DEF Inv, Data, RowsKept, Kept, Complete, RetentionSafe
<1> QED
    BY <1>1, Invariance, PTL

\* A committed manifest names a complete generation attested for the core
\* publication it is committed with, although no lock keeps the core still
\* while the generation is built and validated.
THEOREM CommitsMatch == Spec => CommitMatchesCore
<1> DEFINE Match ==
        \A s \in Storages : \A a \in Actors :
            pc[a] = "fence" /\ pc'[a] = "marker" /\ at[a] = s =>
                /\ row'[s].active.core = core'[s]
                /\ parts'[row'[s].active]["vectors"] = core'[s]
                /\ parts'[row'[s].active]["evidence"] = core'[s]
                /\ \A part \in PartNames : Holds(row[s].active, part)'
<1>1. Inv /\ [Next]_vars => [Match]_vars
    <2> SUFFICES ASSUME Inv, Next, NEW a \in Actors, pc[a] = "fence", pc'[a] = "marker"
                 PROVE  /\ row'[at[a]].active.core = core'[at[a]]
                        /\ parts'[row'[at[a]].active]["vectors"] = core'[at[a]]
                        /\ parts'[row'[at[a]].active]["evidence"] = core'[at[a]]
                        /\ \A part \in PartNames : Holds(row[at[a]].active, part)'
        OBVIOUS
    <2>1. PublishManifest(a)
        <3>1. pc' # pc
            OBVIOUS
        <3>2. ~StoreStep
            BY <3>1 DEF StoreStep, EditSource, FullRefresh, PromoteClone, Publish,
                CloneLive, DiscardClone, Rehydrate
        <3>3. PICK b \in Actors :
                  LockStep(b) \/ BuildStep(b) \/ RetentionStep(b) \/ QueryStep(b)
            BY <3>2 DEF Next
        <3>4. CASE LockStep(b)
            BY <3>4 DEF LockStep, Start, AcquireGlobal, AcquireProject, FirstStep,
                Abort, Return, Inv, TypeOK
        <3>5. CASE RetentionStep(b)
            BY <3>5 DEF RetentionStep, PlanRetention, RemoveParts, FinishRetention,
                Goto, Return, Inv, TypeOK
        <3>6. CASE QueryStep(b)
            <4> USE DEF Goto, Return, Inv, TypeOK
            <4>1. CASE PinStore(b)
                BY <4>1 DEF PinStore
            <4>2. CASE Admit(b)
                BY <4>2 DEF Admit
            <4>3. CASE Revalidate(b)
                <5>1. pc' = [pc EXCEPT ![b] = "idle"] \/ pc' = [pc EXCEPT ![b] = "dropping"]
                    BY <4>3 DEF Revalidate
                <5> QED
                    BY <5>1
            <4>4. CASE Retry(b)
                BY <4>4 DEF Retry
            <4> QED
                BY <3>6, <4>1, <4>2, <4>3, <4>4 DEF QueryStep
        <3>7. CASE BuildStep(b)
            BY <3>7 DEF BuildStep, ReadSource, ReadInput, ReadPrevious, EnsureLexical,
                EnsureVectors, PublishEvidence, EnsureScip, ValidateCandidate,
                PrepareRetention, PublishManifest, WriteMarker, Goto, Return, Inv, TypeOK
        <3> QED
            BY <3>3, <3>4, <3>5, <3>6, <3>7
    <2>2. /\ at[a] \in Storages /\ gen[a] \in Generations
          /\ gen[a].core = core[at[a]] /\ previous[a].active = gen[a]
          /\ Complete(gen[a]) /\ parts[gen[a]]["evidence"] = core[at[a]]
        <3>1. at[a] \in Storages
            BY ScopeAssumption
        <3>2. gen[a] \in Generations
            BY DEF Inv, TypeOK, Building
        <3>3. gen[a] = [core |-> core[at[a]], source |-> source[Workspace[at[a]]]]
            BY <2>1 DEF PublishManifest, CurrentInput
        <3>4. BuilderKnows(a)
            BY DEF Inv, Data
        <3> QED
            BY <3>1, <3>2, <3>3, <3>4 DEF BuilderKnows, Building
    <2>3. parts[gen[a]]["vectors"] = core[at[a]]
        <3>1. core[at[a]] # 0
            BY <2>2 DEF Generations, Cores
        <3> QED
            BY <2>2, <3>1 DEF Inv, Data, Attested
    <2>4. row'[at[a]].active = gen[a] /\ UNCHANGED <<core, parts>>
        BY <2>1, <2>2 DEF PublishManifest, Inv, TypeOK
    <2> QED
        BY <2>2, <2>3, <2>4 DEF Complete, Holds
<1> QED
    BY <1>1, Invariance, PTL DEF Spec, CommitMatchesCore

=============================================================================
