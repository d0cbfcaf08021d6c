--------------------------- MODULE StorePromotion ---------------------------
(***************************************************************************)
(* How crates/codestory-store replaces the live core database of one       *)
(* repository: promote_staged_snapshot with its rollback copy and its      *)
(* prepared and committed journals, the recovery that every opener runs,   *)
(* and the two file locks, the index writer's and the promotion lock.      *)
(*                                                                         *)
(* A process runs one operation at a time: an open of the live store, or a *)
(* refresh that builds a candidate and promotes it.  It may crash before   *)
(* any step; its locks are then released and the files stay as they are.   *)
(* Every file operation is a step of its own and may fail.  Reads made     *)
(* under the promotion lock are part of the step they decide.              *)
(*                                                                         *)
(* A database is its publication identity; the source-policy and           *)
(* structural-text identities, which are functions of the content, are     *)
(* compared along with it.  A half-written file is "torn".  SQLite's       *)
(* restore into the live file is one transaction.                          *)
(*                                                                         *)
(* Left out: schema and journal versions (every file has the current one), *)
(* corruption of files at rest, loss of unsynced writes in a power         *)
(* failure, the contents of the staged database, telemetry.                *)
(***************************************************************************)
EXTENDS Naturals

CONSTANTS
    Processes,
    MaxRuns,   \* bound on the refreshes started
    Legacy     \* whether a version without journals may have been interrupted

ASSUME PromotionAssumption ==
    /\ "free" \notin Processes
    /\ MaxRuns \in Nat \ {0}
    /\ Legacy \in BOOLEAN

VARIABLES
    live, backup,         \* the database files
    prepared, committed,  \* the journal files
    lock,                 \* the promotion lock
    writer,               \* the index writer lock
    pc,                   \* where each process is
    op,                   \* what it is doing there
    candidate,            \* the publication staged by its refresh
    journal,              \* the PromotionJournal it has in memory
    refused,              \* history: why recoveries have refused the files
    runs,                 \* refreshes started, the source of run_id
    acknowledged          \* candidates whose promotion returned Ok

diskVars == <<live, backup, prepared, committed>>
localVars == <<op, candidate, journal>>
resultVars == <<refused, acknowledged>>
vars == <<diskVars, lock, writer, pc, localVars, runs, resultVars>>

-----------------------------------------------------------------------------
(* Publications, databases and journals.                                   *)

\* IndexPublicationRecord; the run stands for generation_id, run_id and mode.
Publications == [generation : Nat, run : Nat]

\* Option::None
NoPublication == [generation |-> 0, run |-> 0]

\* A database file: none, one without a publication, half a copy, or complete.
Absent == [kind |-> "absent", publication |-> NoPublication]
Blank == [kind |-> "blank", publication |-> NoPublication]
TornCopy == [kind |-> "torn", publication |-> NoPublication]
Database(p) == [kind |-> "complete", publication |-> p]
Databases ==
    [kind : {"absent", "blank", "torn", "complete"}, publication : Publications]

Journal(previous, new) ==
    [kind |-> "whole", previous |-> previous, candidate |-> new]
NoJournal ==
    [kind |-> "absent", previous |-> NoPublication, candidate |-> NoPublication]
TornJournal ==
    [kind |-> "torn", previous |-> NoPublication, candidate |-> NoPublication]
Journals ==
    [kind : {"absent", "torn", "whole"},
     previous : Publications, candidate : Publications]

Exists(file) == file.kind # "absent"

promotion_artifacts_exist ==
    Exists(backup) \/ Exists(prepared) \/ Exists(committed)

Locations ==
    {"idle", "probe", "tryLock", "recover", "rollback", "unjournal", "unbackup",
     "retireBackup", "retireJournal", "open", "base", "lock", "admit", "copy",
     "copying", "prepare", "writing", "discard", "openLive", "restore",
     "validate", "commit"}

TypeOK ==
    /\ live \in Databases /\ backup \in Databases
    /\ prepared \in Journals /\ committed \in Journals
    /\ lock \in Processes \cup {"free"}
    /\ writer \in Processes \cup {"free"}
    /\ pc \in [Processes -> Locations]
    /\ op \in [Processes -> {"open", "base", "promote", "publish"}]
    /\ candidate \in [Processes -> Publications]
    /\ journal \in [Processes -> Journals]
    /\ refused \subseteq {"torn", "conflict"}
    /\ runs \in Nat
    /\ acknowledged \subseteq Publications

-----------------------------------------------------------------------------
(* How operations move on and end.                                         *)

Step(p, l) ==
    /\ pc' = [pc EXCEPT ![p] = l]
    /\ UNCHANGED <<lock, writer, resultVars>>

Goto(p, l) == Step(p, l) /\ UNCHANGED localVars

\* FAULTY: the guard of the promotion lock is leaked.
ReturnHoldingLock(p) ==
    /\ pc' = [pc EXCEPT ![p] = "idle"]
    /\ op' = [op EXCEPT ![p] = "open"]
    /\ candidate' = [candidate EXCEPT ![p] = NoPublication]
    /\ journal' = [journal EXCEPT ![p] = NoJournal]
    /\ writer' = IF writer = p THEN "free" ELSE writer
    /\ UNCHANGED lock

\* The operation returns: its locals go, and the locks it holds are released.
Return(p) ==
    /\ pc' = [pc EXCEPT ![p] = "idle"]
    /\ op' = [op EXCEPT ![p] = "open"]
    /\ candidate' = [candidate EXCEPT ![p] = NoPublication]
    /\ journal' = [journal EXCEPT ![p] = NoJournal]
    /\ lock' = IF lock = p THEN "free" ELSE lock
    /\ writer' = IF writer = p THEN "free" ELSE writer

End(p) == Return(p) /\ UNCHANGED resultVars

\* The operation returns the error with which recovery refuses the files.
Refuse(p, why) ==
    /\ Return(p)
    /\ refused' = refused \cup {why}
    /\ UNCHANGED acknowledged

\* recover_interrupted_promotion[_locked] returns Ok: the opener goes on to
\* open, a refresh to read its base, and promote_staged_snapshot to go on with
\* the lock that it took itself.
Recovered(p) ==
    /\ pc' = [pc EXCEPT ![p] = IF op[p] = "promote" THEN "admit" ELSE op[p]]
    /\ lock' = IF op[p] # "promote" /\ lock = p THEN "free" ELSE lock
    /\ UNCHANGED <<writer, localVars, resultVars>>

\* FAULTY: the promotion that was rolled back reports success.
RolledBackOk(p) ==
    IF op[p] = "publish"
    THEN /\ Return(p)
         /\ acknowledged' = acknowledged \cup {candidate[p]}
         /\ UNCHANGED refused
    ELSE Recovered(p)

\* rollback_prepared_promotion returns Ok, either to the recovery, or to the
\* promotion that failed and now reports its own error.
RolledBack(p) == IF op[p] = "publish" THEN End(p) ELSE Recovered(p)

\* Cleanup after a commit ends: Ok to the recovery that resumed it, or the
\* promotion's own Ok to its caller.
Retired(p) ==
    IF op[p] = "publish"
    THEN /\ Return(p)
         /\ acknowledged' = acknowledged \cup {candidate[p]}
         /\ UNCHANGED refused
    ELSE Recovered(p)

\* cleanup_sqlite_sidecars on the backup: it may fail before the database is
\* removed, or after, on a sidecar.
RemoveBackup(p, Then, Else) ==
    \/ backup' = Absent /\ Then
    \/ backup' \in {backup, Absent} /\ Else

-----------------------------------------------------------------------------
(* Openers and the recovery they run.                                      *)

Open(p) ==
    /\ pc[p] = "idle"
    /\ Goto(p, "probe")
    /\ UNCHANGED <<diskVars, runs>>

\* recover_interrupted_promotion looks for artifacts before it has any lock.
Probe(p) ==
    /\ pc[p] = "probe"
    /\ IF promotion_artifacts_exist THEN Goto(p, "tryLock") ELSE Recovered(p)
    /\ UNCHANGED <<diskVars, runs>>

\* The lock is held by a healthy promoter, or by another opener that recovers:
\* this one goes on without.
TryLock(p) ==
    /\ pc[p] = "tryLock"
    /\ IF lock = "free"
       THEN /\ lock' = p
            /\ pc' = [pc EXCEPT ![p] = "recover"]
            /\ UNCHANGED <<writer, localVars, resultVars>>
       ELSE Recovered(p)
    /\ UNCHANGED <<diskVars, runs>>

\* recover_interrupted_promotion_locked: what the artifacts call for.
ResumeCommitted(p) ==
    /\ Exists(committed) /\ ~Exists(prepared)
    /\ IF live.publication = committed.candidate
       THEN Goto(p, "retireBackup")
       ELSE Refuse(p, "conflict")
    /\ UNCHANGED live

UndoPrepared(p) ==
    /\ Exists(prepared) /\ ~Exists(committed)
    /\ IF prepared.kind = "whole"
       THEN /\ journal' = [journal EXCEPT ![p] = prepared]
            /\ Step(p, "rollback") /\ UNCHANGED <<op, candidate>>
       ELSE Refuse(p, "torn")
    /\ UNCHANGED live

\* recover_legacy_promotion_backup: a backup and no journal.
RestoreLegacyBackup(p) ==
    /\ Exists(backup) /\ ~Exists(prepared) /\ ~Exists(committed)
    /\ \/ backup.kind = "torn" /\ Refuse(p, "torn") /\ UNCHANGED live
       \/ /\ backup.kind = "complete" /\ live.publication = NoPublication
          /\ live' = backup /\ Goto(p, "unbackup")
       \/ /\ backup.kind = "complete"
          /\ \/ live.publication = backup.publication
             \/ live.publication.generation > backup.publication.generation
          /\ Goto(p, "unbackup") /\ UNCHANGED live
       \/ /\ backup.kind = "complete" /\ live.publication # NoPublication
          /\ live.publication # backup.publication
          /\ live.publication.generation <= backup.publication.generation
          /\ Refuse(p, "conflict") /\ UNCHANGED live

Recover(p) ==
    /\ pc[p] = "recover"
    /\ \/ Exists(committed) /\ Exists(prepared)
          /\ Refuse(p, "conflict") /\ UNCHANGED live
       \/ ResumeCommitted(p)
       \/ UndoPrepared(p)
       \/ RestoreLegacyBackup(p)
       \/ ~promotion_artifacts_exist /\ Recovered(p) /\ UNCHANGED live
       \/ End(p) /\ UNCHANGED live
    /\ UNCHANGED <<backup, prepared, committed, runs>>

-----------------------------------------------------------------------------
(* rollback_prepared_promotion                                             *)

\* The identities disagree with the journal: nothing is touched.
RollbackRefuses(p) ==
    LET j == journal[p] IN
    \/ live.publication \notin {NoPublication, j.candidate, j.previous}
    \/ j.previous # NoPublication /\ backup # Database(j.previous)
    \/ j.previous = NoPublication /\ Exists(backup)

\* FAULTY: the rollback copy goes before the journal that needs it.
RollbackDroppingCopy(p) ==
    /\ pc[p] = "rollback"
    /\ backup' = Absent
    /\ live' = IF backup.kind = "complete" THEN backup ELSE Absent
    /\ Goto(p, "unjournal")
    /\ UNCHANGED <<prepared, committed, runs>>

\* Live is put back to the previous publication, or away if there was none.
Rollback(p) ==
    /\ pc[p] = "rollback"
    /\ \/ RollbackRefuses(p) /\ Refuse(p, "conflict") /\ UNCHANGED live
       \/ /\ ~RollbackRefuses(p)
          /\ live' = IF journal[p].previous = NoPublication THEN Absent
                     ELSE IF live.publication # journal[p].previous THEN backup ELSE live
          /\ Goto(p, "unjournal")
       \/ End(p) /\ UNCHANGED live
    /\ UNCHANGED <<backup, prepared, committed, runs>>

\* remove_promotion_file: the removal may fail, or the sync that follows it.
RemovePrepared(p) ==
    /\ pc[p] = "unjournal"
    /\ \/ /\ prepared' = NoJournal
          /\ IF journal[p].previous = NoPublication
             THEN RolledBack(p)
             ELSE Goto(p, "unbackup")
       \/ prepared' \in {prepared, NoJournal} /\ End(p)
    /\ UNCHANGED <<live, backup, committed, runs>>

DropRollbackCopy(p) ==
    /\ pc[p] = "unbackup"
    /\ RemoveBackup(p, RolledBack(p), End(p))
    /\ UNCHANGED <<live, prepared, committed, runs>>

-----------------------------------------------------------------------------
(* cleanup_committed_promotion_artifacts: its failures are only logged.    *)

RetireBackup(p) ==
    /\ pc[p] = "retireBackup"
    /\ RemoveBackup(p, Goto(p, "retireJournal"), Retired(p))
    /\ UNCHANGED <<live, prepared, committed, runs>>

RetireJournal(p) ==
    /\ pc[p] = "retireJournal"
    /\ committed' \in {committed, NoJournal}
    /\ Retired(p)
    /\ UNCHANGED <<live, backup, prepared, runs>>

\* The opener has its connection.  A live store is created when there is none.
OpenLive(p) ==
    /\ pc[p] = "open"
    /\ live' \in IF Exists(live) THEN {live} ELSE {live, Blank}
    /\ End(p)
    /\ UNCHANGED <<backup, prepared, committed, runs>>

-----------------------------------------------------------------------------
(* A refresh: writer lock, base, candidate.                                *)

\* FAULTY: the writer lock is not exclusive.
BeginRefreshShared(p) ==
    /\ pc[p] = "idle" /\ runs < MaxRuns
    /\ writer' = p
    /\ pc' = [pc EXCEPT ![p] = IF Exists(live) THEN "probe" ELSE "base"]
    /\ op' = [op EXCEPT ![p] = "base"]
    /\ runs' = runs + 1
    /\ UNCHANGED <<diskVars, lock, candidate, journal, resultVars>>

\* IndexWriterGuard::try_acquire, then the base is read as an opener reads, or
\* taken to be none when there is no live file.
BeginRefresh(p) ==
    /\ pc[p] = "idle" /\ writer = "free" /\ runs < MaxRuns
    /\ writer' = p
    /\ pc' = [pc EXCEPT ![p] = IF Exists(live) THEN "probe" ELSE "base"]
    /\ op' = [op EXCEPT ![p] = "base"]
    /\ runs' = runs + 1
    /\ UNCHANGED <<diskVars, lock, candidate, journal, resultVars>>

\* next_index_publication numbers the candidate after the base.
Stage(p) ==
    /\ pc[p] = "base"
    /\ candidate' = [candidate EXCEPT
                        ![p] = [generation |-> live.publication.generation + 1,
                                run |-> runs]]
    /\ Step(p, "lock")
    /\ UNCHANGED <<diskVars, op, journal, runs>>

\* Indexing into the staged database fails or is cancelled.
GiveUp(p) ==
    /\ pc[p] = "base"
    /\ End(p)
    /\ UNCHANGED <<diskVars, runs>>

\* promote_staged_snapshot waits for the lock and recovers first.
Lock(p) ==
    /\ pc[p] = "lock" /\ lock = "free"
    /\ lock' = p
    /\ pc' = [pc EXCEPT ![p] = "recover"]
    /\ op' = [op EXCEPT ![p] = "promote"]
    /\ UNCHANGED <<diskVars, writer, candidate, journal, runs, resultVars>>

\* FAULTY: artifacts that recovery left behind do not block the promotion.
AdmitRegardless(p) ==
    /\ pc[p] = "admit"
    /\ op' = [op EXCEPT ![p] = "publish"]
    /\ journal' = [journal EXCEPT ![p] = Journal(live.publication, candidate[p])]
    /\ Step(p, IF live.publication = NoPublication THEN "prepare" ELSE "copy")
    /\ UNCHANGED <<diskVars, candidate, runs>>

\* Artifacts that recovery could not remove block the promotion; otherwise
\* staged and live are validated and previous is read from live.
Admit(p) ==
    /\ pc[p] = "admit"
    /\ \/ /\ ~promotion_artifacts_exist
          /\ op' = [op EXCEPT ![p] = "publish"]
          /\ journal' = [journal EXCEPT ![p] = Journal(live.publication, candidate[p])]
          /\ Step(p, IF live.publication = NoPublication THEN "prepare" ELSE "copy")
          /\ UNCHANGED candidate
       \/ End(p)
    /\ UNCHANGED <<diskVars, runs>>

-----------------------------------------------------------------------------
(* promote_staged_snapshot                                                 *)

\* The rollback copy comes into being, then is filled and validated.
BeginCopy(p) ==
    /\ pc[p] = "copy"
    /\ \/ backup' = TornCopy /\ Goto(p, "copying")
       \/ backup' = backup /\ End(p)
    /\ UNCHANGED <<live, prepared, committed, runs>>

FinishCopy(p) ==
    /\ pc[p] = "copying"
    /\ \/ backup' = live /\ (Goto(p, "prepare") \/ End(p))
       \/ backup' = backup /\ End(p)
    /\ UNCHANGED <<live, prepared, committed, runs>>

\* write_promotion_journal: created, then written and synced.
CreateJournal(p) ==
    /\ pc[p] = "prepare"
    /\ \/ prepared' = TornJournal /\ Goto(p, "writing")
       \/ prepared' = prepared /\ Goto(p, "discard")
    /\ UNCHANGED <<live, backup, committed, runs>>

\* A failed write or sync removes the file again, which may fail in turn.
WriteJournal(p) ==
    /\ pc[p] = "writing"
    /\ \/ prepared' = journal[p] /\ Goto(p, "openLive")
       \/ prepared' = NoJournal /\ Goto(p, "discard")
       \/ prepared' \in {TornJournal, journal[p]} /\ End(p)
    /\ UNCHANGED <<live, backup, committed, runs>>

\* Without a journal the rollback copy is of no use; the error is returned.
DiscardCopy(p) ==
    /\ pc[p] = "discard"
    /\ backup' \in {backup, Absent}
    /\ End(p)
    /\ UNCHANGED <<live, prepared, committed, runs>>

\* Connection::open creates the live file; when it fails nothing is undone.
OpenForRestore(p) ==
    /\ pc[p] = "openLive"
    /\ \/ live' = (IF Exists(live) THEN live ELSE Blank) /\ Goto(p, "restore")
       \/ UNCHANGED live /\ End(p)
    /\ UNCHANGED <<backup, prepared, committed, runs>>

RestoreStaged(p) ==
    /\ pc[p] = "restore"
    /\ \/ live' = Database(candidate[p]) /\ Goto(p, "validate")
       \/ UNCHANGED live /\ Goto(p, "rollback")
    /\ UNCHANGED <<backup, prepared, committed, runs>>

\* A failed read of the identity returns at once; a failed check of the
\* manifests rolls back.
ValidatePromoted(p) ==
    /\ pc[p] = "validate"
    /\ \/ live.publication = candidate[p] /\ Goto(p, "commit")
       \/ Goto(p, "rollback")
       \/ End(p)
    /\ UNCHANGED <<diskVars, runs>>

\* FAULTY: a failed sync rolls back although the rename has committed.
CommitUndone(p) ==
    /\ pc[p] = "commit"
    /\ \/ /\ Exists(prepared) /\ ~Exists(committed)
          /\ committed' = prepared /\ prepared' = NoJournal
          /\ Goto(p, "retireBackup") \/ Goto(p, "rollback")
       \/ Goto(p, "rollback") /\ UNCHANGED <<prepared, committed>>
    /\ UNCHANGED <<live, backup, runs>>

\* commit_promotion_journal: the rename is the commit.  When only the sync
\* after it fails, the caller gets an error and nothing is undone.
Commit(p) ==
    /\ pc[p] = "commit"
    /\ \/ /\ Exists(prepared) /\ ~Exists(committed)
          /\ committed' = prepared /\ prepared' = NoJournal
          /\ Goto(p, "retireBackup") \/ End(p)
       \/ Goto(p, "rollback") /\ UNCHANGED <<prepared, committed>>
    /\ UNCHANGED <<live, backup, runs>>

-----------------------------------------------------------------------------
\* The process dies; the system releases its file locks.
Crash(p) ==
    /\ pc[p] # "idle"
    /\ End(p)
    /\ UNCHANGED <<diskVars, runs>>

\* The states that this version, or a journal-less predecessor that was
\* interrupted, leaves behind.
Init ==
    LET first == [generation |-> 1, run |-> 0]
        second == [generation |-> 2, run |-> 0] IN
    /\ live \in {Absent, Blank, Database(first), Database(second)}
    /\ backup \in {Absent, Database(first)}
    /\ Exists(backup) => Legacy /\ Exists(live)
    /\ prepared = NoJournal /\ committed = NoJournal
    /\ lock = "free" /\ writer = "free"
    /\ pc = [p \in Processes |-> "idle"]
    /\ op = [p \in Processes |-> "open"]
    /\ candidate = [p \in Processes |-> NoPublication]
    /\ journal = [p \in Processes |-> NoJournal]
    /\ runs = 0
    /\ refused = {} /\ acknowledged = {}

\* One step of the operation that p is in.
Advance(p) ==
    \/ Probe(p) \/ TryLock(p) \/ Recover(p)
    \/ Rollback(p) \/ RemovePrepared(p) \/ DropRollbackCopy(p)
    \/ RetireBackup(p) \/ RetireJournal(p) \/ OpenLive(p)
    \/ Stage(p) \/ GiveUp(p) \/ Admit(p) \/ BeginCopy(p) \/ FinishCopy(p)
    \/ CreateJournal(p) \/ WriteJournal(p) \/ DiscardCopy(p)
    \/ OpenForRestore(p) \/ RestoreStaged(p) \/ ValidatePromoted(p) \/ Commit(p)

Next ==
    \E p \in Processes :
        Open(p) \/ BeginRefresh(p) \/ Lock(p) \/ Advance(p) \/ Crash(p)

Spec == Init /\ [][Next]_vars

\* Every operation goes on.  A waiting lock_exclusive is granted when the lock
\* comes free again and again: the kernel queues waiters, and openers only try.
Fairness ==
    \A p \in Processes : WF_vars(Advance(p)) /\ SF_vars(Lock(p))

FairSpec == Spec /\ Fairness

-----------------------------------------------------------------------------
(* Properties                                                              *)

\* The publication that the files on disk stand for: a committed journal
\* decides for its candidate, a prepared one for the previous publication,
\* and without a journal it is what live holds, or else the legacy backup.
Published ==
    IF committed.kind = "whole" THEN committed.candidate
    ELSE IF prepared.kind = "whole" THEN prepared.previous
    ELSE IF live.publication = NoPublication THEN backup.publication
    ELSE live.publication

\* The publication a legacy backup may hold.  A refresh that passes while
\* another opener restores it numbers its candidate from the blank live file.
Leftover == IF Legacy THEN {[generation |-> 1, run |-> 0]} ELSE {}

Index == INSTANCE PublishedIndex WITH published <- Published

\* Whatever crashes, fails or recovers, the files stand for one published
\* index, which only ever gives way to one of a later generation, in a single
\* step, the rename in commit_promotion_journal; and an Ok of
\* promote_staged_snapshot is given for the publication in force.
ImplementsPublishedIndex == Index!Spec

\* What an open of the live file finds is the published index or, while a
\* prepared journal is there to undo it, its candidate: never a third one.
\* (recover_interrupted_promotion lets openers pass while the lock is held.)
LiveIsOldOrNew ==
    \/ live.publication = Published
    \/ prepared.kind = "whole" /\ live.publication = prepared.candidate
    \/ live = Blank /\ backup = Database(Published)

\* While a complete prepared journal names a previous publication, the rollback
\* copy of that publication is there (rollback_prepared_promotion,
\* cleanup_sqlite_sidecars).
RollbackCopyKept ==
    prepared.kind = "whole" /\ prepared.previous # NoPublication =>
        backup = Database(prepared.previous)

\* Recovery never meets what its identity checks refuse: two journals, an
\* unrelated live publication, a backup of something else, an ambiguous one.
\* Whatever a promotion or a recovery leaves behind when it stops, the next
\* recovery can resolve, unless it is torn.
NoConflict == "conflict" \notin refused

\* A publication that promote_staged_snapshot has reported as promoted is not
\* rolled back by any later recovery: the published index is it or a later one.
AcknowledgedStays ==
    \A a \in acknowledged : Published.generation >= a.generation

\* "failed or interrupted refreshes leave the previous generation usable"
\* (CHANGELOG.md): no open is refused for what an interrupted promotion left.
InterruptedStaysUsable == "torn" \notin refused

\* Every open and every refresh ends, although refreshes wait for the lock
\* that openers take to recover (PromotionLock::acquire).
OperationsEnd == \A p \in Processes : pc[p] # "idle" ~> pc[p] = "idle"
=============================================================================
