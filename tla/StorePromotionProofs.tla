------------------------ MODULE StorePromotionProofs ------------------------
(***************************************************************************)
(* Proofs about StorePromotion, for any set of processes, any number of    *)
(* refreshes and any point at which processes crash or file operations     *)
(* fail.                                                                   *)
(*                                                                         *)
(* The disk part of the invariant (Disk) says that at every moment, also   *)
(* in the middle of a promotion or of a recovery, the files are such that  *)
(* the next recovery can resolve them.  It is inductive only together with *)
(* what each process that holds the promotion lock knows of the files at   *)
(* the point where it is (Positions).                                      *)
(***************************************************************************)
EXTENDS StorePromotion, TLAPS

\* Where a process has the promotion lock.
Promoting ==
    {"copy", "copying", "prepare", "writing", "discard", "openLive", "restore",
     "validate", "commit"}
Locked ==
    Promoting \cup {"recover", "rollback", "unjournal", "unbackup",
                    "retireBackup", "retireJournal", "admit"}

\* The locks are with the processes that the locations and operations say.
Locks ==
    /\ \A p \in Processes : lock = p <=> pc[p] \in Locked
    /\ \A p \in Processes : writer = p <=> op[p] # "open"

\* An operation o may be at the location l.
Fits(l, o) ==
    /\ l \in {"idle", "open"} => o = "open"
    /\ l \in {"probe", "tryLock"} => o \in {"open", "base"}
    /\ l \in {"base", "lock"} => o = "base"
    /\ l = "recover" => o # "publish"
    /\ l = "admit" => o = "promote"
    /\ l \in Promoting => o = "publish"

OpsFit == \A p \in Processes : Fits(pc[p], op[p])

\* Publications that exist; complete databases and whole journals of such.
Named == {q \in Publications : q.generation > 0}
Complete == {f \in Databases : f.kind = "complete" /\ f.publication \in Named}
Plans == {j \in Journals : j.kind = "whole" /\ j.candidate \in Named}

\* What the files may be.
Files ==
    /\ live \in Complete \cup {Absent, Blank}
    /\ backup \in Complete \cup {Absent, TornCopy}
    /\ prepared \in Plans \cup {NoJournal, TornJournal}
    /\ committed \in Plans \cup {NoJournal}

\* What a whole prepared journal says of the other files.
Undoable ==
    IF prepared.previous = NoPublication
    THEN backup = Absent /\ (live.publication = NoPublication
                             \/ live.publication = prepared.candidate)
    ELSE /\ backup = Database(prepared.previous)
         /\ live.publication \in {prepared.previous, prepared.candidate}

\* A prepared journal, a committed one, and a copy without a journal.
Disk ==
    /\ prepared = NoJournal \/ committed = NoJournal
    /\ prepared.kind = "whole" => Undoable
    /\ committed.kind = "whole" => live.publication = committed.candidate
    /\ backup.kind = "complete" /\ committed = NoJournal =>
          \/ prepared.kind = "whole"
          \/ live = Blank \/ live = backup
          \/ live.publication.generation > backup.publication.generation

NoJournals == prepared = NoJournal /\ committed = NoJournal

\* The rollback copy is as the journal in memory will say.
CopyMade(p) ==
    /\ journal[p] = Journal(live.publication, candidate[p])
    /\ backup = IF live.publication = NoPublication THEN Absent ELSE live

\* What p, which has the lock there, knows of the files where it is.
Position(p) ==
    /\ pc[p] = "rollback" => prepared = journal[p] /\ prepared.kind = "whole"
    /\ pc[p] = "unjournal" =>
          /\ prepared = journal[p] /\ prepared.kind = "whole"
          /\ live.publication = prepared.previous
    /\ pc[p] \in {"unbackup", "discard"} =>
          NoJournals /\ (backup.kind = "complete" => live.kind = "complete")
    /\ pc[p] \in {"retireBackup", "retireJournal"} =>
          /\ committed.kind = "whole"
          /\ op[p] = "publish" => committed.candidate = candidate[p]
    /\ pc[p] = "retireJournal" => backup = Absent
    /\ pc[p] \in {"copy", "copying"} =>
          /\ NoJournals /\ backup.kind # "complete"
          /\ journal[p] = Journal(live.publication, candidate[p])
          /\ live.publication # NoPublication
    /\ pc[p] = "prepare" => NoJournals /\ CopyMade(p)
    /\ pc[p] = "writing" => prepared = TornJournal /\ CopyMade(p)
    /\ pc[p] \in {"openLive", "restore"} =>
          prepared = journal[p] /\ CopyMade(p)
    /\ pc[p] \in {"validate", "commit"} =>
          /\ prepared = journal[p] /\ prepared.kind = "whole"
          /\ prepared.candidate = candidate[p]
          /\ live = Database(candidate[p])
    /\ pc[p] = "lock" \/ op[p] \in {"promote", "publish"} =>
          candidate[p] \in Named

Positions == \A p \in Processes : Position(p)

Invariant ==
    /\ TypeOK /\ Locks /\ OpsFit /\ Files /\ Disk /\ Positions /\ NoConflict

\* A step of p.
StepOf(p) == Open(p) \/ BeginRefresh(p) \/ Lock(p) \/ Advance(p) \/ Crash(p)

\* A step leaves the locals of every process but p alone.
Own(p) ==
    \A q \in Processes \ {p} :
        /\ pc'[q] = pc[q] /\ op'[q] = op[q]
        /\ candidate'[q] = candidate[q] /\ journal'[q] = journal[q]

\* For the numbering of generations: the candidate c of a refresh is later than
\* q, or q is what a version without journals left behind, which a refresh that
\* read its base from the blank live file has not seen.
Exceeds(c, q) == c.run # 0 /\ (q \in Leftover \/ c.generation > q.generation)

\* A staged candidate that is not published yet.
Pending(p) ==
    \/ pc[p] = "lock" \/ op[p] = "promote"
    \/ op[p] = "publish" /\ pc[p] \notin {"retireBackup", "retireJournal"}

Generations ==
    /\ backup.kind = "complete" /\ live = Blank =>
          backup.publication \in Leftover
    /\ prepared.kind = "whole" =>
          Exceeds(prepared.candidate, prepared.previous)
    /\ \A p \in Processes :
          /\ Pending(p) => Exceeds(candidate[p], Published)
          /\ op[p] # "open" => runs > 0
    /\ AcknowledgedStays

\* The part of the invariant about control.
LocalsTyped ==
    /\ pc \in [Processes -> Locations]
    /\ op \in [Processes -> {"open", "base", "promote", "publish"}]
    /\ candidate \in [Processes -> Publications]
    /\ journal \in [Processes -> Journals]

Control ==
    /\ LocalsTyped
    /\ lock \in Processes \cup {"free"} /\ writer \in Processes \cup {"free"}
    /\ Locks /\ OpsFit

-----------------------------------------------------------------------------
(* Control: locations, locals and locks.                                   *)

\* The values that stand for nothing have their types.
LEMMA NoValues == NoPublication \in Publications /\ NoJournal \in Journals
  BY DEF NoPublication, Publications, NoJournal, Journals

\* Return clears the locals of p and releases its locks.
LEMMA ReturnMoves ==
    ASSUME Control, NEW p \in Processes, Return(p)
    PROVE  Control' /\ Own(p) /\ pc'[p] = "idle" /\ op'[p] = "open"
<1>1. Own(p) /\ pc'[p] = "idle" /\ op'[p] = "open"
  BY DEF Control, LocalsTyped, Return, Own
<1>2. /\ (pc \in [Processes -> Locations])'
      /\ (op \in [Processes -> {"open", "base", "promote", "publish"}])'
      /\ (lock \in Processes \cup {"free"})'
      /\ (writer \in Processes \cup {"free"})'
  BY DEF Control, LocalsTyped, Return, Locations
<1>3. /\ (candidate \in [Processes -> Publications])'
      /\ (journal \in [Processes -> Journals])'
  BY NoValues DEF Control, LocalsTyped, Return
<1>4. Locks'
  BY PromotionAssumption
  DEF Control, LocalsTyped, Return, Locks, Locked, Promoting
<1>5. OpsFit'
  BY DEF Control, LocalsTyped, Return, OpsFit, Fits, Promoting
<1> QED
  BY <1>1, <1>2, <1>3, <1>4, <1>5 DEF Control, LocalsTyped

\* A step to a location on the same side of the lock, where the operation fits.
LEMMA GotoMoves ==
    ASSUME Control, NEW p \in Processes, NEW l \in Locations, Goto(p, l),
           Fits(l, op[p]), pc[p] \in Locked <=> l \in Locked
    PROVE  Control' /\ Own(p) /\ pc'[p] = l /\ op'[p] = op[p]
<1>1. Own(p) /\ pc'[p] = l /\ op'[p] = op[p]
  BY DEF Control, LocalsTyped, Goto, Step, localVars, Own
<1>2. Locks' /\ OpsFit'
  BY DEF Control, LocalsTyped, Goto, Step, localVars, Locks, OpsFit
<1> QED
  BY <1>1, <1>2 DEF Control, LocalsTyped, Goto, Step, localVars

\* recover_interrupted_promotion goes back to its caller.
LEMMA RecoveredMoves ==
    ASSUME Control, NEW p \in Processes, Recovered(p), op[p] # "publish",
           op[p] = "promote" => pc[p] \in Locked
    PROVE  /\ Control' /\ Own(p) /\ op'[p] = op[p]
           /\ pc'[p] \in {"open", "base", "admit"}
<1>1. Own(p) /\ op'[p] = op[p] /\ pc'[p] \in {"open", "base", "admit"}
  BY DEF Control, LocalsTyped, Recovered, localVars, Own
<1>2. (pc \in [Processes -> Locations])'
  BY DEF Control, LocalsTyped, Recovered, Locations
<1>3. Locks'
  BY PromotionAssumption
  DEF Control, LocalsTyped, Recovered, localVars, Locks, Locked, Promoting
<1>4. OpsFit'
  BY DEF Control, LocalsTyped, Recovered, localVars, OpsFit, Fits, Promoting
<1> QED
  BY <1>1, <1>2, <1>3, <1>4 DEF Control, LocalsTyped, Recovered, localVars

\* A step at which p takes a lock or assigns to its locals.
LEMMA AssignMoves ==
    ASSUME Control, NEW p \in Processes, Own(p), LocalsTyped',
           Fits(pc'[p], op'[p]),
           IF pc'[p] \in Locked THEN lock \in {p, "free"} /\ lock' = p
                                ELSE lock # p /\ lock' = lock,
           IF op'[p] # "open" THEN writer \in {p, "free"} /\ writer' = p
                              ELSE writer # p /\ writer' = writer
    PROVE  Control'
<1>1. Locks'
  BY PromotionAssumption DEF Control, LocalsTyped, Locks, Own
<1>2. OpsFit'
  BY DEF Control, OpsFit, Own
<1> QED
  BY <1>1, <1>2 DEF Control

\* Each action keeps locations, locals and locks in order, and changes only
\* the locals of the process that takes it.
LEMMA ControlStep ==
    ASSUME Invariant, NEW p \in Processes, StepOf(p)
    PROVE  Control' /\ Own(p)
<1> Control /\ Fits(pc[p], op[p]) /\ (pc[p] \in Locked => lock = p)
  BY DEF Invariant, TypeOK, Control, LocalsTyped, Locks, OpsFit
<1> USE DEF Locked, Promoting, Fits, Locations
<1> USE DEF End, Refuse, RolledBack, Retired, RemoveBackup
<1>1. CASE Open(p)
  BY <1>1, GotoMoves DEF Open
<1>2. CASE BeginRefresh(p)
  <2>1. LocalsTyped' /\ Own(p)
    BY <1>2 DEF BeginRefresh, Control, LocalsTyped, Own
  <2> QED
    BY <1>2, <2>1, AssignMoves DEF BeginRefresh, Control, LocalsTyped, Locks
<1>3. CASE Probe(p)
  BY <1>3, GotoMoves, RecoveredMoves DEF Probe
<1>4. CASE TryLock(p)
  <2>1. CASE lock = "free"
    <3>1. LocalsTyped' /\ Own(p)
      BY <1>4, <2>1 DEF TryLock, localVars, Control, LocalsTyped, Own
    <3> QED
      BY <1>4, <2>1, <3>1, AssignMoves
      DEF TryLock, localVars, Control, LocalsTyped, Locks
  <2> QED
    BY <1>4, <2>1, RecoveredMoves DEF TryLock
<1>5. CASE Recover(p)
  <2>1. CASE UndoPrepared(p) /\ prepared.kind = "whole"
    <3>1. prepared \in Journals
      BY DEF Invariant, TypeOK
    <3>2. LocalsTyped' /\ Own(p)
      BY <2>1, <3>1 DEF UndoPrepared, Step, Control, LocalsTyped, Own
    <3> QED
      BY <1>5, <2>1, <3>2, AssignMoves
      DEF Recover, UndoPrepared, Step, Control, LocalsTyped, Locks
  <2> QED
    BY <1>5, <2>1, ReturnMoves, GotoMoves, RecoveredMoves
    DEF Recover, ResumeCommitted, UndoPrepared, RestoreLegacyBackup
<1>6. CASE Rollback(p)
  BY <1>6, ReturnMoves, GotoMoves DEF Rollback
<1>7. CASE RemovePrepared(p)
  BY <1>7, ReturnMoves, GotoMoves, RecoveredMoves DEF RemovePrepared
<1>8. CASE DropRollbackCopy(p)
  BY <1>8, ReturnMoves, RecoveredMoves DEF DropRollbackCopy
<1>9. CASE RetireBackup(p)
  BY <1>9, ReturnMoves, GotoMoves, RecoveredMoves DEF RetireBackup
<1>10. CASE RetireJournal(p)
  BY <1>10, ReturnMoves, RecoveredMoves DEF RetireJournal
<1>11. CASE OpenLive(p)
  BY <1>11, ReturnMoves DEF OpenLive
<1>12. CASE Stage(p)
  <2>1. [generation |-> live.publication.generation + 1, run |-> runs]
          \in Publications
    BY DEF Invariant, TypeOK, Databases, Publications
  <2>2. LocalsTyped' /\ Own(p)
    BY <1>12, <2>1 DEF Stage, Step, Control, LocalsTyped, Own
  <2> QED
    BY <1>12, <2>2, AssignMoves DEF Stage, Step, Control, LocalsTyped, Locks
<1>13. CASE GiveUp(p)
  BY <1>13, ReturnMoves DEF GiveUp
<1>14. CASE Lock(p)
  <2>1. LocalsTyped' /\ Own(p)
    BY <1>14 DEF Lock, Control, LocalsTyped, Own
  <2> QED
    BY <1>14, <2>1, AssignMoves DEF Lock, Control, LocalsTyped, Locks
<1>15. CASE Admit(p)
  <2>1. CASE End(p)
    BY <2>1, ReturnMoves
  <2>2. CASE ~End(p)
    <3>1. Journal(live.publication, candidate[p]) \in Journals
      BY DEF Invariant, TypeOK, Databases, Journals, Journal
    <3>2. LocalsTyped' /\ Own(p)
      BY <1>15, <2>2, <3>1 DEF Admit, Step, Control, LocalsTyped, Own
    <3> QED
      BY <1>15, <2>2, <3>2, AssignMoves
      DEF Admit, Step, Control, LocalsTyped, Locks
  <2> QED
    BY <2>1, <2>2
<1>16. CASE BeginCopy(p)
  BY <1>16, ReturnMoves, GotoMoves DEF BeginCopy
<1>17. CASE FinishCopy(p)
  BY <1>17, ReturnMoves, GotoMoves DEF FinishCopy
<1>18. CASE CreateJournal(p)
  BY <1>18, GotoMoves DEF CreateJournal
<1>19. CASE WriteJournal(p)
  BY <1>19, ReturnMoves, GotoMoves DEF WriteJournal
<1>20. CASE DiscardCopy(p)
  BY <1>20, ReturnMoves DEF DiscardCopy
<1>21. CASE OpenForRestore(p)
  BY <1>21, ReturnMoves, GotoMoves DEF OpenForRestore
<1>22. CASE RestoreStaged(p)
  BY <1>22, GotoMoves DEF RestoreStaged
<1>23. CASE ValidatePromoted(p)
  BY <1>23, ReturnMoves, GotoMoves DEF ValidatePromoted
<1>24. CASE Commit(p)
  BY <1>24, ReturnMoves, GotoMoves DEF Commit
<1>25. CASE Crash(p)
  BY <1>25, ReturnMoves DEF Crash
<1> QED
  BY <1>1, <1>2, <1>3, <1>4, <1>5, <1>6, <1>7, <1>8, <1>9, <1>10, <1>11, <1>12,
     <1>13, <1>14, <1>15, <1>16, <1>17, <1>18, <1>19, <1>20, <1>21, <1>22,
     <1>23, <1>24, <1>25
  DEF StepOf, Advance

-----------------------------------------------------------------------------
(* The files, and what the process at the lock knows of them.              *)

\* A process that holds the lock is alone there; the other processes know
\* nothing of the files, so what they know stays true.
LEMMA OthersStay ==
    ASSUME Positions, Locks, NEW p \in Processes, Own(p), pc[p] \in Locked
    PROVE  \A q \in Processes \ {p} : Position(q)'
  BY DEF Positions, Position, Locks, Own, Locked, Promoting, NoJournals,
         CopyMade

\* Each action leaves the files such that recovery can resolve them, and its
\* process knows of them what it relies on next.
LEMMA DiskStep ==
    ASSUME Invariant, NEW p \in Processes, OpsFit', StepOf(p)
    PROVE  Files' /\ Disk' /\ NoConflict' /\ Position(p)'
<1> Position(p) /\ Fits(pc[p], op[p]) /\ Fits(pc[p], op[p])'
  BY DEF Invariant, Positions, OpsFit
<1> TypeOK /\ Files /\ Disk /\ NoConflict
  BY DEF Invariant
<1> USE DEF Absent, Blank, TornCopy, Database, NoPublication, NoJournal,
            TornJournal, Journal
<1> USE DEF TypeOK, Fits, Promoting, Files, Complete, Plans, Named, Disk,
            Undoable, NoJournals, CopyMade, NoConflict, Position
<1> USE DEF Databases, Journals, Publications
<1> USE DEF Step, Goto, Return, End, Refuse, Recovered, RolledBack, Retired,
            RemoveBackup
<1> USE DEF diskVars, localVars, resultVars
<1>1. CASE Open(p)
  BY <1>1 DEF Open
<1>2. CASE BeginRefresh(p)
  BY <1>2 DEF BeginRefresh, Exists
<1>3. CASE Probe(p)
  BY <1>3 DEF Probe, promotion_artifacts_exist, Exists
<1>4. CASE TryLock(p)
  BY <1>4 DEF TryLock
<1>5. CASE Recover(p)
  BY <1>5
  DEF Recover, ResumeCommitted, UndoPrepared, RestoreLegacyBackup,
      promotion_artifacts_exist, Exists
<1>6. CASE Rollback(p)
  BY <1>6 DEF Rollback, RollbackRefuses, Exists
<1>7. CASE RemovePrepared(p)
  BY <1>7 DEF RemovePrepared
<1>8. CASE DropRollbackCopy(p)
  BY <1>8 DEF DropRollbackCopy
<1>9. CASE RetireBackup(p)
  BY <1>9 DEF RetireBackup
<1>10. CASE RetireJournal(p)
  BY <1>10 DEF RetireJournal
<1>11. CASE OpenLive(p)
  BY <1>11 DEF OpenLive, Exists
<1>12. CASE Stage(p)
  BY <1>12 DEF Stage
<1>13. CASE GiveUp(p)
  BY <1>13 DEF GiveUp
<1>14. CASE Lock(p)
  BY <1>14 DEF Lock
<1>15. CASE Admit(p)
  BY <1>15 DEF Admit, promotion_artifacts_exist, Exists
<1>16. CASE BeginCopy(p)
  BY <1>16 DEF BeginCopy
<1>17. CASE FinishCopy(p)
  BY <1>17 DEF FinishCopy
<1>18. CASE CreateJournal(p)
  BY <1>18 DEF CreateJournal
<1>19. CASE WriteJournal(p)
  BY <1>19 DEF WriteJournal
<1>20. CASE DiscardCopy(p)
  BY <1>20 DEF DiscardCopy
<1>21. CASE OpenForRestore(p)
  BY <1>21 DEF OpenForRestore, Exists
<1>22. CASE RestoreStaged(p)
  BY <1>22 DEF RestoreStaged
<1>23. CASE ValidatePromoted(p)
  BY <1>23 DEF ValidatePromoted
<1>24. CASE Commit(p)
  BY <1>24 DEF Commit, Exists
<1>25. CASE Crash(p)
  BY <1>25 DEF Crash
<1> QED
  BY <1>1, <1>2, <1>3, <1>4, <1>5, <1>6, <1>7, <1>8, <1>9, <1>10, <1>11, <1>12,
     <1>13, <1>14, <1>15, <1>16, <1>17, <1>18, <1>19, <1>20, <1>21, <1>22,
     <1>23, <1>24, <1>25
  DEF StepOf, Advance

\* The types of what DiskStep and ControlStep leave out.
LEMMA ResultsTyped ==
    ASSUME Invariant, NEW p \in Processes, StepOf(p)
    PROVE  /\ refused' \subseteq {"torn", "conflict"}
           /\ runs' \in Nat
           /\ acknowledged' \subseteq Publications
<1> USE DEF StepOf, Advance, Open, BeginRefresh, Lock, Probe, TryLock, Recover,
            ResumeCommitted, UndoPrepared, RestoreLegacyBackup, Rollback,
            RemovePrepared, DropRollbackCopy, RetireBackup, RetireJournal,
            OpenLive, Stage, GiveUp, Admit, BeginCopy, FinishCopy,
            CreateJournal, WriteJournal, DiscardCopy, OpenForRestore,
            RestoreStaged, ValidatePromoted, Commit, Crash
<1> USE DEF Step, Goto, Return, End, Refuse, Recovered, RolledBack, Retired,
            RemoveBackup, diskVars, localVars, resultVars
<1>1. refused' \in {refused, refused \cup {"torn"}, refused \cup {"conflict"}}
  OBVIOUS
<1>2. runs' \in {runs, runs + 1}
  OBVIOUS
<1>3. acknowledged' \in {acknowledged, acknowledged \cup {candidate[p]}}
  OBVIOUS
<1> QED
  BY ONLY <1>1, <1>2, <1>3, Invariant, p \in Processes DEF Invariant, TypeOK

\* A process without the lock changes no file, except that an opener creates
\* an absent live store, which a promoter at the lock does not notice.
LEMMA OutsideStays ==
    ASSUME Invariant, NEW p \in Processes, Own(p), pc[p] \notin Locked,
           StepOf(p)
    PROVE  \A q \in Processes \ {p} : Position(q)'
<1>1. UNCHANGED <<backup, prepared, committed>>
  BY DEF Locked, Promoting, StepOf, Advance, Open, BeginRefresh, Lock, Probe,
         TryLock, Recover, Rollback, RemovePrepared, DropRollbackCopy,
         RetireBackup, RetireJournal, OpenLive, Stage, GiveUp, Admit,
         BeginCopy, FinishCopy, CreateJournal, WriteJournal, DiscardCopy,
         OpenForRestore, RestoreStaged, ValidatePromoted, Commit, Crash,
         diskVars
<1>2. live' = live \/ OpenLive(p)
  BY DEF Locked, Promoting, StepOf, Advance, Open, BeginRefresh, Lock, Probe,
         TryLock, Recover, Rollback, RemovePrepared, DropRollbackCopy,
         RetireBackup, RetireJournal, Stage, GiveUp, Admit, BeginCopy,
         FinishCopy, CreateJournal, WriteJournal, DiscardCopy, OpenForRestore,
         RestoreStaged, ValidatePromoted, Commit, Crash, diskVars
<1>3. live' = live \/ (live = Absent /\ live' = Blank)
  <2>1. ~Exists(live) => live = Absent
    BY DEF Invariant, Files, Complete, Exists, Blank
  <2> QED
    BY <1>2, <2>1 DEF OpenLive
<1> QED
  BY <1>1, <1>3
  DEF Invariant, Positions, Position, Own, NoJournals, CopyMade, Absent, Blank,
      Database

\* The store is in order when it is first opened.
LEMMA InvariantInit == Init => Invariant
<1> SUFFICES ASSUME Init PROVE Invariant
  OBVIOUS
<1> USE DEF Init, Absent, Blank, Database, NoPublication, NoJournal, Exists
<1>1. TypeOK
  BY DEF TypeOK, Locations, Databases, Journals, Publications
<1>2. Locks /\ OpsFit
  BY PromotionAssumption DEF Locks, Locked, Promoting, OpsFit, Fits
<1>3. Files
  BY DEF Files, Complete, Named, Databases, Publications
<1>4. Disk
  BY DEF Disk
<1>5. Positions /\ NoConflict
  BY DEF Positions, Position, NoConflict
<1> QED
  BY <1>1, <1>2, <1>3, <1>4, <1>5 DEF Invariant

\* Every step keeps it so.
LEMMA InvariantStep == Invariant /\ [Next]_vars => Invariant'
<1>1. ASSUME Invariant, UNCHANGED vars PROVE Invariant'
  BY <1>1
  DEF vars, diskVars, localVars, resultVars, Invariant, TypeOK, Locks, OpsFit,
      Files, Disk, Undoable, Positions, Position, NoJournals, CopyMade,
      NoConflict
<1>2. ASSUME Invariant, NEW p \in Processes, StepOf(p)
      PROVE  Invariant'
  <2>1. Control' /\ Own(p)
    BY <1>2, ControlStep
  <2>2. Files' /\ Disk' /\ NoConflict' /\ Position(p)'
    BY <1>2, <2>1, DiskStep DEF Control
  <2>3. \A q \in Processes \ {p} : Position(q)'
    BY <1>2, <2>1, OthersStay, OutsideStays DEF Invariant
  <2>4. TypeOK'
    <3>1. /\ (live \in Databases /\ backup \in Databases)'
          /\ (prepared \in Journals /\ committed \in Journals)'
      BY <2>2
      DEF Files, Complete, Plans, Named, Absent, Blank, TornCopy, NoJournal,
          TornJournal, NoPublication, Databases, Journals, Publications
    <3> QED
      BY <1>2, <2>1, <3>1, ResultsTyped DEF TypeOK, Control, LocalsTyped
  <2> QED
    BY <2>1, <2>2, <2>3, <2>4 DEF Invariant, Control, Positions
<1> QED
  BY <1>1, <1>2 DEF Next, StepOf

\* At every moment the files are such that recovery can resolve them, and each
\* process at the promotion lock is right about them.
THEOREM InvariantHolds == Spec => []Invariant
  BY InvariantInit, InvariantStep, PTL DEF Spec

-----------------------------------------------------------------------------
(* The theorems about the files.                                           *)

\* The type invariant holds of every behaviour.
THEOREM TypeCorrect == Spec => []TypeOK
  BY InvariantHolds, PTL DEF Invariant

\* Whatever a promotion or a recovery leaves behind when it crashes or fails,
\* the identity checks of the next recovery accept it.
THEOREM NoConflictHolds == Spec => []NoConflict
  BY InvariantHolds, PTL DEF Invariant

\* A prepared journal that names a previous publication has its rollback copy.
THEOREM RollbackCopyKeptHolds == Spec => []RollbackCopyKept
<1>1. Invariant => RollbackCopyKept
  BY DEF Invariant, Disk, Undoable, RollbackCopyKept
<1> QED
  BY <1>1, InvariantHolds, PTL

\* By what the journals on disk say.
LEMMA OldOrNew == Invariant => LiveIsOldOrNew
<1> SUFFICES ASSUME Invariant PROVE LiveIsOldOrNew
  OBVIOUS
<1> USE DEF Invariant, Files, Disk, LiveIsOldOrNew, Published
<1> USE DEF Absent, Blank, TornCopy, Database, NoPublication, NoJournal,
            TornJournal
<1>1. CASE committed.kind = "whole"
  BY <1>1
<1>2. CASE committed.kind # "whole" /\ prepared.kind = "whole"
  BY <1>2 DEF Undoable
<1>3. CASE committed.kind # "whole" /\ prepared.kind # "whole"
  <2>1. CASE backup.kind = "complete" /\ live.publication = NoPublication
    BY <1>3, <2>1 DEF Complete, Plans, Named, Databases, Publications
  <2>2. CASE live.publication # NoPublication
    BY <1>3, <2>2
  <2>3. CASE backup.kind # "complete"
    BY <1>3, <2>3 DEF Complete
  <2> QED
    BY <2>1, <2>2, <2>3
<1> QED
  BY <1>1, <1>2, <1>3

\* An open of the live file finds the published index or the candidate of a
\* prepared journal, never a third one.
THEOREM LiveIsOldOrNewHolds == Spec => []LiveIsOldOrNew
  BY OldOrNew, InvariantHolds, PTL

-----------------------------------------------------------------------------
(* Generations.                                                            *)

Numbered == Invariant /\ Generations

\* What is published is a publication.
LEMMA PublishedTyped == Invariant => Published \in Publications
  BY DEF Invariant, TypeOK, Published, Databases, Journals

\* The live file, from which a candidate is numbered, is never behind what is
\* published, even while a promotion is under way or to be undone, unless that
\* is a legacy backup.
LEMMA Base ==
    ASSUME Numbered
    PROVE  \/ Published \in Leftover
           \/ live.publication.generation >= Published.generation
<1> USE DEF Numbered, Generations, Invariant, TypeOK, Files, Disk, Published
<1> USE DEF Databases, Journals, Publications, NoPublication
<1>1. CASE committed.kind = "whole"
  BY <1>1
<1>2. CASE committed.kind # "whole" /\ prepared.kind = "whole"
  BY <1>2 DEF Undoable, Exceeds
<1>3. CASE committed.kind # "whole" /\ prepared.kind # "whole"
  <2>1. CASE live.publication # NoPublication
    BY <1>3, <2>1
  <2>2. CASE live.publication = NoPublication
    <3>1. backup.kind = "complete" => live = Blank
      BY <1>3, <2>2 DEF Complete, Named, Plans, Absent, Blank, NoJournal
    <3> QED
      BY <1>3, <2>2, <3>1 DEF Complete, Absent, TornCopy
  <2> QED
    BY <2>1, <2>2
<1> QED
  BY <1>1, <1>2, <1>3

\* Only Commit changes what is published.
LEMMA OnlyCommitPublishes ==
    ASSUME Numbered, NEW p \in Processes, StepOf(p), ~Commit(p)
    PROVE  Published' = Published
<1> Position(p) /\ Fits(pc[p], op[p]) 
  BY DEF Numbered, Invariant, Positions, OpsFit
<1> TypeOK /\ Files /\ Disk /\ Generations
  BY DEF Numbered, Invariant
<1> USE DEF Absent, Blank, TornCopy, Database, NoPublication, NoJournal,
            TornJournal, Journal
<1> USE DEF TypeOK, Files, Complete, Plans, Named, Disk, Undoable, NoJournals,
            CopyMade, Position, Published
<1> USE DEF Databases, Journals, Publications, Fits, Promoting, Generations
<1> USE DEF RemoveBackup, diskVars
<1>1. CASE Open(p)
  BY <1>1 DEF Open
<1>2. CASE BeginRefresh(p)
  BY <1>2 DEF BeginRefresh, Exists
<1>3. CASE Probe(p)
  BY <1>3 DEF Probe, promotion_artifacts_exist, Exists
<1>4. CASE TryLock(p)
  BY <1>4 DEF TryLock
<1>5. CASE Recover(p)
  BY <1>5
  DEF Recover, ResumeCommitted, UndoPrepared, RestoreLegacyBackup,
      promotion_artifacts_exist, Exists
<1>6. CASE Rollback(p)
  BY <1>6 DEF Rollback, RollbackRefuses, Exists
<1>7. CASE RemovePrepared(p)
  BY <1>7 DEF RemovePrepared
<1>8. CASE DropRollbackCopy(p)
  BY <1>8 DEF DropRollbackCopy
<1>9. CASE RetireBackup(p)
  BY <1>9 DEF RetireBackup
<1>10. CASE RetireJournal(p)
  BY <1>10 DEF RetireJournal
<1>11. CASE OpenLive(p)
  BY <1>11 DEF OpenLive, Exists
<1>12. CASE Stage(p)
  BY <1>12 DEF Stage
<1>13. CASE GiveUp(p)
  BY <1>13 DEF GiveUp
<1>14. CASE Lock(p)
  BY <1>14 DEF Lock
<1>15. CASE Admit(p)
  BY <1>15 DEF Admit, promotion_artifacts_exist, Exists
<1>16. CASE BeginCopy(p)
  BY <1>16 DEF BeginCopy
<1>17. CASE FinishCopy(p)
  BY <1>17 DEF FinishCopy
<1>18. CASE CreateJournal(p)
  BY <1>18 DEF CreateJournal
<1>19. CASE WriteJournal(p)
  BY <1>19 DEF WriteJournal
<1>20. CASE DiscardCopy(p)
  BY <1>20 DEF DiscardCopy
<1>21. CASE OpenForRestore(p)
  BY <1>21 DEF OpenForRestore, Exists
<1>22. CASE RestoreStaged(p)
  BY <1>22 DEF RestoreStaged
<1>23. CASE ValidatePromoted(p)
  BY <1>23 DEF ValidatePromoted
<1>24. CASE Crash(p)
  BY <1>24 DEF Crash
<1> QED
  BY <1>1, <1>2, <1>3, <1>4, <1>5, <1>6, <1>7, <1>8, <1>9, <1>10, <1>11, <1>12,
     <1>13, <1>14, <1>15, <1>16, <1>17, <1>18, <1>19, <1>20, <1>21, <1>22,
     <1>23, <1>24
  DEF StepOf, Advance

\* The rename of the journal publishes the candidate, a later generation
\* unless what it replaces is a legacy backup.
LEMMA CommitPublishes ==
    ASSUME Numbered, NEW p \in Processes, Commit(p)
    PROVE  /\ acknowledged' = acknowledged
           /\ op[p] = "publish"
           /\ \/ Published' = Published
              \/ /\ Published' = candidate[p]
                 /\ pc'[p] \in {"retireBackup", "idle"}
                 /\ Exceeds(candidate[p], Published)
                 /\ candidate[p] \in Named
<1>1. op[p] = "publish" /\ Position(p) /\ Disk /\ TypeOK /\ Files
  BY DEF Numbered, Invariant, Positions, OpsFit, Fits, Promoting, Commit
<1>2. Exceeds(candidate[p], Published) /\ candidate[p] \in Named
  BY <1>1 DEF Numbered, Generations, Pending, Commit, Position
<1>3. pc[p] = "commit"
  BY DEF Commit
<1>4. \/ Published' = Published
      \/ Published' = candidate[p] /\ pc'[p] \in {"retireBackup", "idle"}
  BY <1>1, <1>3
  DEF Commit, Position, Published, Disk, NoJournal, Goto, Step, End, Return,
      TypeOK, Files, Plans
<1> QED
  BY <1>1, <1>2, <1>4 DEF Commit, Goto, Step, End, resultVars

\* An Ok is given only for what is published.
LEMMA Acknowledges ==
    ASSUME Numbered, NEW p \in Processes, StepOf(p)
    PROVE  \/ acknowledged' = acknowledged
           \/ acknowledged' = acknowledged \cup {Published} /\ ~Commit(p)
<1> USE DEF StepOf, Open, BeginRefresh, Lock, Probe, TryLock, Recover,
            ResumeCommitted, UndoPrepared, RestoreLegacyBackup, Rollback,
            RemovePrepared, DropRollbackCopy, OpenLive, Stage, GiveUp, Admit,
            BeginCopy, FinishCopy, CreateJournal, WriteJournal, DiscardCopy,
            OpenForRestore, RestoreStaged, ValidatePromoted, Commit, Crash
<1> USE DEF Step, Goto, End, Refuse, Recovered, RolledBack, RemoveBackup,
            resultVars
<1>1. acknowledged' = acknowledged \/ RetireBackup(p) \/ RetireJournal(p)
  BY DEF StepOf, Advance
<1>2. ASSUME RetireBackup(p) \/ RetireJournal(p)
      PROVE  /\ \/ acknowledged' = acknowledged
                \/ acknowledged' = acknowledged \cup {candidate[p]}
             /\ op[p] # "publish" => acknowledged' = acknowledged
             /\ pc[p] \in {"retireBackup", "retireJournal"}
  BY <1>2 DEF RetireBackup, RetireJournal, Retired
<1>3. ASSUME pc[p] \in {"retireBackup", "retireJournal"}, op[p] = "publish"
      PROVE  candidate[p] = Published
  BY <1>3 DEF Numbered, Invariant, Positions, Position, Published
<1> QED
  BY <1>1, <1>2, <1>3

\* A candidate is numbered after what is published when it is staged, and
\* until its own commit nothing else is published: its writer has the lock.
LEMMA PendingStep ==
    ASSUME Numbered, NEW p \in Processes, StepOf(p), Invariant'
    PROVE  Pending(p)' => Exceeds(candidate'[p], Published')
<1> Fits(pc[p], op[p]) /\ Fits(pc[p], op[p])'
  BY DEF Numbered, Invariant, OpsFit
<1>t. TypeOK /\ TypeOK'
  BY DEF Numbered, Invariant
<1>1. CASE Stage(p)
  <2>1. Published' = Published
    BY <1>1, OnlyCommitPublishes DEF StepOf, Stage, Commit
  <2>2. /\ candidate'[p].generation = live.publication.generation + 1
        /\ candidate'[p].run = runs
    BY <1>1, <1>t DEF Stage, TypeOK
  <2>3. runs > 0
    BY <1>1 DEF Stage, Fits, Numbered, Generations
  <2> QED
    BY <2>1, <2>2, <2>3, Base, PublishedTyped, <1>t
    DEF Numbered, TypeOK, Databases, Publications, Exceeds
<1>2. CASE Commit(p)
  <2>1. CASE Published' = Published
    BY <1>2, <2>1, <1>t
    DEF Numbered, Generations, Pending, Commit, Goto, Step, End, Return,
        localVars, TypeOK, Fits, Promoting
  <2>2. CASE pc'[p] \in {"retireBackup", "idle"}
    BY <1>2, <2>2, <1>t
    DEF Pending, Fits, Commit, Goto, Step, End, Return, localVars, TypeOK,
        Promoting
  <2> QED
    BY <1>2, <2>1, <2>2, CommitPublishes
<1>3. CASE ~Stage(p) /\ ~Commit(p)
  <2>1. Published' = Published
    BY <1>3, OnlyCommitPublishes
  <2>2. Pending(p)' => Pending(p) /\ candidate'[p] = candidate[p]
    BY <1>3, <1>t
    DEF TypeOK, Pending, Fits, Promoting, StepOf, Advance, Open, BeginRefresh,
        Lock, Probe, TryLock, Recover, ResumeCommitted, UndoPrepared,
        RestoreLegacyBackup, Rollback, RemovePrepared, DropRollbackCopy,
        RetireBackup, RetireJournal, OpenLive, GiveUp, Admit, BeginCopy,
        FinishCopy, CreateJournal, WriteJournal, DiscardCopy, OpenForRestore,
        RestoreStaged, ValidatePromoted, Crash, Step, Goto, Return, End,
        Refuse, Recovered, RolledBack, Retired, RemoveBackup, localVars
  <2> QED
    BY <2>1, <2>2 DEF Numbered, Generations
<1> QED
  BY <1>1, <1>2, <1>3

\* A finished rollback copy is there only beside a live file, complete or just
\* created.
LEMMA CopyBesideLive ==
    Invariant => (backup.kind = "complete" =>
                    live.kind = "complete" \/ live = Blank)
<1> SUFFICES ASSUME Invariant, backup.kind = "complete", live # Blank
             PROVE  live.kind = "complete"
  OBVIOUS
<1>1. Files /\ Disk /\ backup \in Complete /\ live # Blank
  BY DEF Invariant, Files, Absent, TornCopy
<1> USE DEF Files, Complete, Named, Plans, Absent, Blank, NoJournal,
            TornJournal, NoPublication, Publications, Databases
<1>2. CASE prepared.kind = "whole"
  BY <1>1, <1>2 DEF Disk, Undoable, Database
<1>3. CASE committed.kind = "whole"
  BY <1>1, <1>3 DEF Disk
<1>4. CASE prepared.kind # "whole" /\ committed.kind # "whole"
  BY <1>1, <1>4 DEF Disk
<1> QED
  BY <1>2, <1>3, <1>4

\* Every step keeps the generations in order.
LEMMA GenerationsStep ==
    ASSUME Numbered, NEW p \in Processes, StepOf(p), Invariant'
    PROVE  Generations'
<1> Position(p) /\ Fits(pc[p], op[p]) /\ TypeOK /\ Disk /\ Files /\ Generations
  BY DEF Numbered, Invariant, Positions, OpsFit
<1> USE DEF StepOf, Advance, Open, BeginRefresh, Lock, Probe, TryLock, Recover,
            ResumeCommitted, UndoPrepared, RestoreLegacyBackup, Rollback,
            RemovePrepared, DropRollbackCopy, RetireBackup, RetireJournal,
            OpenLive, Stage, GiveUp, Admit, BeginCopy, FinishCopy,
            CreateJournal, WriteJournal, DiscardCopy, OpenForRestore,
            RestoreStaged, ValidatePromoted, Commit, Crash, RemoveBackup,
            diskVars
<1>1. (backup.kind = "complete" /\ live = Blank =>
          backup.publication \in Leftover)'
  <2>1. backup.kind = "complete" => live.kind = "complete" \/ live = Blank
    BY CopyBesideLive DEF Numbered
  <2>2. backup' \in {backup, Absent, TornCopy}
        \/ (backup' = live /\ live' = live /\ live.publication # NoPublication)
    BY DEF Position
  <2>3. \/ live' \in {live, Absent, backup, Database(candidate[p])}
        \/ ~Exists(live) /\ backup' = backup
    BY DEF Exists
  <2> QED
    BY <2>1, <2>2, <2>3
    DEF Generations, Exists, Absent, Blank, TornCopy, Database, Leftover
<1>2. (prepared.kind = "whole" =>
          Exceeds(prepared.candidate, prepared.previous))'
  <2>1. \/ prepared' \in {prepared, NoJournal, TornJournal}
        \/ pc[p] = "writing" /\ prepared' = journal[p]
    OBVIOUS
  <2>2. ASSUME pc[p] = "writing"
        PROVE  /\ journal[p].candidate = candidate[p]
               /\ journal[p].previous = Published
    BY <2>2
    DEF Position, CopyMade, Journal, Published, Disk, NoJournal, TornJournal,
        Files, Plans, Absent, NoPublication
  <2>3. ASSUME pc[p] = "writing"
        PROVE  Exceeds(candidate[p], Published)
    BY <2>3 DEF Generations, Pending, Fits, Promoting
  <2> QED
    BY <2>1, <2>2, <2>3
    DEF Generations, NoJournal, TornJournal, Exceeds, Leftover
<1>3. \A q \in Processes : Pending(q)' => Exceeds(candidate'[q], Published')
  <2> TAKE q \in Processes
  <2>1. CASE q = p
    BY <2>1, PendingStep
  <2>2. CASE q # p /\ Pending(q)'
    <3>1. Own(p)
      BY ControlStep DEF Numbered
    <3>2. Pending(q) /\ candidate'[q] = candidate[q]
      BY <2>2, <3>1 DEF Own, Pending
    <3>3. ~Commit(p)
      <4>1. op[q] # "open"
        BY <3>2 DEF Numbered, Invariant, OpsFit, Fits, Pending
      <4>2. Commit(p) => op[p] = "publish"
        BY CommitPublishes
      <4> QED
        BY <4>1, <4>2, <2>2 DEF Numbered, Invariant, Locks
    <3> QED
      BY <3>2, <3>3, OnlyCommitPublishes DEF Numbered, Generations
  <2> QED
    BY <2>1, <2>2
<1>4. AcknowledgedStays'
  <2>1. Published' = Published \/ Published'.generation >= Published.generation
    <3>1. \/ Published' = Published
          \/ Exceeds(candidate[p], Published) /\ candidate[p] \in Named
             /\ Published' = candidate[p]
      BY OnlyCommitPublishes, CommitPublishes
    <3>2. Published \in Publications
      BY PublishedTyped DEF Numbered
    <3> QED
      BY ONLY <3>1, <3>2 DEF Exceeds, Leftover, Named, Publications
  <2>2. acknowledged' \subseteq acknowledged \cup {Published}
    BY Acknowledges
  <2>3. Published \in Publications /\ Published' \in Publications
    BY PublishedTyped
    DEF Numbered, Invariant, TypeOK, Published, Databases, Journals
  <2> QED
    BY <2>1, <2>2, <2>3
    DEF AcknowledgedStays, Generations, TypeOK, Publications
<1>5. \A q \in Processes : op'[q] # "open" => runs' > 0
  <2>1. Own(p)
    BY ControlStep DEF Numbered
  <2>2. runs' = runs \/ runs' = runs + 1
    BY DEF Step, Goto, Return, End, Refuse, Recovered, RolledBack, Retired
  <2>3. op'[p] # "open" => op[p] # "open" \/ runs' = runs + 1
    BY DEF Step, Goto, Return, End, Refuse, Recovered, RolledBack, Retired,
           localVars, TypeOK, Fits, Promoting
  <2> QED
    BY <2>1, <2>2, <2>3 DEF Generations, TypeOK, Own
<1> QED
  BY <1>1, <1>2, <1>3, <1>4, <1>5 DEF Generations, Exceeds, Leftover

\* Generations are in order in the stores that a version leaves behind.
LEMMA NumberedInit == Init => Numbered
<1> SUFFICES ASSUME Init PROVE Generations
  BY InvariantInit DEF Numbered
<1> USE DEF Init, Absent, Blank, Database, NoPublication, NoJournal, Exists
<1> QED
  BY DEF Generations, Pending, AcknowledgedStays, Leftover

\* Every step keeps the whole invariant.
LEMMA NumberedStep == Numbered /\ [Next]_vars => Numbered'
<1>1. ASSUME Numbered, UNCHANGED vars PROVE Generations'
  BY <1>1
  DEF Numbered, Generations, Exceeds, Leftover, Pending, AcknowledgedStays,
      Published, vars, diskVars, localVars, resultVars
<1> QED
  BY <1>1, InvariantStep, GenerationsStep DEF Numbered, Next, StepOf

\* The numbering of generations is right throughout.
THEOREM NumberedHolds == Spec => []Numbered
  BY NumberedInit, NumberedStep, PTL DEF Spec

\* A promotion that was reported as successful is never undone.
THEOREM AcknowledgedStaysHolds == Spec => []AcknowledgedStays
<1>1. Numbered => AcknowledgedStays
  BY DEF Numbered, Generations
<1> QED
  BY <1>1, NumberedHolds, PTL

\* promote_staged_snapshot and the recovery, with crashes and failing file
\* operations at every step, implement one published index that is only ever
\* replaced by a complete one of a later generation, or, where a version
\* without journals was interrupted, by one that need only be a refresh's own.
THEOREM ImplementsPublishedIndexHolds == Spec => ImplementsPublishedIndex
<1>1. Init => Index!Init
  BY PublishedTyped, InvariantInit DEF Init, Index!Init
<1>2. Numbered /\ [Next]_vars =>
        [Index!Publish \/ Index!Acknowledge]_<<Published, acknowledged>>
  <2> SUFFICES
        ASSUME Numbered, Numbered', [Next]_vars
        PROVE  [Index!Publish \/ Index!Acknowledge]_<<Published, acknowledged>>
    BY NumberedStep
  <2>1. CASE UNCHANGED vars
    BY <2>1 DEF vars, diskVars, resultVars, Published
  <2>2. ASSUME NEW p \in Processes, StepOf(p)
        PROVE  [Index!Publish \/ Index!Acknowledge]_<<Published, acknowledged>>
    <3>1. CASE Commit(p)
      <4>1. (Published \in Publications)'
        BY PublishedTyped
        DEF Numbered, Invariant, TypeOK, Published, Databases, Journals
      <4> QED
        BY <3>1, <4>1, CommitPublishes DEF Index!Publish, Exceeds, Leftover
    <3>2. CASE ~Commit(p)
      BY <2>2, <3>2, OnlyCommitPublishes, Acknowledges DEF Index!Acknowledge
    <3> QED
      BY <3>1, <3>2
  <2> QED
    BY <2>1, <2>2 DEF Next, StepOf
<1>3. Spec => []Numbered
  BY NumberedHolds
<1> QED
  BY <1>1, <1>2, <1>3, PTL DEF Spec, ImplementsPublishedIndex, Index!Spec
=============================================================================
