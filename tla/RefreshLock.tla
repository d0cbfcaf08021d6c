---------------------------- MODULE RefreshLock ----------------------------
(***************************************************************************)
(* The single-flight lock of the local refresh: `ready` and `preflight`    *)
(* processes that find the index stale and refresh it, at most one at a    *)
(* time (codestory-cli/src/local_refresh_status.rs and its caller          *)
(* app/readiness_commands/local_freshness.rs).                             *)
(*                                                                         *)
(* The lock is a file naming its owner by process and start identity; the  *)
(* status is a second file, replaced atomically, that a heartbeat renews.  *)
(* Every change of either is made under an flock of a third file, the      *)
(* guard, which a process that ends gives up.  A process may end anywhere, *)
(* also between creating the lock file and filling it, and every file      *)
(* operation may fail, reads included: a file that cannot be read counts   *)
(* as absent or unreadable, whatever it holds.                             *)
(*                                                                         *)
(* A process makes one call and lives on for a while after it.  The next   *)
(* process with its number differs in start identity and token: it takes   *)
(* a name that is on no file any more, so any number of processes follow   *)
(* each other in finitely many states.                                     *)
(*                                                                         *)
(* One cache root and one project.  Left out: hosts that cannot tell a     *)
(* process's start identity.                                               *)
(***************************************************************************)
CONSTANTS
    Processes,      \* process numbers of this machine
    Names,          \* names of the processes that use one number in turn
    Nobody          \* no owner

ASSUME RefreshAssumption == Nobody \notin Processes \cup Names

VARIABLES
    life,           \* the name of the process that uses the number, or used it last
    pc,             \* where it is in wait_for_local_freshness, or "ended"
    guard,          \* the process number that holds the guard's flock
    lock,           \* the lock file: absent, torn (created, not filled), or owned
    lockAge,        \* a lock file older than LOCAL_REFRESH_LOCK_STALE_TTL is "old"
    status,         \* the status file
    beating,        \* the processes whose heartbeat thread runs
    stale,          \* the index is stale
    misread         \* history: live processes whose lock another could not read, and took for stale

vars == <<life, pc, guard, lock, lockAge, status, beating, stale, misread>>

Owner == [p : Processes, life : Names]
NoOwner == [p |-> Nobody, life |-> Nobody]
Me(p) == [p |-> p, life |-> life[p]]

Guarding == {"create", "fill", "examine", "reclaim", "recreate"}
Holding == {"recheck", "announce", "index", "stop", "report", "drop", "abandon"}
Over == {"returned", "kept"}      \* the call is over; in "kept" Drop did not get to its lock
Steps == Guarding \cup Holding \cup Over \cup {"idle", "guard", "ended"}

TypeOK ==
    /\ life \in [Processes -> Names]
    /\ pc \in [Processes -> Steps]
    /\ guard \in Processes \cup {Nobody}
    /\ lock \in [file : {"absent", "torn", "owned"}, by : Owner \cup {NoOwner}]
    /\ lock.by # NoOwner => lock.file = "owned"
    /\ lockAge \in {"young", "old"}
    /\ status \in [state : {"none", "refreshing", "ended"}, by : Owner \cup {NoOwner}, age : {"recent", "old"}]
    /\ beating \subseteq Processes
    /\ stale \in BOOLEAN
    /\ misread \subseteq Processes

Absent == [file |-> "absent", by |-> NoOwner]
Torn == [file |-> "torn", by |-> NoOwner]
OwnedBy(owner) == [file |-> "owned", by |-> owner]

Init ==
    /\ life \in {[p \in Processes |-> name] : name \in Names}
    /\ pc = [p \in Processes |-> "idle"]
    /\ guard = Nobody /\ lock = Absent /\ lockAge = "young"
    /\ status = [state |-> "none", by |-> NoOwner, age |-> "old"]
    /\ beating = {} /\ stale = TRUE /\ misread = {}

-----------------------------------------------------------------------------
Goto(p, step) == pc' = [pc EXCEPT ![p] = step]

\* process_owner_state is not GoneOrReused: the process that wrote the name
\* still runs.
Lives(owner) ==
    /\ owner # NoOwner
    /\ pc[owner.p] # "ended" /\ life[owner.p] = owner.life

\* local_refresh_lock_matches, which write_status, renew and Drop ask.
Matches(p) == lock = OwnedBy(Me(p))

\* What try_acquire reads of a lock that exists, each of which may fail: the
\* status with its lock, the lock file, its age, the owner's process.
Readings == {"status", "lock", "age", "owner"}

\* read_local_refresh_status: a refresh in progress, recently renewed, by a
\* process that runs, or cannot be told not to, and owns the lock.
ActiveStatus(reads) ==
    /\ "status" \in reads
    /\ status.state = "refreshing" /\ status.age = "recent"
    /\ "owner" \in reads => Lives(status.by)
    /\ lock = OwnedBy(status.by)

\* FAULTY: a lock whose status was not renewed for a while counts as stale.
LockIsStaleByAge(reads) ==
    IF lock.file = "owned" /\ "lock" \in reads
    THEN "owner" \in reads /\ (~Lives(lock.by) \/ status.age = "old")
    ELSE lockAge = "old" \/ "age" \notin reads

\* FAULTY: a lock file that cannot be read is never stale.
LockIsStaleReadable(reads) ==
    lock.file = "owned" /\ {"lock", "owner"} \subseteq reads /\ ~Lives(lock.by)

\* local_refresh_lock_file_is_stale: the owner is gone; or the file cannot be
\* read, or is torn, and is old, or its age cannot be read either.
LockIsStale(reads) ==
    IF lock.file = "owned" /\ "lock" \in reads
    THEN "owner" \in reads /\ ~Lives(lock.by)
    ELSE lockAge = "old" \/ "age" \notin reads

\* wait_for_local_freshness: the call ends here unless the index is stale.
Begin(p) ==
    /\ pc[p] = "idle"
    /\ Goto(p, IF stale THEN "guard" ELSE "returned")
    /\ UNCHANGED <<life, guard, lock, lockAge, status, beating, stale, misread>>

\* acquire_local_refresh_state_guard.
TakeGuard(p) ==
    /\ pc[p] = "guard" /\ guard = Nobody
    /\ guard' = p
    /\ Goto(p, "create")
    /\ UNCHANGED <<life, lock, lockAge, status, beating, stale, misread>>

\* create_local_refresh_lock_file creates the file.  When there is one it is
\* looked at, or, after an attempt to remove it, the answer is Busy.
Create(p) ==
    /\ pc[p] \in {"create", "recreate"}
    /\ \/ /\ lock = Absent
          /\ lock' = Torn /\ lockAge' = "young"
          /\ Goto(p, "fill")
          /\ UNCHANGED guard
       \/ /\ lock # Absent /\ pc[p] = "create"
          /\ Goto(p, "examine")
          /\ UNCHANGED <<guard, lock, lockAge>>
       \/ /\ lock # Absent /\ pc[p] = "recreate"
          /\ Goto(p, "returned")
          /\ guard' = Nobody
          /\ UNCHANGED <<lock, lockAge>>
    /\ UNCHANGED <<life, status, beating, stale, misread>>

\* It writes and syncs the owner: the lock is acquired.
Fill(p) ==
    /\ pc[p] = "fill"
    /\ lock' = OwnedBy(Me(p))
    /\ guard' = Nobody
    /\ Goto(p, "recheck")
    /\ UNCHANGED <<life, lockAge, status, beating, stale, misread>>

\* The lock exists: Busy when its status is active or it is not stale, as far
\* as both can be read.
Examine(p, reads) ==
    /\ pc[p] = "examine"
    /\ \/ /\ ActiveStatus(reads) \/ ~LockIsStale(reads)
          /\ guard' = Nobody /\ Goto(p, "returned")
          /\ UNCHANGED misread
       \/ /\ ~ActiveStatus(reads) /\ LockIsStale(reads)
          /\ Goto(p, "reclaim")
          /\ misread' = IF "lock" \notin reads /\ Lives(lock.by)
                         THEN misread \cup {lock.by.p} ELSE misread
          /\ UNCHANGED guard
    /\ UNCHANGED <<life, lock, lockAge, status, beating, stale>>

\* The stale lock file is removed.
Reclaim(p) ==
    /\ pc[p] = "reclaim"
    /\ lock' = Absent /\ lockAge' = "young"
    /\ Goto(p, "recreate")
    /\ UNCHANGED <<life, guard, status, beating, stale, misread>>

\* With the lock held the index is looked at again: it may be fresh by now.
Recheck(p) ==
    /\ pc[p] = "recheck"
    /\ Goto(p, IF stale THEN "announce" ELSE "drop")
    /\ UNCHANGED <<life, guard, lock, lockAge, status, beating, stale, misread>>

\* write_status under the guard, while the lock names the writer.
WriteStatus(p, state) ==
    /\ guard = Nobody
    /\ status' = IF Matches(p)
                 THEN [state |-> state, by |-> Me(p), age |-> "recent"]
                 ELSE status

\* "refreshing" is written and the heartbeat started; a lock that is no longer
\* ours ends the call.
Announce(p) ==
    /\ pc[p] = "announce"
    /\ WriteStatus(p, "refreshing")
    /\ Goto(p, IF Matches(p) THEN "index" ELSE "drop")
    /\ beating' = IF Matches(p) THEN beating \cup {p} ELSE beating
    /\ UNCHANGED <<life, guard, lock, lockAge, stale, misread>>

\* renew_local_refresh_status: the heartbeat renews its own status in
\* progress, and stops when it finds another or cannot read the files.
Renew(p) ==
    /\ p \in beating /\ guard = Nobody
    /\ \/ /\ Matches(p) /\ status.state = "refreshing" /\ status.by = Me(p)
          /\ status' = [status EXCEPT !.age = "recent"] /\ UNCHANGED beating
       \/ beating' = beating \ {p} /\ UNCHANGED status
    /\ UNCHANGED <<life, pc, guard, lock, lockAge, stale, misread>>

\* The incremental index run returns: the index is fresh, or it is not.
Index(p, fresh) ==
    /\ pc[p] = "index"
    /\ stale' = (stale /\ ~fresh)
    /\ Goto(p, "stop")
    /\ UNCHANGED <<life, guard, lock, lockAge, status, beating, misread>>

\* heartbeat.stop joins the heartbeat thread.
StopHeartbeat(p) ==
    /\ pc[p] = "stop"
    /\ beating' = beating \ {p}
    /\ Goto(p, "report")
    /\ UNCHANGED <<life, guard, lock, lockAge, status, stale, misread>>

\* "refreshed" or "failed" is written.
Report(p) ==
    /\ pc[p] = "report"
    /\ WriteStatus(p, "ended")
    /\ Goto(p, "drop")
    /\ UNCHANGED <<life, guard, lock, lockAge, beating, stale, misread>>

\* FAULTY: the lock of a call that ended in an error is left to the process.
DropLockReported(p) ==
    /\ pc[p] \in {"drop", "abandon"} /\ guard = Nobody
    /\ lock' = IF Matches(p) /\ pc[p] = "drop" THEN Absent ELSE lock
    /\ Goto(p, "returned")
    /\ UNCHANGED <<life, guard, lockAge, status, beating, stale, misread>>

\* Drop of LocalRefreshLock removes the file if it names the owner; the call
\* returns and the process goes on.
DropLock(p) ==
    /\ pc[p] \in {"drop", "abandon"} /\ guard = Nobody
    /\ lock' = IF Matches(p) THEN Absent ELSE lock
    /\ Goto(p, "returned")
    /\ UNCHANGED <<life, guard, lockAge, status, beating, stale, misread>>

\* The command is over.
Exit(p) ==
    /\ pc[p] \in Over
    /\ Goto(p, "ended")
    /\ misread' = misread \ {p}
    /\ UNCHANGED <<life, guard, lock, lockAge, status, beating, stale>>

\* A status that could not be written, or was put in place and then not synced.
WriteFails(p, state) == status' = status \/ WriteStatus(p, state)

\* An error: inside try_acquire it ends the call, which leaves the new lock file
\* torn, or filled and not synced; a failed removal of a
\* stale lock is ignored; holding the lock it leads to Drop, with "refreshing"
\* left in the status if that was written; and Drop itself may not get to its
\* file.
Fail(p) ==
    /\ \/ /\ pc[p] \in {"guard", "create", "recreate", "fill"}
          /\ Goto(p, "returned")
          /\ guard' = IF guard = p THEN Nobody ELSE guard
          /\ lock' = lock \/ (pc[p] = "fill" /\ lock' = OwnedBy(Me(p)))
          /\ UNCHANGED status
       \/ pc[p] = "reclaim" /\ Goto(p, "recreate") /\ UNCHANGED <<guard, lock, status>>
       \/ pc[p] = "recheck" /\ Goto(p, "drop") /\ UNCHANGED <<guard, lock, status>>
       \/ pc[p] = "announce" /\ Goto(p, "abandon") /\ WriteFails(p, "refreshing") /\ UNCHANGED <<guard, lock>>
       \/ pc[p] = "index" /\ Goto(p, "abandon") /\ UNCHANGED <<guard, lock, status>>
       \/ pc[p] = "report" /\ Goto(p, "abandon") /\ WriteFails(p, "ended") /\ UNCHANGED <<guard, lock>>
       \/ pc[p] \in {"drop", "abandon"} /\ Goto(p, "kept") /\ UNCHANGED <<guard, lock, status>>
    /\ beating' = beating \ {p}
    /\ UNCHANGED <<life, lockAge, stale, misread>>

-----------------------------------------------------------------------------
(* The machine, outside the program. *)

\* The process is killed: its flock goes, its files stay.
Crash(p) ==
    /\ pc[p] # "ended"
    /\ Goto(p, "ended")
    /\ guard' = IF guard = p THEN Nobody ELSE guard
    /\ beating' = beating \ {p} /\ misread' = misread \ {p}
    /\ UNCHANGED <<life, lock, lockAge, status, stale>>

\* The number goes to another process, which is none of those on file: it may
\* have the last one's name unless that is on file.
Restart(p) ==
    /\ pc[p] = "ended"
    /\ \E name \in Names :
          /\ [p |-> p, life |-> name] \notin {lock.by, status.by}
          /\ name = life[p] \/ Me(p) \in {lock.by, status.by}
          /\ life' = [life EXCEPT ![p] = name]
    /\ Goto(p, "idle")
    /\ UNCHANGED <<guard, lock, lockAge, status, beating, stale, misread>>

\* A refresh in progress grows older than LOCAL_REFRESH_STATUS_TTL: the
\* heartbeat did not get to renew it.
StatusAges ==
    /\ status.state = "refreshing" /\ status.age = "recent"
    /\ status' = [status EXCEPT !.age = "old"]
    /\ UNCHANGED <<life, pc, guard, lock, lockAge, beating, stale, misread>>

\* The lock file, which nothing renews, grows older than LOCAL_REFRESH_LOCK_STALE_TTL.
LockAges ==
    /\ lock # Absent /\ lockAge = "young"
    /\ lockAge' = "old"
    /\ UNCHANGED <<life, pc, guard, lock, status, beating, stale, misread>>

\* The sources change.
Edit ==
    /\ ~stale /\ stale' = TRUE
    /\ UNCHANGED <<life, pc, guard, lock, lockAge, status, beating, misread>>

-----------------------------------------------------------------------------
Work(p) ==
    \/ Begin(p) \/ TakeGuard(p) \/ Create(p) \/ Fill(p) \/ Examine(p, Readings) \/ Reclaim(p)
    \/ Recheck(p) \/ Announce(p) \/ StopHeartbeat(p) \/ Report(p) \/ DropLock(p) \/ Exit(p)

Next ==
    \/ \E p \in Processes :
          \/ Work(p) \/ Renew(p) \/ Fail(p) \/ Crash(p) \/ Restart(p)
          \/ \E fresh \in BOOLEAN : Index(p, fresh)
          \/ \E reads \in SUBSET Readings : Examine(p, reads)
    \/ StatusAges \/ LockAges \/ Edit

Spec == Init /\ [][Next]_vars

\* Processes go on and end, an index run returns, the flock is granted to each waiter in
\* the end, and time passes; callers keep coming, also after the machine killed
\* the last one.  A heartbeat may be late for ever.
Fairness ==
    /\ \A p \in Processes :
          /\ WF_vars(Work(p)) /\ WF_vars(Restart(p))
          /\ SF_vars(TakeGuard(p) \/ Announce(p) \/ Report(p) \/ DropLock(p))
          /\ WF_vars(\E fresh \in BOOLEAN : Index(p, fresh))
    /\ WF_vars(LockAges)

FairSpec == Spec /\ Fairness
-----------------------------------------------------------------------------
\* Single flight: a live process that believes it holds the lock is the one the
\* lock file names, so two never refresh at once; a slow holder whose status
\* was not renewed keeps its lock (try_acquire_local_refresh_lock).  The one
\* way to lose it is another process that fails to read the lock file.
OneRefresher == \A p \in Processes : pc[p] \in Holding => Matches(p) \/ p \in misread

\* A status that readers take for a refresh in progress is the truth: the
\* process it names is still at it, or on its way out after an error.  The last
\* write_status may fail and is ignored, and the process lives on: Drop of the
\* lock makes the status void, unless it fails as well ("kept").
RefreshingIsTrue ==
    ActiveStatus(Readings) =>
        pc[status.by.p] \in {"index", "stop", "report", "abandon", "kept"}

\* The inductive form: whoever is inside try_acquire holds the guard, and
\* decided on a lock file that is still as it was.
GuardInv ==
    \A p \in Processes :
        /\ pc[p] \in Guarding => guard = p
        /\ pc[p] = "fill" => lock = Torn
        /\ pc[p] = "reclaim" /\ Lives(lock.by) => lock.by.p \in misread

\* And a process that left "refreshing" behind is past its report, and if its
\* Drop went well no lock is in its name.
StatusInv ==
    status.state = "refreshing" /\ Lives(status.by) =>
        \/ pc[status.by.p] \in {"index", "stop", "report", "abandon", "kept"}
        \/ pc[status.by.p] \in {"drop", "returned"} /\ lock # OwnedBy(status.by)

RefreshInv == TypeOK /\ GuardInv /\ OneRefresher /\ StatusInv

\* A crash, an error, a read that fails and changes the outcome or a failed
\* index run; a call that the code itself ends (Busy) is none, although a crash
\* there would look the same.
Trouble ==
    \E p \in Processes :
        \/ (Crash(p) \/ Fail(p)) /\ ~Work(p)
        \/ \E reads \in SUBSET Readings : Examine(p, reads) /\ ~Work(p)
        \/ Index(p, FALSE) /\ ~Index(p, TRUE)

\* Once crashes and errors stop, a stale index is refreshed, whatever they left
\* behind: no lock file, owned or torn, blocks the refresh for good.
RefreshHappens == <>[][~Trouble]_vars => (stale ~> ~stale)
=============================================================================
