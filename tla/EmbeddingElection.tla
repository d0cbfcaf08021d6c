-------------------------- MODULE EmbeddingElection --------------------------
(***************************************************************************)
(* How the processes of one user agree on one embedding server: the client *)
(* of crates/codestory-retrieval (connect, spawn, wait, replay) and the    *)
(* Unix transport of crates/codestory-cli (the lifetime authority, a file  *)
(* whose flock the server holds, and the listening socket), interleaved at *)
(* the system calls.                                                       *)
(*                                                                         *)
(* A client probes the authority with the same exclusive flock that the    *)
(* server holds for its life, so authority names a server, a client in the *)
(* middle of a probe, or nobody.  A call is one of                         *)
(*   "pure"     an embedding request, replayed once when its server is lost*)
(*   "lease"    acquire a residency lease and hold it                      *)
(*   "observe"  a snapshot or a cancellation, which never spawns.          *)
(*                                                                         *)
(* A server slot stands for one process after another: when a process ends *)
(* its connections are lost and a socket it leaves behind is "stale".      *)
(* What the server does with a request is EmbeddingServer's subject: here  *)
(* a serving server admits and answers, a draining one refuses.            *)
(*                                                                         *)
(* Left out: the Windows transport; executable and peer identity checks;   *)
(* handler capacity; a server that hangs without ending (the watchdog ends *)
(* it, which is a Crash here); the runtime directory (no directory is no   *)
(* socket).  The process umask leaves a new socket open to others until    *)
(* set_permissions, as the usual umask 022 does.                           *)
(***************************************************************************)
EXTENDS Integers, FiniteSets

CONSTANTS
    Callers,        \* threads of the user's processes that need the server
    Observers,      \* threads that only ask after it, and never spawn it
    Servers,        \* slots for server processes
    None,           \* no client and no server
    Operations,     \* which of "pure" and "lease" the callers call
    Disturbances    \* which of "crash", "exit", "deadline", "spawn" may occur

Clients == Callers \cup Observers
AllDisturbances == {"crash", "exit", "deadline", "spawn"}

ASSUME ElectionAssumption ==
    /\ Clients \cap Servers = {}
    /\ None \notin Clients \cup Servers
    /\ "stale" \notin Servers \cup {None}
    /\ Callers \cap Observers = {}
    /\ Operations \subseteq {"pure", "lease"}
    /\ Disturbances \subseteq AllDisturbances

VARIABLES
    authorityFile,  \* the authority file exists
    authority,      \* who holds its flock
    socket,         \* the server whose entry the socket path is
    mode,           \* its permissions: "private", or still "open"
    server,         \* where each server process is
    pc,             \* where each client is in its call
    opened,         \* the clients whose connect opened the authority file
    peer,           \* the server at the other end of a client's connection
    call            \* what a client's call remembers

vars == <<authorityFile, authority, socket, mode, server, pc, opened, peer, call>>
serverVars == <<authorityFile, socket, mode, server>>

Outcomes == {"none", "served", "absent", "failed"}
ClientPlaces == {"idle", "open", "validate", "dial", "verify", "probe",
                 "classify", "unlock", "noOwner", "unresponsive", "hello",
                 "reply", "working", "leased"}
Starting == {"starting", "opened", "locked", "cleared", "bare"}
Ending == {"draining", "checked", "unlinked"}
ServerPlaces == {"dead", "serving"} \cup Starting \cup Ending
Listening == {"bare", "serving", "draining", "checked"}

Calls == [op: {"pure", "lease", "observe"},
          loss: {"none", "connect", "inflight"},  \* replayed, and after what
          attempt: {"none", "pending", "failing", "failed", "succeeded"},
          child: Servers \cup {None},             \* the process it spawned
          clock: {"running", "spawn", "recovery", "both"},   \* which ran out
          sends: 0..2,
          result: Outcomes]

NewCall == [op |-> "observe", loss |-> "none", attempt |-> "none", child |-> None,
            clock |-> "running", sends |-> 0, result |-> "none"]

(***************************************************************************)
(* State updates                                                           *)
(***************************************************************************)
Goto(c, place) == pc' = [pc EXCEPT ![c] = place]

\* The transport's connect returns an outcome other than a connection: its
\* authority handle and its stream are closed.
Unconnected(c, outcome) ==
    /\ Goto(c, outcome)
    /\ opened' = opened \ {c}
    /\ peer' = [peer EXCEPT ![c] = None]

\* The call returns: its connection closes and its locals are gone.
Return(c, outcome) ==
    /\ Unconnected(c, "idle")
    /\ call' = [call EXCEPT ![c] = [NewCall EXCEPT !.result = outcome]]

\* connect_with_control is entered again, with fresh locals.
Reconnect(c, loss) ==
    /\ Unconnected(c, "open")
    /\ call' = [call EXCEPT ![c].loss = loss, ![c].attempt = "none",
                            ![c].child = None, ![c].clock = "running"]

\* FAULTY: every loss is replayed, however often the call was replayed.
LoseEveryTime(c, kind) == call[c].sends < 3 /\ Reconnect(c, kind)

\* is_server_loss: a pure call goes round once more, any other call fails.
Lose(c, kind) ==
    IF call[c].op = "pure" /\ call[c].loss = "none"
    THEN Reconnect(c, kind)
    ELSE Return(c, "failed")

\* The spawn budget outlasts a start in progress: when it runs out, the call's
\* own child and the owner have finished starting, and one attempt is left.
Settled(c) ==
    /\ call[c].child # None => server[call[c].child] \notin Starting
    /\ authority \in Servers => server[authority] \notin Starting

RanOut(c, since) == call[c].clock \in {since, "both"}

\* FAULTY: the clock starts again with every sleep.
SleepOutRestarts(c, since) == Unconnected(c, "open") /\ UNCHANGED call

\* The budget since the spawn, or since the first sign of a lost owner, runs
\* out while wait_for_convergence sleeps; one more attempt follows.
SleepOut(c, since) ==
    /\ ~RanOut(c, since) /\ Settled(c)
    /\ Unconnected(c, "open")
    /\ call' = [call EXCEPT ![c].clock = IF @ = "running" THEN since ELSE "both"]

\* wait_for_convergence: sleep and try again, until the budget has run out.
WaitForConvergence(c, since) ==
    \/ RanOut(c, since) /\ Return(c, "failed")
    \/ ~RanOut(c, since) /\ Unconnected(c, "open") /\ UNCHANGED call
    \/ SleepOut(c, since)

(***************************************************************************)
(* A client's call                                                         *)
(***************************************************************************)
Start(c, operation) ==
    /\ pc[c] = "idle"
    /\ operation \in IF c \in Callers THEN Operations ELSE {"observe"}
    /\ Goto(c, "open")
    /\ call' = [call EXCEPT ![c] = [NewCall EXCEPT !.op = operation]]
    /\ UNCHANGED <<serverVars, authority, opened, peer>>

\* open_authority without O_CREAT: the file may not exist yet.
OpenAuthority(c) ==
    /\ pc[c] = "open"
    /\ opened' = IF authorityFile THEN opened \cup {c} ELSE opened
    /\ Goto(c, "validate")
    /\ UNCHANGED <<serverVars, authority, peer, call>>

\* validate_socket_path: an entry others may use is an error, not a retry.
ValidateSocket(c) ==
    /\ pc[c] = "validate"
    /\ \/ /\ socket = None
          /\ Goto(c, "classify")
          /\ UNCHANGED <<opened, peer, call>>
       \/ /\ socket # None /\ mode = "open"
          /\ Return(c, "failed")
       \/ /\ socket # None /\ mode = "private"
          /\ Goto(c, "dial")
          /\ UNCHANGED <<opened, peer, call>>
    /\ UNCHANGED <<serverVars, authority>>

\* bounded_connect: whoever listens at the path now; a stale entry refuses.
Dial(c) ==
    /\ pc[c] = "dial"
    /\ IF socket \in Servers /\ server[socket] \in Listening
       THEN /\ peer' = [peer EXCEPT ![c] = socket]
            /\ Goto(c, "verify")
       ELSE /\ Goto(c, "classify")
            /\ UNCHANGED peer
    /\ UNCHANGED <<serverVars, authority, opened, call>>

\* peer_identity and canonical_peer_process_start_identity: a peer that has
\* ended is an error; without an authority file there is no owner.
Verify(c) ==
    /\ pc[c] = "verify"
    /\ \/ /\ peer[c] = None
          /\ Return(c, "failed")
       \/ /\ peer[c] # None
          /\ IF c \in opened
             THEN Goto(c, "probe") /\ UNCHANGED <<opened, peer>>
             ELSE Unconnected(c, "noOwner")
          /\ UNCHANGED call
    /\ UNCHANGED <<serverVars, authority>>

\* The time of one connect runs out before bounded_connect (or within it), or
\* after the peer was identified: the connection, if any, is dropped.
BudgetOut(c) ==
    /\ "deadline" \in Disturbances
    /\ pc[c] = "dial" \/ (pc[c] = "verify" /\ peer[c] # None)
    /\ Goto(c, "classify")
    /\ peer' = [peer EXCEPT ![c] = None]
    /\ UNCHANGED <<serverVars, authority, opened, call>>

\* After a connection the authority must be held; the probe takes it if not.
\* Then Stream::new captures the peer's process, which must still exist, and
\* Connected records the spawn attempt's success.
Probe(c) ==
    /\ pc[c] = "probe"
    /\ \/ /\ authority = None
          /\ authority' = c
          /\ Goto(c, "unlock")
          /\ UNCHANGED <<opened, peer, call>>
       \/ /\ authority # None /\ peer[c] = None
          /\ Return(c, "failed")
          /\ UNCHANGED authority
       \/ /\ authority # None /\ peer[c] # None
          /\ Goto(c, "hello")
          /\ opened' = opened \ {c}
          /\ call' = [call EXCEPT ![c].attempt = IF @ = "none" THEN @ ELSE "succeeded",
                                  ![c].child = None]
          /\ UNCHANGED <<authority, peer>>
    /\ UNCHANGED serverVars

\* classify_failed_connect: held means an owner that does not respond.
Classify(c) ==
    /\ pc[c] = "classify"
    /\ \/ /\ c \notin opened
          /\ Unconnected(c, "noOwner")
          /\ UNCHANGED authority
       \/ /\ c \in opened /\ authority = None
          /\ authority' = c
          /\ Goto(c, "unlock")
          /\ UNCHANGED <<opened, peer>>
       \/ /\ c \in opened /\ authority # None
          /\ Unconnected(c, "unresponsive")
          /\ UNCHANGED authority
    /\ UNCHANGED <<serverVars, call>>

Unlock(c) ==
    /\ pc[c] = "unlock"
    /\ authority' = None
    /\ Unconnected(c, "noOwner")
    /\ UNCHANGED <<serverVars, call>>

\* NoOwner: a failed spawn attempt ends the call; otherwise spawn once per
\* connect_with_control, then wait.
NoOwnerEnds(c) ==
    /\ pc[c] = "noOwner"
    /\ \/ call[c].attempt = "failed" /\ Return(c, "failed")
       \/ call[c].op = "observe" /\ Return(c, "absent")
       \/ /\ call[c].op # "observe" /\ call[c].attempt = "none"
          /\ "spawn" \in Disturbances
          /\ Return(c, "failed")
    /\ UNCHANGED <<serverVars, authority>>

Spawn(c) ==
    /\ pc[c] = "noOwner"
    /\ call[c].op # "observe" /\ call[c].attempt = "none"
    /\ \E s \in Servers :
          /\ server[s] = "dead"
          /\ server' = [server EXCEPT ![s] = "starting"]
          /\ call' = [call EXCEPT ![c].attempt = "pending", ![c].child = s]
    /\ Goto(c, "open")
    /\ UNCHANGED <<authorityFile, authority, socket, mode, opened, peer>>

NoOwnerWaits(c) ==
    /\ pc[c] = "noOwner"
    /\ call[c].op # "observe" /\ call[c].attempt \notin {"none", "failed"}
    /\ WaitForConvergence(c, "spawn")
    /\ UNCHANGED <<serverVars, authority>>

\* OwnerUnresponsive: wait if this connect spawned or recovers, else an error
\* that counts as the loss of the server.
OwnerUnresponsive(c) ==
    /\ pc[c] = "unresponsive"
    /\ \/ call[c].attempt = "failed" /\ Return(c, "failed")
       \/ /\ call[c].attempt \notin {"none", "failed"}
          /\ WaitForConvergence(c, "spawn")
       \/ /\ call[c].attempt = "none" /\ call[c].loss = "inflight"
          /\ WaitForConvergence(c, "recovery")
       \/ /\ call[c].attempt = "none" /\ call[c].loss # "inflight"
          /\ Lose(c, "connect")
    /\ UNCHANGED <<serverVars, authority>>

\* hello, and the request after it: a peer that is gone, or does not accept in
\* time, is lost; after the loss of a request in flight the connect waits for
\* the next server.
HelloAnswered(c) ==
    /\ pc[c] = "hello"
    /\ peer[c] # None
    /\ server[peer[c]] \in {"serving"} \cup Ending
    /\ Goto(c, "reply")
    /\ call' = [call EXCEPT ![c].sends = @ + 1]
    /\ UNCHANGED <<serverVars, authority, opened, peer>>

HelloLost(c) ==
    /\ pc[c] = "hello"
    /\ peer[c] # None => server[peer[c]] # "serving"
    /\ IF call[c].loss = "inflight"
       THEN WaitForConvergence(c, "recovery")
       ELSE Lose(c, "connect")
    /\ UNCHANGED <<serverVars, authority>>

\* The server reads the request: a snapshot is answered and work is admitted.
\* A server that drains closes the connection without an answer, which the
\* client cannot tell from a crash: exchange reports the connection lost.
Admitted(c) ==
    /\ pc[c] = "reply"
    /\ peer[c] # None
    /\ \/ /\ call[c].op = "observe"
          /\ Return(c, "served")
       \/ /\ call[c].op # "observe" /\ server[peer[c]] = "serving"
          /\ Goto(c, "working")
          /\ UNCHANGED <<opened, peer, call>>
       \/ /\ call[c].op # "observe" /\ server[peer[c]] # "serving"
          /\ Lose(c, "inflight")
    /\ UNCHANGED <<serverVars, authority>>

\* A vector comes back, or a lease whose connection the client keeps.
Answered(c) ==
    /\ pc[c] = "working"
    /\ peer[c] # None
    /\ IF call[c].op = "lease"
       THEN Goto(c, "leased") /\ UNCHANGED <<opened, peer, call>>
       ELSE Return(c, "served")
    /\ UNCHANGED <<serverVars, authority>>

\* exchange: the connection breaks while the request is in flight.
ExchangeLost(c) ==
    /\ pc[c] \in {"reply", "working"}
    /\ peer[c] = None
    /\ Lose(c, "inflight")
    /\ UNCHANGED <<serverVars, authority>>

\* revalidate or release on a lease: a lost server is an error, no replay.
ReleaseLease(c) ==
    /\ pc[c] = "leased"
    /\ Return(c, IF peer[c] = None THEN "failed" ELSE "served")
    /\ UNCHANGED <<serverVars, authority>>

\* control.check: the deadline of a pure call, or its cancellation.
Deadline(c) ==
    /\ "deadline" \in Disturbances
    /\ call[c].op = "pure"
    /\ pc[c] \in {"open", "reply", "working"}
    /\ Return(c, "failed")
    /\ UNCHANGED <<serverVars, authority>>

\* The reaper thread records that the child ended badly, if nothing else was.
Reap(c) ==
    /\ call[c].attempt = "failing"
    /\ call' = [call EXCEPT ![c].attempt = "failed"]
    /\ UNCHANGED <<serverVars, authority, pc, opened, peer>>

ClientStep(c) ==
    \/ OpenAuthority(c) \/ ValidateSocket(c) \/ Dial(c) \/ Verify(c)
    \/ Probe(c) \/ Classify(c) \/ Unlock(c)
    \/ NoOwnerEnds(c) \/ Spawn(c) \/ NoOwnerWaits(c) \/ OwnerUnresponsive(c)
    \/ HelloAnswered(c) \/ HelloLost(c) \/ Admitted(c) \/ Answered(c)
    \/ ExchangeLost(c) \/ Reap(c)

(***************************************************************************)
(* A server process                                                        *)
(***************************************************************************)
\* The process ends: its connections break, and whoever spawned it may hear.
Ends(s, well) ==
    /\ server' = [server EXCEPT ![s] = "dead"]
    /\ peer' = [c \in Clients |-> IF peer[c] = s THEN None ELSE peer[c]]
    /\ call' = [c \in Clients |->
                  IF call[c].child # s THEN call[c]
                  ELSE [call[c] EXCEPT !.child = None,
                          !.attempt = IF @ # "pending" THEN @
                                      ELSE IF well THEN "succeeded" ELSE "failing"]]

\* The kernel drops the flock of a process that ends; its socket stays.
Dies(s) ==
    /\ Ends(s, FALSE)
    /\ authority' = IF authority = s THEN None ELSE authority
    /\ socket' = IF socket = s THEN "stale" ELSE socket
    /\ UNCHANGED <<authorityFile, mode, pc, opened>>

\* open_authority with O_CREAT.
CreateAuthority(s) ==
    /\ server[s] = "starting"
    /\ server' = [server EXCEPT ![s] = "opened"]
    /\ authorityFile' = TRUE
    /\ UNCHANGED <<authority, socket, mode, pc, opened, peer, call>>

\* bind's try_lock; AlreadyOwned ends the process, successfully.
TryLock(s) ==
    /\ server[s] = "opened"
    /\ IF authority = None
       THEN /\ authority' = s
            /\ server' = [server EXCEPT ![s] = "locked"]
            /\ UNCHANGED <<peer, call>>
       ELSE Ends(s, TRUE) /\ UNCHANGED authority
    /\ UNCHANGED <<authorityFile, socket, mode, pc, opened>>

\* FAULTY: bind trusts that no entry is left at the path.
RemoveStaleSocketNever(s) ==
    /\ server[s] = "locked"
    /\ server' = [server EXCEPT ![s] = "cleared"]
    /\ UNCHANGED <<authorityFile, authority, socket, mode, pc, opened, peer, call>>

\* remove_stale_socket: an entry others may use stops the server.
RemoveStaleSocket(s) ==
    /\ server[s] = "locked"
    /\ \/ socket # None /\ mode = "open" /\ Dies(s)
       \/ /\ socket # None => mode = "private"
          /\ socket' = None
          /\ server' = [server EXCEPT ![s] = "cleared"]
          /\ UNCHANGED <<authorityFile, authority, mode, pc, opened, peer, call>>

\* UnixListener::bind, which fails when the path is taken.
Listen(s) ==
    /\ server[s] = "cleared"
    /\ \/ socket # None /\ Dies(s)
       \/ /\ socket = None
          /\ socket' = s
          /\ mode' = "open"
          /\ server' = [server EXCEPT ![s] = "bare"]
          /\ UNCHANGED <<authorityFile, authority, pc, opened, peer, call>>

\* set_permissions and the checks after it; the accept loop starts.
Secure(s) ==
    /\ server[s] = "bare"
    /\ mode' = "private"
    /\ server' = [server EXCEPT ![s] = "serving"]
    /\ UNCHANGED <<authorityFile, authority, socket, pc, opened, peer, call>>

\* begin_draining_if_idle: no admitted request and no lease.
Drain(s) ==
    /\ "exit" \in Disturbances
    /\ server[s] = "serving"
    /\ \A c \in Clients : peer[c] = s => pc[c] \notin {"working", "leased"}
    /\ server' = [server EXCEPT ![s] = "draining"]
    /\ UNCHANGED <<authorityFile, authority, socket, mode, pc, opened, peer, call>>

\* FAULTY: the authority is released before the entry is removed.
ListenerDropUnlocksFirst(s) ==
    \/ /\ server[s] = "draining"
       /\ server' = [server EXCEPT ![s] = IF socket = s THEN "checked" ELSE "unlinked"]
       /\ authority' = IF authority = s THEN None ELSE authority
       /\ UNCHANGED <<authorityFile, socket, mode, pc, opened, peer, call>>
    \/ /\ server[s] = "checked"
       /\ socket' = None
       /\ server' = [server EXCEPT ![s] = "unlinked"]
       /\ UNCHANGED <<authorityFile, authority, mode, pc, opened, peer, call>>
    \/ /\ server[s] = "unlinked"
       /\ Ends(s, TRUE)
       /\ UNCHANGED <<authorityFile, authority, socket, mode, pc, opened>>

\* Drop for Listener: compare the entry with the listener's own, unlink it,
\* release the authority; then the process ends.
ListenerDrop(s) ==
    \/ /\ server[s] = "draining"
       /\ server' = [server EXCEPT ![s] = IF socket = s THEN "checked" ELSE "unlinked"]
       /\ UNCHANGED <<authorityFile, authority, socket, mode, pc, opened, peer, call>>
    \/ /\ server[s] = "checked"
       /\ socket' = None
       /\ server' = [server EXCEPT ![s] = "unlinked"]
       /\ UNCHANGED <<authorityFile, authority, mode, pc, opened, peer, call>>
    \/ /\ server[s] = "unlinked"
       /\ Ends(s, TRUE)
       /\ authority' = None
       /\ UNCHANGED <<authorityFile, socket, mode, pc, opened>>

ServerStep(s) ==
    \/ CreateAuthority(s) \/ TryLock(s) \/ RemoveStaleSocket(s) \/ Listen(s)
    \/ Secure(s) \/ ListenerDrop(s)

\* The process is killed, aborts (fail_stop) or fails to start.
Crash(s) ==
    /\ "crash" \in Disturbances
    /\ server[s] # "dead"
    /\ Dies(s)

(***************************************************************************)
(* The system                                                              *)
(***************************************************************************)
Init ==
    /\ authorityFile = FALSE
    /\ authority = None
    /\ socket = None
    /\ mode = "private"
    /\ server = [s \in Servers |-> "dead"]
    /\ pc = [c \in Clients |-> "idle"]
    /\ opened = {}
    /\ peer = [c \in Clients |-> None]
    /\ call = [c \in Clients |-> NewCall]

Next ==
    \/ \E c \in Clients :
          \/ \E operation \in Operations \cup {"observe"} : Start(c, operation)
          \/ ClientStep(c)
          \/ ReleaseLease(c)
          \/ Deadline(c) \/ BudgetOut(c)
    \/ \E s \in Servers : ServerStep(s) \/ Drain(s) \/ Crash(s)

Spec == Init /\ [][Next]_vars

\* A sleep of the connect loop in which its budget runs out.
TimePasses(c) ==
    /\ ClientStep(c)
    /\ \E since \in {"spawn", "recovery"} : ~RanOut(c, since) /\ RanOut(c, since)'

\* Every thread that can run runs, and time passes for a client that sleeps
\* again and again.  Nobody has to call, release, crash or exit.
Fairness ==
    /\ \A c \in Clients : WF_vars(ClientStep(c))
    /\ \A c \in Callers : SF_vars(TimePasses(c))
    /\ \A s \in Servers : WF_vars(ServerStep(s))

FairSpec == Spec /\ Fairness

(***************************************************************************)
(* Properties                                                              *)
(***************************************************************************)
TypeOK ==
    /\ authorityFile \in BOOLEAN
    /\ authority \in Clients \cup Servers \cup {None}
    /\ socket \in Servers \cup {None, "stale"}
    /\ mode \in {"private", "open"}
    /\ server \in [Servers -> ServerPlaces]
    /\ pc \in [Clients -> ClientPlaces]
    /\ opened \subseteq Clients
    /\ peer \in [Clients -> Servers \cup {None}]
    /\ call \in [Clients -> Calls]

\* A server that serves can be found: it holds the lifetime authority, the
\* socket path is its own entry, and the entry passes the clients' check.
\* So at most one server serves, and no listener that shuts down late takes
\* the entry of its successor away (Drop for Listener).
ServingIsReachable ==
    \A s \in Servers : server[s] = "serving" =>
        authority = s /\ socket = s /\ mode = "private"

\* Only a pure call is sent again, and at most once, whatever is lost and
\* whichever loop of the client noticed (call_pure_with_replay).
ReplaysBounded ==
    \A c \in Clients : call[c].sends <= IF call[c].op = "pure" THEN 2 ELSE 1

\* Every call comes back, or holds a lease, however the servers crash, exit
\* and race: no wait of the client is unbounded.
CallsEnd ==
    \A c \in Callers : (pc[c] # "idle") ~> (pc[c] \in {"idle", "leased"})

\* The entry a server left when it died between bind and set_permissions.
Wedged == socket = "stale" /\ mode = "open"

\* Steps after which a lone caller may fail again and again.  A process that
\* ends, or a call that returns, by its own code is none of them, although a crash
\* or a deadline there would look the same.
Disturbs(c) ==
    \/ \E s \in Servers :
          \/ Crash(s) /\ ~ServerStep(s)
          \/ Drain(s)
          \/ TryLock(s) /\ authority \in Clients
    \/ (Deadline(c) \/ BudgetOut(c)) /\ ~ClientStep(c)
    \/ NoOwnerEnds(c) /\ call[c].attempt = "none"
    \/ \E d \in Clients \ {c}, operation \in Operations \cup {"observe"} :
          Start(d, operation)

\* Whatever happened before, the user's processes find a server again: when
\* disturbances stop, no dead server's socket stays open to others and no bind
\* meets a probe, a client that keeps calling is served.
ElectionRecovers ==
    \A c \in Callers :
        (/\ <>[][~Disturbs(c)]_vars
         /\ []<>~Wedged
         /\ []<><<Start(c, "pure")>>_vars)
        => []<>(call[c].result = "served")

=============================================================================
