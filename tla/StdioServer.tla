---------------------------- MODULE StdioServer ----------------------------
(***************************************************************************)
(* The stdio server of the CLI (codestory-cli/src/stdio_transport.rs): one *)
(* host writes newline-delimited JSON-RPC frames to stdin; the server loop *)
(* queues them, hands one at a time to a blocking worker together with the *)
(* session, goes on reading while the worker runs, and writes the answers. *)
(* The session keeps a bounded list of project contexts, each with the     *)
(* single-flight activation of codestory-runtime/src/services.rs, whose    *)
(* thread outlives the request that started it.                            *)
(*                                                                         *)
(* A frame is numbered by its place in what the host wrote, and the number *)
(* is its request id.  The host writes a frame in one piece, or in two     *)
(* with the server free to read in between: `read_stdio_frame` keeps the   *)
(* first piece in a local variable of a future that `select!` drops when   *)
(* the worker completes.                                                   *)
(*                                                                         *)
(* What a tool computes, the packet, search and status caches, and which   *)
(* error a failing tool reports are abstracted: all are one answer.        *)
(***************************************************************************)
EXTENDS Integers, SequencesExt, FiniteSetsExt

CONSTANTS
    Projects,       \* repository roots a tool call may name
    Capacity,       \* STDIO_PROJECT_CONTEXT_CAPACITY
    Kinds,          \* the kinds of frames the host sends
    Pieces,         \* which of "whole" and "halves" the host writes
    Faults,         \* which of "panic" and "io" may occur
    MaxFrames,      \* bound on the frames the host sends
    None            \* no project

AllKinds == {"tool", "plain", "notification", "bad", "oversized", "blank", "cancel"}

ASSUME StdioAssumption ==
    /\ Capacity \in Nat \ {0}
    /\ MaxFrames \in Nat
    /\ Kinds \subseteq AllKinds
    /\ Pieces \subseteq {"whole", "halves"}
    /\ Faults \subseteq {"panic", "io"}
    /\ None \notin Projects

VARIABLES
    sent,           \* the frames the host has begun to write
    host,           \* "ready", "midway" through a frame, "closed", or closed
                    \* midway through a frame ("cut")
    pipe,           \* the pieces in stdin not yet read
    line,           \* the frame of which the read in progress holds the head
    queued,         \* the queue of frames and of error responses
    active,         \* the request whose task runs
    stdinClosed,    \* the loop has seen the end of stdin
    contexts,       \* the session's projects: the active one, then the retained
    running,        \* the projects whose activation thread runs
    evicted,        \* the project whose activation select_project waits for
    written,        \* the responses on stdout
    phase,          \* "serving", "closing" the session, or "ended"
    failed,         \* run_stdio_server returns an error
    silenced,       \* history: requests whose cancellation was read in time
    torn            \* history: frames of which a dropped read lost the head

hostVars == <<sent, host>>
loopVars == <<line, queued, stdinClosed, silenced, torn>>
projectVars == <<contexts, running, evicted>>
endVars == <<phase, failed>>
vars == <<hostVars, pipe, loopVars, active, projectVars, written, endVars>>

Hosts == {"ready", "midway", "closed", "cut"}
Frame == [kind : AllKinds, of : Projects \cup {None} \cup Nat]
Piece == [n : Nat \ {0}, part : {"whole", "head", "tail"}]
Work == [n : Nat \ {0}, kind : AllKinds, cancelled : BOOLEAN]
NoRequest == [n |-> 0, kind |-> "plain", cancelled |-> FALSE, step |-> "none"]
Steps == {"none", "handle", "evict", "activate", "wait", "done", "panicked"}
Request == [n : Nat, kind : AllKinds, cancelled : BOOLEAN, step : Steps]
Response == [n : Nat \ {0}, kind : AllKinds]

TypeOK ==
    /\ sent \in Seq(Frame) /\ Len(sent) <= MaxFrames
    /\ host \in Hosts
    /\ pipe \in Seq(Piece)
    /\ line \in 0..Len(sent)
    /\ queued \in Seq(Work)
    /\ active \in Request /\ active.n \in 0..Len(sent)
    /\ stdinClosed \in BOOLEAN /\ failed \in BOOLEAN
    /\ contexts \in Seq(Projects) /\ Len(contexts) <= Capacity
    /\ running \subseteq Projects
    /\ evicted \in Projects \cup {None}
    /\ written \in Seq(Response)
    /\ phase \in {"serving", "closing", "ended"}
    /\ silenced \cup torn \subseteq DOMAIN sent

\* StdioServerSession::new: without a project (multi-project) or with one.
Init ==
    /\ sent = <<>> /\ host = "ready" /\ pipe = <<>> /\ line = 0
    /\ queued = <<>> /\ active = NoRequest /\ stdinClosed = FALSE
    /\ contexts \in {<<>>} \cup {<<p>> : p \in Projects}
    /\ running = {} /\ evicted = None
    /\ written = <<>> /\ phase = "serving" /\ failed = FALSE
    /\ silenced = {} /\ torn = {}

-----------------------------------------------------------------------------
(* The host, outside the program. *)

\* What a frame of a kind is about: a tool call its project, a cancellation
\* the request with that id.
About(kind) ==
    CASE kind = "tool" -> Projects
      [] kind = "cancel" -> {n \in DOMAIN sent : sent[n].kind \in {"tool", "plain"}}
      [] OTHER -> {None}

\* The host writes a frame, or its first half.
Write(kind, piece) ==
    /\ host = "ready" /\ Len(sent) < MaxFrames
    /\ \E of \in About(kind) : sent' = Append(sent, [kind |-> kind, of |-> of])
    /\ \/ /\ piece = "whole"
          /\ pipe' = Append(pipe, [n |-> Len(sent'), part |-> "whole"])
          /\ UNCHANGED host
       \/ /\ piece = "halves"
          /\ pipe' = Append(pipe, [n |-> Len(sent'), part |-> "head"])
          /\ host' = "midway"
    /\ UNCHANGED <<loopVars, active, projectVars, written, endVars>>

\* The host writes the second half.
WriteRest ==
    /\ host = "midway"
    /\ pipe' = Append(pipe, [n |-> Len(sent), part |-> "tail"])
    /\ host' = "ready"
    /\ UNCHANGED <<sent, loopVars, active, projectVars, written, endVars>>

Closed == host \in {"closed", "cut"}

\* The host closes stdin, perhaps in the middle of a frame.
CloseStdin ==
    /\ \/ host = "ready" /\ host' = "closed"
       \/ host = "midway" /\ host' = "cut"
    /\ UNCHANGED <<sent, pipe, loopVars, active, projectVars, written, endVars>>

-----------------------------------------------------------------------------
(* Reading and queueing. *)

Idle == active.n = 0

\* The task of the active request has ended, and may be joined.
Finished == active.step \in {"done", "panicked"}

\* stdio_message_id_key: the id of a piece of work, which a line that is no
\* JSON and an error response do not have.
Named(work, id) == work.n = id /\ work.kind \in {"tool", "plain"}

\* FAULTY: the cancellation only looks at the queue, not at the active request.
QueueFrameMissesActive(n, kind) ==
    LET of == sent[n].of
        hit == {i \in DOMAIN queued : Named(queued[i], of)}
    IN  /\ IF kind = "cancel"
           THEN /\ queued' = [i \in DOMAIN queued |->
                                 [queued[i] EXCEPT !.cancelled = @ \/ i \in hit]]
                /\ active' = active
                /\ silenced' = silenced \cup
                       (IF hit # {} \/ Named(active, of) THEN {of} ELSE {})
           ELSE /\ queued' = IF kind = "blank" THEN queued
                             ELSE Append(queued, [n |-> n, kind |-> kind, cancelled |-> FALSE])
                /\ UNCHANGED <<active, silenced>>

\* FAULTY: an error response goes ahead of the requests that wait.
QueueFrameErrorFirst(n, kind) ==
    /\ kind # "cancel"
    /\ queued' = IF kind = "oversized"
                 THEN <<[n |-> n, kind |-> kind, cancelled |-> FALSE]>> \o queued
                 ELSE Append(queued, [n |-> n, kind |-> kind, cancelled |-> FALSE])
    /\ UNCHANGED <<active, silenced>>

\* queue_stdio_frame: a cancellation flags the active request and the queued
\* ones with its target's id; an empty line is dropped; an unreadable line
\* queues its error response; everything else is queued for the worker.
QueueFrame(n, kind) ==
    LET of == sent[n].of
        hit == {i \in DOMAIN queued : Named(queued[i], of)}
    IN  /\ IF kind = "cancel"
           THEN /\ queued' = [i \in DOMAIN queued |->
                                 [queued[i] EXCEPT !.cancelled = @ \/ i \in hit]]
                /\ active' = [active EXCEPT !.cancelled = @ \/ Named(active, of)]
                /\ silenced' = silenced \cup
                       (IF hit # {} \/ Named(active, of) THEN {of} ELSE {})
           ELSE /\ queued' = IF kind = "blank" THEN queued
                             ELSE Append(queued, [n |-> n, kind |-> kind, cancelled |-> FALSE])
                /\ UNCHANGED <<active, silenced>>

\* The loop awaits a frame when it is idle with nothing queued, and polls for
\* one next to the running task.
Reading ==
    /\ phase = "serving" /\ ~stdinClosed
    /\ Idle => queued = <<>>

\* What the tail of a frame reads as once its head is lost: some line that is
\* no JSON, only its line end, or still too long a line.
TornReadings(n) ==
    {"bad", "blank"} \cup (IF sent[n].kind = "oversized" THEN {"oversized"} ELSE {})

\* read_stdio_frame meets the newline: the frame is complete.
ReadFrame ==
    /\ Reading /\ pipe # <<>> /\ Head(pipe).part # "head"
    /\ LET n == Head(pipe).n IN
       \/ /\ Head(pipe).part = "whole" \/ line = n
          /\ QueueFrame(n, sent[n].kind)
          /\ UNCHANGED torn
       \/ /\ Head(pipe).part = "tail" /\ line # n
          /\ \E kind \in TornReadings(n) : QueueFrame(n, kind)
          /\ torn' = torn \cup {n}
    /\ pipe' = Tail(pipe) /\ line' = 0
    /\ UNCHANGED <<hostVars, stdinClosed, projectVars, written, endVars>>

\* read_stdio_frame consumes what there is, finds no newline and awaits more.
ReadHead ==
    /\ Reading /\ pipe # <<>> /\ Head(pipe).part = "head"
    /\ line' = Head(pipe).n /\ pipe' = Tail(pipe)
    /\ UNCHANGED <<hostVars, queued, stdinClosed, silenced, torn, active, projectVars, written, endVars>>

\* What the head of a frame reads as when stdin ends after it: the frame itself
\* if only its line end is missing, or if the head alone is too long; otherwise
\* a line that is no JSON.
CutReadings(n) ==
    {sent[n].kind} \cup (IF sent[n].kind = "blank" THEN {} ELSE {"bad"})

\* read_stdio_frame at the end of stdin: an unfinished line is a frame, and
\* without one stdin is closed.
ReadEnd ==
    /\ Reading /\ pipe = <<>> /\ Closed
    /\ \/ line = 0 /\ stdinClosed' = TRUE /\ UNCHANGED <<queued, active, silenced, line>>
       \/ /\ line # 0 /\ line' = 0
          /\ \E kind \in CutReadings(line) : QueueFrame(line, kind)
          /\ UNCHANGED stdinClosed
    /\ UNCHANGED <<hostVars, pipe, torn, projectVars, written, endVars>>

-----------------------------------------------------------------------------
(* The loop's turn: the queue, and the completion of the task. *)

Respond(n, kind) == written' = Append(written, [n |-> n, kind |-> kind])

\* The queue's front is an error response: it is written.
WriteQueuedError ==
    /\ phase = "serving" /\ Idle /\ queued # <<>> /\ Head(queued).kind = "oversized"
    /\ Respond(Head(queued).n, "oversized")
    /\ queued' = Tail(queued)
    /\ UNCHANGED <<hostVars, pipe, line, stdinClosed, silenced, torn, active, projectVars, endVars>>

\* A message cancelled while it was queued is dropped without an answer.
SkipCancelled ==
    /\ phase = "serving" /\ Idle /\ queued # <<>>
    /\ Head(queued).kind # "oversized" /\ Head(queued).cancelled
    /\ queued' = Tail(queued)
    /\ UNCHANGED <<hostVars, pipe, line, stdinClosed, silenced, torn, active, projectVars, written, endVars>>

\* A message is handed to a blocking task, with the session.
StartRequest ==
    /\ phase = "serving" /\ Idle /\ queued # <<>>
    /\ Head(queued).kind # "oversized" /\ ~Head(queued).cancelled
    /\ active' = [n |-> Head(queued).n, kind |-> Head(queued).kind,
                  cancelled |-> FALSE, step |-> "handle"]
    /\ queued' = Tail(queued)
    /\ UNCHANGED <<hostVars, pipe, line, stdinClosed, silenced, torn, projectVars, written, endVars>>

\* FAULTY: the request that is drained after the end of stdin is not answered.
AnswerActiveWhileOpen ==
    IF active.cancelled \/ active.kind = "notification" \/ stdinClosed THEN UNCHANGED written
    ELSE Respond(active.n, active.kind)

\* A response is written unless the request was cancelled; a notification has
\* none.
AnswerActive ==
    IF active.cancelled \/ active.kind = "notification" THEN UNCHANGED written
    ELSE Respond(active.n, active.kind)

\* The completed branch of select!, or finish_active_stdio_request once stdin
\* is closed: the session comes back and the response is written.  The branch
\* drops the read in progress, and with it the head of a frame.
CompleteRequest ==
    /\ phase = "serving" /\ active.step = "done"
    /\ AnswerActive
    /\ active' = NoRequest /\ line' = 0
    /\ UNCHANGED <<hostVars, pipe, queued, stdinClosed, silenced, torn, projectVars, endVars>>

\* A task that panicked ends the server with an error.
JoinPanicked ==
    /\ phase = "serving" /\ active.step = "panicked"
    /\ phase' = "closing" /\ failed' = TRUE /\ line' = 0
    /\ UNCHANGED <<hostVars, pipe, queued, stdinClosed, silenced, torn, active, projectVars, written>>

\* Reading stdin or writing stdout fails, and ends the server with an error.
StdioFails ==
    /\ phase = "serving" /\ "io" \in Faults
    /\ phase' = "closing" /\ failed' = TRUE
    /\ UNCHANGED <<hostVars, pipe, loopVars, active, projectVars, written>>

\* FAULTY: the server leaves the queue behind when stdin is closed.
EndOfInputAtOnce ==
    /\ phase = "serving" /\ Idle /\ stdinClosed
    /\ phase' = "closing"
    /\ UNCHANGED <<hostVars, pipe, loopVars, active, projectVars, written, failed>>

\* With stdin closed, the queue empty and nothing active the loop ends.
EndOfInput ==
    /\ phase = "serving" /\ Idle /\ queued = <<>> /\ stdinClosed
    /\ phase' = "closing"
    /\ UNCHANGED <<hostVars, pipe, loopVars, active, projectVars, written, failed>>

\* Drop of StdioServerSession: cancel_and_wait for each project in turn.  A
\* request that outlives the loop returns its session first.
CloseContext ==
    /\ phase = "closing" /\ (Idle \/ Finished)
    /\ \/ /\ contexts # <<>> /\ Head(contexts) \notin running
          /\ contexts' = Tail(contexts)
          /\ UNCHANGED phase
       \/ /\ contexts = <<>>
          /\ phase' = "ended"
          /\ UNCHANGED contexts
    /\ UNCHANGED <<hostVars, pipe, loopVars, active, running, evicted, written, failed>>

-----------------------------------------------------------------------------
(* The blocking task: handle_stdio_message. *)

Step(step) == active' = [active EXCEPT !.step = step]

\* Listings, errors and notifications need no project.
HandlePlain ==
    /\ active.step = "handle" /\ active.kind # "tool"
    /\ Step("done")
    /\ UNCHANGED <<hostVars, pipe, loopVars, projectVars, written, endVars>>

\* select_project returns an error (no project or no absolute path, a root that
\* cannot be opened, a runtime that cannot be made) before it touches the
\* session: the answer says so.
ProjectRefused ==
    /\ active.step = "handle" /\ active.kind = "tool"
    /\ Step("done")
    /\ UNCHANGED <<hostVars, pipe, loopVars, projectVars, written, endVars>>

\* FAULTY: the context over capacity is forgotten without its activation.
SelectProjectForgets ==
    LET p == sent[active.n].of
        others == RemoveFirst(contexts, p)
    IN  /\ active.step = "handle" /\ active.kind = "tool"
        /\ contexts' = SubSeq(<<p>> \o others, 1, Min({Len(others) + 1, Capacity}))
        /\ Step("activate")
        /\ UNCHANGED evicted
        /\ UNCHANGED <<hostVars, pipe, loopVars, running, written, endVars>>

\* select_project: the context moves to the front, or is made there; the one
\* that then is over capacity leaves, and cancel_and_wait waits for it.
SelectProject ==
    LET p == sent[active.n].of
        others == RemoveFirst(contexts, p)
        full == Len(others) >= Capacity
    IN  /\ active.step = "handle" /\ active.kind = "tool"
        /\ contexts' = <<p>> \o (IF full THEN Front(others) ELSE others)
        /\ evicted' = IF full THEN Last(others) ELSE None
        /\ Step(IF full THEN "evict" ELSE "activate")
        /\ UNCHANGED <<hostVars, pipe, loopVars, running, written, endVars>>

\* cancel_and_wait returns: the evicted project's activation has ended.
Evicted ==
    /\ active.step = "evict" /\ evicted \notin running
    /\ evicted' = None
    /\ Step("activate")
    /\ UNCHANGED <<hostVars, pipe, loopVars, contexts, running, written, endVars>>

\* activate_project: a cancelled request does nothing; otherwise it joins the
\* running activation or starts one, whose thread may fail to start.
Activate ==
    /\ active.step = "activate"
    /\ \/ active.cancelled /\ Step("done") /\ UNCHANGED running
       \/ ~active.cancelled /\ Step("wait") /\ running' = running \cup {Head(contexts)}
       \/ ~active.cancelled /\ Step("done") /\ UNCHANGED running
    /\ UNCHANGED <<hostVars, pipe, loopVars, contexts, evicted, written, endVars>>

\* wait_for_activation returns because the activation ended, the request was
\* cancelled or the foreground budget is spent; the answer is then computed.
Waited ==
    /\ active.step = "wait"
    /\ Step("done")
    /\ UNCHANGED <<hostVars, pipe, loopVars, projectVars, written, endVars>>

\* The task panics.  Unwinding drops the session, as CloseContext does.
Panic ==
    /\ "panic" \in Faults
    /\ active.step \in {"handle", "activate", "wait"}
    /\ Step("panicked")
    /\ UNCHANGED <<hostVars, pipe, loopVars, projectVars, written, endVars>>

\* FAULTY: a thread reports its end only to a context the session still holds.
ActivationEndsIfHeld(p) ==
    /\ p \in running /\ p # evicted
    /\ running' = running \ {p}
    /\ UNCHANGED <<hostVars, pipe, loopVars, active, contexts, evicted, written, endVars>>

\* run_activation_worker: the thread finishes, fails, panics or sees the
\* cancellation; finish clears `running` in every case.
ActivationEnds(p) ==
    /\ p \in running
    /\ running' = running \ {p}
    /\ UNCHANGED <<hostVars, pipe, loopVars, active, contexts, evicted, written, endVars>>

-----------------------------------------------------------------------------
Loop ==
    \/ ReadFrame \/ ReadHead \/ ReadEnd
    \/ WriteQueuedError \/ SkipCancelled \/ StartRequest
    \/ EndOfInput \/ CloseContext

Join == CompleteRequest \/ JoinPanicked

Task == HandlePlain \/ ProjectRefused \/ SelectProject \/ Evicted \/ Activate \/ Waited

Next ==
    \/ \E kind \in Kinds, piece \in Pieces : Write(kind, piece)
    \/ WriteRest \/ CloseStdin
    \/ Loop \/ Join \/ StdioFails
    \/ Task \/ Panic
    \/ \E p \in Projects : ActivationEnds(p)
    \/ phase = "ended" /\ UNCHANGED vars

Spec == Init /\ [][Next]_vars

\* The runtime keeps polling the loop and the pool runs the task; select!
\* starts at a random branch, so a completed task is joined although frames
\* keep coming.  Every activation ends.  The host owes nothing.
Fairness ==
    /\ WF_vars(Loop) /\ WF_vars(Join) /\ WF_vars(Task)
    /\ \A p \in Projects : WF_vars(ActivationEnds(p))

FairSpec == Spec /\ Fairness
-----------------------------------------------------------------------------
\* Responses leave in the order in which the host sent the frames, at most one
\* for each: error responses wait their turn in the queue behind requests, and
\* one request runs at a time although reading goes on (run_stdio_server).
AnswersInOrder ==
    \A i, j \in DOMAIN written : i < j => written[i].n < written[j].n

\* A request is not answered once the server has read its cancellation, be it
\* queued, running, or finished and not yet joined (queue_stdio_frame flags it
\* and three places look at the flag).
CancelledStaysSilent ==
    [][\A n \in silenced :
          (\E i \in DOMAIN written' : written'[i].n = n) =>
          (\E i \in DOMAIN written : written[i].n = n)]_vars

\* No activation thread is orphaned: it belongs to a context of the session or
\* to the one whose eviction waits for it, and none survives the server.
NoOrphanActivation ==
    /\ running \subseteq ToSet(contexts) \cup {evicted}
    /\ phase = "ended" => running = {}

Answered(n) == \E i \in DOMAIN written : written[i].n = n

\* The frame is completely written.
Delivered(n) == n \in DOMAIN sent /\ (n = Len(sent) => host \in {"ready", "closed"})

\* The host has completely written the frame, and it is one that has an answer.
Owed(n) == Delivered(n) /\ sent[n].kind \in {"tool", "plain", "bad", "oversized"}

\* It is answered, or need not be: it was cancelled, torn, or the server failed.
Settled(n) == Answered(n) \/ n \in silenced \cup torn \/ failed

\* The piece that ends the frame is still to be read.
Unread(n) == \E k \in DOMAIN pipe : pipe[k].n = n /\ pipe[k].part # "head"

\* No complete request gets lost between stdin and stdout: it is settled, or
\* the loop still serves and the pipe, the queue or the task has it, although
\* frames are read, flagged, skipped and dropped while others run and stdin
\* ends.  A server that ends without an error has settled every one.
RequestsKept ==
    \A n \in DOMAIN sent : Owed(n) =>
        \/ Settled(n)
        \/ /\ phase = "serving"
           /\ Unread(n) \/ active.n = n \/ \E j \in DOMAIN queued : queued[j].n = n

\* Every request the host has completely written is answered in the end, also
\* when stdin is closed at once, unless it was cancelled, its frame was torn or
\* the server failed.
RequestsSettle == \A n \in 1..MaxFrames : Owed(n) ~> Settled(n)

\* Once the host closes stdin the server ends, whatever is queued, running or
\* activating then (the drain of run_stdio_server and the session's Drop).
ServerEnds == Closed ~> (phase = "ended")

\* A parse error answers only a frame that the host itself sent malformed: an
\* intact frame is never read in pieces.
FramesReadWhole ==
    \A i \in DOMAIN written :
        written[i].kind = "bad" =>
            \/ sent[written[i].n].kind = "bad"
            \/ host = "cut" /\ written[i].n = Len(sent)
=============================================================================
