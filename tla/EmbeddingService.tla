-------------------------- MODULE EmbeddingService --------------------------
(***************************************************************************)
(* What the embedding engine promises to the threads that use it, with the *)
(* queues, signals, scheduling, residency and nesting of the worker left   *)
(* out: where each request is, who decided its fate, and which load        *)
(* generation each residency lease names.  EmbeddingEngine implements this *)
(* specification and EmbeddingServer is built on it.                       *)
(***************************************************************************)
EXTENDS Integers

CONSTANTS Requests, Callers

VARIABLES
    place,   \* where the engine has each request
    fate,    \* the request context: still live, cancelled or committed
    result,  \* the answer in the response channel
    lease,   \* residency lease of each caller
    gen      \* current load generation

serviceVars == <<place, fate, result, lease, gen>>

Places == {"out", "queue", "hand", "active", "done"}
NoLease == [state |-> "none", gen |-> 0]

ServiceInit ==
    /\ place = [r \in Requests |-> "out"]
    /\ fate = [r \in Requests |-> "live"]
    /\ result = [r \in Requests |-> "none"]
    /\ lease = [c \in Callers |-> NoLease]
    /\ gen = 0

----------------------------------------------------------------------------
(* What may happen to one request; p, f, a are its next place, fate, answer. *)

\* submit accepts the request.
Accepted(r, p, f, a) ==
    place[r] = "out" /\ p = "queue" /\ f = fate[r] /\ a = "none"

\* cancel wins as long as nothing else was decided.
CancelWins(r, p, f, a) ==
    fate[r] = "live" /\ f = "cancelled" /\ p = place[r] /\ a = result[r]

\* The worker takes a request out of its queue, then activates it.
Taken(r, p, f, a) ==
    place[r] = "queue" /\ p = "hand" /\ f = fate[r] /\ a = "none"
Activated(r, p, f, a) ==
    place[r] = "hand" /\ fate[r] = "live" /\ p = "active" /\ f = "live" /\ a = "none"

\* commit wins: the outcome of the encode is the answer.
CommitWins(r, p, f, a) ==
    /\ place[r] = "active" /\ fate[r] = "live"
    /\ p = "done" /\ f = "committed" /\ a \in {"ok", "failed"}

\* A cancelled request is answered Cancelled, wherever it had got to.
CancelAnswered(r, p, f, a) ==
    /\ place[r] \in {"queue", "hand", "active"} /\ fate[r] = "cancelled"
    /\ p = "done" /\ f = "cancelled" /\ a = "cancelled"

\* The load that a request asked for failed.
LoadFailed(r, p, f, a) ==
    place[r] = "hand" /\ p = "done" /\ f = fate[r] /\ a = "failed"

\* The answer is received, or lost with an abandoned handle, and the slot gets
\* a new context; so does a slot whose context was never submitted.
Renewed(r, p, f, a) ==
    place[r] \in {"out", "done"} /\ p = "out" /\ f = "live" /\ a = "none"

RequestMove(r, p, f, a) ==
    \/ Accepted(r, p, f, a) \/ CancelWins(r, p, f, a) \/ Taken(r, p, f, a)
    \/ Activated(r, p, f, a) \/ CommitWins(r, p, f, a)
    \/ CancelAnswered(r, p, f, a) \/ LoadFailed(r, p, f, a) \/ Renewed(r, p, f, a)

\* One step of the engine may move several requests: a pop answers every
\* cancelled request that it prunes.
RequestStep ==
    \A r \in Requests :
        \/ UNCHANGED <<place[r], fate[r], result[r]>>
        \/ RequestMove(r, place'[r], fate'[r], result'[r])

----------------------------------------------------------------------------
(* Residency leases *)

LeaseStep ==
    \A c \in Callers :
        \/ lease'[c] = lease[c]
        \/ lease[c] = NoLease /\ lease'[c] = [state |-> "held", gen |-> gen]
        \/ lease[c].state = "held" /\ lease'[c] = NoLease

\* The model is loaded again only when no lease is out.
GenerationStep ==
    \/ gen' = gen
    \/ gen' = gen + 1 /\ \A c \in Callers : lease[c] = NoLease /\ lease'[c] = NoLease

ServiceNext == RequestStep /\ LeaseStep /\ GenerationStep

ServiceSpec == ServiceInit /\ [][ServiceNext]_serviceVars
=============================================================================
