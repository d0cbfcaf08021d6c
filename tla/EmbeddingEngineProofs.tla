----------------------- MODULE EmbeddingEngineProofs -----------------------
(***************************************************************************)
(* What holds of EmbeddingEngine for every set of requests, every finite   *)
(* set of callers, every queue capacity, batch count and number of loads:  *)
(* the safety invariants that the model-checking run checks, and that the  *)
(* engine implements EmbeddingService.                                     *)
(*                                                                         *)
(* The inductive invariant EngineInv has a half about requests and a half  *)
(* about control. Of a request it says in which one place it is (OnePlace) *)
(* and what its lifecycle word may be there (LifeOf); of control, what the *)
(* channel may hold, what each caller waits for, who owns the engine and   *)
(* what the leases pin; SignalInv ties the queues to their signals.        *)
(*                                                                         *)
(* The actions are many, but what a step can do to one request is one of   *)
(* eight moves: nothing, submitted, given up, collected, popped, woken,    *)
(* begun, answered. StepMoves says so of every step; that the moves keep   *)
(* the request half, and that each is a move of EmbeddingService or leaves *)
(* it alone, is then shown once for each move and not for each action. The *)
(* control half is kept by StepControl, the signals by StepSignal.         *)
(***************************************************************************)
EXTENDS EmbeddingEngine, FiniteSetTheorems, SequenceTheorems, TLAPS

-----------------------------------------------------------------------------
(* Sequences: what Subsequence, and so pruning a queue, returns. *)

Distinct(s) == \A i, j \in DOMAIN s : s[i] = s[j] => i = j

Rank(positions, i) == Cardinality({j \in positions : j <= i})

\* The rank of a position is at least 1 and grows with the position.
LEMMA RankGrows ==
    ASSUME NEW n \in Nat, NEW I \in SUBSET (1..n)
    PROVE  /\ IsFiniteSet(I) /\ Cardinality(I) \in Nat
           /\ \A i \in I : Rank(I, i) \in 1..Cardinality(I)
           /\ \A i, j \in I : i < j => Rank(I, i) < Rank(I, j)
<1>0. I \in SUBSET Nat /\ \A i \in I : i <= n
  OBVIOUS
<1>1. IsFiniteSet(I) /\ Cardinality(I) \in Nat
  BY <1>0, FS_BoundedSetOfNaturals, FS_CardinalityType
<1>2. ASSUME NEW i \in I
      PROVE  /\ IsFiniteSet({j \in I : j <= i})
             /\ Rank(I, i) \in 1..Cardinality(I)
  <2> DEFINE B == {j \in I : j <= i}
  <2>1. IsFiniteSet(B) /\ Cardinality(B) \in Nat /\ Cardinality(B) <= Cardinality(I)
    BY <1>1, FS_Subset, FS_CardinalityType
  <2>2. B /= {}
    OBVIOUS
  <2>3. Cardinality(B) /= 0
    BY <2>1, <2>2, FS_EmptySet
  <2> QED BY <1>1, <2>1, <2>3 DEF Rank
<1>3. ASSUME NEW i \in I, NEW j \in I, i < j
      PROVE  Rank(I, i) < Rank(I, j)
  <2> DEFINE B == {k \in I : k <= i}
             C == {k \in I : k <= j}
  <2>1. B \in SUBSET C /\ j \in C /\ j \notin B
    <3>1. \A k \in I : k <= i => k <= j
      BY <1>0, <1>3
    <3>2. ~(j <= i) /\ j <= j
      BY <1>0, <1>3
    <3> QED BY <3>1, <3>2
  <2>2. IsFiniteSet(C)
    BY <1>2
  <2>3. Cardinality(B) <= Cardinality(C) /\ Cardinality(C) /= Cardinality(B)
    BY <2>1, <2>2, FS_Subset
  <2>4. Cardinality(B) \in Nat /\ Cardinality(C) \in Nat
    BY <1>2, FS_CardinalityType
  <2> QED BY <2>3, <2>4 DEF Rank
<1> QED BY <1>1, <1>2, <1>3

\* Every rank is taken, by the position that Nth chooses.
LEMMA NthPosition ==
    ASSUME NEW n \in Nat, NEW I \in SUBSET (1..n)
    PROVE  /\ \A k \in 1..Cardinality(I) : Nth(I, k) \in I /\ Rank(I, Nth(I, k)) = k
           /\ \A i \in I : Nth(I, Rank(I, i)) = i
<1>1. /\ IsFiniteSet(I) /\ Cardinality(I) \in Nat
      /\ \A i \in I : Rank(I, i) \in 1..Cardinality(I)
      /\ \A i, j \in I : i < j => Rank(I, i) < Rank(I, j)
  BY RankGrows
<1> DEFINE f == [i \in I |-> Rank(I, i)]
<1>2. \A i, j \in I : Rank(I, i) = Rank(I, j) => i = j
  <2> SUFFICES ASSUME NEW i \in I, NEW j \in I, Rank(I, i) = Rank(I, j), i /= j
               PROVE FALSE
    OBVIOUS
  <2>1. i < j \/ j < i
    OBVIOUS
  <2>2. Rank(I, i) < Rank(I, j) \/ Rank(I, j) < Rank(I, i)
    BY <1>1, <2>1
  <2>3. Rank(I, i) \in Nat
    BY <1>1
  <2> QED BY <2>2, <2>3
<1>3. f \in Injection(I, 1..Cardinality(I))
  BY <1>1, <1>2 DEF Injection, IsInjective
<1>4. /\ IsFiniteSet(1..Cardinality(I))
      /\ Cardinality(1..Cardinality(I)) = Cardinality(I)
  BY <1>1, FS_Interval
<1>5. f \in Surjection(I, 1..Cardinality(I))
  BY <1>3, <1>4, FS_Injection
<1>6. \A k \in 1..Cardinality(I) : \E i \in I : Rank(I, i) = k
  BY <1>5 DEF Surjection
<1>7. \A k \in 1..Cardinality(I) : Nth(I, k) \in I /\ Rank(I, Nth(I, k)) = k
  BY <1>6 DEF Nth, Rank
<1> QED BY <1>1, <1>2, <1>7

\* A subsequence has exactly the entries at the chosen positions, and repeats
\* none that the sequence does not repeat.
LEMMA SubsequenceFacts ==
    ASSUME NEW S, NEW s \in Seq(S), NEW I \in SUBSET DOMAIN s
    PROVE  /\ Subsequence(s, I) \in Seq(S)
           /\ \A x : In(Subsequence(s, I), x) <=> \E i \in I : s[i] = x
           /\ Distinct(s) => Distinct(Subsequence(s, I))
           /\ Subsequence(s, I) = <<>> <=> I = {}
<1> DEFINE n == Cardinality(I)
           t == Subsequence(s, I)
<1>0. DOMAIN s = 1..Len(s) /\ Len(s) \in Nat
  OBVIOUS
<1>1. /\ \A k \in 1..n : Nth(I, k) \in I /\ Rank(I, Nth(I, k)) = k
      /\ \A i \in I : Nth(I, Rank(I, i)) = i
  BY <1>0, NthPosition
<1>2. /\ n \in Nat /\ IsFiniteSet(I)
      /\ \A i \in I : Rank(I, i) \in 1..n
  BY <1>0, RankGrows
<1>3. t = [k \in 1..n |-> s[Nth(I, k)]]
  BY DEF Subsequence
<1>4. t \in Seq(S) /\ Len(t) = n /\ DOMAIN t = 1..n
  BY <1>0, <1>1, <1>2, <1>3
<1>5. ASSUME NEW x
      PROVE  In(t, x) <=> \E i \in I : s[i] = x
  <2>1. ASSUME NEW i \in I, s[i] = x PROVE In(t, x)
    <3>1. Rank(I, i) \in 1..n /\ t[Rank(I, i)] = x
      BY <1>1, <1>2, <1>3, <2>1
    <3> QED BY <1>4, <3>1 DEF In
  <2>2. ASSUME In(t, x) PROVE \E i \in I : s[i] = x
    BY <1>1, <1>3, <1>4, <2>2 DEF In
  <2> QED BY <2>1, <2>2
<1>6. ASSUME Distinct(s) PROVE Distinct(t)
  <2> SUFFICES ASSUME NEW j \in 1..n, NEW k \in 1..n, t[j] = t[k]
               PROVE j = k
    BY <1>4 DEF Distinct
  <2>1. Nth(I, j) = Nth(I, k)
    BY <1>0, <1>1, <1>3, <1>6 DEF Distinct
  <2> QED BY <1>1, <2>1
<1>7. t = <<>> <=> I = {}
  <2>1. n = 0 <=> I = {}
    BY <1>2, FS_EmptySet
  <2>2. t = <<>> <=> n = 0
    BY <1>2, <1>4
  <2> QED BY <2>1, <2>2
<1> QED BY <1>4, <1>5, <1>6, <1>7

\* What the head and the tail of a sequence without repetitions hold.
LEMMA TailFacts ==
    ASSUME NEW S, NEW s \in Seq(S), s /= <<>>, Distinct(s)
    PROVE  /\ Head(s) \in S /\ In(s, Head(s))
           /\ Tail(s) \in Seq(S) /\ Distinct(Tail(s))
           /\ \A x : In(Tail(s), x) <=> In(s, x) /\ x /= Head(s)
<1>1. /\ Len(s) \in Nat \ {0} /\ DOMAIN s = 1..Len(s)
      /\ Head(s) = s[1] /\ Head(s) \in S
      /\ Tail(s) \in Seq(S) /\ DOMAIN Tail(s) = 1..(Len(s) - 1)
      /\ \A i \in 1..(Len(s) - 1) : Tail(s)[i] = s[i + 1]
  BY HeadTailProperties
<1>2. In(s, Head(s))
  BY <1>1 DEF In
<1>3. Distinct(Tail(s))
  BY <1>1 DEF Distinct
<1>4. ASSUME NEW x, In(Tail(s), x) PROVE In(s, x) /\ x /= Head(s)
  <2>1. PICK i \in 1..(Len(s) - 1) : s[i + 1] = x
    BY <1>1, <1>4 DEF In
  <2>2. i + 1 \in DOMAIN s /\ 1 \in DOMAIN s /\ i + 1 /= 1
    BY <1>1
  <2> QED BY <1>1, <2>1, <2>2 DEF In, Distinct
<1>5. ASSUME NEW x, In(s, x), x /= Head(s) PROVE In(Tail(s), x)
  <2>1. PICK i \in 1..Len(s) : s[i] = x
    BY <1>1, <1>5 DEF In
  <2>2. i - 1 \in 1..(Len(s) - 1) /\ (i - 1) + 1 = i
    BY <1>1, <1>5, <2>1
  <2>3. Tail(s)[i - 1] = x
    BY <1>1, <2>1, <2>2
  <2> QED BY <1>1, <2>2, <2>3 DEF In
<1> QED BY <1>1, <1>2, <1>3, <1>4, <1>5

\* What a sequence holds with one more entry at its end.
LEMMA AppendFacts ==
    ASSUME NEW S, NEW s \in Seq(S), NEW e \in S
    PROVE  /\ Append(s, e) \in Seq(S)
           /\ \A x : In(Append(s, e), x) <=> In(s, x) \/ x = e
           /\ Distinct(s) /\ ~In(s, e) => Distinct(Append(s, e))
<1>1. /\ Len(s) \in Nat /\ DOMAIN s = 1..Len(s)
      /\ Append(s, e) \in Seq(S) /\ DOMAIN Append(s, e) = 1..(Len(s) + 1)
      /\ \A i \in 1..Len(s) : Append(s, e)[i] = s[i]
      /\ Append(s, e)[Len(s) + 1] = e
  BY AppendProperties
<1>2. ASSUME NEW x PROVE In(Append(s, e), x) <=> In(s, x) \/ x = e
  <2>1. ASSUME In(Append(s, e), x) PROVE In(s, x) \/ x = e
    <3>1. PICK i \in 1..(Len(s) + 1) : Append(s, e)[i] = x
      BY <1>1, <2>1 DEF In
    <3>2. i = Len(s) + 1 \/ i \in 1..Len(s)
      BY <1>1
    <3> QED BY <1>1, <3>1, <3>2 DEF In
  <2>2. ASSUME In(s, x) PROVE In(Append(s, e), x)
    <3>1. PICK i \in 1..Len(s) : s[i] = x
      BY <1>1, <2>2 DEF In
    <3>2. i \in 1..(Len(s) + 1) /\ Append(s, e)[i] = x
      BY <1>1, <3>1
    <3> QED BY <1>1, <3>2 DEF In
  <2>3. In(Append(s, e), e)
    <3>1. Len(s) + 1 \in 1..(Len(s) + 1)
      BY <1>1
    <3> QED BY <1>1, <3>1 DEF In
  <2> QED BY <2>1, <2>2, <2>3
<1>3. ASSUME Distinct(s), ~In(s, e) PROVE Distinct(Append(s, e))
  BY <1>1, <1>3 DEF Distinct, In
<1> QED BY <1>1, <1>2, <1>3

-----------------------------------------------------------------------------
(* The stack of activations, by the requests on it. *)

OneEach(s) == \A i, j \in DOMAIN s : s[i].req = s[j].req => i = j
BatchLeft(f) == f.at \in {"begin", "batch", "between"} => f.left >= 1
BatchesLeft(s) == \A i \in DOMAIN s : BatchLeft(s[i])

\* The request waits to be activated, is active, or its activation has seen
\* a cancellation.
Marked(f) == f.sawCancel \/ f.result = "cancelled"
Beginning(s, r) == \E i \in DOMAIN s : s[i].req = r /\ s[i].at = "begin"
Running(s, r) == \E i \in DOMAIN s : s[i].req = r /\ s[i].at /= "begin"
Traced(s, r) == \E i \in DOMAIN s : s[i].req = r /\ Marked(s[i])

\* The innermost activation tells all there is about its request.
LEMMA TopFacts ==
    ASSUME NEW s \in Seq(Frames), s /= <<>>, OneEach(s), NEW f, f = s[Len(s)]
    PROVE  /\ f \in Frames
           /\ Beginning(s, f.req) <=> f.at = "begin"
           /\ Running(s, f.req) <=> f.at /= "begin"
           /\ Traced(s, f.req) <=> Marked(f)
<1>1. Len(s) \in DOMAIN s /\ DOMAIN s = 1..Len(s) /\ f \in Frames
  OBVIOUS
<1>2. \A i \in DOMAIN s : s[i].req = f.req <=> i = Len(s)
  BY <1>1 DEF OneEach
<1> QED BY <1>1, <1>2 DEF Beginning, Running, Traced

\* The innermost activation goes on.
LEMMA TopMoves ==
    ASSUME NEW s \in Seq(Frames), s /= <<>>, OneEach(s), BatchesLeft(s),
           NEW f \in Frames, f.req = s[Len(s)].req, BatchLeft(f),
           NEW t, t = [s EXCEPT ![Len(s)] = f]
    PROVE  /\ t \in Seq(Frames) /\ t /= <<>> /\ OneEach(t) /\ BatchesLeft(t)
           /\ Len(t) = Len(s) /\ t[Len(t)] = f
           /\ \A r : r /= f.req =>
                 /\ Beginning(t, r) <=> Beginning(s, r)
                 /\ Running(t, r) <=> Running(s, r)
                 /\ Traced(t, r) <=> Traced(s, r)
<1>1. Len(s) \in DOMAIN s /\ DOMAIN s = 1..Len(s) /\ Len(s) \in Nat \ {0}
  OBVIOUS
<1>2. /\ t \in Seq(Frames) /\ t /= <<>> /\ DOMAIN t = DOMAIN s /\ Len(t) = Len(s)
      /\ \A i \in DOMAIN s : t[i] = IF i = Len(s) THEN f ELSE s[i]
  BY <1>1
<1>3. OneEach(t)
  BY <1>1, <1>2 DEF OneEach
<1>4. BatchesLeft(t)
  BY <1>2 DEF BatchesLeft
<1>5. ASSUME NEW r, r /= f.req
      PROVE /\ Beginning(t, r) <=> Beginning(s, r)
            /\ Running(t, r) <=> Running(s, r)
            /\ Traced(t, r) <=> Traced(s, r)
  BY <1>1, <1>2, <1>5 DEF Beginning, Running, Traced
<1> QED BY <1>1, <1>2, <1>3, <1>4, <1>5

\* A request comes onto the stack.
LEMMA StackPush ==
    ASSUME NEW s \in Seq(Frames), OneEach(s), BatchesLeft(s),
           NEW f \in Frames, BatchLeft(f), f.at = "begin", ~Marked(f),
           ~Beginning(s, f.req), ~Running(s, f.req),
           NEW t, t = Append(s, f)
    PROVE  /\ t \in Seq(Frames) /\ t /= <<>> /\ OneEach(t) /\ BatchesLeft(t)
           /\ \A r : /\ Beginning(t, r) <=> Beginning(s, r) \/ r = f.req
                     /\ Running(t, r) <=> Running(s, r)
                     /\ Traced(t, r) <=> Traced(s, r)
<1>1. /\ Len(s) \in Nat /\ DOMAIN s = 1..Len(s)
      /\ t \in Seq(Frames) /\ t /= <<>> /\ DOMAIN t = 1..(Len(s) + 1)
      /\ \A i \in 1..Len(s) : t[i] = s[i]
      /\ t[Len(s) + 1] = f
  BY AppendProperties
<1>2. \A i \in DOMAIN s : s[i].req /= f.req
  BY DEF Beginning, Running
<1>3. \A i \in DOMAIN t : i \in DOMAIN s \/ i = Len(s) + 1
  BY <1>1
<1>4. OneEach(t)
  BY <1>1, <1>2, <1>3 DEF OneEach
<1>5. BatchesLeft(t)
  BY <1>1, <1>3 DEF BatchesLeft
<1>6. \A i \in DOMAIN s : i \in DOMAIN t
  BY <1>1
<1>7. Len(s) + 1 \in DOMAIN t
  BY <1>1
<1>8. ASSUME NEW r
      PROVE /\ Beginning(t, r) <=> Beginning(s, r) \/ r = f.req
            /\ Running(t, r) <=> Running(s, r)
            /\ Traced(t, r) <=> Traced(s, r)
  <2>1. Beginning(t, r) <=> Beginning(s, r) \/ r = f.req
    BY <1>1, <1>3, <1>6, <1>7 DEF Beginning
  <2>2. Running(t, r) <=> Running(s, r)
    BY <1>1, <1>3, <1>6, <1>7 DEF Running
  <2>3. Traced(t, r) <=> Traced(s, r)
    BY <1>1, <1>3, <1>6, <1>7 DEF Traced
  <2> QED BY <2>1, <2>2, <2>3
<1> QED BY <1>1, <1>4, <1>5, <1>8

\* The innermost activation returns.
LEMMA StackPop ==
    ASSUME NEW s \in Seq(Frames), s /= <<>>, OneEach(s), BatchesLeft(s),
           NEW t, t = SubSeq(s, 1, Len(s) - 1)
    PROVE  /\ t \in Seq(Frames) /\ OneEach(t) /\ BatchesLeft(t)
           /\ t = <<>> <=> Len(s) = 1
           /\ ~Beginning(t, s[Len(s)].req) /\ ~Running(t, s[Len(s)].req)
           /\ \A r : Traced(t, r) => Traced(s, r)
           /\ \A r : r /= s[Len(s)].req =>
                 /\ Beginning(t, r) <=> Beginning(s, r)
                 /\ Running(t, r) <=> Running(s, r)
<1>1. Len(s) \in Nat \ {0} /\ DOMAIN s = 1..Len(s)
  OBVIOUS
<1>2. /\ t \in Seq(Frames) /\ DOMAIN t = 1..(Len(s) - 1) /\ Len(t) = Len(s) - 1
      /\ \A i \in 1..(Len(s) - 1) : t[i] = s[i]
  BY <1>1, SubSeqProperties
<1>3. /\ \A i \in DOMAIN t : i \in DOMAIN s /\ i /= Len(s) /\ t[i] = s[i]
      /\ \A i \in DOMAIN s : i /= Len(s) => i \in DOMAIN t
      /\ Len(s) \in DOMAIN s
  BY <1>1, <1>2
<1>4. OneEach(t) /\ BatchesLeft(t)
  BY <1>3 DEF OneEach, BatchesLeft
<1>5. t = <<>> <=> Len(s) = 1
  <2>1. t = <<>> <=> Len(t) = 0
    BY <1>2, EmptySeq
  <2> QED BY <1>1, <1>2, <2>1
<1>6. ~Beginning(t, s[Len(s)].req) /\ ~Running(t, s[Len(s)].req)
  BY <1>3 DEF OneEach, Beginning, Running
<1>7. ASSUME NEW r PROVE Traced(t, r) => Traced(s, r)
  BY <1>3 DEF Traced
<1>8. ASSUME NEW r, r /= s[Len(s)].req
      PROVE /\ Beginning(t, r) <=> Beginning(s, r)
            /\ Running(t, r) <=> Running(s, r)
  BY <1>3, <1>8 DEF Beginning, Running
<1> QED BY <1>2, <1>4, <1>5, <1>6, <1>7, <1>8

-----------------------------------------------------------------------------
(* The inductive invariant. *)

InQueue(r) == In(queue[Class(r)], r)
InWake(r) == wake = Msg("request", r)

\* A queue holds requests of its own class, and each once.
QueuesInv ==
    \A c \in Classes :
        /\ Distinct(queue[c])
        /\ \A r \in Requests : In(queue[c], r) => Class(r) = c

\* Activations exist while the worker executes, each of another request, and a
\* batch is started only if one is left.
StackInv ==
    /\ pc = "exec" <=> stack /= <<>>
    /\ OneEach(stack) /\ BatchesLeft(stack)

\* The shape of the requests, the queues and the activations.
RequestTypes ==
    /\ life \in [Requests -> Lives]
    /\ handle \in [Requests -> {"none", "waiting", "abandoned"}]
    /\ resp \in [Requests -> Seq(Results)]
    /\ queue \in [Classes -> Seq(Requests)]
    /\ stack \in Seq(Frames)

CallerTypes == [doing : CallerStates, gen : 0..MaxGeneration]
Messages ==
    [kind : {"shutdown", "ensure", "lease", "release"}, who : Callers \cup {NoOne}]

ControlTypes ==
    /\ signal \in [Classes -> BOOLEAN]
    /\ control \in Seq(Messages)
    /\ caller \in [Callers -> CallerTypes]
    /\ slot \in {"starting", "open", "failed", "taken", "stopped"}
    /\ pc \in {"load", "prime", "wake", "loop", "select", "exec", "sleep", "stopped"}
    /\ wake \in [kind : {"startup", "request", "ensure", "lease", "none"},
                 who : Requests \cup Callers \cup {NoOne}]
    /\ turn \in Classes
    /\ leases \in Nat
    /\ idle \in BOOLEAN
    /\ published \in [residency : {"None", "Resident", "Sleeping"},
                      gen : 0..MaxGeneration]

Structure == RequestTypes /\ QueuesInv /\ StackInv

\* Custody without counting: a request that was submitted is in one place.
OnePlace(r) ==
    /\ resp[r] = <<>> \/ \E a \in Results : resp[r] = <<a>>
    /\ handle[r] /= "none" <=>
          \/ InQueue(r) \/ InWake(r) \/ Beginning(stack, r) \/ Running(stack, r)
          \/ resp[r] /= <<>>
    /\ InQueue(r) => ~InWake(r) /\ ~Beginning(stack, r) /\ ~Running(stack, r) /\ resp[r] = <<>>
    /\ InWake(r) => ~Beginning(stack, r) /\ ~Running(stack, r) /\ resp[r] = <<>>
    /\ Beginning(stack, r) => ~Running(stack, r) /\ resp[r] = <<>>
    /\ Running(stack, r) => resp[r] = <<>>

\* The lifecycle word agrees with the place, and every trace that a
\* cancellation left in an activation with the word.
LifeOf(r) ==
    /\ handle[r] = "none" => life[r] = "Unsubmitted"
    /\ InQueue(r) \/ InWake(r) \/ Beginning(stack, r) => life[r] \in {"Queued", "Cancelled"}
    /\ Running(stack, r) => life[r] \in {"Active", "Cancelled"}
    /\ Traced(stack, r) => life[r] = "Cancelled"
    /\ resp[r] = <<"ok">> => life[r] = "Committed"
    /\ resp[r] = <<"cancelled">> => life[r] = "Cancelled"

RequestsInv == \A r \in Requests : OnePlace(r) /\ LifeOf(r)

\* A caller that waits for an answer of a kind of message.
Asking(kind) ==
    CASE kind = "ensure" -> "ensuring"
      [] kind = "lease" -> "acquiring"
      [] OTHER -> "releasing"

\* The pending wake, and who waits for it.
WakeInv ==
    /\ wake.kind = "request" => wake.who \in Requests
    /\ wake.kind \in {"ensure", "lease"} =>
          wake.who \in Callers /\ caller[wake.who].doing = Asking(wake.kind)
    /\ pc \in {"loop", "select", "exec", "sleep"} => wake = NoWake
    /\ pc \in {"load", "prime", "wake"} => wake.kind /= "none"
    /\ slot = "starting" <=> wake.kind = "startup"

\* Every message in the control channel is the only one of its sender, who is
\* asking for what it says; the shutdown is sent last.
ControlInv ==
    /\ \A i \in DOMAIN control :
          LET m == control[i] IN
          IF m.kind = "shutdown" THEN slot = "stopped"
          ELSE /\ m.who \in Callers /\ caller[m.who].doing = Asking(m.kind)
               /\ wake.kind \in {"ensure", "lease"} => wake.who /= m.who
    /\ \A i, j \in DOMAIN control :
          (/\ control[i].kind /= "shutdown" /\ control[j].kind /= "shutdown"
           /\ control[i].who = control[j].who) => i = j

\* Nobody has the engine before it is open or once its last clone is gone.
SlotInv ==
    /\ slot \in {"starting", "failed"} =>
          /\ control = <<>>
          /\ \A c \in Callers : caller[c] = Resting
          /\ \A r \in Requests : handle[r] = "none"
    /\ slot = "stopped" => ~InUse
    /\ pc = "stopped" => slot \in {"stopped", "failed"}
    /\ slot = "failed" => pc = "stopped"

Leased == {c \in Callers : caller[c].doing \in {"granted", "held", "releasing"}}

\* Leases are out only while the model is loaded, and are counted then.
LeaseInv ==
    /\ pc \notin {"load", "sleep", "stopped"} => published.residency = "Resident"
    /\ pc \in {"load", "sleep"} => Leased = {} /\ published.gen < MaxGeneration
    /\ LeaseAccounting
    /\ LeasePinsGeneration

\* A signal is up wherever the worker blocks, or will after a failed load,
\* with live requests in a queue.
SignalInv ==
    \A c \in Classes :
        (pc \in {"select", "sleep", "load"} /\ Pruned(c) /= <<>>) => signal[c]

EngineInv ==
    /\ TypeOK /\ QueuesInv /\ StackInv /\ RequestsInv
    /\ WakeInv /\ ControlInv /\ SlotInv /\ LeaseInv /\ SignalInv

-----------------------------------------------------------------------------
(* What one step may do to one request. *)

SamePlace(r) ==
    /\ InQueue(r)' <=> InQueue(r)
    /\ InWake(r)' <=> InWake(r)
    /\ Beginning(stack', r) <=> Beginning(stack, r)
    /\ Running(stack', r) <=> Running(stack, r)
    /\ Traced(stack', r) => Traced(stack, r) \/ life[r] = "Cancelled"
    /\ resp'[r] = resp[r]

Unmoved(r) == SamePlace(r) /\ life'[r] = life[r] /\ handle'[r] = handle[r]

Submitted(r) ==
    /\ handle[r] = "none" /\ handle'[r] = "waiting" /\ life'[r] = "Queued"
    /\ InQueue(r)' /\ InWake(r)' = InWake(r) /\ stack' = stack /\ resp'[r] = resp[r]

\* cancel, with or without the handle given up.
GivenUp(r) ==
    /\ SamePlace(r)
    /\ handle'[r] /= "none" /\ handle[r] /= "none"
    /\ \/ life'[r] = IF life[r] \in {"Queued", "Active"} THEN "Cancelled" ELSE life[r]
       \/ life'[r] = life[r]

Collected(r) ==
    /\ handle'[r] = "none" /\ life'[r] = "Unsubmitted"
    /\ resp[r] /= <<>> /\ resp'[r] = <<>>
    /\ InQueue(r)' <=> InQueue(r)
    /\ InWake(r)' <=> InWake(r)
    /\ stack' = stack

\* Out of its queue: to the pending wake or to an activation.
Popped(r) ==
    /\ InQueue(r) /\ ~InQueue(r)'
    /\ \/ InWake(r)' /\ ~Beginning(stack', r)
       \/ ~InWake(r)' /\ Beginning(stack', r)
    /\ ~Running(stack', r) /\ ~Traced(stack', r)
    /\ resp'[r] = resp[r] /\ life'[r] = life[r] /\ handle'[r] = handle[r]

\* From the pending wake to an activation.
Woken(r) ==
    /\ InWake(r) /\ ~InWake(r)'
    /\ InQueue(r)' <=> InQueue(r)
    /\ Beginning(stack', r) /\ ~Running(stack', r) /\ ~Traced(stack', r)
    /\ resp'[r] = resp[r] /\ life'[r] = life[r] /\ handle'[r] = handle[r]

Begun(r) ==
    /\ Beginning(stack, r) /\ life[r] = "Queued" /\ life'[r] = "Active"
    /\ InQueue(r)' <=> InQueue(r)
    /\ InWake(r)' <=> InWake(r)
    /\ ~Beginning(stack', r) /\ Running(stack', r) /\ (Traced(stack', r) => Traced(stack, r))
    /\ resp'[r] = resp[r] /\ handle'[r] = handle[r]

\* The answer is sent from wherever the request was.
Answers(r) ==
    /\ InQueue(r) \/ InWake(r) \/ Beginning(stack, r) \/ Running(stack, r)
    /\ ~InQueue(r)' /\ ~InWake(r)' /\ ~Beginning(stack', r) /\ ~Running(stack', r)
    /\ Traced(stack', r) => Traced(stack, r)
    /\ handle'[r] = handle[r]
    /\ \/ resp'[r] = <<"cancelled">> /\ life[r] = "Cancelled" /\ life'[r] = life[r]
       \/ resp'[r] = <<"failed">> /\ InWake(r) /\ life'[r] = life[r]
       \/ /\ resp'[r] \in {<<"ok">>, <<"failed">>} /\ Running(stack, r)
          /\ life[r] = "Active" /\ life'[r] = "Committed"

Move(r) ==
    \/ Unmoved(r) \/ Submitted(r) \/ GivenUp(r) \/ Collected(r)
    \/ Popped(r) \/ Woken(r) \/ Begun(r) \/ Answers(r)

\* Every move keeps a request in one place, with the right life.
LEMMA MovesKeep ==
    ASSUME NEW r \in Requests, OnePlace(r), LifeOf(r), Move(r)
    PROVE  OnePlace(r)' /\ LifeOf(r)'
<1> USE DEF OnePlace, LifeOf, Results
<1>1. CASE Unmoved(r)
  BY <1>1 DEF Unmoved, SamePlace
<1>2. CASE Submitted(r)
  BY <1>2 DEF Submitted
<1>3. CASE GivenUp(r)
  BY <1>3 DEF GivenUp, SamePlace
<1>4. CASE Collected(r)
  <2>1. Traced(stack, r) => Beginning(stack, r) \/ Running(stack, r)
    BY DEF Traced, Beginning, Running
  <2> QED BY <1>4, <2>1 DEF Collected
<1>5. CASE Popped(r)
  BY <1>5 DEF Popped
<1>6. CASE Woken(r)
  BY <1>6 DEF Woken
<1>7. CASE Begun(r)
  BY <1>7 DEF Begun
<1>8. CASE Answers(r)
  BY <1>8 DEF Answers
<1> QED BY <1>1, <1>2, <1>3, <1>4, <1>5, <1>6, <1>7, <1>8 DEF Move

-----------------------------------------------------------------------------
(* The queues *)

LEMMA ClassFacts ==
    /\ \A r \in Requests : Class(r) \in Classes
    /\ \A c \in Classes : Other(c) \in Classes /\ Other(c) /= c
    /\ \A c, d \in Classes : d \in {c, Other(c)}
BY DEF Class, Classes, Other, Requests

\* What prune_cancelled keeps and what it drops.
LEMMA PrunedFacts ==
    ASSUME RequestTypes, QueuesInv, NEW c \in Classes
    PROVE  /\ Pruned(c) \in Seq(Requests) /\ Distinct(Pruned(c))
           /\ \A r \in Requests : In(Pruned(c), r) <=> In(queue[c], r) /\ IsLive(r)
           /\ \A r \in Requests : r \in Dropped(c) <=> In(queue[c], r) /\ ~IsLive(r)
           /\ Dropped(c) \subseteq Requests
           /\ Pruned(c) = <<>> => \A r \in Requests : In(queue[c], r) => ~IsLive(r)
<1>1. queue[c] \in Seq(Requests) /\ Distinct(queue[c])
  BY DEF RequestTypes, QueuesInv
<1>2. LivePositions(c) \in SUBSET DOMAIN queue[c]
  BY DEF LivePositions
<1>3. /\ Pruned(c) \in Seq(Requests) /\ Distinct(Pruned(c))
      /\ \A r : In(Pruned(c), r) <=> \E i \in LivePositions(c) : queue[c][i] = r
      /\ Pruned(c) = <<>> <=> LivePositions(c) = {}
  BY <1>1, <1>2, SubsequenceFacts DEF Pruned
<1>4. \A r \in Requests : In(Pruned(c), r) <=> In(queue[c], r) /\ IsLive(r)
  BY <1>3 DEF LivePositions, In
<1>5. \A r \in Requests : r \in Dropped(c) <=> In(queue[c], r) /\ ~IsLive(r)
  BY DEF Dropped, In
<1>6. Dropped(c) \subseteq Requests
  BY <1>1 DEF Dropped
<1>7. Pruned(c) = <<>> => \A r \in Requests : In(queue[c], r) => ~IsLive(r)
  BY <1>3 DEF LivePositions, In
<1> QED BY <1>3, <1>4, <1>5, <1>6, <1>7

\* A request that is in one place, seen from its queue.
LEMMA QueuedFacts ==
    ASSUME RequestsInv, NEW r \in Requests, InQueue(r)
    PROVE  /\ resp[r] = <<>> /\ ~InWake(r) /\ handle[r] /= "none"
           /\ ~Beginning(stack, r) /\ ~Running(stack, r) /\ ~Traced(stack, r)
<1>1. resp[r] = <<>> /\ ~InWake(r) /\ handle[r] /= "none" /\ ~Beginning(stack, r) /\ ~Running(stack, r)
  BY DEF RequestsInv, OnePlace
<1> QED BY <1>1 DEF Traced, Beginning, Running

\* An answer in an empty response channel is the only one there.
LEMMA OneAnswer ==
    ASSUME NEW a
    PROVE  Append(<<>>, a) = <<a>>
OBVIOUS

\* What prune_cancelled drops, seen from the request.
LEMMA DroppedFacts ==
    ASSUME Structure
    PROVE  \A c \in Classes, r \in Requests :
              r \in Dropped(c) <=> InQueue(r) /\ Class(r) = c /\ ~IsLive(r)
<1> SUFFICES ASSUME NEW c \in Classes, NEW r \in Requests
             PROVE  r \in Dropped(c) <=> InQueue(r) /\ Class(r) = c /\ ~IsLive(r)
  OBVIOUS
<1>1. r \in Dropped(c) <=> In(queue[c], r) /\ ~IsLive(r)
  BY PrunedFacts DEF Structure
<1>2. In(queue[c], r) <=> Class(r) = c /\ InQueue(r)
  BY DEF Structure, QueuesInv, InQueue
<1> QED BY <1>1, <1>2

\* Requests of a queue are answered Cancelled.
LEMMA Pruning ==
    ASSUME Structure, RequestsInv, NEW D, \A r \in Requests : r \in D => InQueue(r),
           resp' = [r \in Requests |->
                       IF r \in D THEN Append(resp[r], "cancelled") ELSE resp[r]]
    PROVE  /\ resp' \in [Requests -> Seq(Results)]
           /\ \A r \in Requests : resp'[r] = IF r \in D THEN <<"cancelled">> ELSE resp[r]
<1>1. \A r \in Requests : r \in D => resp[r] = <<>>
  BY QueuedFacts
<1>2. \A r \in Requests : resp'[r] = IF r \in D THEN <<"cancelled">> ELSE resp[r]
  BY <1>1, OneAnswer
<1>3. <<"cancelled">> \in Seq(Results)
  BY DEF Results
<1>4. \A r \in Requests : resp'[r] \in Seq(Results)
  BY <1>2, <1>3 DEF Structure, RequestTypes
<1> QED BY <1>2, <1>4

\* A request that was pruned has moved.
LEMMA PrunedMoves ==
    ASSUME RequestsInv, NEW r \in Requests, InQueue(r), ~IsLive(r), ~InQueue(r)',
           resp'[r] = <<"cancelled">>, life'[r] = life[r], handle'[r] = handle[r],
           ~InWake(r)', ~Beginning(stack', r), ~Running(stack', r), ~Traced(stack', r)
    PROVE  Move(r)
BY DEF Move, Answers, IsLive

LEMMA SubmitMoves ==
    ASSUME Structure, RequestsInv, NEW x \in Requests, Submit(x)
    PROVE  Structure' /\ \A r \in Requests : Move(r)
<1> DEFINE c == Class(x)
           D == Dropped(c)
<1>0. c \in Classes /\ RequestTypes /\ QueuesInv
  BY ClassFacts DEF Structure
<1>1. /\ Pruned(c) \in Seq(Requests) /\ Distinct(Pruned(c))
      /\ \A r \in Requests : In(Pruned(c), r) <=> In(queue[c], r) /\ IsLive(r)
  BY <1>0, PrunedFacts
<1>2. /\ resp' \in [Requests -> Seq(Results)]
      /\ \A r \in Requests :
            /\ r \in D <=> InQueue(r) /\ Class(r) = c /\ ~IsLive(r)
            /\ resp'[r] = IF r \in D THEN <<"cancelled">> ELSE resp[r]
  <2>1. \A r \in Requests : r \in D <=> InQueue(r) /\ Class(r) = c /\ ~IsLive(r)
    BY <1>0, DroppedFacts
  <2>2. resp' = [r \in Requests |->
                    IF r \in D THEN Append(resp[r], "cancelled") ELSE resp[r]]
    BY DEF Submit, AnswerCancelled
  <2> HIDE DEF D
  <2> QED BY <2>1, <2>2, Pruning
<1>3. UNCHANGED <<pc, wake, stack>> /\ handle[x] = "none"
  BY DEF Submit, workerVars
<1>4. \A r \in Requests : InQueue(r) => r /= x
  BY <1>3, QueuedFacts
<1>5. \A r \in Requests : In(queue[c], r) <=> InQueue(r) /\ Class(r) = c
  BY <1>0 DEF QueuesInv, InQueue
<1>6. StackInv'
  BY <1>3 DEF Structure, StackInv
<1>7. \A r \in Requests : Class(r) \in Classes
  BY ClassFacts
<1>8. \A r \in Requests : r \in D =>
          ~InWake(r)' /\ ~Beginning(stack', r) /\ ~Running(stack', r) /\ ~Traced(stack', r)
  BY <1>2, <1>3, QueuedFacts DEF InWake
<1>9. CASE Len(Pruned(c)) >= QueueCapacity
  <2>1. queue' = [queue EXCEPT ![c] = Pruned(c)] /\ UNCHANGED <<life, handle>>
    BY <1>9 DEF Submit
  <2>2. \A d \in Classes : queue'[d] = IF d = c THEN Pruned(c) ELSE queue[d]
    BY <2>1 DEF RequestTypes, Structure
  <2>3. RequestTypes'
    BY <1>0, <1>1, <1>2, <1>3, <2>1 DEF RequestTypes
  <2>4. QueuesInv'
    BY <1>0, <1>1, <2>2 DEF QueuesInv
  <2>5. \A r \in Requests : InQueue(r)' <=> InQueue(r) /\ r \notin D
    BY <1>1, <1>2, <1>5, <1>7, <2>2 DEF InQueue
  <2>6. \A r \in Requests : r \in D => Move(r)
    BY <1>2, <1>8, <2>1, <2>5, PrunedMoves
  <2>7. \A r \in Requests : r \notin D => Move(r)
    BY <1>2, <1>3, <2>1, <2>5 DEF Move, Unmoved, SamePlace, InWake
  <2> QED BY <1>6, <2>3, <2>4, <2>6, <2>7 DEF Structure
<1>10. CASE ~(Len(Pruned(c)) >= QueueCapacity)
  <2> DEFINE q == Append(Pruned(c), x)
  <2>1. /\ queue' = [queue EXCEPT ![c] = q]
        /\ life' = [life EXCEPT ![x] = "Queued"]
        /\ handle' = [handle EXCEPT ![x] = "waiting"]
    BY <1>10 DEF Submit
  <2>2. /\ q \in Seq(Requests) /\ Distinct(q)
        /\ \A r \in Requests : In(q, r) <=> In(Pruned(c), r) \/ r = x
    BY <1>1, <1>4, <1>5, AppendFacts
  <2> HIDE DEF q
  <2>3. \A d \in Classes : queue'[d] = IF d = c THEN q ELSE queue[d]
    BY <2>1 DEF RequestTypes, Structure
  <2>4. RequestTypes'
    BY <1>0, <1>2, <1>3, <2>1, <2>2 DEF RequestTypes, Lives
  <2>5. QueuesInv'
    BY <1>0, <1>1, <2>2, <2>3 DEF QueuesInv
  <2>6. \A r \in Requests : InQueue(r)' <=> (InQueue(r) /\ r \notin D) \/ r = x
    BY <1>1, <1>2, <1>5, <1>7, <2>2, <2>3 DEF InQueue
  <2>7. \A r \in Requests : r /= x => life'[r] = life[r] /\ handle'[r] = handle[r]
    BY <1>0, <2>1 DEF RequestTypes
  <2>8. \A r \in Requests : r \in D => Move(r)
    BY <1>2, <1>4, <1>8, <2>6, <2>7, PrunedMoves
  <2>9. \A r \in Requests : r \notin D /\ r /= x => Move(r)
    BY <1>2, <1>3, <2>6, <2>7 DEF Move, Unmoved, SamePlace, InWake
  <2>10. Move(x)
    <3>1. handle'[x] = "waiting" /\ life'[x] = "Queued"
      BY <1>0, <2>1 DEF RequestTypes
    <3>2. resp'[x] = resp[x]
      BY <1>2, <1>4
    <3> QED BY <1>3, <2>6, <3>1, <3>2 DEF Move, Submitted, InWake
  <2> QED BY <1>6, <2>4, <2>5, <2>8, <2>9, <2>10 DEF Structure
<1> QED BY <1>9, <1>10

LEMMA CancelMoves ==
    ASSUME Structure, RequestsInv, NEW x \in Requests, Cancel(x)
    PROVE  Structure' /\ \A r \in Requests : Move(r)
<1>1. /\ UNCHANGED <<handle, resp, queue, pc, wake, stack>>
      /\ life[x] \in {"Queued", "Active"} /\ life' = [life EXCEPT ![x] = "Cancelled"]
  BY DEF Cancel, queueVars, workerVars
<1>2. handle[x] /= "none"
  BY <1>1 DEF RequestsInv, LifeOf
<1>3. Structure'
  BY <1>1 DEF Structure, RequestTypes, QueuesInv, StackInv, Lives
<1>4. \A r \in Requests : SamePlace(r) /\ handle'[r] = handle[r]
  BY <1>1 DEF SamePlace, InQueue, InWake
<1>5. \A r \in Requests : life'[r] = IF r = x THEN "Cancelled" ELSE life[r]
  BY <1>1 DEF Structure, RequestTypes
<1> QED BY <1>1, <1>2, <1>3, <1>4, <1>5 DEF Move, Unmoved, GivenUp

LEMMA AbandonMoves ==
    ASSUME Structure, RequestsInv, NEW x \in Requests, Abandon(x)
    PROVE  Structure' /\ \A r \in Requests : Move(r)
<1>0. PICK l : /\ life' = [life EXCEPT ![x] = l]
               /\ \/ l = IF life[x] \in {"Queued", "Active"} THEN "Cancelled" ELSE life[x]
                  \/ l = life[x]
  <2>1. life = [life EXCEPT ![x] = life[x]]
    BY DEF Structure, RequestTypes
  <2> QED BY <2>1 DEF Abandon
<1>1. /\ UNCHANGED <<resp, queue, pc, wake, stack>>
      /\ handle[x] = "waiting"
      /\ handle' = [handle EXCEPT ![x] = "abandoned"]
      /\ life' = [life EXCEPT ![x] = l]
  BY <1>0 DEF Abandon, queueVars, workerVars
<1>2. Structure'
  <2>1. l \in Lives
    BY <1>0 DEF Structure, RequestTypes, Lives
  <2> QED BY <1>1, <2>1 DEF Structure, RequestTypes, QueuesInv, StackInv
<1>3. \A r \in Requests : SamePlace(r)
  BY <1>1 DEF SamePlace, InQueue, InWake
<1>4. \A r \in Requests : /\ life'[r] = IF r = x THEN l ELSE life[r]
                          /\ handle'[r] = IF r = x THEN "abandoned" ELSE handle[r]
  BY <1>1 DEF Structure, RequestTypes
<1> QED BY <1>0, <1>1, <1>2, <1>3, <1>4 DEF Move, Unmoved, GivenUp

LEMMA CollectMoves ==
    ASSUME Structure, NEW x \in Requests, Collect(x)
    PROVE  Structure' /\ \A r \in Requests : Move(r)
<1>1. /\ UNCHANGED <<queue, pc, wake, stack>>
      /\ handle[x] /= "none" /\ resp[x] /= <<>>
      /\ handle' = [handle EXCEPT ![x] = "none"]
      /\ life' = [life EXCEPT ![x] = "Unsubmitted"]
      /\ resp' = [resp EXCEPT ![x] = <<>>]
  BY DEF Collect, queueVars, workerVars
<1>2. Structure'
  BY <1>1 DEF Structure, RequestTypes, QueuesInv, StackInv, Lives
<1>3. \A r \in Requests : /\ InQueue(r)' <=> InQueue(r)
                          /\ InWake(r)' <=> InWake(r)
  BY <1>1 DEF InQueue, InWake
<1>4. \A r \in Requests : /\ life'[r] = IF r = x THEN "Unsubmitted" ELSE life[r]
                          /\ handle'[r] = IF r = x THEN "none" ELSE handle[r]
                          /\ resp'[r] = IF r = x THEN <<>> ELSE resp[r]
  BY <1>1 DEF Structure, RequestTypes
<1> QED BY <1>1, <1>2, <1>3, <1>4 DEF Move, Unmoved, SamePlace, Collected

\* Steps that leave the requests where they are.
LEMMA QuietMoves ==
    ASSUME Structure, UNCHANGED <<life, handle, resp, queue, stack>>,
           pc' = "exec" <=> pc = "exec",
           wake' = wake \/ (wake.kind /= "request" /\ wake'.kind /= "request")
    PROVE  Structure' /\ \A r \in Requests : Move(r)
<1>1. Structure'
  BY DEF Structure, RequestTypes, QueuesInv, StackInv
<1>2. \A r \in Requests : InWake(r)' <=> InWake(r)
  BY DEF InWake, Msg
<1> QED BY <1>1, <1>2 DEF Move, Unmoved, SamePlace, InQueue

-----------------------------------------------------------------------------
(* The worker takes requests. *)

\* What a new activation is.
LEMMA ActivationFacts ==
    ASSUME NEW r \in Requests
    PROVE  LET f == Activation(r) IN
           /\ f \in Frames /\ BatchLeft(f) /\ f.req = r /\ f.at = "begin" /\ ~Marked(f)
BY EngineAssumption DEF Activation, Frames, BatchLeft, Marked, BatchCount, Results

\* The head of a pruned queue, and what it leaves behind.
LEMMA HeadFacts ==
    ASSUME Structure, NEW c \in Classes, Pruned(c) /= <<>>
    PROVE  /\ Head(Pruned(c)) \in Requests
           /\ InQueue(Head(Pruned(c))) /\ IsLive(Head(Pruned(c)))
           /\ Class(Head(Pruned(c))) = c
           /\ Tail(Pruned(c)) \in Seq(Requests) /\ Distinct(Tail(Pruned(c)))
           /\ \A r \in Requests : In(Tail(Pruned(c)), r) <=>
                 InQueue(r) /\ Class(r) = c /\ IsLive(r) /\ r /= Head(Pruned(c))
<1>1. /\ Pruned(c) \in Seq(Requests) /\ Distinct(Pruned(c))
      /\ \A r \in Requests : In(Pruned(c), r) <=> In(queue[c], r) /\ IsLive(r)
  BY PrunedFacts DEF Structure
<1>2. /\ Head(Pruned(c)) \in Requests /\ In(Pruned(c), Head(Pruned(c)))
      /\ Tail(Pruned(c)) \in Seq(Requests) /\ Distinct(Tail(Pruned(c)))
      /\ \A r : In(Tail(Pruned(c)), r) <=> In(Pruned(c), r) /\ r /= Head(Pruned(c))
  BY <1>1, TailFacts
<1>3. \A r \in Requests : In(queue[c], r) <=> InQueue(r) /\ Class(r) = c
  BY DEF Structure, QueuesInv, InQueue
<1> QED BY <1>1, <1>2, <1>3

\* A queue that is pruned to nothing held only cancelled requests.
LEMMA NothingLeft ==
    ASSUME Structure, NEW c \in Classes, Pruned(c) = <<>>
    PROVE  \A r \in Requests : InQueue(r) /\ Class(r) = c => ~IsLive(r)
BY PrunedFacts DEF Structure, InQueue

LEMMA EmptyFacts ==
    <<>> \in Seq(Requests) /\ Distinct(<<>>) /\ \A r : ~In(<<>>, r)
BY DEF Distinct, In

LEMMA LoopEmptyMoves ==
    ASSUME Structure, RequestsInv, LoopEmpty
    PROVE  Structure' /\ \A r \in Requests : Move(r)
<1> DEFINE D == Dropped("Query") \cup Dropped("Bulk")
<1>1. /\ UNCHANGED <<life, handle, wake, stack>> /\ pc /= "exec" /\ pc' /= "exec"
      /\ queue' = [c \in Classes |-> <<>>]
      /\ \A c \in Classes : Pruned(c) = <<>>
  BY DEF LoopEmpty
<1>2. \A r \in Requests : r \in D <=> InQueue(r)
  <2>1. \A c \in Classes, r \in Requests :
            /\ r \in Dropped(c) <=> InQueue(r) /\ Class(r) = c /\ ~IsLive(r)
            /\ InQueue(r) /\ Class(r) = c => ~IsLive(r)
    BY <1>1, DroppedFacts, NothingLeft
  <2>2. \A r \in Requests : Class(r) \in Classes
    BY ClassFacts
  <2> QED BY <2>1, <2>2 DEF Classes
<1>3. resp' = [r \in Requests |-> IF r \in D THEN Append(resp[r], "cancelled") ELSE resp[r]]
  BY DEF LoopEmpty, AnswerCancelled
<1> HIDE DEF D
<1>4. /\ resp' \in [Requests -> Seq(Results)]
      /\ \A r \in Requests : resp'[r] = IF r \in D THEN <<"cancelled">> ELSE resp[r]
  BY <1>2, <1>3, Pruning
<1>5. Structure'
  <2>1. RequestTypes'
    BY <1>1, <1>4 DEF Structure, RequestTypes
  <2>2. QueuesInv'
    BY <1>1, EmptyFacts DEF QueuesInv
  <2>3. StackInv'
    BY <1>1 DEF Structure, StackInv
  <2> QED BY <2>1, <2>2, <2>3 DEF Structure
<1>6. \A r \in Requests : ~InQueue(r)'
  BY <1>1, EmptyFacts, ClassFacts DEF InQueue
<1>7. ASSUME NEW r \in Requests, InQueue(r) PROVE Move(r)
  <2>1. ~IsLive(r)
    BY <1>1, <1>7, NothingLeft, ClassFacts
  <2>2. /\ ~InWake(r)' /\ ~Beginning(stack', r) /\ ~Running(stack', r)
        /\ ~Traced(stack', r)
    BY <1>1, <1>7, QueuedFacts DEF InWake
  <2> QED BY <1>1, <1>2, <1>4, <1>6, <1>7, <2>1, <2>2, PrunedMoves
<1>8. ASSUME NEW r \in Requests, ~InQueue(r) PROVE Move(r)
  BY <1>1, <1>2, <1>4, <1>6, <1>8 DEF Move, Unmoved, SamePlace, InWake
<1> QED BY <1>5, <1>7, <1>8

\* The head of one queue is taken, after the queues in seen were pruned.
LEMMA Taking ==
    ASSUME Structure, RequestsInv, NEW c \in Classes, Pruned(c) /= <<>>,
           NEW seen \in SUBSET Classes, c \in seen,
           NEW x, x = Head(Pruned(c)),
           NEW D, \A r \in Requests : r \in D <=> InQueue(r) /\ Class(r) \in seen /\ ~IsLive(r),
           resp' = [r \in Requests |->
                       IF r \in D THEN Append(resp[r], "cancelled") ELSE resp[r]],
           queue' = [k \in Classes |-> queue'[k]],
           \A k \in Classes : queue'[k] = IF k = c THEN Tail(Pruned(c))
                                         ELSE IF k \in seen THEN Pruned(k) ELSE queue[k]
    PROVE  /\ x \in Requests /\ InQueue(x) /\ Class(x) = c /\ x \notin D
           /\ resp' \in [Requests -> Seq(Results)]
           /\ \A r \in Requests : resp'[r] = IF r \in D THEN <<"cancelled">> ELSE resp[r]
           /\ queue' \in [Classes -> Seq(Requests)] /\ QueuesInv'
           /\ \A r \in Requests : InQueue(r)' <=> InQueue(r) /\ r \notin D /\ r /= x
<1>1. /\ resp' \in [Requests -> Seq(Results)]
      /\ \A r \in Requests : resp'[r] = IF r \in D THEN <<"cancelled">> ELSE resp[r]
  BY Pruning
<1>2. /\ x \in Requests /\ InQueue(x) /\ IsLive(x) /\ Class(x) = c
      /\ Tail(Pruned(c)) \in Seq(Requests) /\ Distinct(Tail(Pruned(c)))
      /\ \A r \in Requests : In(Tail(Pruned(c)), r) <=>
            InQueue(r) /\ Class(r) = c /\ IsLive(r) /\ r /= x
  BY HeadFacts
<1>3. ASSUME NEW k \in Classes
      PROVE /\ queue'[k] \in Seq(Requests) /\ Distinct(queue'[k])
            /\ \A r \in Requests : In(queue'[k], r) <=>
                  /\ InQueue(r) /\ Class(r) = k
                  /\ k \in seen => IsLive(r)
                  /\ r /= x
  <2>1. /\ Pruned(k) \in Seq(Requests) /\ Distinct(Pruned(k))
        /\ \A r \in Requests : In(Pruned(k), r) <=> In(queue[k], r) /\ IsLive(r)
    BY PrunedFacts DEF Structure
  <2>2. /\ queue[k] \in Seq(Requests) /\ Distinct(queue[k])
        /\ \A r \in Requests : In(queue[k], r) <=> InQueue(r) /\ Class(r) = k
    BY DEF Structure, RequestTypes, QueuesInv, InQueue
  <2>3. CASE k = c
    BY <1>2, <2>3
  <2>4. CASE k /= c /\ k \in seen
    BY <1>2, <2>1, <2>2, <2>4
  <2>5. CASE k /= c /\ k \notin seen
    BY <1>2, <2>2, <2>5
  <2> QED BY <2>3, <2>4, <2>5
<1>4. queue' \in [Classes -> Seq(Requests)]
  BY <1>3
<1>5. QueuesInv'
  BY <1>3 DEF QueuesInv
<1>6. \A r \in Requests : InQueue(r)' <=> InQueue(r) /\ r \notin D /\ r /= x
  BY <1>3, ClassFacts DEF InQueue
<1> QED BY <1>1, <1>2, <1>4, <1>5, <1>6

LEMMA LoopPopMoves ==
    ASSUME Structure, RequestsInv, turn \in Classes, LoopPop
    PROVE  Structure' /\ \A r \in Requests : Move(r)
<1>1. PICK c \in Classes, seen \in SUBSET Classes, D \in SUBSET Requests :
        /\ Pruned(c) /= <<>> /\ c \in seen
        /\ D = UNION {Dropped(k) : k \in seen}
        /\ resp' = [r \in Requests |->
                       IF r \in D THEN Append(resp[r], "cancelled") ELSE resp[r]]
        /\ queue' = [k \in Classes |-> IF k = c THEN Tail(Pruned(c))
                                       ELSE IF k \in seen THEN Pruned(k) ELSE queue[k]]
        /\ stack' = <<Activation(Head(Pruned(c)))>>
  <2> DEFINE c == IF Pruned(turn) /= <<>> THEN turn ELSE Other(turn)
             seen == {turn, c}
             D == UNION {Dropped(k) : k \in seen}
  <2>1. c \in Classes /\ seen \in SUBSET Classes /\ c \in seen
    BY ClassFacts
  <2>2. Pruned(c) /= <<>>
    BY DEF LoopPop
  <2>3. resp' = [r \in Requests |->
                    IF r \in D THEN Append(resp[r], "cancelled") ELSE resp[r]]
    BY DEF LoopPop, AnswerCancelled
  <2>4. queue' = [k \in Classes |-> IF k = c THEN Tail(Pruned(c))
                                       ELSE IF k \in seen THEN Pruned(k) ELSE queue[k]]
    BY DEF LoopPop
  <2>5. stack' = <<Activation(Head(Pruned(c)))>>
    BY DEF LoopPop
  <2>6. D = UNION {Dropped(k) : k \in seen}
    OBVIOUS
  <2> HIDE DEF c, seen, D
  <2>7. D \in SUBSET Requests
    <3>1. \A k \in Classes : Dropped(k) \subseteq Requests
      BY DEF Structure, RequestTypes, Dropped
    <3> QED BY <2>1, <2>6, <3>1
  <2> QED BY <2>1, <2>2, <2>3, <2>4, <2>5, <2>6, <2>7
<1>2. \A r \in Requests : r \in D <=> InQueue(r) /\ Class(r) \in seen /\ ~IsLive(r)
  <2>1. \A r \in Requests : r \in D <=> \E k \in seen : r \in Dropped(k)
    BY <1>1
  <2>2. \A k \in seen, r \in Requests :
            r \in Dropped(k) <=> InQueue(r) /\ Class(r) = k /\ ~IsLive(r)
    BY DroppedFacts
  <2> QED BY <2>1, <2>2
<1>3. UNCHANGED <<life, handle, wake>> /\ pc = "loop" /\ pc' = "exec"
  BY DEF LoopPop
<1>4. PICK x : x = Head(Pruned(c))
  OBVIOUS
<1>5. /\ x \in Requests /\ InQueue(x) /\ Class(x) = c /\ x \notin D
      /\ resp' \in [Requests -> Seq(Results)]
      /\ \A r \in Requests : resp'[r] = IF r \in D THEN <<"cancelled">> ELSE resp[r]
      /\ queue' \in [Classes -> Seq(Requests)] /\ QueuesInv'
      /\ \A r \in Requests : InQueue(r)' <=> InQueue(r) /\ r \notin D /\ r /= x
  <2>1. /\ queue' = [k \in Classes |-> queue'[k]]
        /\ \A k \in Classes : queue'[k] = IF k = c THEN Tail(Pruned(c))
                                         ELSE IF k \in seen THEN Pruned(k) ELSE queue[k]
    BY <1>1
  <2>2. Pruned(c) /= <<>> /\ c \in seen
    BY <1>1
  <2>3. resp' = [r \in Requests |->
                    IF r \in D THEN Append(resp[r], "cancelled") ELSE resp[r]]
    BY <1>1
  <2> QED BY <1>2, <1>4, <2>1, <2>2, <2>3, Taking
<1>6. stack = <<>> /\ stack' = Append(stack, Activation(x))
  BY <1>1, <1>3, <1>4, OneAnswer DEF Structure, StackInv
<1>7. /\ stack' \in Seq(Frames) /\ stack' /= <<>> /\ OneEach(stack') /\ BatchesLeft(stack')
      /\ \A r : /\ Beginning(stack', r) <=> Beginning(stack, r) \/ r = x
                /\ Running(stack', r) <=> Running(stack, r)
                /\ Traced(stack', r) <=> Traced(stack, r)
  <2> DEFINE f == Activation(x)
  <2>1. f \in Frames /\ BatchLeft(f) /\ f.req = x /\ f.at = "begin" /\ ~Marked(f)
    BY <1>5, ActivationFacts
  <2>2. stack \in Seq(Frames) /\ OneEach(stack) /\ BatchesLeft(stack)
    BY DEF Structure, RequestTypes, StackInv
  <2>3. ~Beginning(stack, x) /\ ~Running(stack, x)
    BY <1>5, QueuedFacts
  <2>4. stack' = Append(stack, f)
    BY <1>6
  <2> HIDE DEF f
  <2> QED BY <2>1, <2>2, <2>3, <2>4, StackPush
<1>8. Structure'
  BY <1>3, <1>5, <1>7 DEF Structure, RequestTypes, StackInv
<1>9. ASSUME NEW r \in Requests, r \in D PROVE Move(r)
  BY <1>2, <1>3, <1>5, <1>7, <1>9, QueuedFacts, PrunedMoves DEF InWake
<1>10. Move(x)
  BY <1>3, <1>5, <1>7, QueuedFacts DEF Move, Popped, InWake
<1>11. ASSUME NEW r \in Requests, r \notin D, r /= x PROVE Move(r)
  BY <1>3, <1>5, <1>7, <1>11 DEF Move, Unmoved, SamePlace, InWake
<1> QED BY <1>8, <1>9, <1>10, <1>11

\* One queue is pruned to nothing.
LEMMA Emptying ==
    ASSUME Structure, RequestsInv, NEW c \in Classes, Pruned(c) = <<>>,
           NEW D, \A r \in Requests : r \in D <=> InQueue(r) /\ Class(r) \in {c} /\ ~IsLive(r),
           resp' = [r \in Requests |->
                       IF r \in D THEN Append(resp[r], "cancelled") ELSE resp[r]],
           queue' = [k \in Classes |-> queue'[k]],
           \A k \in Classes : queue'[k] = IF k = c THEN <<>> ELSE queue[k]
    PROVE  /\ resp' \in [Requests -> Seq(Results)]
           /\ \A r \in Requests : resp'[r] = IF r \in D THEN <<"cancelled">> ELSE resp[r]
           /\ queue' \in [Classes -> Seq(Requests)] /\ QueuesInv'
           /\ \A r \in Requests : InQueue(r)' <=> InQueue(r) /\ r \notin D
<1>1. /\ resp' \in [Requests -> Seq(Results)]
      /\ \A r \in Requests : resp'[r] = IF r \in D THEN <<"cancelled">> ELSE resp[r]
  BY Pruning
<1>2. \A r \in Requests : InQueue(r) /\ Class(r) = c => ~IsLive(r)
  BY NothingLeft
<1>3. \A k \in Classes :
        /\ queue[k] \in Seq(Requests) /\ Distinct(queue[k])
        /\ \A r \in Requests : In(queue[k], r) <=> InQueue(r) /\ Class(r) = k
  BY DEF Structure, RequestTypes, QueuesInv, InQueue
<1>4. \A k \in Classes :
        /\ queue'[k] \in Seq(Requests) /\ Distinct(queue'[k])
        /\ \A r \in Requests : In(queue'[k], r) <=> InQueue(r) /\ Class(r) = k /\ k /= c
  BY <1>3, EmptyFacts, ZenonT(60)
<1>5. queue' \in [Classes -> Seq(Requests)]
  BY <1>4
<1>6. QueuesInv'
  BY <1>4 DEF QueuesInv
<1>7. \A r \in Requests : InQueue(r)' <=> InQueue(r) /\ r \notin D
  BY <1>2, <1>4, ClassFacts DEF InQueue
<1> QED BY <1>1, <1>5, <1>6, <1>7

\* What one queue's try_pop and try_push do to the other queue: nothing.
LEMMA OneQueue ==
    ASSUME RequestTypes, NEW c \in Classes, NEW q, queue' = [queue EXCEPT ![c] = q]
    PROVE  /\ queue' = [k \in Classes |-> queue'[k]]
           /\ \A k \in Classes : queue'[k] = IF k = c THEN q ELSE queue[k]
BY DEF RequestTypes

\* The head of a queue is taken, and only that queue was looked at.
LEMMA TakingOne ==
    ASSUME Structure, RequestsInv, NEW c \in Classes, Pruned(c) /= <<>>,
           NEW x, x = Head(Pruned(c)),
           NEW D, \A r \in Requests : r \in D <=> InQueue(r) /\ Class(r) \in {c} /\ ~IsLive(r),
           resp' = [r \in Requests |->
                       IF r \in D THEN Append(resp[r], "cancelled") ELSE resp[r]],
           queue' = [k \in Classes |-> queue'[k]],
           \A k \in Classes : queue'[k] = IF k = c THEN Tail(Pruned(c)) ELSE queue[k]
    PROVE  /\ x \in Requests /\ InQueue(x) /\ Class(x) = c /\ x \notin D
           /\ resp' \in [Requests -> Seq(Results)]
           /\ \A r \in Requests : resp'[r] = IF r \in D THEN <<"cancelled">> ELSE resp[r]
           /\ queue' \in [Classes -> Seq(Requests)] /\ QueuesInv'
           /\ \A r \in Requests : InQueue(r)' <=> InQueue(r) /\ r \notin D /\ r /= x
<1>1. PICK seen \in SUBSET Classes : seen = {c}
  OBVIOUS
<1>2. \A r \in Requests : r \in D <=> InQueue(r) /\ Class(r) \in seen /\ ~IsLive(r)
  BY <1>1
<1>3. \A k \in Classes : queue'[k] = IF k = c THEN Tail(Pruned(c))
                                    ELSE IF k \in seen THEN Pruned(k) ELSE queue[k]
  BY <1>1
<1>4. c \in seen
  BY <1>1
<1> QED BY <1>2, <1>3, <1>4, Taking, SMTT(60)

LEMMA WakeSignalMoves ==
    ASSUME Structure, RequestsInv, WakeInv, WakeSignal
    PROVE  Structure' /\ \A r \in Requests : Move(r)
<1>1. PICK c \in Classes :
        /\ resp' = [r \in Requests |->
                       IF r \in Dropped(c) THEN Append(resp[r], "cancelled") ELSE resp[r]]
        /\ \/ /\ Pruned(c) = <<>> /\ queue' = [queue EXCEPT ![c] = <<>>]
              /\ UNCHANGED <<pc, wake>>
           \/ /\ Pruned(c) /= <<>> /\ queue' = [queue EXCEPT ![c] = Tail(Pruned(c))]
              /\ wake' = Msg("request", Head(Pruned(c)))
              /\ pc' = "load"
  BY DEF WakeSignal, AnswerCancelled
<1>2. PICK D : D = Dropped(c)
  OBVIOUS
<1>3. \A r \in Requests : r \in D <=> InQueue(r) /\ Class(r) \in {c} /\ ~IsLive(r)
  BY <1>2, DroppedFacts
<1>4. resp' = [r \in Requests |->
                  IF r \in D THEN Append(resp[r], "cancelled") ELSE resp[r]]
  BY <1>1, <1>2
<1>5. /\ UNCHANGED <<life, handle, stack>> /\ pc = "sleep" /\ wake = NoWake
      /\ \A r \in Requests : ~InWake(r)
  BY DEF WakeSignal, WakeInv, InWake, NoWake, Msg
<1>6. CASE Pruned(c) = <<>>
  <2>1. queue' = [queue EXCEPT ![c] = <<>>] /\ UNCHANGED <<pc, wake>>
    BY <1>1, <1>6
  <2>2. /\ queue' = [k \in Classes |-> queue'[k]]
        /\ \A k \in Classes : queue'[k] = IF k = c THEN <<>> ELSE queue[k]
    BY <2>1, OneQueue DEF Structure
  <2>3. /\ resp' \in [Requests -> Seq(Results)]
        /\ \A r \in Requests : resp'[r] = IF r \in D THEN <<"cancelled">> ELSE resp[r]
        /\ queue' \in [Classes -> Seq(Requests)] /\ QueuesInv'
        /\ \A r \in Requests : InQueue(r)' <=> InQueue(r) /\ r \notin D
    BY <1>3, <1>4, <1>6, <2>2, Emptying
  <2>4. Structure'
    BY <1>5, <2>1, <2>3 DEF Structure, RequestTypes, StackInv
  <2>5. ASSUME NEW r \in Requests, r \in D PROVE Move(r)
    BY <1>3, <1>5, <2>1, <2>3, <2>5, QueuedFacts, PrunedMoves DEF InWake
  <2>6. ASSUME NEW r \in Requests, r \notin D PROVE Move(r)
    BY <1>5, <2>1, <2>3, <2>6 DEF Move, Unmoved, SamePlace, InWake
  <2> QED BY <2>4, <2>5, <2>6
<1>7. CASE Pruned(c) /= <<>>
  <2>1. PICK x : x = Head(Pruned(c))
    OBVIOUS
  <2>2. /\ queue' = [queue EXCEPT ![c] = Tail(Pruned(c))]
        /\ wake' = Msg("request", x) /\ pc' = "load"
    BY <1>1, <1>7, <2>1
  <2>3. /\ queue' = [k \in Classes |-> queue'[k]]
        /\ \A k \in Classes : queue'[k] = IF k = c THEN Tail(Pruned(c)) ELSE queue[k]
    BY <2>2, OneQueue DEF Structure
  <2>5. /\ x \in Requests /\ InQueue(x) /\ Class(x) = c /\ x \notin D
        /\ resp' \in [Requests -> Seq(Results)]
        /\ \A r \in Requests : resp'[r] = IF r \in D THEN <<"cancelled">> ELSE resp[r]
        /\ queue' \in [Classes -> Seq(Requests)] /\ QueuesInv'
        /\ \A r \in Requests : InQueue(r)' <=> InQueue(r) /\ r \notin D /\ r /= x
    BY <1>3, <1>4, <1>7, <2>1, <2>3, TakingOne
  <2>6. Structure'
    BY <1>5, <2>2, <2>5 DEF Structure, RequestTypes, StackInv
  <2>7. \A r \in Requests : InWake(r)' <=> r = x
    BY <2>2 DEF InWake, Msg
  <2>8. ASSUME NEW r \in Requests, r \in D PROVE Move(r)
    BY <1>3, <1>5, <2>5, <2>7, <2>8, QueuedFacts, PrunedMoves
  <2>9. Move(x)
    BY <1>5, <2>5, <2>7, QueuedFacts DEF Move, Popped
  <2>10. ASSUME NEW r \in Requests, r \notin D, r /= x PROVE Move(r)
    BY <1>5, <2>5, <2>7, <2>10 DEF Move, Unmoved, SamePlace
  <2> QED BY <2>6, <2>8, <2>9, <2>10
<1> QED BY <1>6, <1>7

-----------------------------------------------------------------------------
(* The worker executes requests. *)

\* What the innermost activation tells about its request.
LEMMA ExecFacts ==
    ASSUME Structure, pc = "exec"
    PROVE  /\ stack /= <<>> /\ Top \in Frames /\ Top.req \in Requests
           /\ stack \in Seq(Frames) /\ OneEach(stack) /\ BatchesLeft(stack)
           /\ BatchLeft(Top)
           /\ Beginning(stack, Top.req) <=> Top.at = "begin"
           /\ Running(stack, Top.req) <=> Top.at /= "begin"
           /\ Traced(stack, Top.req) <=> Marked(Top)
<1>1. stack \in Seq(Frames) /\ stack /= <<>> /\ OneEach(stack) /\ BatchesLeft(stack)
  BY DEF Structure, RequestTypes, StackInv
<1>2. /\ Top \in Frames
      /\ Beginning(stack, Top.req) <=> Top.at = "begin"
      /\ Running(stack, Top.req) <=> Top.at /= "begin"
      /\ Traced(stack, Top.req) <=> Marked(Top)
  BY <1>1, TopFacts DEF Top
<1>3. Top.req \in Requests
  BY <1>2 DEF Frames
<1>4. Len(stack) \in DOMAIN stack
  BY <1>1
<1>5. BatchLeft(Top)
  BY <1>1, <1>4 DEF BatchesLeft, Top
<1> QED BY <1>1, <1>2, <1>3, <1>5

\* The innermost activation goes on as f.
LEMMA TopStep ==
    ASSUME Structure, pc = "exec",
           NEW f \in Frames, f.req = Top.req, BatchLeft(f), NEW t, t = AtTop(f)
    PROVE  /\ t \in Seq(Frames) /\ t /= <<>> /\ OneEach(t) /\ BatchesLeft(t)
           /\ \A r \in Requests :
                 /\ Beginning(t, r) <=> IF r = Top.req THEN f.at = "begin" ELSE Beginning(stack, r)
                 /\ Running(t, r) <=> IF r = Top.req THEN f.at /= "begin" ELSE Running(stack, r)
                 /\ Traced(t, r) <=> IF r = Top.req THEN Marked(f) ELSE Traced(stack, r)
<1>1. stack \in Seq(Frames) /\ stack /= <<>> /\ OneEach(stack) /\ BatchesLeft(stack)
  BY ExecFacts
<1>2. t = [stack EXCEPT ![Len(stack)] = f] /\ f.req = stack[Len(stack)].req
  BY DEF AtTop, Top
<1>3. /\ t \in Seq(Frames) /\ t /= <<>> /\ OneEach(t) /\ BatchesLeft(t)
      /\ Len(t) = Len(stack) /\ t[Len(t)] = f
      /\ \A r : r /= f.req =>
            /\ Beginning(t, r) <=> Beginning(stack, r)
            /\ Running(t, r) <=> Running(stack, r)
            /\ Traced(t, r) <=> Traced(stack, r)
  BY <1>1, <1>2, TopMoves
<1>4. /\ Beginning(t, f.req) <=> f.at = "begin"
      /\ Running(t, f.req) <=> f.at /= "begin"
      /\ Traced(t, f.req) <=> Marked(f)
  BY <1>3, TopFacts
<1> QED BY <1>3, <1>4

\* The innermost activation goes on and its request stays where it is.
LEMMA GoesOn ==
    ASSUME Structure, pc = "exec", pc' = "exec",
           NEW f \in Frames, f.req = Top.req, BatchLeft(f), stack' = AtTop(f),
           Top.at /= "begin", f.at /= "begin",
           Marked(f) => Marked(Top) \/ ~IsLive(Top.req),
           UNCHANGED <<life, handle, resp, queue, wake>>
    PROVE  Structure' /\ \A r \in Requests : Move(r)
<1>1. /\ Top.req \in Requests /\ ~Beginning(stack, Top.req) /\ Running(stack, Top.req)
      /\ Traced(stack, Top.req) <=> Marked(Top)
  BY ExecFacts
<1>2. /\ stack' \in Seq(Frames) /\ stack' /= <<>> /\ OneEach(stack') /\ BatchesLeft(stack')
      /\ \A r \in Requests :
            /\ Beginning(stack', r) <=> IF r = Top.req THEN f.at = "begin" ELSE Beginning(stack, r)
            /\ Running(stack', r) <=> IF r = Top.req THEN f.at /= "begin" ELSE Running(stack, r)
            /\ Traced(stack', r) <=> IF r = Top.req THEN Marked(f) ELSE Traced(stack, r)
  BY TopStep
<1>3. Structure'
  BY <1>2 DEF Structure, RequestTypes, QueuesInv, StackInv
<1>4. \A r \in Requests : /\ InQueue(r)' <=> InQueue(r)
                          /\ InWake(r)' <=> InWake(r)
  BY DEF InQueue, InWake
<1>5. \A r \in Requests : Unmoved(r)
  BY <1>1, <1>2, <1>4 DEF Unmoved, SamePlace, IsLive
<1> QED BY <1>3, <1>5 DEF Move

LEMMA BatchMoves ==
    ASSUME Structure, Batch
    PROVE  Structure' /\ \A r \in Requests : Move(r)
<1>1. /\ pc = "exec" /\ pc' = "exec" /\ Top.at = "batch"
      /\ UNCHANGED <<life, handle, resp, queue, wake>>
  BY DEF Batch, At, requestVars, queueVars
<1>2. Top \in Frames /\ BatchLeft(Top)
  BY <1>1, ExecFacts
<1>3. Top.left \in 1..Batches
  BY <1>1, <1>2 DEF BatchLeft, Frames
<1>4. PICK f \in Frames : /\ stack' = AtTop(f) /\ f.req = Top.req /\ f.at /= "begin"
                          /\ BatchLeft(f)
                          /\ Marked(f) => Marked(Top) \/ ~IsLive(Top.req)
  <2> DEFINE f1 == [Top EXCEPT !.at = "decide", !.result = "cancelled"]
             f2 == [Top EXCEPT !.at = "decide", !.result = "failed"]
             f3 == [Top EXCEPT !.at = IF Top.left = 1 THEN "decide" ELSE "between",
                               !.left = @ - 1]
  <2>1. CASE ~IsLive(Top.req) /\ stack' = AtTop(f1)
    <3>1. f1 \in Frames /\ f1.req = Top.req /\ f1.at = "decide"
      BY <1>2 DEF Frames, Results
    <3> QED BY <2>1, <3>1 DEF BatchLeft
  <2>2. CASE stack' = AtTop(f2)
    <3>1. f2 \in Frames /\ f2.req = Top.req /\ f2.at = "decide" /\ (Marked(f2) => Marked(Top))
      BY <1>2 DEF Frames, Results, Marked
    <3> QED BY <2>2, <3>1 DEF BatchLeft
  <2>3. CASE stack' = AtTop(f3)
    <3> DEFINE a == IF Top.left = 1 THEN "decide" ELSE "between"
               l == Top.left - 1
    <3>1. /\ a \in {"decide", "between"} /\ l \in 0..Batches
          /\ a = "between" => l >= 1
          /\ f3 = [Top EXCEPT !.at = a, !.left = l]
      BY <1>3, EngineAssumption
    <3> HIDE DEF a, l, f3
    <3>2. f3 \in Frames /\ f3.req = Top.req /\ f3.at = a /\ f3.left = l
      BY <1>2, <3>1 DEF Frames
    <3>3. f3.sawCancel = Top.sawCancel /\ f3.result = Top.result
      BY <1>2, <3>1 DEF Frames
    <3>4. BatchLeft(f3) /\ (Marked(f3) => Marked(Top)) /\ f3.at /= "begin"
      BY <3>1, <3>2, <3>3 DEF BatchLeft, Marked
    <3> QED BY <2>3, <3>2, <3>4
  <2>4. \/ ~IsLive(Top.req) /\ stack' = AtTop(f1)
        \/ stack' = AtTop(f2)
        \/ stack' = AtTop(f3)
    BY DEF Batch
  <2> QED BY <2>1, <2>2, <2>3, <2>4
<1> QED BY <1>1, <1>4, GoesOn

LEMMA DecideMoves ==
    ASSUME Structure, Decide
    PROVE  Structure' /\ \A r \in Requests : Move(r)
<1>1. /\ pc = "exec" /\ pc' = "exec" /\ Top.at = "decide"
      /\ UNCHANGED <<life, handle, resp, queue, wake>>
  BY DEF Decide, At, requestVars, queueVars
<1>2. Top \in Frames
  BY <1>1, ExecFacts
<1>3. PICK f \in Frames : /\ stack' = AtTop(f) /\ f.req = Top.req /\ f.at = "commit"
                          /\ Marked(f) => Marked(Top) \/ ~IsLive(Top.req)
  <2> DEFINE f == [Top EXCEPT !.at = "commit", !.sawCancel = ~IsLive(Top.req)]
  <2>1. IsLive(Top.req) \in BOOLEAN
    BY DEF IsLive
  <2>2. f \in Frames /\ f.req = Top.req /\ f.at = "commit" /\ f.result = Top.result
    BY <1>2, <2>1 DEF Frames
  <2>3. f.sawCancel = ~IsLive(Top.req)
    BY <1>2 DEF Frames
  <2>4. Marked(f) => Marked(Top) \/ ~IsLive(Top.req)
    BY <2>2, <2>3 DEF Marked
  <2>5. stack' = AtTop(f)
    BY DEF Decide
  <2> QED BY <2>2, <2>4, <2>5
<1> QED BY <1>1, <1>3, GoesOn DEF BatchLeft

\* The innermost activation answers a: its request had been cancelled, or was
\* active and is now committed.
LEMMA Answering ==
    ASSUME Structure, RequestsInv, pc = "exec", NEW x, x = Top.req, NEW a \in Results,
           resp' = [resp EXCEPT ![x] = Append(@, a)],
           stack' = SubSeq(stack, 1, Len(stack) - 1),
           pc' = IF Len(stack) = 1 THEN "loop" ELSE "exec",
           UNCHANGED <<handle, queue, wake>>,
           \/ a = "cancelled" /\ life[x] = "Cancelled" /\ life' = life
           \/ /\ a /= "cancelled" /\ Top.at /= "begin" /\ life[x] = "Active"
              /\ life' = [life EXCEPT ![x] = "Committed"]
    PROVE  Structure' /\ \A r \in Requests : Move(r)
<1>1. /\ stack \in Seq(Frames) /\ stack /= <<>> /\ OneEach(stack) /\ BatchesLeft(stack)
      /\ x \in Requests
      /\ Beginning(stack, x) <=> Top.at = "begin"
      /\ Running(stack, x) <=> Top.at /= "begin"
  BY ExecFacts
<1>2. /\ stack' \in Seq(Frames) /\ OneEach(stack') /\ BatchesLeft(stack')
      /\ stack' = <<>> <=> Len(stack) = 1
      /\ ~Beginning(stack', x) /\ ~Running(stack', x)
      /\ \A r : Traced(stack', r) => Traced(stack, r)
      /\ \A r : r /= x =>
            /\ Beginning(stack', r) <=> Beginning(stack, r)
            /\ Running(stack', r) <=> Running(stack, r)
  BY <1>1, StackPop DEF Top
<1>3. resp[x] = <<>> /\ ~InQueue(x) /\ ~InWake(x)
  BY <1>1 DEF RequestsInv, OnePlace
<1>4. \A r \in Requests : resp'[r] = IF r = x THEN <<a>> ELSE resp[r]
  BY <1>3, OneAnswer DEF Structure, RequestTypes
<1>5. RequestTypes'
  <2>1. life' \in [Requests -> Lives]
    BY DEF Structure, RequestTypes, Lives
  <2>2. Append(resp[x], a) \in Seq(Results)
    BY <1>1 DEF Structure, RequestTypes
  <2>3. resp' \in [Requests -> Seq(Results)]
    BY <2>2 DEF Structure, RequestTypes
  <2> QED BY <1>2, <2>1, <2>3 DEF Structure, RequestTypes
<1>6. Structure'
  BY <1>2, <1>5 DEF Structure, QueuesInv, StackInv
<1>7. \A r \in Requests : /\ InQueue(r)' <=> InQueue(r)
                          /\ InWake(r)' <=> InWake(r)
  BY DEF InQueue, InWake
<1>8. \A r \in Requests : r /= x => life'[r] = life[r]
  BY DEF Structure, RequestTypes
<1>9. ASSUME NEW r \in Requests, r /= x PROVE Move(r)
  BY <1>2, <1>4, <1>7, <1>8, <1>9 DEF Move, Unmoved, SamePlace
<1>10. Move(x)
  <2>1. /\ handle'[x] = handle[x] /\ resp'[x] = <<a>>
        /\ Beginning(stack, x) \/ Running(stack, x)
    BY <1>1, <1>4
  <2>2. CASE a = "cancelled" /\ life[x] = "Cancelled" /\ life' = life
    BY <1>1, <1>2, <1>3, <1>7, <2>1, <2>2 DEF Move, Answers
  <2>3. CASE /\ a /= "cancelled" /\ Top.at /= "begin" /\ life[x] = "Active"
             /\ life' = [life EXCEPT ![x] = "Committed"]
    <3>1. life'[x] = "Committed" /\ Running(stack, x)
      BY <1>1, <2>3 DEF Structure, RequestTypes
    <3>2. resp'[x] \in {<<"ok">>, <<"failed">>}
      BY <2>1, <2>3 DEF Results
    <3> QED BY <1>1, <1>2, <1>3, <1>7, <2>1, <2>3, <3>1, <3>2 DEF Move, Answers
  <2> QED BY <2>2, <2>3
<1> QED BY <1>6, <1>9, <1>10

LEMMA CommitMoves ==
    ASSUME Structure, RequestsInv, Commit
    PROVE  Structure' /\ \A r \in Requests : Move(r)
<1>1. PICK x : x = Top.req
  OBVIOUS
<1>2. PICK wins \in BOOLEAN : wins = (~Top.sawCancel /\ life[x] = "Active")
  OBVIOUS
<1>3. PICK a : a = IF wins THEN Top.result ELSE "cancelled"
  OBVIOUS
<1>4. /\ pc = "exec" /\ Top.at = "commit" /\ UNCHANGED <<handle, queue, wake>>
      /\ life' = IF wins THEN [life EXCEPT ![x] = "Committed"] ELSE life
      /\ resp' = [resp EXCEPT ![x] = Append(@, a)]
      /\ stack' = SubSeq(stack, 1, Len(stack) - 1)
      /\ pc' = IF Len(stack) = 1 THEN "loop" ELSE "exec"
  BY <1>1, <1>2, <1>3 DEF Commit, At, Answer, queueVars
<1>5. /\ Top \in Frames /\ x \in Requests
      /\ Running(stack, x)
      /\ Traced(stack, x) <=> Marked(Top)
  BY <1>1, <1>4, ExecFacts
<1>6. /\ life[x] \in {"Active", "Cancelled"}
      /\ Marked(Top) => life[x] = "Cancelled"
  BY <1>5 DEF RequestsInv, LifeOf
<1>7. a \in Results
  BY <1>3, <1>5 DEF Frames, Results
<1>8. CASE wins
  <2>1. ~Marked(Top) /\ life[x] = "Active"
    BY <1>2, <1>6, <1>8
  <2>2. a /= "cancelled"
    BY <1>3, <1>8, <2>1 DEF Marked
  <2> QED BY <1>1, <1>4, <1>7, <1>8, <2>1, <2>2, Answering
<1>9. CASE ~wins
  <2>1. life[x] = "Cancelled" /\ a = "cancelled" /\ life' = life
    BY <1>2, <1>3, <1>4, <1>6, <1>9 DEF Marked
  <2> QED BY <1>1, <1>4, <1>7, <2>1, Answering
<1> QED BY <1>8, <1>9

LEMMA BeginMoves ==
    ASSUME Structure, RequestsInv, Begin
    PROVE  Structure' /\ \A r \in Requests : Move(r)
<1>1. PICK x : x = Top.req
  OBVIOUS
<1>2. pc = "exec" /\ Top.at = "begin" /\ UNCHANGED <<handle, queue, wake>>
  BY DEF Begin, At, queueVars
<1>3. /\ Top \in Frames /\ x \in Requests /\ BatchLeft(Top)
      /\ Beginning(stack, x)
      /\ Traced(stack, x) <=> Marked(Top)
  BY <1>1, <1>2, ExecFacts
<1>4. life[x] \in {"Queued", "Cancelled"}
  BY <1>3 DEF RequestsInv, LifeOf
<1>5. CASE life[x] /= "Queued"
  <2>1. /\ UNCHANGED life
        /\ resp' = [resp EXCEPT ![x] = Append(@, "cancelled")]
        /\ stack' = SubSeq(stack, 1, Len(stack) - 1)
        /\ pc' = IF Len(stack) = 1 THEN "loop" ELSE "exec"
    BY <1>1, <1>5 DEF Begin, Answer
  <2>2. "cancelled" \in Results
    BY DEF Results
  <2> QED BY <1>1, <1>2, <1>4, <1>5, <2>1, <2>2, Answering
<1>6. CASE life[x] = "Queued"
  <2> DEFINE f == [Top EXCEPT !.at = "batch"]
  <2>1. /\ life' = [life EXCEPT ![x] = "Active"] /\ stack' = AtTop(f)
        /\ UNCHANGED <<resp, pc>>
    BY <1>1, <1>6 DEF Begin
  <2>2. /\ f \in Frames /\ f.req = Top.req /\ f.at = "batch" /\ f.left = Top.left
        /\ f.sawCancel = Top.sawCancel /\ f.result = Top.result
    BY <1>3 DEF Frames
  <2> HIDE DEF f
  <2>3. BatchLeft(f) /\ (Marked(f) => Marked(Top))
    BY <1>2, <1>3, <2>2 DEF BatchLeft, Marked
  <2>4. /\ stack' \in Seq(Frames) /\ stack' /= <<>> /\ OneEach(stack') /\ BatchesLeft(stack')
        /\ \A r \in Requests :
              /\ Beginning(stack', r) <=> IF r = Top.req THEN f.at = "begin" ELSE Beginning(stack, r)
              /\ Running(stack', r) <=> IF r = Top.req THEN f.at /= "begin" ELSE Running(stack, r)
              /\ Traced(stack', r) <=> IF r = Top.req THEN Marked(f) ELSE Traced(stack, r)
    BY <1>2, <2>1, <2>2, <2>3, TopStep
  <2>5. Structure'
    <3>1. life' \in [Requests -> Lives]
      BY <2>1 DEF Structure, RequestTypes, Lives
    <3> QED BY <1>2, <2>1, <2>4, <3>1 DEF Structure, RequestTypes, QueuesInv, StackInv
  <2>6. \A r \in Requests : /\ InQueue(r)' <=> InQueue(r)
                            /\ InWake(r)' <=> InWake(r)
                            /\ life'[r] = IF r = x THEN "Active" ELSE life[r]
    BY <1>2, <2>1 DEF InQueue, InWake, Structure, RequestTypes
  <2>7. ASSUME NEW r \in Requests, r /= x PROVE Move(r)
    BY <1>1, <1>2, <2>1, <2>4, <2>6, <2>7 DEF Move, Unmoved, SamePlace
  <2>8. Move(x)
    BY <1>1, <1>2, <1>3, <1>6, <2>1, <2>2, <2>3, <2>4, <2>6 DEF Move, Begun
  <2> QED BY <2>5, <2>7, <2>8
<1> QED BY <1>5, <1>6

\* A query is taken between two batches of a bulk request.
LEMMA BetweenMoves ==
    ASSUME Structure, RequestsInv, Between
    PROVE  Structure' /\ \A r \in Requests : Move(r)
<1> DEFINE f == [Top EXCEPT !.at = "batch"]
<1>1. PICK c \in Classes : c = "Query"
  BY DEF Classes
<1>2. PICK D : D = Dropped(c)
  OBVIOUS
<1>3. \A r \in Requests : r \in D <=> InQueue(r) /\ Class(r) \in {c} /\ ~IsLive(r)
  BY <1>2, DroppedFacts
<1>4. resp' = [r \in Requests |->
                  IF r \in D THEN Append(resp[r], "cancelled") ELSE resp[r]]
  BY <1>1, <1>2 DEF Between, AnswerCancelled
<1>5. /\ UNCHANGED <<life, handle, wake, pc>> /\ pc = "exec" /\ Top.at = "between"
  BY DEF Between, At
<1>6. /\ Top \in Frames /\ Top.req \in Requests /\ BatchLeft(Top)
      /\ ~Beginning(stack, Top.req) /\ Running(stack, Top.req)
      /\ Traced(stack, Top.req) <=> Marked(Top)
  BY <1>5, ExecFacts
<1>7. /\ f \in Frames /\ f.req = Top.req /\ f.at = "batch" /\ f.left = Top.left
      /\ f.sawCancel = Top.sawCancel /\ f.result = Top.result
  BY <1>6 DEF Frames
<1>8. PICK t : t = AtTop(f)
  OBVIOUS
<1>9. \/ /\ Pruned(c) = <<>> /\ queue' = [queue EXCEPT ![c] = <<>>]
         /\ stack' = t
      \/ /\ Pruned(c) /= <<>> /\ queue' = [queue EXCEPT ![c] = Tail(Pruned(c))]
         /\ stack' = Append(t, Activation(Head(Pruned(c))))
  BY <1>1, <1>8 DEF Between
<1> HIDE DEF f
<1>10. BatchLeft(f) /\ (Marked(f) <=> Marked(Top))
  BY <1>5, <1>6, <1>7 DEF BatchLeft, Marked
<1>11. /\ t \in Seq(Frames) /\ t /= <<>> /\ OneEach(t) /\ BatchesLeft(t)
       /\ \A r \in Requests :
             /\ Beginning(t, r) <=> Beginning(stack, r)
             /\ Running(t, r) <=> Running(stack, r)
             /\ Traced(t, r) <=> Traced(stack, r)
  <2>1. /\ t \in Seq(Frames) /\ t /= <<>> /\ OneEach(t) /\ BatchesLeft(t)
        /\ \A r \in Requests :
              /\ Beginning(t, r) <=> IF r = Top.req THEN f.at = "begin" ELSE Beginning(stack, r)
              /\ Running(t, r) <=> IF r = Top.req THEN f.at /= "begin" ELSE Running(stack, r)
              /\ Traced(t, r) <=> IF r = Top.req THEN Marked(f) ELSE Traced(stack, r)
    BY <1>5, <1>7, <1>8, <1>10, TopStep
  <2> QED BY <1>6, <1>7, <1>10, <2>1
<1>12. CASE Pruned(c) = <<>>
  <2>1. queue' = [queue EXCEPT ![c] = <<>>] /\ stack' = t
    BY <1>9, <1>12
  <2>2. /\ queue' = [k \in Classes |-> queue'[k]]
        /\ \A k \in Classes : queue'[k] = IF k = c THEN <<>> ELSE queue[k]
    BY <2>1, OneQueue DEF Structure
  <2>3. /\ resp' \in [Requests -> Seq(Results)]
        /\ \A r \in Requests : resp'[r] = IF r \in D THEN <<"cancelled">> ELSE resp[r]
        /\ queue' \in [Classes -> Seq(Requests)] /\ QueuesInv'
        /\ \A r \in Requests : InQueue(r)' <=> InQueue(r) /\ r \notin D
    BY <1>3, <1>4, <1>12, <2>2, Emptying
  <2>4. Structure'
    BY <1>5, <1>11, <2>1, <2>3 DEF Structure, RequestTypes, StackInv
  <2>5. ASSUME NEW r \in Requests, r \in D PROVE Move(r)
    BY <1>3, <1>5, <1>11, <2>1, <2>3, <2>5, QueuedFacts, PrunedMoves DEF InWake
  <2>6. ASSUME NEW r \in Requests, r \notin D PROVE Move(r)
    BY <1>5, <1>11, <2>1, <2>3, <2>6 DEF Move, Unmoved, SamePlace, InWake
  <2> QED BY <2>4, <2>5, <2>6
<1>13. CASE Pruned(c) /= <<>>
  <2>1. PICK x : x = Head(Pruned(c))
    OBVIOUS
  <2>2. /\ queue' = [queue EXCEPT ![c] = Tail(Pruned(c))]
        /\ stack' = Append(t, Activation(x))
    BY <1>9, <1>13, <2>1
  <2>3. /\ queue' = [k \in Classes |-> queue'[k]]
        /\ \A k \in Classes : queue'[k] = IF k = c THEN Tail(Pruned(c)) ELSE queue[k]
    BY <2>2, OneQueue DEF Structure
  <2>4. /\ x \in Requests /\ InQueue(x) /\ Class(x) = c /\ x \notin D
        /\ resp' \in [Requests -> Seq(Results)]
        /\ \A r \in Requests : resp'[r] = IF r \in D THEN <<"cancelled">> ELSE resp[r]
        /\ queue' \in [Classes -> Seq(Requests)] /\ QueuesInv'
        /\ \A r \in Requests : InQueue(r)' <=> InQueue(r) /\ r \notin D /\ r /= x
    BY <1>3, <1>4, <1>13, <2>1, <2>3, TakingOne
  <2>5. /\ stack' \in Seq(Frames) /\ stack' /= <<>> /\ OneEach(stack') /\ BatchesLeft(stack')
        /\ \A r : /\ Beginning(stack', r) <=> Beginning(t, r) \/ r = x
                  /\ Running(stack', r) <=> Running(t, r)
                  /\ Traced(stack', r) <=> Traced(t, r)
    <3>1. PICK g : g = Activation(x)
      OBVIOUS
    <3>2. g \in Frames /\ BatchLeft(g) /\ g.req = x /\ g.at = "begin" /\ ~Marked(g)
      BY <2>4, <3>1, ActivationFacts
    <3>3. ~Beginning(t, x) /\ ~Running(t, x)
      BY <1>11, <2>4, QueuedFacts
    <3>4. stack' = Append(t, g)
      BY <2>2, <3>1
    <3> QED BY <1>11, <3>2, <3>3, <3>4, StackPush
  <2>6. Structure'
    BY <1>5, <2>4, <2>5 DEF Structure, RequestTypes, StackInv
  <2>7. ASSUME NEW r \in Requests, r \in D PROVE Move(r)
    BY <1>3, <1>5, <1>11, <2>4, <2>5, <2>7, QueuedFacts, PrunedMoves DEF InWake
  <2>8. Move(x)
    BY <1>5, <1>11, <2>4, <2>5, QueuedFacts DEF Move, Popped, InWake
  <2>9. ASSUME NEW r \in Requests, r \notin D, r /= x PROVE Move(r)
    BY <1>5, <1>11, <2>4, <2>5, <2>9 DEF Move, Unmoved, SamePlace, InWake
  <2> QED BY <2>6, <2>7, <2>8, <2>9
<1> QED BY <1>12, <1>13

\* The request that the model was loaded for.
LEMMA WakeFacts ==
    ASSUME TypeOK, WakeInv
    PROVE  \A r \in Requests : InWake(r) <=> wake.kind = "request" /\ wake.who = r
<1>1. wake = [kind |-> wake.kind, who |-> wake.who]
  BY DEF TypeOK
<1> QED BY <1>1 DEF InWake, Msg

LEMMA ServeWakeMoves ==
    ASSUME TypeOK, Structure, RequestsInv, WakeInv, ServeWake
    PROVE  Structure' /\ \A r \in Requests : Move(r)
<1>1. /\ UNCHANGED <<life, handle, resp, queue>> /\ pc = "wake"
      /\ wake' = NoWake
  BY DEF ServeWake, requestVars, queueVars
<1>2. wake'.kind /= "request" /\ \A r \in Requests : ~InWake(r)'
  BY <1>1 DEF InWake, NoWake, Msg
<1>3. CASE wake.kind /= "request"
  <2>1. UNCHANGED stack /\ pc' = "loop"
    BY <1>3, <1>1 DEF ServeWake, TypeOK, WakeInv
  <2> QED BY <1>1, <1>2, <1>3, <2>1, QuietMoves
<1>4. CASE wake.kind = "request"
  <2>1. PICK x : x = wake.who
    OBVIOUS
  <2>2. pc' = "exec" /\ stack' = <<Activation(x)>>
    BY <1>4, <2>1 DEF ServeWake
  <2>3. x \in Requests /\ \A r \in Requests : InWake(r) <=> r = x
    BY <1>4, <2>1, WakeFacts DEF WakeInv
  <2>4. stack = <<>> /\ stack \in Seq(Frames) /\ OneEach(stack) /\ BatchesLeft(stack)
    BY <1>1 DEF Structure, RequestTypes, StackInv
  <2>5. ~InQueue(x) /\ ~Beginning(stack, x) /\ ~Running(stack, x) /\ ~Traced(stack, x)
    BY <2>3, <2>4, QueuedFacts DEF Beginning, Running, Traced
  <2>6. /\ stack' \in Seq(Frames) /\ stack' /= <<>> /\ OneEach(stack') /\ BatchesLeft(stack')
        /\ \A r : /\ Beginning(stack', r) <=> Beginning(stack, r) \/ r = x
                  /\ Running(stack', r) <=> Running(stack, r)
                  /\ Traced(stack', r) <=> Traced(stack, r)
    <3>1. PICK g : g = Activation(x)
      OBVIOUS
    <3>2. g \in Frames /\ BatchLeft(g) /\ g.req = x /\ g.at = "begin" /\ ~Marked(g)
      BY <2>3, <3>1, ActivationFacts
    <3>3. stack' = Append(stack, g)
      BY <2>2, <2>4, <3>1, OneAnswer
    <3> QED BY <2>4, <2>5, <3>2, <3>3, StackPush
  <2>7. Structure'
    BY <1>1, <2>2, <2>6 DEF Structure, RequestTypes, QueuesInv, StackInv
  <2>8. \A r \in Requests : InQueue(r)' <=> InQueue(r)
    BY <1>1 DEF InQueue
  <2>9. Move(x)
    BY <1>1, <1>2, <2>3, <2>5, <2>6, <2>8 DEF Move, Woken
  <2>10. ASSUME NEW r \in Requests, r /= x PROVE Move(r)
    BY <1>1, <1>2, <2>3, <2>6, <2>8, <2>10 DEF Move, Unmoved, SamePlace
  <2> QED BY <2>7, <2>9, <2>10
<1> QED BY <1>3, <1>4

LEMMA LoadFailsMoves ==
    ASSUME TypeOK, Structure, RequestsInv, WakeInv, LoadFails
    PROVE  Structure' /\ \A r \in Requests : Move(r)
<1>1. /\ UNCHANGED <<life, handle, queue, stack>> /\ pc = "load" /\ pc' /= "exec"
      /\ wake' = NoWake
      /\ resp' = [r \in Requests |-> IF InWake(r) THEN Append(resp[r], "failed") ELSE resp[r]]
  BY DEF LoadFails, queueVars, InWake
<1>2. \A r \in Requests : ~InWake(r)'
  BY <1>1 DEF InWake, NoWake, Msg
<1>3. \A r \in Requests : InWake(r) =>
        /\ resp[r] = <<>> /\ ~InQueue(r) /\ ~Beginning(stack, r) /\ ~Running(stack, r)
  BY DEF RequestsInv, OnePlace
<1>4. \A r \in Requests : resp'[r] = IF InWake(r) THEN <<"failed">> ELSE resp[r]
  BY <1>1, <1>3, OneAnswer
<1>5. resp' \in [Requests -> Seq(Results)]
  <2>1. <<"failed">> \in Seq(Results)
    BY DEF Results
  <2>2. \A r \in Requests : resp'[r] \in Seq(Results)
    BY <1>4, <2>1 DEF Structure, RequestTypes
  <2>3. resp' = [r \in Requests |-> resp'[r]]
    BY <1>1
  <2> QED BY <2>2, <2>3
<1>6. Structure'
  BY <1>1, <1>5 DEF Structure, RequestTypes, QueuesInv, StackInv
<1>7. \A r \in Requests : InQueue(r)' <=> InQueue(r)
  BY <1>1 DEF InQueue
<1>8. ASSUME NEW r \in Requests PROVE Move(r)
  BY <1>1, <1>2, <1>3, <1>4, <1>7 DEF Move, Unmoved, SamePlace, Answers
<1> QED BY <1>6, <1>8

-----------------------------------------------------------------------------
(* The callers, the control channel and the leases. *)

LEMMA TypeParts == TypeOK <=> RequestTypes /\ ControlTypes
BY DEF TypeOK, RequestTypes, ControlTypes, Messages, CallerTypes

\* What the control half of a state is: everything about callers, messages,
\* the pending wake, the engine value and the leases.
ControlHalf == ControlTypes /\ WakeInv /\ ControlInv /\ SlotInv /\ LeaseInv

\* Handles come into use only while the engine is open.
HandlesKept ==
    \A r \in Requests :
        \/ slot = "open"
        \/ /\ handle[r] = "none" => handle'[r] = "none"
           /\ handle'[r] = "waiting" => handle[r] = "waiting"

\* Steps of the resident worker and of the submitters that leave the callers,
\* the control channel and the leases alone.
LEMMA ControlQuiet ==
    ASSUME ControlHalf, HandlesKept,
           UNCHANGED <<wake, caller, slot, control, leases, published>>,
           \/ pc' = pc
           \/ pc \in {"loop", "select", "exec"} /\ pc' \in {"loop", "select", "exec"}
           \/ pc = "prime" /\ pc' = "wake",
           signal' \in [Classes -> BOOLEAN], turn' \in Classes, idle' \in BOOLEAN
    PROVE  ControlHalf'
<1>1. ControlTypes'
  BY DEF ControlHalf, ControlTypes
<1>2. WakeInv'
  BY DEF ControlHalf, WakeInv
<1>3. ControlInv'
  BY DEF ControlHalf, ControlInv
<1>4. SlotInv'
  BY DEF ControlHalf, SlotInv, HandlesKept, InUse
<1>5. LeaseInv'
  BY DEF ControlHalf, LeaseInv, Leased, LeaseAccounting, LeasePinsGeneration
<1> QED BY <1>1, <1>2, <1>3, <1>4, <1>5 DEF ControlHalf

\* The submitters leave the control half as it is.
LEMMA SubmittersControl ==
    ASSUME TypeOK, ControlHalf, NEW x \in Requests,
           Submit(x) \/ Cancel(x) \/ Abandon(x) \/ Collect(x)
    PROVE  ControlHalf'
<1>1. /\ UNCHANGED <<wake, caller, slot, control, leases, published>>
      /\ pc' = pc /\ turn' = turn /\ idle' = idle
  BY DEF Submit, Cancel, Abandon, Collect, workerVars
<1>2. turn' \in Classes /\ idle' \in BOOLEAN
  BY <1>1 DEF TypeOK
<1>3. signal' \in [Classes -> BOOLEAN]
  BY ClassFacts, ZenonT(60) DEF TypeOK, Submit, Cancel, Abandon, Collect, queueVars
<1>4. HandlesKept
  BY DEF TypeOK, HandlesKept, Submit, Cancel, Abandon, Collect
<1> QED BY <1>1, <1>2, <1>3, <1>4, ControlQuiet

\* So does the resident worker where it deals with requests or with time.
LEMMA ResidentControl ==
    ASSUME TypeOK, ControlHalf,
           \/ LoopPop \/ LoopEmpty \/ SelectSignal \/ SelectTick \/ IdleTimeElapses
           \/ Begin \/ Batch \/ Between \/ Decide \/ Commit \/ Stopped
    PROVE  ControlHalf'
<1>1. /\ UNCHANGED <<wake, caller, slot, control, leases, published, handle>>
  BY DEF LoopPop, LoopEmpty, SelectSignal, SelectTick, IdleTimeElapses, Begin, Batch,
         Between, Decide, Commit, Stopped, vars, workerVars, requestVars
<1>2. \/ pc' = pc
      \/ pc \in {"loop", "select", "exec"} /\ pc' \in {"loop", "select", "exec"}
      \/ pc = "prime" /\ pc' = "wake"
  BY DEF LoopPop, LoopEmpty, SelectSignal, SelectTick, IdleTimeElapses, Begin, Batch,
         Between, Decide, Commit, Stopped, vars, workerVars, Answer, At
<1>3. idle' \in BOOLEAN
  BY DEF TypeOK, LoopPop, LoopEmpty, SelectSignal, SelectTick, IdleTimeElapses, Begin, Batch,
         Between, Decide, Commit, Stopped, vars, workerVars, Answer
<1>4. turn' \in Classes
  BY ClassFacts
  DEF TypeOK, LoopPop, LoopEmpty, SelectSignal, SelectTick, IdleTimeElapses, Begin, Batch,
         Between, Decide, Commit, Stopped, vars, workerVars, NextTurn
<1>5. signal' \in [Classes -> BOOLEAN]
  <2>1. \A c \in Classes : Resignalled(c) \in BOOLEAN /\ signal[c] \in BOOLEAN
    BY DEF Resignalled, TypeOK
  <2>2. "Query" \in Classes
    BY DEF Classes
  <2>3. CASE LoopPop
    BY <2>1, <2>3, ClassFacts DEF TypeOK, LoopPop
  <2>4. CASE Between
    BY <2>1, <2>2, <2>4 DEF TypeOK, Between
  <2>5. CASE SelectSignal
    BY <2>5 DEF TypeOK, SelectSignal
  <2>6. CASE \/ LoopEmpty \/ SelectTick \/ IdleTimeElapses
             \/ Begin \/ Batch \/ Decide \/ Commit \/ Stopped
    BY <2>6 DEF TypeOK, LoopEmpty, SelectTick, IdleTimeElapses, Begin, Batch,
         Decide, Commit, Stopped, vars, queueVars
  <2> QED BY <2>3, <2>4, <2>5, <2>6
<1>6. HandlesKept
  BY <1>1 DEF HandlesKept
<1> QED BY <1>1, <1>2, <1>3, <1>4, <1>5, <1>6, ControlQuiet

\* The message at the head of the control channel is handled.
LEMMA ControlTail ==
    ASSUME ControlTypes, ControlInv, control /= <<>>, NEW m, m = Head(control),
           control' = Tail(control), slot' = slot,
           \A c \in Callers : (m.kind = "shutdown" \/ c /= m.who) =>
               caller'[c].doing = caller[c].doing,
           wake'.kind \in {"ensure", "lease"} => wake' = wake \/ (wake' = m /\ m.kind /= "shutdown")
    PROVE  /\ ControlInv'
           /\ IF m.kind = "shutdown" THEN slot = "stopped"
              ELSE /\ m.who \in Callers /\ caller[m.who].doing = Asking(m.kind)
                   /\ wake.kind \in {"ensure", "lease"} => wake.who /= m.who
           /\ m \in Messages
<1>1. /\ 1 \in DOMAIN control /\ m = control[1]
      /\ \A i \in DOMAIN control' : /\ i + 1 \in DOMAIN control /\ i + 1 /= 1
                                    /\ control'[i] = control[i + 1]
      /\ \A i, j \in DOMAIN control' : i + 1 = j + 1 => i = j
  <2>1. control \in Seq(Messages)
    BY DEF ControlTypes
  <2> QED BY <2>1, HeadTailProperties
<1>2. IF m.kind = "shutdown" THEN slot = "stopped"
      ELSE /\ m.who \in Callers /\ caller[m.who].doing = Asking(m.kind)
           /\ wake.kind \in {"ensure", "lease"} => wake.who /= m.who
  BY <1>1 DEF ControlInv
<1>3. m \in Messages
  BY HeadTailProperties DEF ControlTypes
<1>4. ASSUME NEW i \in DOMAIN control', control'[i].kind /= "shutdown"
      PROVE  m.kind = "shutdown" \/ control'[i].who /= m.who
  BY <1>1, <1>4 DEF ControlInv
<1>5. ASSUME NEW i \in DOMAIN control'
      PROVE  IF control'[i].kind = "shutdown" THEN slot' = "stopped"
             ELSE /\ control'[i].who \in Callers
                  /\ caller'[control'[i].who].doing = Asking(control'[i].kind)
                  /\ wake'.kind \in {"ensure", "lease"} => wake'.who /= control'[i].who
  <2>1. IF control'[i].kind = "shutdown" THEN slot = "stopped"
        ELSE /\ control'[i].who \in Callers
             /\ caller[control'[i].who].doing = Asking(control'[i].kind)
             /\ wake.kind \in {"ensure", "lease"} => wake.who /= control'[i].who
    BY <1>1 DEF ControlInv
  <2> QED BY <1>4, <2>1
<1>6. \A i, j \in DOMAIN control' :
          (/\ control'[i].kind /= "shutdown" /\ control'[j].kind /= "shutdown"
           /\ control'[i].who = control'[j].who) => i = j
  BY <1>1 DEF ControlInv
<1>7. ControlInv'
  BY <1>5, <1>6 DEF ControlInv, Asking
<1> QED BY <1>2, <1>3, <1>7

\* The control channel is left alone.
LEMMA ControlKept ==
    ASSUME ControlInv, control' = control, slot = "stopped" => slot' = "stopped",
           \A c \in Callers :
               \/ caller'[c].doing = caller[c].doing
               \/ caller[c].doing \notin {"ensuring", "acquiring", "releasing"}
               \/ wake.kind \in {"ensure", "lease"} /\ wake.who = c,
           wake'.kind \in {"ensure", "lease"} => wake' = wake
    PROVE  ControlInv'
<1>1. ASSUME NEW i \in DOMAIN control
      PROVE  IF control[i].kind = "shutdown" THEN slot' = "stopped"
             ELSE /\ control[i].who \in Callers
                  /\ caller'[control[i].who].doing = Asking(control[i].kind)
                  /\ wake'.kind \in {"ensure", "lease"} => wake'.who /= control[i].who
  BY DEF ControlInv, Asking
<1> QED BY <1>1 DEF ControlInv, Asking

\* A message is sent.
LEMMA ControlSent ==
    ASSUME ControlTypes, ControlInv, NEW m,
           m \in Messages,
           control' = Append(control, m), wake' = wake,
           slot = "stopped" => slot' = "stopped",
           IF m.kind = "shutdown" THEN caller' = caller /\ slot' = "stopped"
           ELSE /\ m.who \in Callers /\ caller'[m.who].doing = Asking(m.kind)
                /\ caller[m.who].doing \notin {"ensuring", "acquiring", "releasing"}
                /\ wake.kind \in {"ensure", "lease"} => wake.who /= m.who
                /\ \A c \in Callers : c /= m.who => caller'[c].doing = caller[c].doing
    PROVE  ControlInv'
<1>1. /\ \A i \in DOMAIN control' : \/ i \in DOMAIN control /\ control'[i] = control[i]
                                    \/ i = Len(control) + 1 /\ control'[i] = m
  <2>1. control \in Seq(Messages)
    BY DEF ControlTypes
  <2>2. /\ Len(control) \in Nat /\ DOMAIN control = 1..Len(control)
        /\ DOMAIN control' = 1..(Len(control) + 1)
        /\ \A i \in 1..Len(control) : control'[i] = control[i]
        /\ control'[Len(control) + 1] = m
    BY <2>1, AppendProperties
  <2> QED BY <2>2
<1>2. \A i \in DOMAIN control : control[i].kind /= "shutdown" /\ m.kind /= "shutdown" =>
          control[i].who /= m.who
  BY DEF ControlInv, Asking
<1>3. ASSUME NEW i \in DOMAIN control
      PROVE  IF control[i].kind = "shutdown" THEN slot' = "stopped"
             ELSE /\ control[i].who \in Callers
                  /\ caller'[control[i].who].doing = Asking(control[i].kind)
                  /\ wake'.kind \in {"ensure", "lease"} => wake'.who /= control[i].who
  BY <1>2 DEF ControlInv
<1>4. ASSUME NEW i \in DOMAIN control'
      PROVE  IF control'[i].kind = "shutdown" THEN slot' = "stopped"
             ELSE /\ control'[i].who \in Callers
                  /\ caller'[control'[i].who].doing = Asking(control'[i].kind)
                  /\ wake'.kind \in {"ensure", "lease"} => wake'.who /= control'[i].who
  BY <1>1, <1>3
<1>5. ASSUME NEW i \in DOMAIN control', NEW j \in DOMAIN control',
             control'[i].kind /= "shutdown", control'[j].kind /= "shutdown",
             control'[i].who = control'[j].who
      PROVE  i = j
  BY <1>1, <1>2, <1>5 DEF ControlInv
<1> QED BY <1>4, <1>5 DEF ControlInv, Asking

\* The leases are finitely many, and none when they are counted 0.
LEMMA LeasedFinite == IsFiniteSet(Leased) /\ (Cardinality(Leased) = 0 <=> Leased = {})
<1>1. Leased \subseteq Callers
  BY DEF Leased
<1> QED BY <1>1, EngineAssumption, FS_Subset, FS_EmptySet

\* What a lease or its release does to the count.
LEMMA LeasedGrows ==
    ASSUME NEW x \in Callers, x \notin Leased, Leased' = Leased \cup {x}
    PROVE  Cardinality(Leased)' = Cardinality(Leased) + 1
<1>1. IsFiniteSet(Leased)
  BY LeasedFinite
<1>2. Cardinality(Leased \cup {x}) = Cardinality(Leased) + 1
  BY <1>1, FS_AddElement
<1> QED BY <1>2

LEMMA LeasedShrinks ==
    ASSUME NEW x \in Leased, Leased' = Leased \ {x}
    PROVE  /\ Cardinality(Leased)' = Cardinality(Leased) - 1
           /\ Cardinality(Leased) \in Nat \ {0}
<1>1. IsFiniteSet(Leased)
  BY LeasedFinite
<1>2. Cardinality(Leased \ {x}) = Cardinality(Leased) - 1
  BY <1>1, FS_RemoveElement
<1>3. Cardinality(Leased) \in Nat /\ Cardinality(Leased) /= 0
  BY <1>1, FS_CardinalityType, FS_EmptySet
<1> QED BY <1>2, <1>3

\* No lease begins or ends.
LEMMA LeaseKept ==
    ASSUME LeaseInv, leases' = leases, published' = published,
           \/ pc' = pc
           \/ {pc, pc'} \cap {"load", "sleep", "stopped"} = {},
           \A c \in Callers :
               /\ caller'[c].doing \in {"granted", "held", "releasing"} <=>
                     caller[c].doing \in {"granted", "held", "releasing"}
               /\ caller'[c].doing \in {"granted", "held"} =>
                     /\ caller[c].doing \in {"granted", "held"}
                     /\ caller'[c].gen = caller[c].gen
    PROVE  LeaseInv'
<1>1. Leased' = Leased
  BY DEF Leased
<1>2. LeaseAccounting'
  <2>1. LeaseAccounting <=> (pc \notin {"load", "sleep", "stopped"} => leases = Cardinality(Leased))
    BY DEF LeaseAccounting, Leased
  <2>2. LeaseAccounting' <=>
          (pc' \notin {"load", "sleep", "stopped"} => leases' = Cardinality(Leased'))
    BY DEF LeaseAccounting, Leased
  <2> QED BY <1>1, <2>1, <2>2 DEF LeaseInv
<1>3. LeasePinsGeneration'
  BY DEF LeaseInv, LeasePinsGeneration
<1> QED BY <1>1, <1>2, <1>3 DEF LeaseInv

\* One caller's state changes.
LEMMA CallerSet ==
    ASSUME ControlTypes, NEW x \in Callers, NEW v \in CallerTypes,
           caller' = [caller EXCEPT ![x] = v]
    PROVE  /\ caller' \in [Callers -> CallerTypes]
           /\ caller'[x] = v
           /\ \A c \in Callers : c /= x => caller'[c] = caller[c]
BY DEF ControlTypes

LEMMA CallerDoes ==
    ASSUME ControlTypes, NEW x \in Callers, NEW d \in CallerStates,
           caller' = [caller EXCEPT ![x].doing = d]
    PROVE  /\ caller' \in [Callers -> CallerTypes]
           /\ caller'[x].doing = d /\ caller'[x].gen = caller[x].gen
           /\ \A c \in Callers : c /= x => caller'[c] = caller[c]
<1> DEFINE v == [caller[x] EXCEPT !.doing = d]
<1>1. caller[x] \in CallerTypes
  BY DEF ControlTypes
<1>2. v \in CallerTypes /\ v.doing = d /\ v.gen = caller[x].gen
  BY <1>1 DEF CallerTypes
<1>3. caller' = [caller EXCEPT ![x] = v]
  OBVIOUS
<1> HIDE DEF v
<1> QED BY <1>2, <1>3, CallerSet

\* ensure_resident and acquire_residency_lease are called.
LEMMA CallControl ==
    ASSUME ControlHalf, NEW x \in Callers,
           NEW doing, NEW kind \in {"ensure", "lease"}, doing = Asking(kind),
           Call(x, doing, kind)
    PROVE  ControlHalf'
<1>0. doing \in {"ensuring", "acquiring"}
  BY DEF Asking
<1>1. /\ slot = "open" /\ caller[x] = Resting
      /\ caller' = [caller EXCEPT ![x].doing = doing]
      /\ control' = Append(control, Msg(kind, x))
      /\ UNCHANGED <<handle, signal, slot, pc, wake, turn, leases, idle, published>>
  BY DEF Call, requestVars, queueVars, workerVars
<1>2. /\ caller' \in [Callers -> CallerTypes]
      /\ \A c \in Callers : c /= x => caller'[c] = caller[c]
      /\ caller'[x].doing = doing /\ caller[x].doing = "nothing"
  <2>1. doing \in CallerStates
    BY <1>0 DEF CallerStates
  <2>2. caller[x].doing = "nothing"
    BY <1>1 DEF Resting
  <2> QED BY <1>1, <2>1, <2>2, CallerDoes DEF ControlHalf
<1>3. PICK m : m = Msg(kind, x)
  OBVIOUS
<1>4. m \in Messages /\ m.kind = kind /\ m.who = x
  BY <1>3 DEF Messages, Msg
<1>5. ControlTypes'
  <2>1. control' \in Seq(Messages)
    BY <1>1, <1>3, <1>4 DEF ControlHalf, ControlTypes
  <2> QED BY <1>1, <1>2, <2>1 DEF ControlHalf, ControlTypes
<1>6. wake.kind \in {"ensure", "lease"} => wake.who /= x
  BY <1>2 DEF ControlHalf, WakeInv, Asking
<1>7. WakeInv'
  <2>1. wake.kind \in {"ensure", "lease"} => caller'[wake.who].doing = Asking(wake.kind)
    BY <1>2, <1>6 DEF ControlHalf, WakeInv
  <2> QED BY <1>1, <2>1 DEF ControlHalf, WakeInv, Asking
<1>8. ControlInv'
  BY <1>1, <1>2, <1>3, <1>4, <1>6, ControlSent DEF ControlHalf
<1>9. SlotInv'
  BY <1>1 DEF ControlHalf, SlotInv
<1>10. LeaseInv'
  BY <1>0, <1>1, <1>2, LeaseKept DEF ControlHalf
<1> QED BY <1>5, <1>7, <1>8, <1>9, <1>10 DEF ControlHalf

LEMMA ReturnControl ==
    ASSUME ControlHalf, NEW x \in Callers, Return(x)
    PROVE  ControlHalf'
<1>1. /\ caller[x].doing \in {"resident", "granted", "refused"}
      /\ caller' = [caller EXCEPT ![x] =
                      IF caller[x].doing = "granted" THEN [caller[x] EXCEPT !.doing = "held"]
                      ELSE Resting]
      /\ UNCHANGED <<handle, signal, control, slot, pc, wake, turn, leases, idle, published>>
  BY DEF Return, requestVars, queueVars, workerVars
<1>2. \A c \in Callers : c /= x => caller'[c] = caller[c]
  BY <1>1 DEF ControlHalf, ControlTypes
<1>3. /\ caller'[x] \in CallerTypes
      /\ caller[x].doing = "granted" => caller'[x].doing = "held" /\ caller'[x].gen = caller[x].gen
      /\ caller[x].doing /= "granted" => caller'[x] = Resting /\ caller'[x].doing = "nothing"
  <2>1. caller[x] \in CallerTypes
    BY DEF ControlHalf, ControlTypes
  <2>2. caller'[x] = IF caller[x].doing = "granted" THEN [caller[x] EXCEPT !.doing = "held"]
                     ELSE Resting
    BY <1>1 DEF ControlHalf, ControlTypes
  <2>3. 0 \in 0..MaxGeneration
    BY EngineAssumption
  <2> QED BY <2>1, <2>2, <2>3 DEF CallerStates, Resting, CallerTypes
<1>4. ControlTypes'
  <2>1. caller' \in [Callers -> CallerTypes]
    BY <1>1, <1>2, <1>3 DEF ControlHalf, ControlTypes
  <2> QED BY <1>1, <2>1 DEF ControlHalf, ControlTypes
<1>5. WakeInv'
  <2>1. wake.kind \in {"ensure", "lease"} => wake.who /= x
    BY <1>1 DEF ControlHalf, WakeInv, Asking
  <2>2. wake.kind \in {"ensure", "lease"} => caller'[wake.who].doing = Asking(wake.kind)
    BY <1>2, <2>1 DEF ControlHalf, WakeInv
  <2> QED BY <1>1, <2>2 DEF ControlHalf, WakeInv, Asking
<1>6. ControlInv'
  BY <1>1, <1>2, ControlKept DEF ControlHalf
<1>7. SlotInv'
  <2>1. slot \notin {"starting", "failed"}
    BY <1>1 DEF ControlHalf, SlotInv, Resting
  <2>2. ~InUse => ~InUse'
    BY <1>1 DEF InUse
  <2> QED BY <1>1, <2>1, <2>2 DEF ControlHalf, SlotInv
<1>8. LeaseInv'
  BY <1>1, <1>2, <1>3, LeaseKept DEF ControlHalf
<1> QED BY <1>4, <1>5, <1>6, <1>7, <1>8 DEF ControlHalf

LEMMA DropLeaseControl ==
    ASSUME ControlHalf, NEW x \in Callers, DropLease(x)
    PROVE  ControlHalf'
<1>1. /\ caller[x].doing = "held"
      /\ caller' = [caller EXCEPT ![x].doing = "releasing"]
      /\ control' = Append(control, Msg("release", x))
      /\ UNCHANGED <<handle, signal, slot, pc, wake, turn, leases, idle, published>>
  BY DEF DropLease, requestVars, queueVars, workerVars
<1>2. /\ caller' \in [Callers -> CallerTypes]
      /\ \A c \in Callers : c /= x => caller'[c] = caller[c]
      /\ caller'[x].doing = "releasing"
  <2>1. "releasing" \in CallerStates
    BY DEF CallerStates
  <2> QED BY <1>1, <2>1, CallerDoes DEF ControlHalf
<1>3. PICK m : m = Msg("release", x)
  OBVIOUS
<1>4. m \in Messages /\ m.kind = "release" /\ m.who = x
  BY <1>3 DEF Messages, Msg
<1>5. ControlTypes'
  <2>1. control' \in Seq(Messages)
    BY <1>1, <1>3, <1>4 DEF ControlHalf, ControlTypes
  <2> QED BY <1>1, <1>2, <2>1 DEF ControlHalf, ControlTypes
<1>6. wake.kind \in {"ensure", "lease"} => wake.who /= x
  BY <1>1 DEF ControlHalf, WakeInv, Asking
<1>7. WakeInv'
  <2>1. wake.kind \in {"ensure", "lease"} => caller'[wake.who].doing = Asking(wake.kind)
    BY <1>2, <1>6 DEF ControlHalf, WakeInv
  <2> QED BY <1>1, <2>1 DEF ControlHalf, WakeInv, Asking
<1>8. ControlInv'
  <2>1. Asking(m.kind) = "releasing"
    BY <1>4 DEF Asking
  <2> QED BY <1>1, <1>2, <1>3, <1>4, <1>6, <2>1, ControlSent DEF ControlHalf
<1>9. SlotInv'
  <2>1. slot \notin {"starting", "failed", "stopped"}
    BY <1>1 DEF ControlHalf, SlotInv, Resting, InUse
  <2> QED BY <1>1, <2>1 DEF ControlHalf, SlotInv
<1>10. LeaseInv'
  BY <1>1, <1>2, LeaseKept DEF ControlHalf
<1> QED BY <1>5, <1>7, <1>8, <1>9, <1>10 DEF ControlHalf

LEMMA OwnerControl ==
    ASSUME ControlHalf, TakeEngine \/ StopWorker
    PROVE  ControlHalf'
<1>1. UNCHANGED <<handle, signal, caller, pc, wake, turn, leases, idle, published>>
  BY DEF TakeEngine, StopWorker, requestVars, queueVars, workerVars
<1>2. LeaseInv'
  BY <1>1 DEF ControlHalf, LeaseInv, LeaseAccounting, LeasePinsGeneration, Leased
<1>3. CASE TakeEngine
  <2>1. slot = "open" /\ slot' = "taken" /\ control' = control
    BY <1>3 DEF TakeEngine
  <2>2. ControlTypes' /\ WakeInv' /\ SlotInv'
    BY <1>1, <2>1 DEF ControlHalf, ControlTypes, WakeInv, SlotInv
  <2>3. ControlInv'
    BY <1>1, <2>1, ControlKept DEF ControlHalf
  <2> QED BY <1>2, <2>2, <2>3 DEF ControlHalf
<1>4. CASE StopWorker
  <2>1. slot = "taken" /\ slot' = "stopped" /\ ~InUse
    BY <1>4 DEF StopWorker
  <2>2. PICK m : m = Msg("shutdown", NoOne)
    OBVIOUS
  <2>3. m \in Messages /\ m.kind = "shutdown"
    BY <2>2 DEF Messages, Msg
  <2>4. control' = Append(control, m)
    BY <1>4, <2>2 DEF StopWorker
  <2>5. ControlTypes' /\ WakeInv'
    BY <1>1, <2>1, <2>3, <2>4 DEF ControlHalf, ControlTypes, WakeInv
  <2>6. SlotInv'
    BY <1>1, <2>1 DEF ControlHalf, SlotInv, InUse
  <2>7. ControlInv'
    BY <1>1, <2>1, <2>3, <2>4, ControlSent DEF ControlHalf
  <2> QED BY <1>2, <2>5, <2>6, <2>7 DEF ControlHalf
<1> QED BY <1>3, <1>4

\* The accounting of leases, by the set Leased.
LEMMA Accounting ==
    /\ LeaseAccounting <=> (pc \notin {"load", "sleep", "stopped"} => leases = Cardinality(Leased))
    /\ LeaseAccounting' <=>
          (pc' \notin {"load", "sleep", "stopped"} => leases' = Cardinality(Leased)')
BY DEF LeaseAccounting, Leased

\* A caller is granted a lease while the model is resident.
LEMMA LeaseGranted ==
    ASSUME ControlTypes, LeaseInv, NEW x \in Callers, caller[x].doing = "acquiring",
           pc \notin {"load", "sleep", "stopped"}, pc' \notin {"load", "sleep", "stopped"},
           caller' = Reply(x, "granted"), leases' = leases + 1, published' = published
    PROVE  LeaseInv'
<1>1. PICK v : v = [doing |-> "granted", gen |-> published.gen]
  OBVIOUS
<1>2. v \in CallerTypes /\ v.doing = "granted" /\ v.gen = published.gen
  BY <1>1 DEF CallerTypes, ControlTypes, CallerStates
<1>3. caller' = [caller EXCEPT ![x] = v]
  BY <1>1 DEF Reply
<1>4. caller'[x] = v /\ \A c \in Callers : c /= x => caller'[c] = caller[c]
  BY <1>2, <1>3, CallerSet
<1>5. x \notin Leased /\ Leased' = Leased \cup {x}
  BY <1>2, <1>4 DEF Leased
<1>6. Cardinality(Leased)' = Cardinality(Leased) + 1
  BY <1>5, LeasedGrows
<1>7. LeaseAccounting'
  BY <1>6, Accounting DEF LeaseInv
<1>8. published = [residency |-> "Resident", gen |-> published.gen]
  BY DEF LeaseInv, ControlTypes
<1>9. LeasePinsGeneration'
  BY <1>2, <1>4, <1>8 DEF LeaseInv, LeasePinsGeneration
<1> QED BY <1>7, <1>9 DEF LeaseInv

\* A lease is released: the count goes down by the lease that it counted.
LEMMA LeaseReleased ==
    ASSUME ControlTypes, LeaseInv, NEW x \in Callers, caller[x].doing = "releasing",
           pc \notin {"load", "sleep", "stopped"}, pc' \notin {"load", "sleep", "stopped"},
           caller'[x].doing = "nothing",
           \A c \in Callers : c /= x => caller'[c] = caller[c],
           leases' = IF leases = 0 THEN 0 ELSE leases - 1, published' = published
    PROVE  LeaseInv' /\ leases' \in Nat
<1>1. x \in Leased /\ Leased' = Leased \ {x}
  BY DEF Leased
<1>2. Cardinality(Leased)' = Cardinality(Leased) - 1 /\ Cardinality(Leased) \in Nat \ {0}
  BY <1>1, LeasedShrinks
<1>3. leases = Cardinality(Leased)
  BY Accounting DEF LeaseInv
<1>4. LeaseAccounting' /\ leases' \in Nat
  BY <1>2, <1>3, Accounting
<1>5. LeasePinsGeneration'
  BY DEF LeaseInv, LeasePinsGeneration
<1> QED BY <1>4, <1>5 DEF LeaseInv

\* handle_resident_control.
LEMMA HandleControlHalf ==
    ASSUME ControlHalf, control /= <<>>, NEW next, HandleControl(next),
           \/ pc = "prime" /\ next = "wake"
           \/ pc \in {"loop", "select"} /\ next = "loop"
    PROVE  ControlHalf'
<1>1. PICK m : m = Head(control)
  OBVIOUS
<1>2. /\ control' = Tail(control)
      /\ UNCHANGED <<handle, signal, slot, wake, turn, published>>
  BY DEF HandleControl, requestVars, queueVars
<1>3. \/ m.kind = "shutdown" /\ pc' = "stopped" /\ UNCHANGED <<caller, leases, idle>>
      \/ /\ m.kind = "ensure" /\ pc' = next /\ caller' = Reply(m.who, "resident")
         /\ idle' = FALSE /\ leases' = leases
      \/ /\ m.kind = "lease" /\ pc' = next /\ caller' = Reply(m.who, "granted")
         /\ leases' = leases + 1 /\ idle' = idle
      \/ /\ m.kind = "release" /\ pc' = next /\ caller' = [caller EXCEPT ![m.who] = Resting]
         /\ leases' = (IF leases = 0 THEN 0 ELSE leases - 1)
         /\ idle' = FALSE
  <2>1. m \in Messages
    BY <1>1, HeadTailProperties DEF ControlHalf, ControlTypes
  <2>2. m.kind \in {"shutdown", "ensure", "lease", "release"}
    BY <2>1 DEF Messages
  <2> QED BY <1>1, <2>2 DEF HandleControl
<1>4. \A c \in Callers : (m.kind = "shutdown" \/ c /= m.who) => caller'[c] = caller[c]
  BY <1>3 DEF Reply, ControlHalf, ControlTypes
<1>5. /\ ControlInv'
      /\ IF m.kind = "shutdown" THEN slot = "stopped"
         ELSE /\ m.who \in Callers /\ caller[m.who].doing = Asking(m.kind)
              /\ wake.kind \in {"ensure", "lease"} => wake.who /= m.who
      /\ m \in Messages
  <2>1. ControlTypes /\ ControlInv
    BY DEF ControlHalf
  <2>2. \A c \in Callers : (m.kind = "shutdown" \/ c /= m.who) =>
            caller'[c].doing = caller[c].doing
    BY <1>4
  <2>3. slot' = slot /\ wake' = wake
    BY <1>2
  <2> QED BY <1>1, <1>2, <2>1, <2>2, <2>3, ControlTail
<1>6. control' \in Seq(Messages)
  BY <1>2, HeadTailProperties DEF ControlHalf, ControlTypes
<1>7. pc' = "stopped" => slot = "stopped"
  BY <1>3, <1>5
<1>8. pc' \in {"stopped", "wake", "loop"} /\ (pc' = "wake" <=> pc = "prime" /\ pc' /= "stopped")
  BY <1>3
<1>9. WakeInv'
  <2>1. wake.kind \in {"ensure", "lease"} => caller'[wake.who].doing = Asking(wake.kind)
    BY <1>4, <1>5 DEF ControlHalf, WakeInv
  <2>2. pc' = "loop" => wake = NoWake
    BY <1>8 DEF ControlHalf, WakeInv
  <2>3. pc' = "wake" => wake.kind /= "none"
    BY <1>8 DEF ControlHalf, WakeInv
  <2> QED BY <1>2, <1>8, <2>1, <2>2, <2>3 DEF ControlHalf, WakeInv, Asking
<1>10. CASE m.kind = "shutdown"
  <2>1. pc' = "stopped" /\ UNCHANGED <<caller, leases, idle>> /\ slot = "stopped"
    BY <1>3, <1>5, <1>10
  <2>2. ControlTypes'
    BY <1>2, <1>6, <2>1 DEF ControlHalf, ControlTypes
  <2>3. SlotInv'
    BY <1>2, <2>1 DEF ControlHalf, SlotInv, InUse
  <2>4. \A c \in Callers : caller[c].doing \notin {"granted", "held"}
    BY <2>1 DEF ControlHalf, SlotInv, InUse
  <2>5. LeaseInv'
    BY <2>1, <2>4, Accounting DEF LeaseInv, LeasePinsGeneration
  <2> QED BY <1>5, <1>9, <2>2, <2>3, <2>5 DEF ControlHalf
<1>11. CASE m.kind /= "shutdown"
  <2>1. PICK x \in Callers : x = m.who
    BY <1>5, <1>11
  <2>2. pc' = next /\ caller[x].doing = Asking(m.kind) /\ caller[x].doing \in {"ensuring", "acquiring", "releasing"}
    BY <1>3, <1>5, <1>11, <2>1 DEF Asking
  <2>3. slot \notin {"starting", "failed"}
    BY <2>2 DEF ControlHalf, SlotInv, Resting
  <2>4. pc \notin {"load", "sleep", "stopped"} /\ pc' \notin {"load", "sleep", "stopped"}
    BY <2>2
  <2>5. /\ caller' \in [Callers -> CallerTypes]
        /\ caller'[x].doing = CASE m.kind = "ensure" -> "resident"
                                [] m.kind = "lease" -> "granted"
                                [] OTHER -> "nothing"
    <3>1. PICK v \in CallerTypes :
            /\ caller' = [caller EXCEPT ![x] = v]
            /\ v.doing = CASE m.kind = "ensure" -> "resident"
                            [] m.kind = "lease" -> "granted"
                            [] OTHER -> "nothing"
      <4>1. /\ [doing |-> "resident", gen |-> published.gen] \in CallerTypes
            /\ [doing |-> "granted", gen |-> published.gen] \in CallerTypes
            /\ Resting \in CallerTypes /\ Resting.doing = "nothing"
        BY EngineAssumption DEF CallerTypes, CallerStates, ControlHalf, ControlTypes, Resting
      <4> QED BY <1>3, <1>11, <2>1, <4>1 DEF Reply
    <3> QED BY <3>1, CallerSet DEF ControlHalf
  <2>6. LeaseInv' /\ leases' \in Nat
    <3>1. CASE m.kind = "ensure"
      <4>1. leases' = leases /\ caller'[x].doing = "resident" /\ caller[x].doing = "ensuring"
        BY <1>3, <2>2, <2>5, <3>1 DEF Asking
      <4> QED BY <1>2, <1>4, <2>1, <2>4, <4>1, LeaseKept DEF ControlHalf, ControlTypes
    <3>2. CASE m.kind = "lease"
      <4>1. /\ leases' = leases + 1 /\ caller' = Reply(x, "granted")
            /\ caller[x].doing = "acquiring"
        BY <1>3, <2>1, <2>2, <3>2 DEF Asking
      <4> QED BY <1>2, <2>4, <4>1, LeaseGranted DEF ControlHalf, ControlTypes
    <3>3. CASE m.kind = "release"
      <4>1. /\ leases' = (IF leases = 0 THEN 0 ELSE leases - 1)
            /\ caller'[x].doing = "nothing" /\ caller[x].doing = "releasing"
        BY <1>3, <2>2, <2>5, <3>3 DEF Asking
      <4> QED BY <1>2, <1>4, <2>1, <2>4, <4>1, LeaseReleased DEF ControlHalf
    <3> QED BY <1>3, <1>11, <3>1, <3>2, <3>3
  <2>7. ControlTypes'
    <3>1. idle' \in BOOLEAN /\ pc' \in {"wake", "loop"}
      BY <1>3, <2>2 DEF ControlHalf, ControlTypes
    <3> QED BY <1>2, <1>6, <2>5, <2>6, <3>1 DEF ControlHalf, ControlTypes
  <2>8. SlotInv'
    <3>1. slot = "stopped" => ~InUse'
      <4>1. slot = "stopped" => caller[x].doing = "releasing" /\ m.kind = "release"
        BY <1>3, <1>11, <2>2 DEF ControlHalf, SlotInv, InUse, Asking
      <4>2. slot = "stopped" => caller'[x].doing = "nothing"
        BY <2>5, <4>1
      <4> QED BY <1>2, <1>4, <2>1, <4>2 DEF ControlHalf, SlotInv, InUse
    <3> QED BY <1>2, <2>3, <2>4, <3>1 DEF SlotInv
  <2> QED BY <1>5, <1>9, <2>6, <2>7, <2>8 DEF ControlHalf
<1> QED BY <1>10, <1>11

LEMMA ControlBranches ==
    ASSUME ControlHalf, Prime \/ LoopControl \/ SelectControl
    PROVE  ControlHalf'
<1>1. CASE LoopControl \/ SelectControl
  <2>1. control /= <<>> /\ pc \in {"loop", "select"} /\ HandleControl("loop")
    BY <1>1 DEF LoopControl, SelectControl
  <2> QED BY <2>1, HandleControlHalf
<1>2. CASE Prime /\ control /= <<>>
  <2>1. pc = "prime" /\ HandleControl("wake")
    BY <1>2 DEF Prime
  <2> QED BY <1>2, <2>1, HandleControlHalf
<1>3. CASE Prime /\ control = <<>>
  <2>1. /\ pc = "prime" /\ pc' = "wake"
        /\ UNCHANGED <<handle, signal, wake, caller, slot, control, leases, published, turn, idle>>
    BY <1>3 DEF Prime, requestVars, queueVars
  <2>2. signal' \in [Classes -> BOOLEAN] /\ turn' \in Classes /\ idle' \in BOOLEAN
    BY <2>1 DEF ControlHalf, ControlTypes
  <2>3. HandlesKept
    BY <2>1 DEF HandlesKept
  <2> QED BY <2>1, <2>2, <2>3, ControlQuiet
<1> QED BY <1>1, <1>2, <1>3

LEMMA LoadSucceedsControl ==
    ASSUME ControlHalf, LoadSucceeds
    PROVE  ControlHalf'
<1>1. /\ pc = "load" /\ pc' = "prime" /\ leases' = 0 /\ turn' = "Query" /\ idle' = FALSE
      /\ published' = [residency |-> "Resident", gen |-> published.gen + 1]
      /\ UNCHANGED <<handle, signal, control, caller, slot, wake>>
  BY DEF LoadSucceeds, requestVars, queueVars
<1>2. published.gen \in 0..MaxGeneration /\ published.gen < MaxGeneration /\ Leased = {}
  BY <1>1 DEF ControlHalf, ControlTypes, LeaseInv
<1>3. published'.gen \in 0..MaxGeneration /\ published' \in
         [residency : {"None", "Resident", "Sleeping"}, gen : 0..MaxGeneration]
  BY <1>1, <1>2, EngineAssumption
<1>4. ControlTypes'
  BY <1>1, <1>3 DEF ControlHalf, ControlTypes, Classes
<1>5. WakeInv' /\ SlotInv'
  BY <1>1 DEF ControlHalf, WakeInv, SlotInv, InUse
<1>6. ControlInv'
  BY <1>1 DEF ControlHalf, ControlInv
<1>7. LeaseInv'
  <2>1. Leased' = {}
    BY <1>1, <1>2 DEF Leased
  <2>2. Cardinality(Leased)' = 0
    BY <2>1, FS_EmptySet
  <2>3. LeaseAccounting'
    BY <1>1, <2>2, Accounting
  <2>4. LeasePinsGeneration'
    BY <2>1 DEF LeasePinsGeneration, Leased
  <2> QED BY <1>1, <2>3, <2>4 DEF LeaseInv
<1> QED BY <1>4, <1>5, <1>6, <1>7 DEF ControlHalf

LEMMA LoadFailsControl ==
    ASSUME ControlHalf, LoadFails
    PROVE  ControlHalf'
<1>1. /\ pc = "load" /\ wake' = NoWake /\ caller' = FailedCalls
      /\ pc' = IF wake.kind = "startup" THEN "stopped" ELSE "sleep"
      /\ slot' = IF wake.kind = "startup" THEN "failed" ELSE slot
      /\ UNCHANGED <<handle, signal, control, turn, leases, idle, published>>
  BY DEF LoadFails, queueVars
<1>2. NoWake.kind = "none" /\ NoWake \in
         [kind : {"startup", "request", "ensure", "lease", "none"},
          who : Requests \cup Callers \cup {NoOne}]
  BY DEF NoWake, Msg
<1>3. /\ caller' \in [Callers -> CallerTypes]
      /\ \A c \in Callers :
            \/ caller'[c] = caller[c]
            \/ /\ wake.kind \in {"ensure", "lease"} /\ wake.who = c
               /\ caller[c].doing \in {"ensuring", "acquiring"}
               /\ caller'[c].doing = "refused"
  <2>1. CASE wake.kind \in {"ensure", "lease"}
    <3>1. PICK x \in Callers : x = wake.who /\ caller[x].doing \in {"ensuring", "acquiring"}
      BY <2>1 DEF ControlHalf, WakeInv, Asking
    <3>2. caller' = [caller EXCEPT ![x].doing = "refused"] /\ "refused" \in CallerStates
      BY <1>1, <2>1, <3>1 DEF FailedCalls, CallerStates
    <3>3. /\ caller' \in [Callers -> CallerTypes]
          /\ caller'[x].doing = "refused"
          /\ \A c \in Callers : c /= x => caller'[c] = caller[c]
      BY <3>2, CallerDoes DEF ControlHalf
    <3> QED BY <2>1, <3>1, <3>3
  <2>2. CASE wake.kind \notin {"ensure", "lease"}
    BY <1>1, <2>2 DEF FailedCalls, ControlHalf, ControlTypes
  <2> QED BY <2>1, <2>2
<1>4. ControlTypes'
  BY <1>1, <1>2, <1>3 DEF ControlHalf, ControlTypes
<1>5. WakeInv'
  BY <1>1, <1>2 DEF ControlHalf, WakeInv, Asking
<1>6. ControlInv'
  <2>1. slot = "stopped" => slot' = "stopped"
    BY <1>1 DEF ControlHalf, WakeInv
  <2> QED BY <1>1, <1>2, <1>3, <2>1, ControlKept DEF ControlHalf
<1>7. SlotInv'
  <2>1. CASE wake.kind = "startup"
    <3>1. slot = "starting" /\ slot' = "failed" /\ pc' = "stopped"
      BY <1>1, <2>1 DEF ControlHalf, WakeInv
    <3>2. caller' = caller
      BY <1>1, <2>1 DEF FailedCalls
    <3> QED BY <1>1, <3>1, <3>2 DEF ControlHalf, SlotInv
  <2>2. CASE wake.kind /= "startup"
    <3>1. slot' = slot /\ slot \notin {"starting", "failed"} /\ pc' = "sleep"
      BY <1>1, <2>2 DEF ControlHalf, WakeInv, SlotInv
    <3>2. slot = "stopped" => caller' = caller
      <4>1. ASSUME slot = "stopped", NEW c \in Callers PROVE caller'[c] = caller[c]
        BY <1>3, <4>1 DEF ControlHalf, SlotInv, InUse
      <4> QED BY <1>3, <4>1 DEF ControlHalf, ControlTypes
    <3> QED BY <1>1, <3>1, <3>2 DEF ControlHalf, SlotInv, InUse
  <2> QED BY <2>1, <2>2
<1>8. LeaseInv'
  <2>1. Leased = {} /\ published.gen < MaxGeneration
    BY <1>1 DEF ControlHalf, LeaseInv
  <2>2. Leased' = {}
    BY <1>3, <2>1 DEF Leased
  <2>3. LeaseAccounting'
    BY <1>1, Accounting
  <2>4. LeasePinsGeneration'
    BY <2>2 DEF LeasePinsGeneration, Leased
  <2> QED BY <1>1, <2>1, <2>2, <2>3, <2>4 DEF LeaseInv
<1> QED BY <1>4, <1>5, <1>6, <1>7, <1>8 DEF ControlHalf

LEMMA SelectSleepControl ==
    ASSUME ControlHalf, SelectSleep
    PROVE  ControlHalf'
<1>1. /\ pc = "select" /\ pc' = "sleep" /\ leases = 0 /\ published.gen < MaxGeneration
      /\ published' = [published EXCEPT !.residency = "Sleeping"]
      /\ UNCHANGED <<handle, signal, control, caller, slot, wake, turn, leases, idle>>
  BY DEF SelectSleep, requestVars, queueVars
<1>2. published'.gen = published.gen /\ published' \in
         [residency : {"None", "Resident", "Sleeping"}, gen : 0..MaxGeneration]
  BY <1>1 DEF ControlHalf, ControlTypes
<1>3. ControlTypes'
  BY <1>1, <1>2 DEF ControlHalf, ControlTypes
<1>4. WakeInv' /\ SlotInv'
  BY <1>1 DEF ControlHalf, WakeInv, SlotInv, InUse
<1>5. ControlInv'
  BY <1>1 DEF ControlHalf, ControlInv
<1>6. LeaseInv'
  <2>1. Leased = {}
    BY <1>1, Accounting, LeasedFinite DEF ControlHalf, LeaseInv
  <2>2. Leased' = {}
    BY <1>1, <2>1 DEF Leased
  <2>3. LeaseAccounting'
    BY <1>1, Accounting
  <2>4. LeasePinsGeneration'
    BY <2>2 DEF LeasePinsGeneration, Leased
  <2> QED BY <1>1, <1>2, <2>2, <2>3, <2>4 DEF LeaseInv
<1> QED BY <1>3, <1>4, <1>5, <1>6 DEF ControlHalf

LEMMA ServeWakeControl ==
    ASSUME ControlHalf, ServeWake
    PROVE  ControlHalf'
<1>1. /\ pc = "wake" /\ wake' = NoWake
      /\ UNCHANGED <<handle, signal, control, published>>
  BY DEF ServeWake, requestVars, queueVars
<1>2. NoWake.kind = "none" /\ NoWake \in
         [kind : {"startup", "request", "ensure", "lease", "none"},
          who : Requests \cup Callers \cup {NoOne}]
  BY DEF NoWake, Msg
<1>3. wake.kind \in {"startup", "request", "ensure", "lease"}
  BY <1>1 DEF ControlHalf, ControlTypes, WakeInv
<1>4. /\ pc' \in {"loop", "exec"}
      /\ slot' = IF wake.kind = "startup" THEN "open" ELSE slot
      /\ turn' \in Classes /\ idle' \in BOOLEAN
      /\ wake.kind \in {"startup", "request"} => UNCHANGED <<caller, leases>>
      /\ wake.kind = "ensure" => caller' = Reply(wake.who, "resident") /\ leases' = leases
      /\ wake.kind = "lease" => caller' = Reply(wake.who, "granted") /\ leases' = leases + 1
  <2>1. \A r \in Requests : NextTurn(Class(r)) \in Classes
    BY ClassFacts DEF NextTurn
  <2>2. turn \in Classes /\ idle \in BOOLEAN /\ (wake.kind = "request" => wake.who \in Requests)
    BY DEF ControlHalf, ControlTypes, WakeInv
  <2>3. CASE wake.kind = "startup"
    BY <2>2, <2>3 DEF ServeWake
  <2>4. CASE wake.kind = "request"
    BY <2>1, <2>2, <2>4 DEF ServeWake
  <2>5. CASE wake.kind = "ensure"
    BY <2>2, <2>5 DEF ServeWake
  <2>6. CASE wake.kind = "lease"
    BY <2>2, <2>6 DEF ServeWake
  <2> QED BY <1>3, <2>3, <2>4, <2>5, <2>6
<1>5. wake.kind \in {"ensure", "lease"} =>
        /\ wake.who \in Callers
        /\ caller[wake.who].doing = IF wake.kind = "lease" THEN "acquiring" ELSE "ensuring"
  BY DEF ControlHalf, WakeInv, Asking
<1>6. /\ caller' \in [Callers -> CallerTypes]
      /\ \A c \in Callers :
            \/ caller'[c] = caller[c]
            \/ /\ wake.kind \in {"ensure", "lease"} /\ wake.who = c
               /\ caller'[c].doing = IF wake.kind = "lease" THEN "granted" ELSE "resident"
  <2>1. CASE wake.kind \in {"ensure", "lease"}
    <3>1. PICK x \in Callers : x = wake.who
      BY <1>5, <2>1
    <3>2. PICK v \in CallerTypes :
            /\ caller' = [caller EXCEPT ![x] = v]
            /\ v.doing = IF wake.kind = "lease" THEN "granted" ELSE "resident"
      <4>1. /\ [doing |-> "resident", gen |-> published.gen] \in CallerTypes
            /\ [doing |-> "granted", gen |-> published.gen] \in CallerTypes
        BY DEF CallerTypes, CallerStates, ControlHalf, ControlTypes
      <4> QED BY <1>4, <2>1, <3>1, <4>1 DEF Reply
    <3>3. /\ caller' \in [Callers -> CallerTypes]
          /\ caller'[x] = v
          /\ \A c \in Callers : c /= x => caller'[c] = caller[c]
      BY <3>2, CallerSet DEF ControlHalf
    <3> QED BY <2>1, <3>1, <3>2, <3>3
  <2>2. CASE wake.kind \in {"startup", "request"}
    BY <1>4, <2>2 DEF ControlHalf, ControlTypes
  <2> QED BY <1>3, <2>1, <2>2
<1>7. LeaseInv' /\ leases' \in Nat
  <2>1. pc \notin {"load", "sleep", "stopped"} /\ pc' \notin {"load", "sleep", "stopped"}
    BY <1>1, <1>4
  <2>2. CASE wake.kind = "lease"
    <3>1. PICK x \in Callers : x = wake.who /\ caller[x].doing = "acquiring"
      BY <1>5, <2>2
    <3>2. caller' = Reply(x, "granted") /\ leases' = leases + 1
      BY <1>4, <2>2, <3>1
    <3> QED BY <1>1, <2>1, <3>1, <3>2, LeaseGranted DEF ControlHalf, ControlTypes
  <2>3. CASE wake.kind /= "lease"
    <3>1. leases' = leases
      BY <1>3, <1>4, <2>3
    <3>2. \A c \in Callers :
             \/ caller'[c] = caller[c]
             \/ caller'[c].doing = "resident" /\ caller[c].doing = "ensuring"
      BY <1>5, <1>6, <2>3
    <3> QED BY <1>1, <2>1, <3>1, <3>2, LeaseKept DEF ControlHalf, ControlTypes
  <2> QED BY <2>2, <2>3
<1>8. ControlTypes'
  <2>1. slot' \in {"starting", "open", "failed", "taken", "stopped"}
    BY <1>4 DEF ControlHalf, ControlTypes
  <2> QED BY <1>1, <1>2, <1>4, <1>6, <1>7, <2>1 DEF ControlHalf, ControlTypes
<1>9. slot = "starting" <=> wake.kind = "startup"
  BY DEF ControlHalf, WakeInv
<1>10. slot' /= "starting" /\ (slot' \in {"failed", "stopped"} => slot' = slot)
  BY <1>4, <1>9
<1>11. WakeInv'
  BY <1>1, <1>2, <1>4, <1>10 DEF WakeInv
<1>12. ControlInv'
  <2>1. slot = "stopped" => slot' = "stopped"
    BY <1>4, <1>9
  <2> QED BY <1>1, <1>2, <1>6, <2>1, ControlKept DEF ControlHalf
<1>13. SlotInv'
  <2>1. slot /= "failed"
    BY <1>1 DEF ControlHalf, SlotInv
  <2>2. ASSUME slot' = "stopped" PROVE ~InUse'
    <3>1. slot = "stopped" /\ ~InUse
      BY <1>10, <2>2 DEF ControlHalf, SlotInv
    <3>2. wake.kind \notin {"ensure", "lease"}
      BY <1>5, <3>1 DEF InUse
    <3> QED BY <1>1, <1>6, <3>1, <3>2 DEF InUse
  <2> QED BY <1>1, <1>4, <1>10, <2>1, <2>2 DEF SlotInv
<1> QED BY <1>7, <1>8, <1>11, <1>12, <1>13 DEF ControlHalf

\* wait_for_wake handles a message.  No lease is out while the model sleeps.
LEMMA WakeControlHalf ==
    ASSUME ControlHalf, WakeControl
    PROVE  ControlHalf'
<1>1. PICK m : m = Head(control)
  OBVIOUS
<1>2. /\ pc = "sleep" /\ control /= <<>> /\ control' = Tail(control)
      /\ UNCHANGED <<handle, signal, slot, turn, leases, idle, published>>
  BY DEF WakeControl, requestVars, queueVars
<1>3. m \in Messages
  BY <1>1, <1>2, HeadTailProperties DEF ControlHalf, ControlTypes
<1>4. \/ m.kind = "shutdown" /\ pc' = "stopped" /\ UNCHANGED <<caller, wake>>
      \/ m.kind \in {"ensure", "lease"} /\ pc' = "load" /\ wake' = m /\ UNCHANGED caller
      \/ m.kind = "release" /\ caller' = [caller EXCEPT ![m.who] = Resting] /\ UNCHANGED <<pc, wake>>
  BY <1>1, <1>3 DEF WakeControl, Messages
<1>5. wake = NoWake /\ wake.kind = "none" /\ slot /= "starting"
  BY <1>2 DEF ControlHalf, WakeInv, NoWake, Msg
<1>6. Leased = {} /\ published.gen < MaxGeneration
  BY <1>2 DEF ControlHalf, LeaseInv
<1>7. /\ ControlInv'
      /\ IF m.kind = "shutdown" THEN slot = "stopped"
         ELSE m.who \in Callers /\ caller[m.who].doing = Asking(m.kind)
  <2>1. \A c \in Callers : (m.kind = "shutdown" \/ c /= m.who) =>
            caller'[c].doing = caller[c].doing
    BY <1>4 DEF ControlHalf, ControlTypes
  <2>2. wake'.kind \in {"ensure", "lease"} => wake' = wake \/ (wake' = m /\ m.kind /= "shutdown")
    BY <1>4
  <2> QED BY <1>1, <1>2, <2>1, <2>2, ControlTail DEF ControlHalf
<1>8. m.kind /= "release"
  BY <1>6, <1>7 DEF Leased, Asking
<1>9. caller' = caller
  BY <1>4, <1>8
<1>10. ControlTypes'
  <2>1. control' \in Seq(Messages)
    BY <1>2, HeadTailProperties DEF ControlHalf, ControlTypes
  <2>2. pc' \in {"stopped", "load"}
    BY <1>4, <1>8
  <2>3. wake' \in [kind : {"startup", "request", "ensure", "lease", "none"},
                   who : Requests \cup Callers \cup {NoOne}]
    BY <1>3, <1>4 DEF ControlHalf, ControlTypes, Messages
  <2> QED BY <1>2, <1>9, <2>1, <2>2, <2>3 DEF ControlHalf, ControlTypes
<1>11. WakeInv'
  <2>1. CASE m.kind = "shutdown"
    BY <1>2, <1>4, <1>5, <2>1 DEF WakeInv
  <2>2. CASE m.kind \in {"ensure", "lease"}
    <3>1. pc' = "load" /\ wake' = m /\ m.who \in Callers /\ caller'[m.who].doing = Asking(m.kind)
      BY <1>4, <1>7, <1>9, <2>2
    <3> QED BY <1>2, <1>5, <2>2, <3>1 DEF WakeInv, Asking
  <2> QED BY <1>4, <1>8, <2>1, <2>2
<1>12. SlotInv'
  BY <1>2, <1>4, <1>7, <1>8, <1>9 DEF ControlHalf, SlotInv, InUse
<1>13. LeaseInv'
  <2>1. Leased' = {}
    BY <1>6, <1>9 DEF Leased
  <2>2. pc' \in {"stopped", "load"}
    BY <1>4, <1>8
  <2>3. LeaseAccounting'
    BY <2>2, Accounting
  <2>4. LeasePinsGeneration'
    BY <2>1 DEF LeasePinsGeneration, Leased
  <2> QED BY <1>2, <1>6, <2>1, <2>2, <2>3, <2>4 DEF LeaseInv
<1> QED BY <1>7, <1>10, <1>11, <1>12, <1>13 DEF ControlHalf

LEMMA WakeSignalControl ==
    ASSUME Structure, ControlHalf, WakeSignal
    PROVE  ControlHalf'
<1>1. /\ pc = "sleep"
      /\ UNCHANGED <<handle, control, caller, slot, turn, leases, idle, published>>
  BY DEF WakeSignal
<1>2. PICK c \in Classes :
        /\ signal' = [signal EXCEPT ![c] = Resignalled(c)]
        /\ \/ UNCHANGED <<pc, wake>>
           \/ Pruned(c) /= <<>> /\ pc' = "load" /\ wake' = Msg("request", Head(Pruned(c)))
  BY DEF WakeSignal
<1>3. signal' \in [Classes -> BOOLEAN]
  <2>1. Resignalled(c) \in BOOLEAN
    BY DEF Resignalled
  <2> QED BY <1>2, <2>1 DEF ControlHalf, ControlTypes
<1>4. wake = NoWake /\ wake.kind = "none" /\ slot /= "starting"
  BY <1>1 DEF ControlHalf, WakeInv, NoWake, Msg
<1>5. \/ wake' = wake /\ pc' = "sleep"
      \/ pc' = "load" /\ wake'.kind = "request" /\ wake'.who \in Requests /\ wake' \in
            [kind : {"startup", "request", "ensure", "lease", "none"},
             who : Requests \cup Callers \cup {NoOne}]
  BY <1>1, <1>2, HeadFacts DEF Msg
<1>6. ControlTypes'
  BY <1>1, <1>3, <1>5 DEF ControlHalf, ControlTypes
<1>7. WakeInv'
  BY <1>1, <1>4, <1>5 DEF ControlHalf, WakeInv
<1>8. ControlInv'
  BY <1>1, <1>4, <1>5, ControlKept DEF ControlHalf
<1>9. SlotInv'
  BY <1>1, <1>5 DEF ControlHalf, SlotInv, InUse
<1>10. LeaseInv'
  <2>1. Leased = {} /\ Leased' = {} /\ published.gen < MaxGeneration
    BY <1>1 DEF ControlHalf, LeaseInv, Leased
  <2>2. LeaseAccounting'
    BY <1>5, Accounting
  <2>3. LeasePinsGeneration'
    BY <2>1 DEF LeasePinsGeneration, Leased
  <2> QED BY <1>1, <1>5, <2>1, <2>2, <2>3 DEF LeaseInv
<1> QED BY <1>6, <1>7, <1>8, <1>9, <1>10 DEF ControlHalf

-----------------------------------------------------------------------------
(* The signals *)

LiveIn(c) == \E r \in Requests : InQueue(r) /\ Class(r) = c /\ IsLive(r)

\* A pruned queue is not empty exactly when the queue has a live request.
LEMMA PrunedLive ==
    ASSUME Structure, NEW c \in Classes
    PROVE  Pruned(c) /= <<>> <=> LiveIn(c)
<1>1. LivePositions(c) \in SUBSET DOMAIN queue[c] /\ queue[c] \in Seq(Requests)
  BY DEF LivePositions, Structure, RequestTypes
<1>2. Pruned(c) = <<>> <=> LivePositions(c) = {}
  BY <1>1, SubsequenceFacts DEF Pruned
<1>3. LivePositions(c) /= {} <=> \E r \in Requests : In(queue[c], r) /\ IsLive(r)
  BY <1>1 DEF LivePositions, In
<1>4. \A r \in Requests : In(queue[c], r) <=> InQueue(r) /\ Class(r) = c
  BY DEF Structure, QueuesInv, InQueue
<1> QED BY <1>2, <1>3, <1>4 DEF LiveIn

LEMMA PrunedLiveNext ==
    ASSUME Structure', NEW c \in Classes
    PROVE  Pruned(c)' /= <<>> <=> LiveIn(c)'
<1>1. LivePositions(c)' \in SUBSET DOMAIN queue'[c] /\ queue'[c] \in Seq(Requests)
  BY DEF LivePositions, Structure, RequestTypes
<1>2. Pruned(c)' = <<>> <=> LivePositions(c)' = {}
  BY <1>1, SubsequenceFacts DEF Pruned
<1>3. LivePositions(c)' /= {} <=> \E r \in Requests : In(queue'[c], r) /\ IsLive(r)'
  BY <1>1 DEF LivePositions, In
<1>4. \A r \in Requests : In(queue'[c], r) <=> InQueue(r)' /\ Class(r) = c
  BY DEF Structure, QueuesInv, InQueue
<1> QED BY <1>2, <1>3, <1>4 DEF LiveIn

\* A live request in a queue was there before, or has just been submitted.
LEMMA LiveCameFrom ==
    ASSUME NEW r \in Requests, OnePlace(r), LifeOf(r), Move(r), InQueue(r)', IsLive(r)'
    PROVE  (InQueue(r) /\ IsLive(r)) \/ Submitted(r)
BY DEF Move, Unmoved, SamePlace, Submitted, GivenUp, Collected, Popped, Woken, Begun, Answers,
       IsLive, OnePlace, LifeOf

\* No signal is taken while the worker is blocked, and what is submitted
\* raises one.
LEMMA SignalKept ==
    ASSUME Structure, RequestsInv, SignalInv, Structure', \A r \in Requests : Move(r),
           pc' \in {"select", "sleep", "load"} => pc \in {"select", "sleep", "load"},
           \A c \in Classes : signal[c] => signal'[c],
           \A r \in Requests : Submitted(r) => signal'[Class(r)]
    PROVE  SignalInv'
<1> SUFFICES ASSUME NEW c \in Classes, pc' \in {"select", "sleep", "load"}, Pruned(c)' /= <<>>
             PROVE  signal'[c]
  BY DEF SignalInv
<1>1. PICK r \in Requests : InQueue(r)' /\ Class(r) = c /\ IsLive(r)'
  BY PrunedLiveNext DEF LiveIn
<1>2. (InQueue(r) /\ IsLive(r)) \/ Submitted(r)
  BY <1>1, LiveCameFrom DEF RequestsInv
<1>3. CASE InQueue(r) /\ IsLive(r)
  <2>1. Pruned(c) /= <<>>
    BY <1>1, <1>3, PrunedLive DEF LiveIn
  <2> QED BY <2>1 DEF SignalInv
<1>4. CASE Submitted(r)
  BY <1>1, <1>4
<1> QED BY <1>2, <1>3, <1>4

LEMMA SubmitSignal ==
    ASSUME TypeOK, Structure, RequestsInv, SignalInv, Structure', \A r \in Requests : Move(r),
           NEW x \in Requests, Submit(x)
    PROVE  SignalInv'
<1>1. pc' = pc
  BY DEF Submit, workerVars
<1>2. \A c \in Classes : signal[c] => signal'[c]
  BY DEF Submit, TypeOK
<1>3. \A r \in Requests : Submitted(r) => signal'[Class(r)]
  BY ClassFacts DEF Submit, TypeOK, Submitted
<1> QED BY <1>1, <1>2, <1>3, SignalKept

\* Everyone else leaves the signals up, and submits nothing.
LEMMA OthersSignal ==
    ASSUME TypeOK, Structure, RequestsInv, SignalInv, Structure', \A r \in Requests : Move(r),
           signal' = signal, handle' = handle \/ \E x \in Requests : Abandon(x) \/ Collect(x),
           pc' \in {"select", "sleep", "load"} => pc \in {"select", "sleep", "load"}
    PROVE  SignalInv'
<1>1. \A r \in Requests : ~Submitted(r)
  BY DEF Submitted, Abandon, Collect, TypeOK
<1> QED BY <1>1, SignalKept

LEMMA LoopEmptySignal ==
    ASSUME Structure', LoopEmpty
    PROVE  SignalInv'
<1>1. \A c \in Classes : ~LiveIn(c)'
  BY EmptyFacts, ClassFacts DEF LoopEmpty, LiveIn, InQueue
<1> QED BY <1>1, PrunedLiveNext DEF SignalInv

LEMMA WakeSignalSignal ==
    ASSUME TypeOK, Structure, RequestsInv, SignalInv, Structure', \A r \in Requests : Move(r),
           WakeSignal
    PROVE  SignalInv'
<1>1. PICK c \in Classes :
        /\ signal' = [signal EXCEPT ![c] = Resignalled(c)]
        /\ \/ queue' = [queue EXCEPT ![c] = <<>>]
           \/ Pruned(c) /= <<>> /\ queue' = [queue EXCEPT ![c] = Tail(Pruned(c))]
  BY DEF WakeSignal
<1>2. pc = "sleep" /\ handle' = handle
  BY DEF WakeSignal
<1> SUFFICES ASSUME NEW d \in Classes, Pruned(d)' /= <<>>
             PROVE  signal'[d]
  BY DEF SignalInv
<1>3. PICK r \in Requests : InQueue(r)' /\ Class(r) = d /\ IsLive(r)'
  BY PrunedLiveNext DEF LiveIn
<1>4. CASE d /= c
  <2>1. InQueue(r) /\ IsLive(r)
    BY <1>2, <1>3, LiveCameFrom DEF RequestsInv, Submitted
  <2>2. signal[d]
    BY <1>2, <1>3, <2>1, PrunedLive DEF LiveIn, SignalInv
  <2> QED BY <1>1, <1>4, <2>2 DEF TypeOK
<1>5. CASE d = c
  <2>1. In(queue'[c], r)
    BY <1>3, <1>5 DEF InQueue
  <2>2. queue'[c] = <<>> \/ (Pruned(c) /= <<>> /\ queue'[c] = Tail(Pruned(c)))
    BY <1>1 DEF TypeOK
  <2>3. Pruned(c) /= <<>> /\ In(Tail(Pruned(c)), r)
    BY <2>1, <2>2, EmptyFacts
  <2>4. Pruned(c) \in Seq(Requests)
    BY PrunedFacts DEF Structure
  <2>5. Len(Pruned(c)) > 1
    <3>1. /\ Len(Pruned(c)) \in Nat
          /\ DOMAIN Tail(Pruned(c)) = 1..(Len(Pruned(c)) - 1)
      BY <2>3, <2>4, HeadTailProperties
    <3>2. PICK i \in 1..(Len(Pruned(c)) - 1) : TRUE
      BY <2>3, <3>1 DEF In
    <3> QED BY <3>1, <3>2
  <2> QED BY <1>1, <1>5, <2>5 DEF Resignalled, TypeOK
<1> QED BY <1>4, <1>5

-----------------------------------------------------------------------------
(* The invariant is inductive. *)

\* The parts of the invariant, as the steps need them.
LEMMA Parts ==
    EngineInv => /\ TypeOK /\ Structure /\ RequestsInv /\ WakeInv /\ ControlHalf /\ SignalInv
                 /\ turn \in Classes
BY TypeParts DEF EngineInv, Structure, ControlHalf, ControlTypes

\* Calls, returns, releases and the owner do not touch requests.
LEMMA OthersMove ==
    ASSUME TypeOK, Structure,
           \/ \E c \in Callers : EnsureResident(c) \/ AcquireLease(c) \/ Return(c) \/ DropLease(c)
           \/ TakeEngine \/ StopWorker \/ IdleTimeElapses \/ UNCHANGED vars
    PROVE  /\ Structure' /\ \A r \in Requests : Move(r)
           /\ UNCHANGED <<signal, handle, pc>>
<1>1. UNCHANGED <<life, handle, resp, queue, signal, stack, pc, wake>>
  <2>1. ASSUME NEW c \in Callers,
               EnsureResident(c) \/ AcquireLease(c) \/ Return(c) \/ DropLease(c)
        PROVE  UNCHANGED <<life, handle, resp, queue, signal, stack, pc, wake>>
    BY <2>1 DEF EnsureResident, AcquireLease, Return, DropLease, Call, requestVars,
                queueVars, workerVars
  <2>2. CASE TakeEngine \/ StopWorker \/ IdleTimeElapses \/ UNCHANGED vars
    BY <2>2 DEF TakeEngine, StopWorker, IdleTimeElapses, vars, requestVars, queueVars, workerVars
  <2> QED BY <2>1, <2>2
<1> QED BY <1>1, QuietMoves

\* So do the steps of the worker that deal with the model, with messages or
\* with a signal alone.
LEMMA WorkerQuiet ==
    ASSUME TypeOK, Structure, WakeInv,
           \/ LoadSucceeds \/ Prime \/ LoopControl \/ SelectControl \/ SelectSignal
           \/ SelectSleep \/ SelectTick \/ WakeControl
    PROVE  Structure' /\ \A r \in Requests : Move(r)
<1>1. UNCHANGED <<life, handle, resp, queue, stack>>
  BY DEF LoadSucceeds, Prime, LoopControl, SelectControl, SelectSignal, SelectSleep,
         SelectTick, WakeControl, HandleControl, requestVars, queueVars
<1>2. CASE LoadSucceeds \/ SelectSignal \/ SelectSleep \/ SelectTick
  <2>1. UNCHANGED wake /\ pc /= "exec" /\ pc' /= "exec"
    BY <1>2 DEF LoadSucceeds, SelectSignal, SelectSleep, SelectTick
  <2> QED BY <1>1, <2>1, QuietMoves
<1>3. CASE Prime \/ LoopControl \/ SelectControl
  <2>1. UNCHANGED wake /\ pc /= "exec"
    BY <1>3 DEF Prime, LoopControl, SelectControl, HandleControl
  <2>2. pc' /= "exec"
    <3>1. CASE Prime /\ control = <<>>
      BY <3>1 DEF Prime
    <3>2. ASSUME NEW next \in {"wake", "loop"}, control /= <<>>, HandleControl(next)
          PROVE  pc' /= "exec"
      <4>1. Head(control).kind \in {"shutdown", "ensure", "lease", "release"}
        <5>1. control \in Seq(Messages)
          BY TypeParts DEF ControlTypes
        <5>2. Head(control) \in Messages
          BY <3>2, <5>1, HeadTailProperties
        <5> QED BY <5>2 DEF Messages
      <4> QED BY <3>2, <4>1 DEF HandleControl
    <3>3. CASE Prime /\ control /= <<>>
      BY <3>2, <3>3 DEF Prime
    <3>4. CASE LoopControl \/ SelectControl
      BY <3>2, <3>4 DEF LoopControl, SelectControl
    <3> QED BY <1>3, <3>1, <3>3, <3>4
  <2> QED BY <1>1, <2>1, <2>2, QuietMoves
<1>4. CASE WakeControl
  <2>1. pc = "sleep" /\ control /= <<>>
    BY <1>4 DEF WakeControl
  <2>2. Head(control).kind \in {"shutdown", "ensure", "lease", "release"}
    <3>1. control \in Seq(Messages)
      BY TypeParts DEF ControlTypes
    <3>2. Head(control) \in Messages
      BY <2>1, <3>1, HeadTailProperties
    <3> QED BY <3>2 DEF Messages
  <2>3. wake.kind = "none"
    BY <2>1 DEF WakeInv, NoWake, Msg
  <2>4. pc' /= "exec" /\ (wake' = wake \/ wake'.kind /= "request")
    BY <1>4, <2>1, <2>2 DEF WakeControl
  <2> QED BY <1>1, <2>1, <2>3, <2>4, QuietMoves
<1> QED BY <1>2, <1>3, <1>4

\* Every step moves each request along one of the moves.
LEMMA StepMoves ==
    ASSUME EngineInv, [Next]_vars
    PROVE  Structure' /\ \A r \in Requests : Move(r)
<1>1. /\ TypeOK /\ Structure /\ RequestsInv /\ WakeInv /\ turn \in Classes
  BY Parts
<1>2. ASSUME NEW x \in Requests, Submit(x) \/ Cancel(x) \/ Abandon(x) \/ Collect(x)
      PROVE  Structure' /\ \A r \in Requests : Move(r)
  BY <1>1, <1>2, SubmitMoves, CancelMoves, AbandonMoves, CollectMoves
<1>3. CASE Worker
  <2>1. CASE \/ LoadSucceeds \/ Prime \/ LoopControl \/ SelectControl \/ SelectSignal
             \/ SelectSleep \/ SelectTick \/ WakeControl
    BY <1>1, <2>1, WorkerQuiet
  <2>2. CASE \/ LoadFails \/ ServeWake \/ LoopPop \/ LoopEmpty \/ WakeSignal
    BY <1>1, <2>2, LoadFailsMoves, ServeWakeMoves, LoopPopMoves, LoopEmptyMoves, WakeSignalMoves
  <2>3. CASE \/ Begin \/ Batch \/ Between \/ Decide \/ Commit
    BY <1>1, <2>3, BeginMoves, BatchMoves, BetweenMoves, DecideMoves, CommitMoves
  <2> QED BY <1>3, <2>1, <2>2, <2>3 DEF Worker
<1>4. CASE \/ \E c \in Callers : EnsureResident(c) \/ AcquireLease(c) \/ Return(c) \/ DropLease(c)
           \/ TakeEngine \/ StopWorker \/ IdleTimeElapses \/ UNCHANGED vars
  BY <1>1, <1>4, OthersMove
<1> QED BY <1>2, <1>3, <1>4 DEF Next, Clients, Stopped

LEMMA StepControl ==
    ASSUME EngineInv, [Next]_vars
    PROVE  ControlHalf'
<1>1. TypeOK /\ Structure /\ ControlHalf
  BY Parts
<1>2. ASSUME NEW x \in Requests, Submit(x) \/ Cancel(x) \/ Abandon(x) \/ Collect(x)
      PROVE  ControlHalf'
  BY <1>1, <1>2, SubmittersControl
<1>3. CASE Worker
  <2>1. CASE \/ LoopPop \/ LoopEmpty \/ SelectSignal \/ SelectTick
             \/ Begin \/ Batch \/ Between \/ Decide \/ Commit
    BY <1>1, <2>1, ResidentControl
  <2>2. CASE Prime \/ LoopControl \/ SelectControl
    BY <1>1, <2>2, ControlBranches
  <2>3. CASE LoadSucceeds \/ LoadFails \/ ServeWake \/ SelectSleep \/ WakeControl \/ WakeSignal
    BY <1>1, <2>3, LoadSucceedsControl, LoadFailsControl, ServeWakeControl,
       SelectSleepControl, WakeControlHalf, WakeSignalControl
  <2> QED BY <1>3, <2>1, <2>2, <2>3 DEF Worker
<1>4. ASSUME NEW c \in Callers,
             EnsureResident(c) \/ AcquireLease(c) \/ Return(c) \/ DropLease(c)
      PROVE  ControlHalf'
  <2>1. CASE EnsureResident(c)
    <3>1. Asking("ensure") = "ensuring" /\ Call(c, "ensuring", "ensure")
      BY <2>1 DEF EnsureResident, Asking
    <3> QED BY <1>1, <3>1, CallControl
  <2>2. CASE AcquireLease(c)
    <3>1. Asking("lease") = "acquiring" /\ Call(c, "acquiring", "lease")
      BY <2>2 DEF AcquireLease, Asking
    <3> QED BY <1>1, <3>1, CallControl
  <2>3. CASE Return(c) \/ DropLease(c)
    BY <1>1, <2>3, ReturnControl, DropLeaseControl
  <2> QED BY <1>4, <2>1, <2>2, <2>3
<1>5. CASE TakeEngine \/ StopWorker
  BY <1>1, <1>5, OwnerControl
<1>6. CASE IdleTimeElapses
  BY <1>1, <1>6, ResidentControl
<1>7. CASE UNCHANGED vars
  <2>1. /\ UNCHANGED <<wake, caller, slot, control, leases, published, pc, signal, turn, idle>>
        /\ HandlesKept
    BY <1>7 DEF vars, requestVars, queueVars, workerVars, HandlesKept
  <2>2. signal' \in [Classes -> BOOLEAN] /\ turn' \in Classes /\ idle' \in BOOLEAN
    BY <1>1, <2>1 DEF TypeOK
  <2> QED BY <1>1, <2>1, <2>2, ControlQuiet
<1> QED BY <1>2, <1>3, <1>4, <1>5, <1>6, <1>7 DEF Next, Clients, Stopped

LEMMA StepSignal ==
    ASSUME EngineInv, [Next]_vars
    PROVE  SignalInv'
<1>1. TypeOK /\ Structure /\ RequestsInv /\ SignalInv
  BY Parts
<1>2. Structure' /\ \A r \in Requests : Move(r)
  BY StepMoves
<1>3. ASSUME NEW x \in Requests, Submit(x) PROVE SignalInv'
  BY <1>1, <1>2, <1>3, SubmitSignal
<1>4. ASSUME NEW x \in Requests, Cancel(x) \/ Abandon(x) \/ Collect(x) PROVE SignalInv'
  <2>1. signal' = signal /\ pc' = pc
    BY <1>4 DEF Cancel, Abandon, Collect, queueVars, workerVars
  <2>2. handle' = handle \/ \E y \in Requests : Abandon(y) \/ Collect(y)
    BY <1>4 DEF Cancel
  <2> QED BY <1>1, <1>2, <2>1, <2>2, OthersSignal
<1>5. CASE \/ \E c \in Callers : EnsureResident(c) \/ AcquireLease(c) \/ Return(c) \/ DropLease(c)
           \/ TakeEngine \/ StopWorker \/ IdleTimeElapses \/ UNCHANGED vars
  <2>1. UNCHANGED <<signal, handle, pc>>
    BY <1>1, <1>5, OthersMove
  <2> QED BY <1>1, <1>2, <2>1, OthersSignal
<1>6. CASE LoadFails \/ SelectSleep \/ WakeControl
  <2>1. UNCHANGED <<signal, handle>> /\ pc \in {"select", "sleep", "load"}
    BY <1>6 DEF LoadFails, SelectSleep, WakeControl, queueVars, requestVars
  <2> QED BY <1>1, <1>2, <2>1, OthersSignal
<1>7. CASE LoopEmpty
  BY <1>2, <1>7, LoopEmptySignal
<1>8. CASE WakeSignal
  BY <1>1, <1>2, <1>8, WakeSignalSignal
<1>9. CASE \/ LoadSucceeds \/ Prime \/ ServeWake \/ LoopControl \/ LoopPop \/ SelectControl
           \/ SelectSignal \/ SelectTick \/ Begin \/ Batch \/ Between \/ Decide \/ Commit
  <2>1. pc' \notin {"select", "sleep", "load"}
    <3>1. CASE LoadSucceeds \/ LoopPop \/ SelectSignal \/ SelectTick
      BY <3>1 DEF LoadSucceeds, LoopPop, SelectSignal, SelectTick
    <3>2. CASE Begin \/ Batch \/ Between \/ Decide \/ Commit
      BY <3>2 DEF Begin, Batch, Between, Decide, Commit, At, Answer
    <3>3. CASE ServeWake
      <4>1. wake.kind \in {"startup", "request", "ensure", "lease"}
        BY <3>3 DEF EngineInv, TypeOK, WakeInv, ServeWake
      <4> QED BY <3>3, <4>1 DEF ServeWake
    <3>4. CASE Prime /\ control = <<>>
      BY <3>4 DEF Prime
    <3>5. ASSUME NEW next \in {"wake", "loop"}, control /= <<>>, HandleControl(next)
          PROVE  pc' \notin {"select", "sleep", "load"}
      <4>1. Head(control).kind \in {"shutdown", "ensure", "lease", "release"}
        <5>1. control \in Seq(Messages)
          BY <1>1, TypeParts DEF ControlTypes
        <5>2. Head(control) \in Messages
          BY <3>5, <5>1, HeadTailProperties
        <5> QED BY <5>2 DEF Messages
      <4> QED BY <3>5, <4>1 DEF HandleControl
    <3>6. CASE (Prime /\ control /= <<>>) \/ LoopControl \/ SelectControl
      BY <3>5, <3>6 DEF Prime, LoopControl, SelectControl
    <3> QED BY <1>9, <3>1, <3>2, <3>3, <3>4, <3>6
  <2> QED BY <2>1 DEF SignalInv
<1> QED BY <1>3, <1>4, <1>5, <1>6, <1>7, <1>8, <1>9 DEF Next, Worker, Clients, Stopped

LEMMA InitInv == Init => EngineInv
<1> SUFFICES ASSUME Init PROVE EngineInv
  OBVIOUS
<1>1. TypeOK
  <2>1. RequestTypes
    BY DEF Init, RequestTypes, Lives
  <2>2. ControlTypes
    <3>1. 0 \in 0..MaxGeneration
      BY EngineAssumption
    <3>2. Resting \in CallerTypes
      BY <3>1 DEF CallerTypes, CallerStates, Resting
    <3>3. /\ published \in [residency : {"None", "Resident", "Sleeping"}, gen : 0..MaxGeneration]
          /\ wake \in [kind : {"startup", "request", "ensure", "lease", "none"},
                       who : Requests \cup Callers \cup {NoOne}]
      BY <3>1 DEF Init, Startup, Msg
    <3>4. control \in Seq(Messages)
      BY DEF Init
    <3> QED BY <3>2, <3>3, <3>4 DEF Init, ControlTypes, Classes
  <2> QED BY <2>1, <2>2, TypeParts
<1>2. QueuesInv
  BY EmptyFacts DEF Init, QueuesInv
<1>3. StackInv
  BY DEF Init, StackInv, OneEach, BatchesLeft
<1>4. RequestsInv
  <2>1. \A r \in Requests : /\ ~InQueue(r) /\ ~InWake(r)
                            /\ ~Beginning(stack, r) /\ ~Running(stack, r) /\ ~Traced(stack, r)
                            /\ resp[r] = <<>> /\ handle[r] = "none" /\ life[r] = "Unsubmitted"
    BY EmptyFacts, ClassFacts
    DEF Init, InQueue, InWake, Beginning, Running, Traced, Startup, Msg
  <2> QED BY <2>1 DEF RequestsInv, OnePlace, LifeOf
<1>5. WakeInv
  BY DEF Init, WakeInv, Startup, Msg
<1>6. ControlInv /\ SlotInv
  BY DEF Init, ControlInv, SlotInv
<1>7. LeaseInv
  <2>1. Leased = {}
    BY DEF Init, Leased, Resting
  <2>2. LeasePinsGeneration
    BY <2>1 DEF LeasePinsGeneration, Leased
  <2> QED BY <2>1, <2>2, EngineAssumption DEF Init, LeaseInv, LeaseAccounting
<1>8. SignalInv
  <2>1. \A c \in Classes : ~LiveIn(c)
    BY EmptyFacts, ClassFacts DEF Init, LiveIn, InQueue
  <2>2. Structure
    BY <1>1, <1>2, <1>3, TypeParts DEF Structure
  <2> QED BY <2>1, <2>2, PrunedLive DEF SignalInv
<1> QED BY <1>1, <1>2, <1>3, <1>4, <1>5, <1>6, <1>7, <1>8 DEF EngineInv

LEMMA StepInv == EngineInv /\ [Next]_vars => EngineInv'
<1> SUFFICES ASSUME EngineInv, [Next]_vars PROVE EngineInv'
  OBVIOUS
<1>1. Structure' /\ \A r \in Requests : Move(r)
  BY StepMoves
<1>2. RequestsInv'
  BY <1>1, MovesKeep DEF EngineInv, RequestsInv
<1>3. ControlHalf'
  BY StepControl
<1>4. TypeOK'
  BY <1>1, <1>3 DEF Structure, ControlHalf, TypeOK, RequestTypes, ControlTypes, Messages,
                    CallerTypes
<1>5. SignalInv'
  BY StepSignal
<1> QED BY <1>1, <1>2, <1>3, <1>4, <1>5 DEF EngineInv, Structure, ControlHalf

LEMMA Invariance == Spec => []EngineInv
BY InitInv, StepInv, PTL DEF Spec

-----------------------------------------------------------------------------
(* The properties *)

\* A sequence without repetitions holds an entry once or not at all.
LEMMA CountInQueue ==
    ASSUME NEW q, Distinct(q), NEW r
    PROVE  Cardinality({i \in DOMAIN q : q[i] = r}) = IF In(q, r) THEN 1 ELSE 0
<1> DEFINE P == {i \in DOMAIN q : q[i] = r}
<1>1. CASE In(q, r)
  <2>1. PICK i \in DOMAIN q : q[i] = r
    BY <1>1 DEF In
  <2>2. P = {i}
    BY <2>1 DEF Distinct
  <2>3. Cardinality({i}) = 1
    BY FS_Singleton
  <2> QED BY <1>1, <2>2, <2>3
<1>2. CASE ~In(q, r)
  <2>1. P = {}
    BY <1>2 DEF In
  <2> QED BY <1>2, <2>1, FS_EmptySet
<1> QED BY <1>1, <1>2

LEMMA CountOnStack ==
    ASSUME NEW s, OneEach(s), NEW r
    PROVE  Cardinality({i \in DOMAIN s : s[i].req = r}) =
              IF Beginning(s, r) \/ Running(s, r) THEN 1 ELSE 0
<1> DEFINE P == {i \in DOMAIN s : s[i].req = r}
<1>1. CASE Beginning(s, r) \/ Running(s, r)
  <2>1. PICK i \in DOMAIN s : s[i].req = r
    BY <1>1 DEF Beginning, Running
  <2>2. P = {i}
    BY <2>1 DEF OneEach
  <2>3. Cardinality({i}) = 1
    BY FS_Singleton
  <2> QED BY <1>1, <2>2, <2>3
<1>2. CASE ~(Beginning(s, r) \/ Running(s, r))
  <2>1. P = {}
    BY <1>2 DEF Beginning, Running
  <2> QED BY <1>2, <2>1, FS_EmptySet
<1> QED BY <1>1, <1>2

LEMMA OnePlaceOnce ==
    ASSUME EngineInv
    PROVE  Custody
<1> SUFFICES ASSUME NEW r \in Requests
             PROVE  Held(r) = IF handle[r] = "none" THEN 0 ELSE 1
  BY DEF Custody
<1>1. QueuesInv /\ StackInv /\ OnePlace(r) /\ "Query" \in Classes /\ "Bulk" \in Classes
  BY DEF EngineInv, RequestsInv, Classes
<1>2. /\ Cardinality({i \in DOMAIN queue["Query"] : queue["Query"][i] = r})
            = IF In(queue["Query"], r) THEN 1 ELSE 0
      /\ Cardinality({i \in DOMAIN queue["Bulk"] : queue["Bulk"][i] = r})
            = IF In(queue["Bulk"], r) THEN 1 ELSE 0
  BY <1>1, CountInQueue DEF QueuesInv
<1>3. /\ In(queue["Query"], r) <=> InQueue(r) /\ Class(r) = "Query"
      /\ In(queue["Bulk"], r) <=> InQueue(r) /\ Class(r) = "Bulk"
      /\ Class(r) \in {"Query", "Bulk"}
  BY <1>1 DEF QueuesInv, InQueue, Class
<1>4. Cardinality({i \in DOMAIN stack : stack[i].req = r}) =
        IF Beginning(stack, r) \/ Running(stack, r) THEN 1 ELSE 0
  BY <1>1, CountOnStack DEF StackInv
<1>5. Len(resp[r]) = IF resp[r] = <<>> THEN 0 ELSE 1
  BY <1>1 DEF OnePlace
<1>6. Held(r) = (IF In(queue["Query"], r) THEN 1 ELSE 0) + (IF In(queue["Bulk"], r) THEN 1 ELSE 0)
                + (IF InWake(r) THEN 1 ELSE 0)
                + (IF Beginning(stack, r) \/ Running(stack, r) THEN 1 ELSE 0)
                + (IF resp[r] = <<>> THEN 0 ELSE 1)
  BY <1>2, <1>4, <1>5 DEF Held, InWake
<1> QED BY <1>1, <1>3, <1>6 DEF OnePlace

\* Every variable of the engine keeps its type, through every interleaving of
\* submitters, callers, the owner and the worker.
THEOREM TypeCorrect == Spec => []TypeOK
<1>1. EngineInv => TypeOK
  BY DEF EngineInv
<1> QED BY <1>1, Invariance, PTL

\* The engine neither loses a request nor answers one twice: a submitted
\* request is in exactly one of the queues, the pending wake, the activations
\* of the worker and its response channel until its answer is collected.
THEOREM CustodyHolds == Spec => []Custody
<1>1. EngineInv => Custody
  BY OnePlaceOnce
<1> QED BY <1>1, Invariance, PTL

\* The worker never blocks on its signals (select_biased!, wait_for_wake) with
\* a live request in a queue whose signal is down, although try_push and
\* try_pop share one slot of signal for any number of requests.
THEOREM NoWakeupLost == Spec => []NoLostWakeup
<1>1. EngineInv => NoLostWakeup
  BY DEF EngineInv, SignalInv, NoLostWakeup
<1> QED BY <1>1, Invariance, PTL

\* Of cancel and commit one wins, and the answer says which: vectors are
\* answered only for a committed context, Cancelled only for a cancelled one.
THEOREM OneWinner == Spec => []CancelCommitOneWinner
<1>1. EngineInv => CancelCommitOneWinner
  BY DEF EngineInv, RequestsInv, LifeOf, CancelCommitOneWinner
<1> QED BY <1>1, Invariance, PTL

\* From its grant until its holder drops it, a residency lease names the
\* generation that is loaded, and the worker neither unloads nor stops.
THEOREM LeasesPin == Spec => []LeasePinsGeneration
<1>1. EngineInv => LeasePinsGeneration
  BY DEF EngineInv, LeaseInv
<1> QED BY <1>1, Invariance, PTL

\* ResidencyTracker counts the leases exactly, so should_sleep can rely on it.
THEOREM LeasesCounted == Spec => []LeaseAccounting
<1>1. EngineInv => LeaseAccounting
  BY DEF EngineInv, LeaseInv
<1> QED BY <1>1, Invariance, PTL

\* Shutdown is sent by the drop of the last clone, so the worker is never gone
\* while a thread waits for it to answer.
THEOREM NobodyStranded == Spec => []NobodyWaitsOnStoppedWorker
<1>1. EngineInv => NobodyWaitsOnStoppedWorker
  <2> SUFFICES ASSUME EngineInv, pc = "stopped"
               PROVE  /\ \A r \in Requests : handle[r] /= "waiting"
                      /\ \A c \in Callers : caller[c].doing \notin {"ensuring", "acquiring"}
    BY DEF NobodyWaitsOnStoppedWorker
  <2>1. slot \in {"stopped", "failed"}
    BY DEF EngineInv, SlotInv
  <2>2. CASE slot = "stopped"
    BY <2>2 DEF EngineInv, SlotInv, InUse
  <2>3. CASE slot = "failed"
    BY <2>3 DEF EngineInv, SlotInv, Resting
  <2> QED BY <2>1, <2>2, <2>3
<1> QED BY <1>1, Invariance, PTL

-----------------------------------------------------------------------------
(* The engine implements EmbeddingService. *)

ResultOf(r) == IF resp[r] = <<>> THEN "none" ELSE resp[r][1]

\* The abstract place of a request, by the predicates of the invariant.
LEMMA PlaceFacts ==
    ASSUME NEW r \in Requests, OnePlace(r), OnePlace(r)'
    PROVE  /\ PlaceOf(r) = IF resp[r] /= <<>> THEN "done"
                           ELSE IF InQueue(r) THEN "queue"
                           ELSE IF Running(stack, r) THEN "active"
                           ELSE IF InWake(r) \/ Beginning(stack, r) THEN "hand" ELSE "out"
           /\ PlaceOf(r)' = IF resp'[r] /= <<>> THEN "done"
                            ELSE IF InQueue(r)' THEN "queue"
                            ELSE IF Running(stack', r) THEN "active"
                            ELSE IF InWake(r)' \/ Beginning(stack', r) THEN "hand" ELSE "out"
<1>1. PlaceOf(r) = IF resp[r] /= <<>> THEN "done"
                   ELSE IF InQueue(r) THEN "queue"
                   ELSE IF Running(stack, r) THEN "active"
                   ELSE IF InWake(r) \/ Beginning(stack, r) THEN "hand" ELSE "out"
  <2>1. PlaceOf(r) = CASE resp[r] /= <<>> -> "done"
                       [] InQueue(r) -> "queue"
                       [] Running(stack, r) -> "active"
                       [] InWake(r) \/ Beginning(stack, r) -> "hand"
                       [] OTHER -> "out"
    BY DEF PlaceOf, InQueue, InWake, Running, Beginning
  <2> QED BY <2>1 DEF OnePlace
<1>2. PlaceOf(r)' = IF resp'[r] /= <<>> THEN "done"
                    ELSE IF InQueue(r)' THEN "queue"
                    ELSE IF Running(stack', r) THEN "active"
                    ELSE IF InWake(r)' \/ Beginning(stack', r) THEN "hand" ELSE "out"
  <2>1. PlaceOf(r)' = CASE resp'[r] /= <<>> -> "done"
                        [] InQueue(r)' -> "queue"
                        [] Running(stack', r) -> "active"
                        [] InWake(r)' \/ Beginning(stack', r) -> "hand"
                        [] OTHER -> "out"
    BY DEF PlaceOf, InQueue, InWake, Running, Beginning
  <2> QED BY <2>1 DEF OnePlace
<1> QED BY <1>1, <1>2

LEMMA FateFacts ==
    ASSUME NEW r \in Requests
    PROVE  /\ FateOf(r) = IF life[r] = "Cancelled" THEN "cancelled"
                          ELSE IF life[r] = "Committed" THEN "committed" ELSE "live"
           /\ FateOf(r)' = IF life'[r] = "Cancelled" THEN "cancelled"
                           ELSE IF life'[r] = "Committed" THEN "committed" ELSE "live"
           /\ ResultOf(r) = IF resp[r] = <<>> THEN "none" ELSE resp[r][1]
           /\ ResultOf(r)' = IF resp'[r] = <<>> THEN "none" ELSE resp'[r][1]
BY DEF FateOf, ResultOf

\* What the service allows one request to do, in the engine's terms.
ServiceMove(r) ==
    LET p == PlaceOf(r)'
        f == FateOf(r)'
        a == ResultOf(r)' IN
    \/ p = PlaceOf(r) /\ f = FateOf(r) /\ a = ResultOf(r)
    \/ PlaceOf(r) = "out" /\ p = "queue" /\ f = FateOf(r) /\ a = "none"
    \/ FateOf(r) = "live" /\ f = "cancelled" /\ p = PlaceOf(r) /\ a = ResultOf(r)
    \/ PlaceOf(r) = "queue" /\ p = "hand" /\ f = FateOf(r) /\ a = "none"
    \/ PlaceOf(r) = "hand" /\ FateOf(r) = "live" /\ p = "active" /\ f = "live" /\ a = "none"
    \/ /\ PlaceOf(r) = "active" /\ FateOf(r) = "live"
       /\ p = "done" /\ f = "committed" /\ a \in {"ok", "failed"}
    \/ /\ PlaceOf(r) \in {"queue", "hand", "active"} /\ FateOf(r) = "cancelled"
       /\ p = "done" /\ f = "cancelled" /\ a = "cancelled"
    \/ PlaceOf(r) = "hand" /\ p = "done" /\ f = FateOf(r) /\ a = "failed"
    \/ PlaceOf(r) \in {"out", "done"} /\ p = "out" /\ f = "live" /\ a = "none"

LEMMA MoveIsService ==
    ASSUME NEW r \in Requests, OnePlace(r), LifeOf(r), OnePlace(r)', LifeOf(r)', Move(r)
    PROVE  ServiceMove(r)
<1>1. /\ PlaceOf(r) = IF resp[r] /= <<>> THEN "done"
                      ELSE IF InQueue(r) THEN "queue"
                      ELSE IF Running(stack, r) THEN "active"
                      ELSE IF InWake(r) \/ Beginning(stack, r) THEN "hand" ELSE "out"
      /\ PlaceOf(r)' = IF resp'[r] /= <<>> THEN "done"
                       ELSE IF InQueue(r)' THEN "queue"
                       ELSE IF Running(stack', r) THEN "active"
                       ELSE IF InWake(r)' \/ Beginning(stack', r) THEN "hand" ELSE "out"
  BY PlaceFacts
<1>2. /\ FateOf(r) = IF life[r] = "Cancelled" THEN "cancelled"
                     ELSE IF life[r] = "Committed" THEN "committed" ELSE "live"
      /\ FateOf(r)' = IF life'[r] = "Cancelled" THEN "cancelled"
                      ELSE IF life'[r] = "Committed" THEN "committed" ELSE "live"
      /\ ResultOf(r) = IF resp[r] = <<>> THEN "none" ELSE resp[r][1]
      /\ ResultOf(r)' = IF resp'[r] = <<>> THEN "none" ELSE resp'[r][1]
  BY FateFacts
<1>3. CASE Unmoved(r)
  BY <1>1, <1>2, <1>3 DEF Unmoved, SamePlace, ServiceMove
<1>4. CASE Submitted(r)
  BY <1>1, <1>2, <1>4 DEF Submitted, ServiceMove, OnePlace, LifeOf
<1>5. CASE GivenUp(r)
  BY <1>1, <1>2, <1>5 DEF GivenUp, SamePlace, ServiceMove
<1>6. CASE Collected(r)
  BY <1>1, <1>2, <1>6 DEF Collected, ServiceMove, OnePlace
<1>7. CASE Popped(r)
  BY <1>1, <1>2, <1>7 DEF Popped, ServiceMove, OnePlace
<1>8. CASE Woken(r)
  BY <1>1, <1>2, <1>8 DEF Woken, ServiceMove, OnePlace
<1>9. CASE Begun(r)
  BY <1>1, <1>2, <1>9 DEF Begun, ServiceMove, OnePlace
<1>10. CASE Answers(r)
  <2>1. resp[r] = <<>> /\ resp'[r] /= <<>>
    BY <1>10 DEF Answers, OnePlace
  <2>2. PlaceOf(r) \in {"queue", "hand", "active"} /\ PlaceOf(r)' = "done"
    BY <1>1, <1>10, <2>1 DEF Answers
  <2>3. CASE resp'[r] = <<"cancelled">> /\ life[r] = "Cancelled" /\ life'[r] = life[r]
    BY <1>2, <2>1, <2>2, <2>3 DEF ServiceMove
  <2>4. CASE resp'[r] = <<"failed">> /\ InWake(r) /\ life'[r] = life[r]
    <3>1. PlaceOf(r) = "hand"
      BY <1>1, <2>1, <2>4 DEF OnePlace
    <3> QED BY <1>2, <2>1, <2>2, <2>4, <3>1 DEF ServiceMove
  <2>5. CASE /\ resp'[r] \in {<<"ok">>, <<"failed">>} /\ Running(stack, r)
             /\ life[r] = "Active" /\ life'[r] = "Committed"
    <3>1. PlaceOf(r) = "active"
      BY <1>1, <2>1, <2>5 DEF OnePlace
    <3>2. ResultOf(r)' \in {"ok", "failed"}
      BY <1>2, <2>1, <2>5
    <3> QED BY <1>2, <2>2, <2>5, <3>1, <3>2 DEF ServiceMove
  <2> QED BY <1>10, <2>3, <2>4, <2>5 DEF Answers
<1> QED BY <1>3, <1>4, <1>5, <1>6, <1>7, <1>8, <1>9, <1>10 DEF Move

\* What one step may do to one caller, as far as leases are concerned.
CallerMove(c) ==
    \/ caller'[c] = caller[c]
    \/ caller[c].doing \notin {"granted", "held"} /\ caller'[c].doing \notin {"granted", "held"}
    \/ /\ caller[c].doing = "acquiring"
       /\ caller'[c].doing = "granted" /\ caller'[c].gen = published.gen
    \/ /\ caller[c].doing = "granted"
       /\ caller'[c].doing = "held" /\ caller'[c].gen = caller[c].gen
    \/ caller[c].doing = "held" /\ caller'[c].doing = "releasing"

LEMMA HandleControlCallers ==
    ASSUME ControlHalf, control /= <<>>, NEW next, HandleControl(next)
    PROVE  \A c \in Callers : CallerMove(c)
<1>1. PICK m : m = Head(control)
  OBVIOUS
<1>2. m \in Messages
  BY <1>1, HeadTailProperties DEF ControlHalf, ControlTypes
<1>3. m.kind /= "shutdown" => m.who \in Callers /\ caller[m.who].doing = Asking(m.kind)
  <2>1. 1 \in DOMAIN control /\ m = control[1]
    BY <1>1, HeadTailProperties DEF ControlHalf, ControlTypes
  <2> QED BY <2>1 DEF ControlHalf, ControlInv
<1>4. \/ m.kind = "shutdown" /\ UNCHANGED caller
      \/ m.kind = "ensure" /\ caller' = Reply(m.who, "resident")
      \/ m.kind = "lease" /\ caller' = Reply(m.who, "granted")
      \/ m.kind = "release" /\ caller' = [caller EXCEPT ![m.who] = Resting]
  BY <1>1, <1>2 DEF HandleControl, Messages
<1>5. CASE m.kind = "ensure"
  BY <1>3, <1>4, <1>5 DEF CallerMove, Reply, Asking, ControlHalf, ControlTypes
<1>6. CASE m.kind = "lease"
  BY <1>3, <1>4, <1>6 DEF CallerMove, Reply, Asking, ControlHalf, ControlTypes
<1>7. CASE m.kind = "release"
  BY <1>3, <1>4, <1>7 DEF CallerMove, Resting, Asking, ControlHalf, ControlTypes
<1> QED BY <1>4, <1>5, <1>6, <1>7 DEF CallerMove

LEMMA StepCallers ==
    ASSUME EngineInv, [Next]_vars
    PROVE  \A c \in Callers : CallerMove(c)
<1>1. ControlHalf /\ ControlTypes /\ WakeInv
  BY Parts DEF ControlHalf
<1>2. CASE caller' = caller
  BY <1>2 DEF CallerMove
<1>3. CASE (Prime /\ control /= <<>>) \/ LoopControl \/ SelectControl
  BY <1>1, <1>3, HandleControlCallers DEF Prime, LoopControl, SelectControl
<1>4. CASE ServeWake
  <2>1. wake.kind \in {"startup", "request", "ensure", "lease"}
    BY <1>1, <1>4 DEF ControlTypes, WakeInv, ServeWake
  <2>2. wake.kind \in {"ensure", "lease"} =>
          wake.who \in Callers /\ caller[wake.who].doing = Asking(wake.kind)
    BY <1>1 DEF WakeInv
  <2>3. CASE wake.kind = "ensure"
    BY <1>1, <1>4, <2>2, <2>3 DEF CallerMove, ServeWake, Reply, Asking, ControlTypes
  <2>4. CASE wake.kind = "lease"
    BY <1>1, <1>4, <2>2, <2>4 DEF CallerMove, ServeWake, Reply, Asking, ControlTypes
  <2>5. CASE wake.kind \in {"startup", "request"}
    BY <1>4, <2>5 DEF CallerMove, ServeWake
  <2> QED BY <2>1, <2>3, <2>4, <2>5
<1>5. CASE LoadFails
  <2>1. CASE wake.kind \in {"ensure", "lease"}
    <3>1. PICK x \in Callers : x = wake.who /\ caller[x].doing \in {"ensuring", "acquiring"}
      BY <1>1, <2>1 DEF WakeInv, Asking
    <3>2. caller' = [caller EXCEPT ![x].doing = "refused"] /\ "refused" \in CallerStates
      BY <1>5, <2>1, <3>1 DEF LoadFails, FailedCalls, CallerStates
    <3>3. /\ caller'[x].doing = "refused"
          /\ \A c \in Callers : c /= x => caller'[c] = caller[c]
      BY <1>1, <3>2, CallerDoes
    <3> QED BY <3>1, <3>3 DEF CallerMove
  <2>2. CASE wake.kind \notin {"ensure", "lease"}
    BY <1>2, <1>5, <2>2 DEF LoadFails, FailedCalls
  <2> QED BY <2>1, <2>2
<1>6. CASE WakeControl
  <2>1. control /= <<>> /\ Head(control) \in Messages
    BY <1>1, <1>6, HeadTailProperties DEF WakeControl, ControlTypes
  <2>2. 1 \in DOMAIN control /\ Head(control) = control[1]
    BY <1>1, <2>1, HeadTailProperties DEF ControlTypes
  <2>3. CASE Head(control).kind = "release"
    <3>1. /\ Head(control).who \in Callers
          /\ caller[Head(control).who].doing = "releasing"
      BY <1>1, <2>2, <2>3 DEF ControlHalf, ControlInv, Asking
    <3>2. PICK x \in Callers : x = Head(control).who
      BY <3>1
    <3>3. caller' = [caller EXCEPT ![x] = Resting]
      BY <1>6, <2>3, <3>2 DEF WakeControl
    <3>4. caller'[x] = Resting /\ \A c \in Callers : c /= x => caller'[c] = caller[c]
      BY <1>1, <3>3 DEF ControlTypes
    <3> QED BY <3>1, <3>2, <3>4 DEF CallerMove, Resting
  <2>4. CASE Head(control).kind /= "release"
    BY <1>6, <2>1, <2>4 DEF WakeControl, CallerMove, Messages
  <2> QED BY <2>3, <2>4
<1>7. ASSUME NEW x \in Callers, EnsureResident(x) \/ AcquireLease(x)
      PROVE  \A c \in Callers : CallerMove(c)
  <2>1. PICK d \in {"ensuring", "acquiring"} :
          caller[x] = Resting /\ caller' = [caller EXCEPT ![x].doing = d]
    BY <1>7 DEF EnsureResident, AcquireLease, Call
  <2>2. d \in CallerStates /\ caller[x].doing = "nothing"
    BY <2>1 DEF CallerStates, Resting
  <2>3. caller'[x].doing = d /\ \A c \in Callers : c /= x => caller'[c] = caller[c]
    BY <1>1, <2>1, <2>2, CallerDoes
  <2> QED BY <2>1, <2>2, <2>3 DEF CallerMove
<1>8. ASSUME NEW x \in Callers, Return(x)
      PROVE  \A c \in Callers : CallerMove(c)
  <2>1. /\ caller[x].doing \in {"resident", "granted", "refused"}
        /\ caller'[x] = IF caller[x].doing = "granted" THEN [caller[x] EXCEPT !.doing = "held"]
                        ELSE Resting
        /\ \A c \in Callers : c /= x => caller'[c] = caller[c]
    BY <1>1, <1>8 DEF Return, ControlTypes
  <2>2. caller[x] \in CallerTypes
    BY <1>1 DEF ControlTypes
  <2>3. CallerMove(x)
    BY <2>1, <2>2 DEF CallerMove, Resting, CallerTypes
  <2> QED BY <2>1, <2>3 DEF CallerMove
<1>9. ASSUME NEW x \in Callers, DropLease(x)
      PROVE  \A c \in Callers : CallerMove(c)
  <2>1. /\ caller[x].doing = "held"
        /\ caller' = [caller EXCEPT ![x].doing = "releasing"] /\ "releasing" \in CallerStates
    BY <1>9 DEF DropLease, CallerStates
  <2>2. caller'[x].doing = "releasing" /\ \A c \in Callers : c /= x => caller'[c] = caller[c]
    BY <1>1, <2>1, CallerDoes
  <2> QED BY <2>1, <2>2 DEF CallerMove
<1>10. CASE \/ LoadSucceeds \/ (Prime /\ control = <<>>) \/ LoopPop \/ LoopEmpty \/ SelectSignal
            \/ SelectSleep \/ SelectTick \/ WakeSignal
            \/ Begin \/ Batch \/ Between \/ Decide \/ Commit
            \/ IdleTimeElapses \/ TakeEngine \/ StopWorker \/ UNCHANGED vars
  <2>1. caller' = caller
    BY <1>10 DEF LoadSucceeds, Prime, LoopPop, LoopEmpty, SelectSignal, SelectSleep, SelectTick,
                 WakeSignal, Begin, Batch, Between, Decide, Commit, IdleTimeElapses,
                 TakeEngine, StopWorker, vars
  <2> QED BY <1>2, <2>1
<1>11. ASSUME NEW x \in Requests, Submit(x) \/ Cancel(x) \/ Abandon(x) \/ Collect(x)
       PROVE  \A c \in Callers : CallerMove(c)
  <2>1. caller' = caller
    BY <1>11 DEF Submit, Cancel, Abandon, Collect
  <2> QED BY <1>2, <2>1
<1> QED BY <1>3, <1>4, <1>5, <1>6, <1>7, <1>8, <1>9, <1>10, <1>11
    DEF Next, Worker, Clients, Stopped

\* The generation changes only by a load, and then no lease is out.
LEMMA StepGeneration ==
    ASSUME EngineInv, [Next]_vars
    PROVE  \/ published'.gen = published.gen
           \/ published'.gen = published.gen + 1 /\ Leased = {} /\ Leased' = {}
<1>1. CASE LoadSucceeds
  <2>1. published'.gen = published.gen + 1 /\ caller' = caller /\ pc = "load"
    BY <1>1 DEF LoadSucceeds
  <2>2. Leased = {}
    BY <2>1 DEF EngineInv, LeaseInv
  <2> QED BY <2>1, <2>2 DEF Leased
<1>2. CASE SelectSleep
  BY <1>2 DEF SelectSleep, EngineInv, TypeOK
<1>3. CASE Worker /\ ~LoadSucceeds /\ ~SelectSleep
  <2>1. published' = published
    BY <1>3 DEF Worker, LoadFails, Prime, ServeWake, LoopControl, LoopPop, LoopEmpty, SelectControl,
                SelectSignal, SelectTick, WakeControl, WakeSignal, Begin, Batch, Between, Decide,
                Commit, HandleControl
  <2> QED BY <2>1
<1>4. CASE Clients \/ IdleTimeElapses \/ TakeEngine \/ StopWorker \/ Stopped \/ UNCHANGED vars
  <2>1. published' = published
    BY <1>4 DEF Clients, Submit, Cancel, Abandon, Collect, EnsureResident, AcquireLease, Call,
                Return, DropLease, IdleTimeElapses, TakeEngine, StopWorker, Stopped, vars,
                workerVars
  <2> QED BY <2>1
<1> QED BY <1>1, <1>2, <1>3, <1>4 DEF Next

serviceStep == [Service!ServiceNext]_(Service!serviceVars)

LEMMA StepIsService ==
    ASSUME EngineInv, [Next]_vars
    PROVE  serviceStep
<1>1. Service!RequestStep
  <2> SUFFICES ASSUME NEW r \in Requests PROVE ServiceMove(r)
    BY DEF Service!RequestStep, Service!RequestMove, Service!Accepted, Service!CancelWins,
           Service!Taken, Service!Activated, Service!CommitWins, Service!CancelAnswered,
           Service!LoadFailed, Service!Renewed, ServiceMove, ResultOf
  <2>1. OnePlace(r) /\ LifeOf(r) /\ Move(r)
    BY StepMoves DEF EngineInv, RequestsInv
  <2>2. OnePlace(r)' /\ LifeOf(r)'
    BY <2>1, MovesKeep
  <2> QED BY <2>1, <2>2, MoveIsService
<1>2. Service!LeaseStep
  <2> SUFFICES ASSUME NEW c \in Callers
               PROVE  \/ LeaseOf(c)' = LeaseOf(c)
                      \/ /\ LeaseOf(c) = Service!NoLease
                         /\ LeaseOf(c)' = [state |-> "held", gen |-> published.gen]
                      \/ LeaseOf(c).state = "held" /\ LeaseOf(c)' = Service!NoLease
    BY DEF Service!LeaseStep
  <2>1. CallerMove(c)
    BY StepCallers
  <2> QED BY <2>1 DEF CallerMove, LeaseOf, Service!NoLease
<1>3. Service!GenerationStep
  <2>1. \/ published'.gen = published.gen
        \/ published'.gen = published.gen + 1 /\ Leased = {} /\ Leased' = {}
    BY StepGeneration
  <2>2. ASSUME Leased = {}, Leased' = {}, NEW c \in Callers
        PROVE  LeaseOf(c) = Service!NoLease /\ LeaseOf(c)' = Service!NoLease
    BY <2>2 DEF Leased, LeaseOf, Service!NoLease
  <2> QED BY <2>1, <2>2 DEF Service!GenerationStep
<1> QED BY <1>1, <1>2, <1>3 DEF serviceStep, Service!ServiceNext

\* The engine keeps the promise that EmbeddingService states and the embedding
\* server is built on: requests move only along submit, pop, activate and
\* commit, cancel decides a request at any point before commit, every request
\* is answered once, and a lease names the loaded generation while it is held.
THEOREM EngineImplementsService == Spec => ImplementsService
<1>1. Init => Service!ServiceInit
  <2> SUFFICES ASSUME Init PROVE Service!ServiceInit
    OBVIOUS
  <2>1. \A r \in Requests : PlaceOf(r) = "out" /\ FateOf(r) = "live" /\ resp[r] = <<>>
    <3> SUFFICES ASSUME NEW r \in Requests
                 PROVE  PlaceOf(r) = "out" /\ FateOf(r) = "live" /\ resp[r] = <<>>
      OBVIOUS
    <3>1. resp[r] = <<>> /\ life[r] = "Unsubmitted" /\ stack = <<>> /\ wake /= Msg("request", r)
      BY DEF Init, Startup, Msg
    <3>2. ~In(queue[Class(r)], r)
      BY EmptyFacts, ClassFacts DEF Init
    <3> QED BY <3>1, <3>2 DEF PlaceOf, FateOf
  <2>2. \A c \in Callers : LeaseOf(c) = Service!NoLease
    BY DEF Init, LeaseOf, Resting, Service!NoLease
  <2>3. published.gen = 0
    BY DEF Init
  <2> QED BY <2>1, <2>2, <2>3 DEF Service!ServiceInit
<1>2. EngineInv /\ [Next]_vars => serviceStep
  BY StepIsService
<1> QED BY <1>1, <1>2, Invariance, PTL
    DEF Spec, ImplementsService, Service!ServiceSpec, serviceStep
=============================================================================
