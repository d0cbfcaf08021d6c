------------------------- MODULE StdioServerProofs -------------------------
(***************************************************************************)
(* What holds of StdioServer for every set of projects, every capacity,    *)
(* every number of frames and every choice of kinds, pieces and faults:    *)
(* answers leave in the order of the frames (AnswersInOrder), a request    *)
(* whose cancellation was read is not answered (CancelledStaysSilent), no  *)
(* activation thread is orphaned (NoOrphanActivation), and no complete     *)
(* request gets lost (RequestsKept).                                       *)
(*                                                                         *)
(* The order of the answers is the order of a pipeline: what is written,   *)
(* then the active request, then the queue, then what is still to be read. *)
(* The last boundary is `Behind(n)`: frame n was read to its end, so it    *)
(* comes before the read in progress, every piece in the pipe, and what    *)
(* the host has still to write.  No step takes that away from a frame      *)
(* (Stdin), and a frame has it when it enters the queue, because the       *)
(* pieces of the pipe are in order and only the head of a frame has        *)
(* another piece of the same frame after it.  A silenced request is behind *)
(* too, so that its number cannot enter the queue again, and wherever it   *)
(* still is, it carries the flag.                                          *)
(*                                                                         *)
(* That no request gets lost is a second invariant on top of the first: a  *)
(* complete request is in the pipe, in the pipeline, silenced or torn      *)
(* (CustodyInv).  It leaves the pipeline without an answer only flagged,   *)
(* and only a silenced request is flagged (FlagInv); the loop stops        *)
(* reading, and ends, only when nothing is left (DrainInv).                *)
(***************************************************************************)
EXTENDS StdioServer, SequenceTheorems, WellFoundedInduction, TLAPS

\* The kinds that only an intact frame reads as.
Whole == {"tool", "notification"}

\* The frame was read to its end: it comes before everything still to be read.
Behind(n) ==
    /\ n <= Len(sent) /\ (host = "midway" => n < Len(sent))
    /\ line /= 0 => n < line
    /\ \A k \in DOMAIN pipe : n < pipe[k].n

\* What the host wrote: a tool call names a project, a cancellation a frame.
SentInv ==
    \A n \in DOMAIN sent :
        /\ sent[n].kind = "tool" => sent[n].of \in Projects
        /\ sent[n].kind = "cancel" => sent[n].of \in DOMAIN sent

\* The pieces in stdin follow the frames; only a head has more of its frame
\* behind it, and only a head is there of a frame the host is midway through.
PipeInv ==
    /\ host = "midway" => sent /= <<>>
    /\ \A k \in DOMAIN pipe :
        /\ pipe[k].n <= Len(sent)
        /\ line <= pipe[k].n
        /\ host = "midway" /\ pipe[k].n = Len(sent) => pipe[k].part = "head"
    /\ \A k, l \in DOMAIN pipe : k < l =>
        /\ pipe[k].n <= pipe[l].n
        /\ pipe[k].n = pipe[l].n => pipe[k].part = "head"

\* The pipeline: written, then active, then queued.
OrderInv ==
    /\ AnswersInOrder
    /\ \A i, j \in DOMAIN queued : i < j => queued[i].n < queued[j].n
    /\ \A i \in DOMAIN written, j \in DOMAIN queued : written[i].n < queued[j].n
    /\ ~Idle => \A i \in DOMAIN written : written[i].n < active.n
    /\ \A j \in DOMAIN queued : active.n < queued[j].n

\* The frame is in the pipeline.
Taken(n) ==
    \/ \E i \in DOMAIN written : written[i].n = n
    \/ \E j \in DOMAIN queued : queued[j].n = n
    \/ ~Idle /\ active.n = n

\* What is in the pipeline, and what was silenced, was read to its end.
BehindInv == \A n \in Nat : Taken(n) \/ n \in silenced => Behind(n)

\* What no torn or cut frame reads as: work that is a tool call or a
\* notification is work on a frame that is one.
WorkInv ==
    /\ \A j \in DOMAIN queued :
        queued[j].kind \in Whole => sent[queued[j].n].kind = queued[j].kind
    /\ ~Idle /\ active.kind \in Whole => sent[active.n].kind = active.kind
    /\ Idle <=> active.step = "none"

\* Wherever a silenced request still is, it is flagged.
SilenceInv ==
    \A n \in silenced :
        /\ \A j \in DOMAIN queued : queued[j].n = n =>
               queued[j].cancelled /\ queued[j].kind /= "oversized"
        /\ active.n = n => active.cancelled

\* The contexts own the activations; a task past select_project has a context,
\* and the session is dropped only once no task uses it.
ContextInv ==
    /\ running \subseteq ToSet(contexts) \cup {evicted}
    /\ evicted /= None => active.step = "evict"
    /\ active.step \in {"evict", "activate", "wait"} => contexts /= <<>>
    /\ phase = "ended" => (Idle \/ Finished) /\ contexts = <<>>

StdioInv ==
    /\ TypeOK /\ SentInv /\ PipeInv /\ OrderInv
    /\ BehindInv /\ WorkInv /\ SilenceInv /\ ContextInv

-----------------------------------------------------------------------------
(* What SequencesExt's RemoveFirst leaves. *)

\* A set of positions that is not empty has a least one.
LEMMA LeastPosition ==
    ASSUME NEW I, I \subseteq Nat, I /= {}
    PROVE  Min(I) \in I
<1>1. PICK x \in I : \A y \in I : ~(<<y, x>> \in OpToRel(<, Nat))
  BY WFMin, NatLessThanWellFounded
<1>2. \A y \in I : x <= y
  <2> SUFFICES ASSUME NEW y \in I, y < x PROVE FALSE
    OBVIOUS
  <2> QED BY <1>1 DEF OpToRel
<1> QED BY <1>2 DEF Min

\* select_project takes out one context and keeps every other.
LEMMA RemoveFirstKeeps ==
    ASSUME NEW S, NEW s \in Seq(S), NEW e
    PROVE  /\ RemoveFirst(s, e) \in Seq(S)
           /\ Len(RemoveFirst(s, e)) <= Len(s)
           /\ \A i \in DOMAIN s : s[i] /= e =>
                  \E j \in DOMAIN RemoveFirst(s, e) : RemoveFirst(s, e)[j] = s[i]
<1>1. CASE ~\E i \in 1..Len(s) : s[i] = e
  BY <1>1 DEF RemoveFirst
<1>2. CASE \E i \in 1..Len(s) : s[i] = e
  <2> DEFINE I == {i \in 1..Len(s) : s[i] = e}
  <2>1. I \subseteq Nat /\ I /= {}
    BY <1>2
  <2>2. RemoveFirst(s, e) = RemoveAt(s, Min(I))
    BY <1>2, <2>1 DEF RemoveFirst, SelectInSeq
  <2>3. PICK m \in 1..Len(s) : m = Min(I) /\ s[m] = e
    <3> HIDE DEF I
    <3>1. Min(I) \in I
      BY <2>1, LeastPosition
    <3> QED BY <3>1 DEF I
  <2> HIDE DEF I
  <2>4. PICK a : a = SubSeq(s, 1, m - 1)
    OBVIOUS
  <2>5. PICK b : b = SubSeq(s, m + 1, Len(s))
    OBVIOUS
  <2>6. /\ a \in Seq(S) /\ Len(a) = m - 1
        /\ \A j \in 1..(m - 1) : a[j] = s[j]
    BY <2>4
  <2>7. /\ b \in Seq(S) /\ Len(b) = Len(s) - m
        /\ \A j \in 1..(Len(s) - m) : b[j] = s[m + j]
    BY <2>5
  <2>8. PICK t : t = a \o b
    OBVIOUS
  <2>9. /\ t \in Seq(S) /\ Len(t) = Len(s) - 1
        /\ \A j \in 1..(Len(s) - 1) : t[j] = IF j < m THEN a[j] ELSE b[j - (m - 1)]
    BY <2>6, <2>7, <2>8
  <2>10. ASSUME NEW i \in DOMAIN s, s[i] /= e
         PROVE  \E j \in DOMAIN t : t[j] = s[i]
    <3>1. DOMAIN s = 1..Len(s) /\ DOMAIN t = 1..Len(t)
      BY <2>9
    <3>2. CASE i < m
      <4>1. i \in 1..(Len(s) - 1) /\ i \in 1..(m - 1)
        BY <3>1, <3>2
      <4> QED BY <3>1, <3>2, <4>1, <2>6, <2>9
    <3>3. CASE i > m
      <4>1. /\ i - 1 \in 1..(Len(s) - 1) /\ ~(i - 1 < m)
            /\ (i - 1) - (m - 1) \in 1..(Len(s) - m)
            /\ m + ((i - 1) - (m - 1)) = i
        <5>1. i \in Int /\ m \in Int /\ Len(s) \in Int /\ 1 <= m /\ m < i /\ i <= Len(s)
          BY <3>1, <3>3, <2>3
        <5>2. (i - 1) - (m - 1) = i - m /\ m + (i - m) = i
          BY <5>1
        <5>3. i - m \in 1..(Len(s) - m)
          BY <5>1
        <5>4. i - 1 \in 1..(Len(s) - 1) /\ ~(i - 1 < m)
          BY <5>1
        <5> QED BY <5>2, <5>3, <5>4
      <4>2. t[i - 1] = b[(i - 1) - (m - 1)]
        BY <4>1, <2>9
      <4>3. b[(i - 1) - (m - 1)] = s[i]
        BY <4>1, <2>7
      <4>4. i - 1 \in DOMAIN t
        BY <3>1, <4>1, <2>9
      <4> QED BY <4>2, <4>3, <4>4
    <3> QED BY <3>1, <3>2, <3>3, <2>3, <2>10
  <2>11. RemoveFirst(s, e) = t
    BY <2>2, <2>3, <2>4, <2>5, <2>8 DEF RemoveAt
  <2> QED BY <2>9, <2>10, <2>11
<1> QED BY <1>1, <1>2

\* A queue with one more at its end, and one without its first.
LEMMA Appended ==
    ASSUME NEW S, NEW s \in Seq(S), NEW e \in S
    PROVE  /\ Append(s, e) \in Seq(S) /\ Len(s) \in Nat
           /\ Len(Append(s, e)) = Len(s) + 1
           /\ DOMAIN s = 1..Len(s) /\ DOMAIN Append(s, e) = 1..(Len(s) + 1)
           /\ \A i \in DOMAIN s : Append(s, e)[i] = s[i] /\ s[i] \in S
           /\ Append(s, e)[Len(s) + 1] = e
  BY AppendProperties

LEMMA Shortened ==
    ASSUME NEW S, NEW s \in Seq(S), s /= <<>>
    PROVE  /\ Tail(s) \in Seq(S) /\ Len(s) \in Nat \ {0}
           /\ Len(Tail(s)) = Len(s) - 1
           /\ DOMAIN s = 1..Len(s) /\ DOMAIN Tail(s) = 1..(Len(s) - 1)
           /\ \A i \in DOMAIN Tail(s) : i + 1 \in DOMAIN s /\ Tail(s)[i] = s[i + 1]
           /\ \A i \in DOMAIN s : s[i] \in S
           /\ 1 \in DOMAIN s /\ Head(s) = s[1]
<1>1. Len(s) \in Nat \ {0} /\ DOMAIN s = 1..Len(s) /\ \A i \in DOMAIN s : s[i] \in S
  BY EmptySeq
<1>2. /\ Tail(s) \in Seq(S) /\ Len(Tail(s)) = Len(s) - 1 /\ Head(s) = s[1]
      /\ \A i \in 1..(Len(s) - 1) : Tail(s)[i] = s[i + 1]
  BY <1>1, HeadTailProperties
<1>3. DOMAIN Tail(s) = 1..(Len(s) - 1)
  BY <1>2
<1> QED BY <1>1, <1>2, <1>3

\* A list with one more at its front.
LEMMA Prepended ==
    ASSUME NEW S, NEW s \in Seq(S), NEW e \in S
    PROVE  /\ <<e>> \o s \in Seq(S) /\ Len(s) \in Nat
           /\ Len(<<e>> \o s) = Len(s) + 1
           /\ DOMAIN (<<e>> \o s) = 1..(Len(s) + 1)
           /\ (<<e>> \o s)[1] = e
           /\ \A j \in 1..Len(s) : (<<e>> \o s)[j + 1] = s[j]
<1>1. PICK one : one = <<e>>
  OBVIOUS
<1>2. one \in Seq(S) /\ Len(one) = 1 /\ one[1] = e
  BY <1>1
<1>3. PICK t : t = one \o s
  OBVIOUS
<1>4. /\ t \in Seq(S) /\ Len(t) = Len(one) + Len(s) /\ Len(s) \in Nat
      /\ \A i \in 1..(Len(one) + Len(s)) :
             t[i] = IF i <= Len(one) THEN one[i] ELSE s[i - Len(one)]
  <2>1. one \in Seq(S) /\ s \in Seq(S)
    BY <1>2
  <2>2. /\ one \o s \in Seq(S) /\ Len(one \o s) = Len(one) + Len(s)
        /\ \A i \in 1..(Len(one) + Len(s)) :
               (one \o s)[i] = IF i <= Len(one) THEN one[i] ELSE s[i - Len(one)]
    BY <2>1, ConcatProperties, Zenon
  <2>3. Len(s) \in Nat
    OBVIOUS
  <2> QED BY <1>3, <2>2, <2>3
<1>5. t[1] = e
  BY <1>2, <1>4
<1>6. ASSUME NEW j \in 1..Len(s) PROVE t[j + 1] = s[j]
  <2>1. j + 1 \in 1..(Len(one) + Len(s)) /\ ~(j + 1 <= Len(one)) /\ (j + 1) - Len(one) = j
    BY <1>2, <1>4, <1>6
  <2> QED BY <1>4, <2>1
<1>7. Len(t) = Len(s) + 1 /\ DOMAIN t = 1..(Len(s) + 1)
  BY <1>2, <1>4
<1> QED BY <1>1, <1>3, <1>4, <1>5, <1>6, <1>7

\* The fields of the records the queues hold.
LEMMA Fields ==
    /\ \A x \in Frame : x.kind \in AllKinds
    /\ \A x \in Piece : x.n \in Nat \ {0} /\ x.part \in {"whole", "head", "tail"}
    /\ \A x \in Work : x.n \in Nat \ {0} /\ x.kind \in AllKinds /\ x.cancelled \in BOOLEAN
    /\ \A x \in Response : x.n \in Nat \ {0} /\ x.kind \in AllKinds
    /\ \A x \in Request :
          x.n \in Nat /\ x.kind \in AllKinds /\ x.cancelled \in BOOLEAN /\ x.step \in Steps
  BY DEF Frame, Piece, Work, Response, Request

-----------------------------------------------------------------------------
(* The steps, in the terms of the invariant. *)

\* A cancellation changes only flags: it sets them on the work that has its
\* target's number and kind.
Flagged(id) ==
    /\ queued' \in Seq(Work) /\ Len(queued') = Len(queued)
    /\ \A j \in DOMAIN queued :
        /\ queued'[j].n = queued[j].n /\ queued'[j].kind = queued[j].kind
        /\ queued'[j].cancelled = (queued[j].cancelled \/ Named(queued[j], id))
    /\ active' \in Request
    /\ active'.n = active.n /\ active'.kind = active.kind /\ active'.step = active.step
    /\ active'.cancelled = (active.cancelled \/ Named(active, id))
    /\ silenced \subseteq silenced' /\ silenced' \subseteq silenced \cup {id}
    /\ id \in silenced' \ silenced =>
           (\E j \in DOMAIN queued : Named(queued[j], id)) \/ Named(active, id)
    /\ (\E j \in DOMAIN queued : Named(queued[j], id)) \/ Named(active, id) => id \in silenced'

\* Frame n joins the queue as one more piece of work.
Joined(n, kind) ==
    /\ queued' = Append(queued, [n |-> n, kind |-> kind, cancelled |-> FALSE])
    /\ UNCHANGED <<active, silenced>>

\* queue_stdio_frame flags, queues, or does nothing.
LEMMA QueueFrameDoes ==
    ASSUME TypeOK, NEW n \in Nat \ {0}, NEW kind \in AllKinds, QueueFrame(n, kind)
    PROVE  \/ kind = "cancel" /\ Flagged(sent[n].of)
           \/ kind = "blank" /\ UNCHANGED <<queued, active, silenced>>
           \/ kind \notin {"cancel", "blank"} /\ Joined(n, kind)
<1>1. CASE kind = "cancel"
  <2>1. PICK id : id = sent[n].of
    OBVIOUS
  <2>2. PICK hit : hit = {i \in DOMAIN queued : Named(queued[i], id)}
    OBVIOUS
  <2>3. /\ queued' = [i \in DOMAIN queued |->
                         [queued[i] EXCEPT !.cancelled = @ \/ i \in hit]]
        /\ active' = [active EXCEPT !.cancelled = @ \/ Named(active, id)]
        /\ silenced' = silenced \cup
               (IF hit /= {} \/ Named(active, id) THEN {id} ELSE {})
    BY <1>1, <2>1, <2>2 DEF QueueFrame
  <2>4. queued \in Seq(Work) /\ active \in Request
    BY DEF TypeOK
  <2>5. queued' \in Seq(Work) /\ Len(queued') = Len(queued) /\ DOMAIN queued' = DOMAIN queued
    <3>1. DOMAIN queued = 1..Len(queued) /\ Len(queued) \in Nat
      BY <2>4
    <3>2. \A i \in DOMAIN queued : queued[i] \in Work
      BY <2>4
    <3>3. \A i \in DOMAIN queued :
              [queued[i] EXCEPT !.cancelled = @ \/ i \in hit] \in Work
      BY <3>2 DEF Work
    <3>4. queued' \in [1..Len(queued) -> Work]
      BY <3>1, <3>3, <2>3
    <3>5. queued' \in Seq(Work)
      BY <3>1, <3>4
    <3> QED BY <3>1, <3>4, <3>5
  <2>6. ASSUME NEW j \in DOMAIN queued
        PROVE  /\ queued'[j].n = queued[j].n /\ queued'[j].kind = queued[j].kind
               /\ queued'[j].cancelled = (queued[j].cancelled \/ Named(queued[j], id))
    <3>1. queued[j] \in Work
      BY <2>4
    <3>2. queued'[j] = [queued[j] EXCEPT !.cancelled = @ \/ j \in hit]
      BY <2>3
    <3>3. j \in hit <=> Named(queued[j], id)
      BY <2>2
    <3>4. /\ queued'[j].n = queued[j].n /\ queued'[j].kind = queued[j].kind
          /\ queued'[j].cancelled = (queued[j].cancelled \/ j \in hit)
      BY <3>1, <3>2 DEF Work
    <3> QED BY <3>3, <3>4
  <2>7. /\ active' \in Request
        /\ active'.n = active.n /\ active'.kind = active.kind /\ active'.step = active.step
        /\ active'.cancelled = (active.cancelled \/ Named(active, id))
    BY <2>3, <2>4 DEF Request, Named
  <2>8. /\ silenced \subseteq silenced' /\ silenced' \subseteq silenced \cup {id}
        /\ id \in silenced' \ silenced =>
               (\E j \in DOMAIN queued : Named(queued[j], id)) \/ Named(active, id)
        /\ (\E j \in DOMAIN queued : Named(queued[j], id)) \/ Named(active, id) =>
               id \in silenced'
    BY <2>2, <2>3
  <2>9. Flagged(id)
    BY <2>5, <2>6, <2>7, <2>8 DEF Flagged
  <2> QED BY <1>1, <2>1, <2>9
<1>2. CASE kind = "blank"
  BY <1>2 DEF QueueFrame
<1>3. CASE kind \notin {"cancel", "blank"}
  BY <1>3 DEF QueueFrame, Joined
<1> QED BY <1>1, <1>2, <1>3

\* The loop has read frame n to its end and takes it to be of a kind.
Takes(n, kind) ==
    /\ n \in DOMAIN sent /\ kind \in AllKinds
    /\ kind \in Whole \cup {"cancel"} => sent[n].kind = kind
    /\ QueueFrame(n, kind)

\* What the steps do to the host's side and the read in progress: the pipe
\* stays in order, frames stay behind, and a frame that was read to its end
\* becomes the last one behind.
LEMMA PipeWrite ==
    ASSUME StdioInv, NEW kind \in Kinds, NEW piece \in Pieces, Write(kind, piece)
    PROVE  /\ sent' \in Seq(Frame) /\ Len(sent') = Len(sent) + 1 /\ Len(sent') <= MaxFrames
           /\ \A n \in DOMAIN sent : sent'[n] = sent[n]
           /\ pipe' \in Seq(Piece) /\ host' \in Hosts
           /\ SentInv' /\ PipeInv'
           /\ \A m \in Nat : Behind(m) => Behind(m)'
<1>1. PICK of \in About(kind) : sent' = Append(sent, [kind |-> kind, of |-> of])
  BY DEF Write
<1>2. /\ sent \in Seq(Frame) /\ pipe \in Seq(Piece) /\ Len(sent) \in Nat /\ line \in Nat
      /\ Len(sent) < MaxFrames /\ MaxFrames \in Nat
      /\ host = "ready" /\ line' = line /\ line <= Len(sent)
  BY StdioAssumption DEF StdioInv, TypeOK, Write, loopVars
<1>3. /\ kind \in AllKinds /\ of \in Projects \cup {None} \cup Nat
      /\ kind = "tool" => of \in Projects
      /\ kind = "cancel" => of \in DOMAIN sent
  BY <1>2, StdioAssumption DEF About
<1>4. /\ sent' \in Seq(Frame) /\ Len(sent') = Len(sent) + 1
      /\ \A n \in DOMAIN sent : n \in DOMAIN sent' /\ sent'[n] = sent[n]
      /\ sent'[Len(sent) + 1] = [kind |-> kind, of |-> of]
      /\ DOMAIN sent = 1..Len(sent) /\ DOMAIN sent' = 1..(Len(sent) + 1)
  BY <1>1, <1>2, <1>3 DEF Frame
<1>5. SentInv'
  <2> SUFFICES ASSUME NEW n \in DOMAIN sent'
               PROVE  /\ sent'[n].kind = "tool" => sent'[n].of \in Projects
                      /\ sent'[n].kind = "cancel" => sent'[n].of \in DOMAIN sent'
    BY DEF SentInv
  <2>1. CASE n \in DOMAIN sent
    BY <2>1, <1>4 DEF StdioInv, SentInv
  <2>2. CASE n = Len(sent) + 1
    BY <2>2, <1>3, <1>4
  <2> QED BY <2>1, <2>2, <1>2, <1>4
<1>6. PICK part \in {"whole", "head"} :
        /\ pipe' = Append(pipe, [n |-> Len(sent'), part |-> part])
        /\ host' \in {"ready", "midway"}
        /\ host' = "midway" => part = "head"
  BY <1>2 DEF Write
<1>7. /\ pipe' \in Seq(Piece) /\ Len(pipe') = Len(pipe) + 1
      /\ \A k \in DOMAIN pipe : pipe'[k] = pipe[k]
      /\ pipe'[Len(pipe) + 1].n = Len(sent) + 1 /\ pipe'[Len(pipe) + 1].part = part
      /\ DOMAIN pipe = 1..Len(pipe) /\ DOMAIN pipe' = 1..(Len(pipe) + 1)
      /\ \A k \in DOMAIN pipe : pipe[k].n \in Nat
      /\ Len(pipe) \in Nat
  <2>1. [n |-> Len(sent'), part |-> part] \in Piece
    BY <1>2, <1>4 DEF Piece
  <2> QED BY <2>1, <1>2, <1>4, <1>6, Appended, Fields
<1>8. PipeInv'
  BY <1>2, <1>4, <1>6, <1>7 DEF StdioInv, PipeInv
<1>9. ASSUME NEW m \in Nat, Behind(m) PROVE Behind(m)'
  BY <1>2, <1>4, <1>6, <1>7, <1>9 DEF Behind
<1> QED BY <1>2, <1>4, <1>5, <1>6, <1>7, <1>8, <1>9
        DEF Hosts

LEMMA PipeWriteRest ==
    ASSUME StdioInv, WriteRest
    PROVE  /\ pipe' \in Seq(Piece) /\ PipeInv'
           /\ \A m \in Nat : Behind(m) => Behind(m)'
<1>1. /\ sent \in Seq(Frame) /\ pipe \in Seq(Piece) /\ Len(sent) \in Nat /\ line \in Nat
      /\ sent' = sent /\ line' = line /\ line <= Len(sent)
      /\ host = "midway" /\ host' = "ready"
      /\ pipe' = Append(pipe, [n |-> Len(sent), part |-> "tail"])
  BY DEF StdioInv, TypeOK, WriteRest, loopVars
<1>2. Len(sent) > 0
  BY <1>1 DEF StdioInv, PipeInv
<1>3. /\ pipe' \in Seq(Piece) /\ Len(pipe') = Len(pipe) + 1
      /\ \A k \in DOMAIN pipe : pipe'[k] = pipe[k]
      /\ pipe'[Len(pipe) + 1].n = Len(sent) /\ pipe'[Len(pipe) + 1].part = "tail"
      /\ DOMAIN pipe = 1..Len(pipe) /\ DOMAIN pipe' = 1..(Len(pipe) + 1)
      /\ \A k \in DOMAIN pipe : pipe[k].n \in Nat
      /\ Len(pipe) \in Nat
  <2>1. [n |-> Len(sent), part |-> "tail"] \in Piece
    BY <1>1, <1>2 DEF Piece
  <2> QED BY <2>1, <1>1, Appended, Fields
<1>4. PipeInv'
  BY <1>1, <1>3 DEF StdioInv, PipeInv
<1>5. ASSUME NEW m \in Nat, Behind(m) PROVE Behind(m)'
  BY <1>1, <1>3, <1>5 DEF Behind
<1> QED BY <1>3, <1>4, <1>5

\* The first piece is read, and the read in progress holds at most its frame.
LEMMA PipeShortened ==
    ASSUME StdioInv, pipe /= <<>>, pipe' = Tail(pipe),
           UNCHANGED <<sent, host>>, line' \in {0, Head(pipe).n}
    PROVE  PipeInv'
<1>1. /\ \A k \in DOMAIN pipe' : k + 1 \in DOMAIN pipe /\ pipe'[k] = pipe[k + 1]
      /\ 1 \in DOMAIN pipe /\ line' \in {0, pipe[1].n}
      /\ \A k \in DOMAIN pipe : pipe[k].n \in Nat \ {0} /\ k \in Nat \ {0}
      /\ \A k \in DOMAIN pipe' : k \in Nat \ {0}
  BY Shortened, Fields DEF StdioInv, TypeOK
<1>2. ASSUME NEW k \in DOMAIN pipe'
      PROVE  /\ pipe'[k].n <= Len(sent) /\ line' <= pipe'[k].n
             /\ host = "midway" /\ pipe'[k].n = Len(sent) => pipe'[k].part = "head"
  <2>1. k + 1 \in DOMAIN pipe /\ pipe'[k] = pipe[k + 1] /\ 1 < k + 1
    BY <1>1, <1>2
  <2>2. pipe[1].n <= pipe[k + 1].n
    BY <1>1, <2>1 DEF StdioInv, PipeInv
  <2>3. 0 <= pipe[k + 1].n
    BY <1>1, <2>1
  <2>4. line' <= pipe[k + 1].n
    BY <1>1, <2>2, <2>3
  <2> QED BY <2>1, <2>4 DEF StdioInv, PipeInv
<1>3. ASSUME NEW k \in DOMAIN pipe', NEW l \in DOMAIN pipe', k < l
      PROVE  /\ pipe'[k].n <= pipe'[l].n
             /\ pipe'[k].n = pipe'[l].n => pipe'[k].part = "head"
  <2>1. /\ k + 1 \in DOMAIN pipe /\ pipe'[k] = pipe[k + 1]
        /\ l + 1 \in DOMAIN pipe /\ pipe'[l] = pipe[l + 1] /\ k + 1 < l + 1
    BY <1>1, <1>3
  <2> QED BY <2>1 DEF StdioInv, PipeInv
<1> QED BY <1>2, <1>3 DEF StdioInv, PipeInv

LEMMA PipeReadHead ==
    ASSUME StdioInv, ReadHead
    PROVE  /\ pipe' \in Seq(Piece) /\ line' \in 0..Len(sent) /\ PipeInv'
           /\ \A m \in Nat : Behind(m) => Behind(m)'
<1>1. /\ sent \in Seq(Frame) /\ pipe \in Seq(Piece) /\ Len(sent) \in Nat /\ line \in Nat
      /\ sent' = sent /\ host' = host
      /\ pipe /= <<>> /\ pipe' = Tail(pipe) /\ line' = Head(pipe).n
  BY DEF StdioInv, TypeOK, ReadHead, hostVars
<1>2. /\ pipe' \in Seq(Piece) /\ Len(pipe') = Len(pipe) - 1
      /\ \A k \in DOMAIN pipe' : k + 1 \in DOMAIN pipe /\ pipe'[k] = pipe[k + 1]
      /\ DOMAIN pipe = 1..Len(pipe) /\ DOMAIN pipe' = 1..(Len(pipe) - 1)
      /\ 1 \in DOMAIN pipe /\ line' = pipe[1].n
      /\ \A k \in DOMAIN pipe : pipe[k].n \in Nat \ {0}
      /\ Len(pipe) \in Nat
  BY <1>1, Shortened, Fields
<1>3. PipeInv' /\ line' <= Len(sent)
  BY <1>1, <1>2, PipeShortened DEF StdioInv, PipeInv
<1>4. ASSUME NEW m \in Nat, Behind(m) PROVE Behind(m)'
  BY <1>1, <1>2, <1>4 DEF Behind
<1> QED BY <1>1, <1>2, <1>3, <1>4

LEMMA PipeReadFrame ==
    ASSUME StdioInv, ReadFrame
    PROVE  /\ pipe' \in Seq(Piece) /\ PipeInv'
           /\ \A m \in Nat : Behind(m) => Behind(m)'
           /\ \E n \in Nat \ {0}, kind \in AllKinds :
                 /\ Takes(n, kind) /\ Behind(n)'
                 /\ \A m \in Nat : Behind(m) => m < n
<1>1. /\ sent \in Seq(Frame) /\ pipe \in Seq(Piece) /\ Len(sent) \in Nat /\ line \in Nat
      /\ sent' = sent /\ host' = host
      /\ pipe /= <<>> /\ pipe' = Tail(pipe) /\ line' = 0
      /\ Head(pipe).part /= "head"
  BY DEF StdioInv, TypeOK, ReadFrame, hostVars
<1>2. PICK n : n = Head(pipe).n
  OBVIOUS
<1>3. /\ pipe' \in Seq(Piece) /\ Len(pipe') = Len(pipe) - 1
      /\ \A k \in DOMAIN pipe' : k + 1 \in DOMAIN pipe /\ pipe'[k] = pipe[k + 1]
      /\ DOMAIN pipe = 1..Len(pipe) /\ DOMAIN pipe' = 1..(Len(pipe) - 1)
      /\ 1 \in DOMAIN pipe /\ n = pipe[1].n /\ n \in Nat \ {0}
      /\ pipe[1].part /= "head"
      /\ \A k \in DOMAIN pipe : pipe[k].n \in Nat \ {0}
      /\ Len(pipe) \in Nat
  BY <1>1, <1>2, Shortened, Fields
<1>4. PipeInv'
  BY <1>1, PipeShortened
<1>5. ASSUME NEW m \in Nat, Behind(m) PROVE Behind(m)' /\ m < n
  BY <1>1, <1>3, <1>5 DEF Behind
<1>6. Behind(n)'
  <2>1. n <= Len(sent) /\ (host = "midway" => n < Len(sent))
    BY <1>1, <1>3 DEF StdioInv, PipeInv
  <2>2. ASSUME NEW k \in DOMAIN pipe' PROVE n < pipe'[k].n
    <3>1. 1 \in DOMAIN pipe /\ k + 1 \in DOMAIN pipe /\ 1 < k + 1 /\ pipe'[k] = pipe[k + 1]
      BY <1>3, <2>2
    <3> QED BY <3>1, <1>3 DEF StdioInv, PipeInv
  <2> QED BY <1>1, <2>1, <2>2 DEF Behind
<1>7. n \in DOMAIN sent /\ sent[n].kind \in AllKinds
  <2>1. n <= Len(sent)
    BY <1>1, <1>3 DEF StdioInv, PipeInv
  <2>2. n \in DOMAIN sent
    BY <2>1, <1>1, <1>3
  <2> QED BY <2>2, <1>1, Fields
<1>8. \E kind \in AllKinds :
        (kind \in Whole \cup {"cancel"} => sent[n].kind = kind) /\ QueueFrame(n, kind)
  <2>1. CASE QueueFrame(n, sent[n].kind)
    BY <2>1, <1>7
  <2>2. CASE \E kind \in TornReadings(n) : QueueFrame(n, kind)
    BY <2>2, <1>7 DEF TornReadings, AllKinds, Whole
  <2> QED BY <2>1, <2>2, <1>2 DEF ReadFrame
<1> QED BY <1>3, <1>4, <1>5, <1>6, <1>7, <1>8 DEF Takes

LEMMA PipeReadEnd ==
    ASSUME StdioInv, ReadEnd
    PROVE  /\ PipeInv'
           /\ \A m \in Nat : Behind(m) => Behind(m)'
           /\ \/ UNCHANGED <<queued, active, silenced>>
              \/ \E n \in Nat \ {0}, kind \in AllKinds :
                    /\ Takes(n, kind) /\ Behind(n)'
                    /\ \A m \in Nat : Behind(m) => m < n
<1>1. /\ sent \in Seq(Frame) /\ Len(sent) \in Nat /\ line \in 0..Len(sent)
      /\ sent' = sent /\ host' = host /\ Closed
      /\ pipe = <<>> /\ pipe' = pipe /\ line' \in {line, 0}
  BY DEF StdioInv, TypeOK, ReadEnd, hostVars
<1>2. PipeInv'
  BY <1>1 DEF StdioInv, PipeInv
<1>3. \A m \in Nat : Behind(m) => Behind(m)'
  BY <1>1 DEF Behind
<1>4. CASE line /= 0
  <2>1. PICK kind \in CutReadings(line) : QueueFrame(line, kind) /\ line' = 0
    BY <1>4 DEF ReadEnd
  <2>2. line \in DOMAIN sent
    BY <1>1, <1>4
  <2>3. sent[line].kind \in AllKinds
    BY <1>1, <2>2, Fields
  <2>4. kind \in AllKinds /\ (kind # "bad" => sent[line].kind = kind)
    BY <2>1, <2>3 DEF CutReadings, AllKinds
  <2>5. Takes(line, kind)
    BY <2>1, <2>2, <2>4 DEF Takes, Whole
  <2>6. \A n \in Nat : n = line => Behind(n)'
    BY <1>1, <2>1 DEF Behind, Closed
  <2>7. \A m \in Nat : Behind(m) => m < line
    BY <1>4 DEF Behind
  <2>8. PICK n \in Nat \ {0} : n = line
    BY <1>1, <1>4
  <2> QED BY <1>2, <1>3, <2>5, <2>6, <2>7, <2>8, <2>4
<1>5. CASE line = 0
  BY <1>2, <1>3, <1>5 DEF ReadEnd
<1> QED BY <1>4, <1>5

\* The other steps leave stdin alone, and at most drop the read in progress.
LEMMA PipeAlone ==
    ASSUME StdioInv, UNCHANGED <<sent, host, pipe>>, line' \in {0, line}
    PROVE  /\ SentInv' /\ PipeInv' /\ pipe' \in Seq(Piece) /\ line' \in 0..Len(sent)
           /\ \A m \in Nat : Behind(m) => Behind(m)'
<1>1. /\ Len(sent) \in Nat /\ line \in 0..Len(sent) /\ pipe \in Seq(Piece)
      /\ \A k \in DOMAIN pipe : pipe[k].n \in Nat
  BY Fields DEF StdioInv, TypeOK
<1>2. SentInv'
  BY DEF StdioInv, SentInv
<1>3. PipeInv'
  BY <1>1 DEF StdioInv, PipeInv
<1>4. \A m \in Nat : Behind(m) => Behind(m)'
  BY <1>1 DEF Behind
<1> QED BY <1>1, <1>2, <1>3, <1>4

\* What a step does to the work, from the queue to the answers.
Rests ==
    /\ UNCHANGED <<queued, written, silenced>>
    /\ active' \in Request
    /\ active'.n = active.n /\ active'.kind = active.kind
    /\ active'.cancelled = active.cancelled

Cancels ==
    /\ \E id \in DOMAIN sent : Flagged(id)
    /\ UNCHANGED <<sent, written>>

Joins ==
    \E n \in DOMAIN sent, kind \in AllKinds :
        /\ Joined(n, kind)
        /\ kind \in Whole => sent[n].kind = kind
        /\ Behind(n)' /\ \A m \in Nat : Behind(m) => m < n
        /\ UNCHANGED <<sent, written>>

Leaves ==
    /\ Idle /\ queued /= <<>> /\ queued' = Tail(queued)
    /\ \/ Head(queued).cancelled /\ written' = written
       \/ /\ Head(queued).kind = "oversized"
          /\ written' = Append(written, [n |-> Head(queued).n, kind |-> "oversized"])
    /\ UNCHANGED <<sent, active, silenced>>

Starts ==
    /\ Idle /\ queued /= <<>> /\ queued' = Tail(queued)
    /\ Head(queued).kind /= "oversized" /\ ~Head(queued).cancelled
    /\ active' = [n |-> Head(queued).n, kind |-> Head(queued).kind,
                  cancelled |-> FALSE, step |-> "handle"]
    /\ UNCHANGED <<sent, written, silenced>>

Completes ==
    /\ ~Idle /\ active' = NoRequest
    /\ \/ (active.cancelled \/ active.kind = "notification") /\ written' = written
       \/ /\ ~active.cancelled
          /\ written' = Append(written, [n |-> active.n, kind |-> active.kind])
    /\ UNCHANGED <<sent, queued, silenced>>

Moves == Rests \/ Cancels \/ Joins \/ Leaves \/ Starts \/ Completes

\* The two steps that read a frame to its end.
LEMMA TakesMoves ==
    ASSUME StdioInv, NEW n \in Nat \ {0}, NEW kind \in AllKinds,
           Takes(n, kind), Behind(n)', \A m \in Nat : Behind(m) => m < n,
           UNCHANGED <<sent, written>>
    PROVE  Moves
<1>1. /\ TypeOK /\ n \in DOMAIN sent /\ QueueFrame(n, kind) /\ active \in Request
      /\ kind \in Whole \cup {"cancel"} => sent[n].kind = kind
  BY DEF StdioInv, Takes, TypeOK
<1>2. CASE kind = "cancel" /\ Flagged(sent[n].of)
  <2>1. sent[n].of \in DOMAIN sent
    BY <1>1, <1>2 DEF StdioInv, SentInv
  <2> QED BY <1>2, <2>1 DEF Moves, Cancels
<1>3. CASE kind = "blank" /\ UNCHANGED <<queued, active, silenced>>
  BY <1>1, <1>3 DEF Moves, Rests
<1>4. CASE kind \notin {"cancel", "blank"} /\ Joined(n, kind)
  <2>1. Joins
    BY <1>1, <1>4 DEF Joins
  <2> QED BY <2>1 DEF Moves
<1> QED BY <1>1, <1>2, <1>3, <1>4, QueueFrameDoes

\* The side of stdin after a step.
Stdin ==
    /\ sent' \in Seq(Frame) /\ Len(sent') <= MaxFrames /\ Len(sent) <= Len(sent')
    /\ \A n \in DOMAIN sent : n \in DOMAIN sent' /\ sent'[n] = sent[n]
    /\ pipe' \in Seq(Piece) /\ line' \in 0..Len(sent') /\ host' \in Hosts
    /\ SentInv' /\ PipeInv'
    /\ \A m \in Nat : Behind(m) => Behind(m)'

LEMMA StdinAlone ==
    ASSUME StdioInv, UNCHANGED <<sent, host, pipe>>, line' \in {0, line}
    PROVE  Stdin
<1>1. /\ sent \in Seq(Frame) /\ Len(sent) <= MaxFrames /\ Len(sent) \in Nat
      /\ host \in Hosts
  BY DEF StdioInv, TypeOK
<1> QED BY <1>1, PipeAlone DEF Stdin

\* A step of the host or of the loop's reading.
LEMMA ReadingMoves ==
    ASSUME StdioInv,
           \/ \E kind \in Kinds, piece \in Pieces : Write(kind, piece)
           \/ WriteRest \/ CloseStdin \/ ReadFrame \/ ReadHead \/ ReadEnd
    PROVE  Stdin /\ Moves /\ active'.step = active.step
<1>1. /\ sent \in Seq(Frame) /\ Len(sent) <= MaxFrames /\ Len(sent) \in Nat
      /\ DOMAIN sent = 1..Len(sent) /\ MaxFrames \in Nat
      /\ line \in 0..Len(sent) /\ active \in Request /\ pipe \in Seq(Piece)
      /\ host \in Hosts /\ SentInv /\ TypeOK
  BY StdioAssumption DEF StdioInv, TypeOK
<1>2. ASSUME NEW kind \in Kinds, NEW piece \in Pieces, Write(kind, piece)
      PROVE  Stdin /\ Moves /\ active'.step = active.step
  <2>1. Rests /\ line' = line /\ active' = active
    BY <1>1, <1>2 DEF Rests, Write, loopVars
  <2>2. Stdin
    <3>1. /\ sent' \in Seq(Frame) /\ Len(sent') = Len(sent) + 1 /\ Len(sent') <= MaxFrames
          /\ \A n \in DOMAIN sent : sent'[n] = sent[n]
          /\ pipe' \in Seq(Piece) /\ host' \in Hosts
          /\ SentInv' /\ PipeInv'
      BY <1>2, PipeWrite
    <3>2. \A m \in Nat : Behind(m) => Behind(m)'
      BY <1>2, PipeWrite
    <3>3. DOMAIN sent' = 1..Len(sent')
      BY <3>1
    <3>4. /\ \A n \in DOMAIN sent : n \in DOMAIN sent' /\ sent'[n] = sent[n]
          /\ Len(sent) <= Len(sent') /\ line' \in 0..Len(sent')
      BY <1>1, <2>1, <3>1, <3>3
    <3> QED BY <3>1, <3>2, <3>4 DEF Stdin
  <2> QED BY <2>1, <2>2 DEF Moves
<1>3. CASE WriteRest
  <2>1. Rests /\ line' = line /\ sent' = sent /\ host' = "ready" /\ active' = active
    BY <1>1, <1>3 DEF Rests, WriteRest, loopVars
  <2>2. SentInv'
    BY <1>1, <2>1 DEF SentInv
  <2>3. Stdin
    BY <1>1, <1>3, <2>1, <2>2, PipeWriteRest DEF Stdin, Hosts
  <2> QED BY <2>1, <2>3 DEF Moves
<1>4. CASE CloseStdin
  <2>1. /\ Rests /\ line' = line /\ sent' = sent /\ pipe' = pipe /\ host' \in {"closed", "cut"}
        /\ active' = active
    BY <1>1, <1>4 DEF Rests, CloseStdin, loopVars
  <2>2. SentInv' /\ PipeInv'
    BY <1>1, <2>1 DEF SentInv, StdioInv, PipeInv
  <2>3. \A m \in Nat : Behind(m) => Behind(m)'
    BY <2>1 DEF Behind
  <2>4. Stdin
    BY <1>1, <2>1, <2>2, <2>3 DEF Stdin, Hosts
  <2> QED BY <2>1, <2>4 DEF Moves
<1>5. CASE ReadHead
  <2>1. Rests /\ sent' = sent /\ host' = host /\ active' = active
    BY <1>1, <1>5 DEF Rests, ReadHead, hostVars
  <2>2. SentInv'
    BY <1>1, <2>1 DEF SentInv
  <2>3. Stdin
    BY <1>1, <1>5, <2>1, <2>2, PipeReadHead DEF Stdin
  <2> QED BY <2>1, <2>3 DEF Moves
<1>6. ASSUME NEW n \in Nat \ {0}, NEW kind \in AllKinds, Takes(n, kind)
      PROVE  active'.step = active.step
  <2>1. QueueFrame(n, kind)
    BY <1>6 DEF Takes
  <2> QED BY <1>1, <2>1, QueueFrameDoes DEF Flagged, Joined
<1>7. CASE ReadFrame
  <2>1. sent' = sent /\ host' = host /\ written' = written /\ line' = 0
    BY <1>7 DEF ReadFrame, hostVars
  <2>2. SentInv'
    BY <1>1, <2>1 DEF SentInv
  <2>3. Stdin
    BY <1>1, <1>7, <2>1, <2>2, PipeReadFrame DEF Stdin
  <2>4. PICK n \in Nat \ {0}, kind \in AllKinds :
            /\ Takes(n, kind) /\ Behind(n)'
            /\ \A m \in Nat : Behind(m) => m < n
    BY <1>7, PipeReadFrame
  <2>5. Moves
    BY <2>1, <2>4, TakesMoves
  <2> QED BY <1>6, <2>3, <2>4, <2>5
<1>8. CASE ReadEnd
  <2>1. /\ sent' = sent /\ host' = host /\ pipe' = pipe /\ written' = written
        /\ line' \in {0, line}
    BY <1>8 DEF ReadEnd, hostVars
  <2>2. Stdin
    BY <2>1, StdinAlone
  <2>3. CASE UNCHANGED <<queued, active, silenced>>
    BY <1>1, <2>1, <2>2, <2>3 DEF Moves, Rests
  <2>4. CASE \E n \in Nat \ {0}, kind \in AllKinds :
                /\ Takes(n, kind) /\ Behind(n)'
                /\ \A m \in Nat : Behind(m) => m < n
    <3>1. PICK n \in Nat \ {0}, kind \in AllKinds :
              /\ Takes(n, kind) /\ Behind(n)'
              /\ \A m \in Nat : Behind(m) => m < n
      BY <2>4
    <3>2. Moves
      BY <2>1, <3>1, TakesMoves
    <3> QED BY <1>6, <2>2, <3>1, <3>2
  <2> QED BY <1>8, <2>3, <2>4, PipeReadEnd
<1> QED BY <1>2, <1>3, <1>4, <1>5, <1>7, <1>8

\* A step of the loop's queue and of the completion.
LEMMA QueueMoves ==
    ASSUME StdioInv,
           WriteQueuedError \/ SkipCancelled \/ StartRequest \/ CompleteRequest
    PROVE  Stdin /\ Moves
<1>1. UNCHANGED <<sent, host, pipe>> /\ line' \in {0, line}
  BY DEF WriteQueuedError, SkipCancelled, StartRequest, CompleteRequest, hostVars
<1>2. Stdin
  BY <1>1, StdinAlone
<1>3. CASE WriteQueuedError
  BY <1>2, <1>3 DEF WriteQueuedError, Respond, Moves, Leaves, hostVars
<1>4. CASE SkipCancelled
  BY <1>2, <1>4 DEF SkipCancelled, Moves, Leaves, hostVars
<1>5. CASE StartRequest
  BY <1>2, <1>5 DEF StartRequest, Moves, Starts, hostVars
<1>6. CASE CompleteRequest
  <2>1. ~Idle
    BY <1>6 DEF CompleteRequest, StdioInv, WorkInv
  <2>2. Completes
    BY <1>6, <2>1 DEF CompleteRequest, AnswerActive, Respond, Completes, hostVars
  <2> QED BY <1>2, <2>2 DEF Moves
<1> QED BY <1>3, <1>4, <1>5, <1>6

\* The steps of the end, of the task and of the activation threads.
Closing == JoinPanicked \/ StdioFails \/ EndOfInput \/ CloseContext

Running == Task \/ Panic \/ \E p \in Projects : ActivationEnds(p)

LEMMA StepOf ==
    ASSUME StdioInv, NEW step \in Steps, Step(step)
    PROVE  /\ active' \in Request /\ active'.step = step
           /\ active'.n = active.n /\ active'.kind = active.kind
           /\ active'.cancelled = active.cancelled
<1>1. active \in Request
  BY DEF StdioInv, TypeOK
<1> QED BY <1>1 DEF Step, Request

LEMMA OtherMoves ==
    ASSUME StdioInv, Closing \/ Running \/ UNCHANGED vars
    PROVE  Stdin /\ Moves
<1>1. active \in Request
  BY DEF StdioInv, TypeOK
<1>2. CASE Closing \/ UNCHANGED vars \/ \E p \in Projects : ActivationEnds(p)
  <2>1. UNCHANGED <<sent, host, pipe, queued, written, silenced, active>> /\ line' \in {0, line}
    BY <1>2 DEF Closing, JoinPanicked, StdioFails, EndOfInput, CloseContext, ActivationEnds,
                vars, hostVars, loopVars
  <2>2. Rests
    BY <1>1, <2>1 DEF Rests
  <2> QED BY <2>1, <2>2, StdinAlone DEF Moves
<1>3. CASE Task \/ Panic
  <2>1. /\ UNCHANGED <<sent, host, pipe, line, queued, written, silenced>>
        /\ \E step \in Steps : Step(step)
    BY <1>3 DEF Task, HandlePlain, ProjectRefused, SelectProject, Evicted, Activate, Waited, Panic,
                hostVars, loopVars, Steps
  <2>2. Rests
    BY <2>1, StepOf DEF Rests
  <2> QED BY <2>1, <2>2, StdinAlone DEF Moves
<1> QED BY <1>2, <1>3 DEF Running

\* Every step is one of the moves.
LEMMA StepMoves ==
    ASSUME StdioInv, [Next]_vars
    PROVE  Stdin /\ Moves
  BY ReadingMoves, QueueMoves, OtherMoves DEF Next, Loop, Join, Closing, Running
-----------------------------------------------------------------------------
(* The moves keep the order and the flags. *)

LEMMA WorkTypes ==
    ASSUME StdioInv
    PROVE  /\ queued \in Seq(Work) /\ written \in Seq(Response) /\ active \in Request
           /\ DOMAIN queued = 1..Len(queued) /\ Len(queued) \in Nat
           /\ DOMAIN written = 1..Len(written) /\ Len(written) \in Nat
           /\ \A j \in DOMAIN queued : queued[j].n \in Nat \ {0}
           /\ \A i \in DOMAIN written : written[i].n \in Nat \ {0}
           /\ active.n \in Nat
  BY Fields DEF StdioInv, TypeOK

\* The same work, under the same numbers, with the same answers written.
SameWork ==
    /\ written' = written
    /\ DOMAIN queued' = DOMAIN queued
    /\ \A j \in DOMAIN queued : queued'[j].n = queued[j].n /\ queued'[j].kind = queued[j].kind
    /\ active'.n = active.n /\ active'.kind = active.kind

LEMMA OrderKept ==
    ASSUME StdioInv, Stdin, SameWork
    PROVE  OrderInv' /\ \A n \in Nat : Taken(n)' => Taken(n)
  BY DEF StdioInv, OrderInv, AnswersInOrder, Idle, SameWork, Taken

\* Nothing or nothing but a flag changes.
LEMMA RestsKeeps ==
    ASSUME StdioInv, Stdin, Rests
    PROVE  OrderInv' /\ BehindInv' /\ SilenceInv' /\ SameWork
<1>1. SameWork
  BY DEF Rests, SameWork
<1>2. OrderInv' /\ \A n \in Nat : Taken(n)' => Taken(n)
  BY <1>1, OrderKept
<1>3. silenced' = silenced /\ queued' = queued
  BY DEF Rests
<1>4. BehindInv'
  BY <1>2, <1>3 DEF BehindInv, StdioInv, Stdin
<1>5. SilenceInv'
  BY <1>3 DEF StdioInv, SilenceInv, Rests
<1> QED BY <1>1, <1>2, <1>4, <1>5

LEMMA CancelsKeeps ==
    ASSUME StdioInv, Stdin, Cancels
    PROVE  /\ OrderInv' /\ BehindInv' /\ SilenceInv' /\ SameWork
           /\ queued' \in Seq(Work) /\ active' \in Request /\ silenced' \subseteq DOMAIN sent
<1>1. PICK id \in DOMAIN sent : Flagged(id)
  BY DEF Cancels
<1>2. id \in Nat \ {0} /\ silenced \subseteq DOMAIN sent
  BY DEF StdioInv, TypeOK
<1>3. /\ queued' \in Seq(Work) /\ active' \in Request
      /\ DOMAIN queued' = DOMAIN queued
  BY <1>1, WorkTypes DEF Flagged
<1>4. SameWork
  BY <1>1, <1>3 DEF Flagged, SameWork, Cancels
<1>5. OrderInv' /\ \A n \in Nat : Taken(n)' => Taken(n)
  BY <1>4, OrderKept
<1>6. ASSUME NEW n \in Nat, n \in silenced' PROVE Taken(n) \/ n \in silenced
  <2>1. n \in silenced \/ n = id
    BY <1>1, <1>6 DEF Flagged
  <2>2. n = id /\ n \notin silenced => Taken(n)
    BY <1>1, <1>2, <1>6 DEF Flagged, Taken, Named, Idle
  <2> QED BY <2>1, <2>2
<1>7. BehindInv'
  BY <1>5, <1>6 DEF BehindInv, StdioInv, Stdin
<1>8. ASSUME NEW n \in silenced'
      PROVE  /\ \A j \in DOMAIN queued' : queued'[j].n = n =>
                    queued'[j].cancelled /\ queued'[j].kind /= "oversized"
             /\ active'.n = n => active'.cancelled
  <2>1. CASE n \in silenced
    BY <2>1, <1>1, <1>3 DEF Flagged, StdioInv, SilenceInv
  <2>2. CASE n = id /\ n \notin silenced
    <3>1. (\E j \in DOMAIN queued : Named(queued[j], id)) \/ Named(active, id)
      BY <1>1, <1>8, <2>2 DEF Flagged
    <3>2. CASE \E j \in DOMAIN queued : Named(queued[j], id)
      <4>1. PICK j \in DOMAIN queued : Named(queued[j], id)
        BY <3>2
      <4>2. \A i \in DOMAIN queued : queued[i].n = id => i = j
        BY <4>1, WorkTypes DEF Named, StdioInv, OrderInv
      <4>3. active.n /= id
        BY <4>1, WorkTypes DEF Named, StdioInv, OrderInv
      <4> QED BY <4>1, <4>2, <4>3, <2>2, <1>1, <1>3 DEF Flagged, Named
    <3>3. CASE Named(active, id)
      <4>1. \A i \in DOMAIN queued : queued[i].n /= id
        BY <3>3, WorkTypes DEF Named, StdioInv, OrderInv
      <4> QED BY <4>1, <3>3, <2>2, <1>1, <1>3 DEF Flagged
    <3> QED BY <3>1, <3>2, <3>3
  <2> QED BY <2>1, <2>2, <1>1, <1>8 DEF Flagged
<1>9. SilenceInv'
  BY <1>8 DEF SilenceInv
<1>10. silenced' \subseteq DOMAIN sent
  BY <1>1, <1>2 DEF Flagged
<1> QED BY <1>3, <1>4, <1>5, <1>7, <1>9, <1>10

\* A frame that was read enters behind everything in the pipeline.
LEMMA JoinsKeeps ==
    ASSUME StdioInv, Stdin, Joins
    PROVE  /\ OrderInv' /\ BehindInv' /\ SilenceInv' /\ queued' \in Seq(Work)
           /\ \A j \in DOMAIN queued' :
                 queued'[j].kind \in Whole => sent[queued'[j].n].kind = queued'[j].kind
<1>1. PICK n \in DOMAIN sent, kind \in AllKinds :
        /\ Joined(n, kind)
        /\ kind \in Whole => sent[n].kind = kind
        /\ Behind(n)' /\ \A m \in Nat : Behind(m) => m < n
        /\ UNCHANGED <<sent, written>>
  BY DEF Joins
<1>2. n \in Nat \ {0}
  BY DEF StdioInv, TypeOK
<1>3. PICK work : work = [n |-> n, kind |-> kind, cancelled |-> FALSE]
  OBVIOUS
<1>4. work \in Work /\ work.n = n /\ work.kind = kind
  BY <1>2, <1>3 DEF Work
<1>5. /\ queued' = Append(queued, work) /\ active' = active /\ silenced' = silenced
      /\ written' = written
  BY <1>1, <1>3 DEF Joined
<1>6. /\ queued' \in Seq(Work) /\ DOMAIN queued' = 1..(Len(queued) + 1)
      /\ \A j \in DOMAIN queued : queued'[j] = queued[j]
      /\ queued'[Len(queued) + 1] = work
  BY <1>4, <1>5, WorkTypes, Appended
<1>7. \A m \in Nat : Taken(m) \/ m \in silenced => m < n
  BY <1>1 DEF StdioInv, BehindInv
<1>8. /\ \A i \in DOMAIN written : written[i].n < n
      /\ \A j \in DOMAIN queued : queued[j].n < n
      /\ active.n < n
      /\ \A m \in silenced : m < n
  <2>1. silenced \subseteq Nat
    BY DEF StdioInv, TypeOK
  <2> QED BY <2>1, <1>2, <1>7, WorkTypes DEF Taken, Idle
<1>9. OrderInv'
  BY <1>4, <1>5, <1>6, <1>8, WorkTypes DEF StdioInv, OrderInv, AnswersInOrder, Idle
<1>10. \A m \in Nat : Taken(m)' => Taken(m) \/ m = n
  BY <1>4, <1>5, <1>6, WorkTypes DEF Taken, Idle
<1>11. BehindInv'
  BY <1>1, <1>5, <1>10 DEF BehindInv, StdioInv, Stdin
<1>12. SilenceInv'
  BY <1>2, <1>4, <1>5, <1>6, <1>8, WorkTypes DEF StdioInv, SilenceInv
<1>13. \A j \in DOMAIN queued' :
           queued'[j].kind \in Whole => sent[queued'[j].n].kind = queued'[j].kind
  BY <1>1, <1>4, <1>6, WorkTypes DEF StdioInv, WorkInv
<1> QED BY <1>6, <1>9, <1>11, <1>12, <1>13

\* The facts about the queue's first and the rest that the next moves share.
LEMMA QueuePopped ==
    ASSUME StdioInv, queued /= <<>>, queued' = Tail(queued)
    PROVE  /\ queued' \in Seq(Work) /\ Head(queued) = queued[1] /\ 1 \in DOMAIN queued
           /\ queued[1].n \in Nat \ {0} /\ queued[1].kind \in AllKinds
           /\ \A j \in DOMAIN queued' :
                 /\ j \in Nat /\ j + 1 \in DOMAIN queued /\ queued'[j] = queued[j + 1]
                 /\ queued[1].n < queued'[j].n
                 /\ queued'[j].n \in Nat \ {0}
           /\ \A i, j \in DOMAIN queued' : i < j => queued'[i].n < queued'[j].n
<1>1. /\ queued' \in Seq(Work) /\ Head(queued) = queued[1] /\ 1 \in DOMAIN queued
      /\ DOMAIN queued' \subseteq Nat \ {0}
      /\ \A j \in DOMAIN queued' : j + 1 \in DOMAIN queued /\ queued'[j] = queued[j + 1]
      /\ \A j \in DOMAIN queued : queued[j] \in Work
  BY WorkTypes, Shortened
<1>2. queued[1].n \in Nat \ {0} /\ queued[1].kind \in AllKinds
  BY <1>1, Fields
<1>3. ASSUME NEW j \in DOMAIN queued'
      PROVE  queued[1].n < queued'[j].n /\ queued'[j].n \in Nat \ {0}
  <2>1. j + 1 \in DOMAIN queued /\ 1 < j + 1 /\ queued'[j] = queued[j + 1]
    BY <1>1, <1>3
  <2> QED BY <1>1, <2>1, WorkTypes DEF StdioInv, OrderInv
<1>4. ASSUME NEW i \in DOMAIN queued', NEW j \in DOMAIN queued', i < j
      PROVE  queued'[i].n < queued'[j].n
  <2>1. /\ i + 1 \in DOMAIN queued /\ j + 1 \in DOMAIN queued /\ i + 1 < j + 1
        /\ queued'[i] = queued[i + 1] /\ queued'[j] = queued[j + 1]
    BY <1>1, <1>4
  <2> QED BY <2>1 DEF StdioInv, OrderInv
<1> QED BY <1>1, <1>2, <1>3, <1>4

\* The queue's first leaves it, with an error response or silently.
LEMMA LeavesKeeps ==
    ASSUME StdioInv, Stdin, Leaves
    PROVE  /\ OrderInv' /\ BehindInv' /\ SilenceInv'
           /\ queued' \in Seq(Work) /\ written' \in Seq(Response)
<1>1. /\ queued /= <<>> /\ queued' = Tail(queued) /\ active' = active /\ silenced' = silenced
      /\ active.n = 0
  BY DEF Leaves, Idle
<1>2. \A j \in DOMAIN queued' :
          /\ j + 1 \in DOMAIN queued /\ queued'[j] = queued[j + 1]
          /\ queued[1].n < queued'[j].n /\ queued'[j].n \in Nat \ {0}
  BY <1>1, QueuePopped
<1>3. SilenceInv'
  BY <1>1, <1>2 DEF StdioInv, SilenceInv
<1>4. CASE written' = written
  <2>1. OrderInv'
    BY <1>1, <1>2, <1>4, QueuePopped DEF StdioInv, OrderInv, AnswersInOrder, Idle
  <2>2. \A n \in Nat : Taken(n)' => Taken(n)
    BY <1>1, <1>2, <1>4 DEF Taken, Idle
  <2>3. BehindInv'
    BY <1>1, <2>2 DEF BehindInv, StdioInv, Stdin
  <2> QED BY <1>1, <1>3, <1>4, <2>1, <2>3, QueuePopped, WorkTypes
<1>5. CASE written' = Append(written, [n |-> Head(queued).n, kind |-> "oversized"])
  <2>1. PICK answer : answer = [n |-> Head(queued).n, kind |-> "oversized"]
    OBVIOUS
  <2>2. answer \in Response /\ answer.n = queued[1].n /\ 1 \in DOMAIN queued
    BY <1>1, <2>1, QueuePopped DEF Response, AllKinds
  <2>3. /\ written' \in Seq(Response) /\ DOMAIN written' = 1..(Len(written) + 1)
        /\ \A i \in DOMAIN written : written'[i] = written[i]
        /\ written'[Len(written) + 1] = answer
    BY <1>5, <2>1, <2>2, WorkTypes, Appended
  <2>4. \A i \in DOMAIN written : written[i].n < queued[1].n
    BY <2>2 DEF StdioInv, OrderInv
  <2>5. AnswersInOrder'
    BY <2>2, <2>3, <2>4, WorkTypes DEF StdioInv, OrderInv, AnswersInOrder
  <2>6. ASSUME NEW i \in DOMAIN written', NEW j \in DOMAIN queued'
        PROVE  written'[i].n < queued'[j].n
    <3>1. written'[i].n <= queued[1].n /\ written'[i].n \in Nat
      BY <2>2, <2>3, <2>4, WorkTypes
    <3> QED BY <3>1, <1>2, <2>2, WorkTypes
  <2>7. OrderInv'
    BY <1>1, <1>2, <2>5, <2>6, QueuePopped DEF OrderInv, Idle
  <2>8. ASSUME NEW n \in Nat, Taken(n)' PROVE Taken(n)
    <3>1. CASE \E i \in DOMAIN written' : written'[i].n = n
      <4>1. PICK i \in DOMAIN written' : written'[i].n = n
        BY <3>1
      <4>2. CASE i \in DOMAIN written
        BY <4>1, <4>2, <2>3 DEF Taken
      <4>3. CASE i = Len(written) + 1
        <5>1. queued[1].n = n /\ 1 \in DOMAIN queued
          BY <4>1, <4>3, <2>2, <2>3
        <5> QED BY <5>1 DEF Taken
      <4>4. i \in DOMAIN written \/ i = Len(written) + 1
        BY <4>1, <2>3, WorkTypes
      <4> QED BY <4>2, <4>3, <4>4
    <3>2. CASE \E j \in DOMAIN queued' : queued'[j].n = n
      BY <3>2, <1>2 DEF Taken
    <3>3. CASE ~Idle' /\ active'.n = n
      BY <3>3, <1>1 DEF Idle
    <3> QED BY <2>8, <3>1, <3>2, <3>3 DEF Taken
  <2>9. BehindInv'
    BY <1>1, <2>8 DEF BehindInv, StdioInv, Stdin
  <2> QED BY <1>1, <1>3, <2>3, <2>7, <2>9, QueuePopped
<1> QED BY <1>4, <1>5 DEF Leaves

\* The queue's first becomes the active request.
LEMMA StartsKeeps ==
    ASSUME StdioInv, Stdin, Starts
    PROVE  /\ OrderInv' /\ BehindInv' /\ SilenceInv'
           /\ queued' \in Seq(Work) /\ active' \in Request
           /\ active'.n = queued[1].n /\ active'.kind = queued[1].kind
           /\ active'.step = "handle" /\ 1 \in DOMAIN queued
<1>1. /\ queued /= <<>> /\ queued' = Tail(queued) /\ written' = written
      /\ silenced' = silenced /\ active.n = 0 /\ ~Head(queued).cancelled
  BY DEF Starts, Idle
<1>2. /\ \A j \in DOMAIN queued' :
             /\ j + 1 \in DOMAIN queued /\ queued'[j] = queued[j + 1]
             /\ queued[1].n < queued'[j].n /\ queued'[j].n \in Nat \ {0}
      /\ 1 \in DOMAIN queued /\ ~queued[1].cancelled
      /\ queued[1].n \in Nat \ {0}
  BY <1>1, QueuePopped
<1>3. /\ active' \in Request /\ active'.n = queued[1].n /\ active'.kind = queued[1].kind
      /\ active'.step = "handle"
  BY <1>1, QueuePopped DEF Starts, Request, Steps
<1>4. OrderInv'
  BY <1>1, <1>2, <1>3, QueuePopped DEF StdioInv, OrderInv, AnswersInOrder, Idle
<1>5. \A n \in Nat : Taken(n)' => Taken(n)
  BY <1>1, <1>2, <1>3 DEF Taken, Idle
<1>6. BehindInv'
  BY <1>1, <1>5 DEF BehindInv, StdioInv, Stdin
<1>7. SilenceInv'
  BY <1>1, <1>2, <1>3 DEF StdioInv, SilenceInv
<1> QED BY <1>1, <1>2, <1>3, <1>4, <1>6, <1>7, QueuePopped

\* The active request is answered, or ends without an answer.
LEMMA CompletesKeeps ==
    ASSUME StdioInv, Stdin, Completes
    PROVE  /\ OrderInv' /\ BehindInv' /\ SilenceInv'
           /\ written' \in Seq(Response) /\ active' \in Request
<1>1. /\ queued' = queued /\ silenced' = silenced /\ active.n /= 0 /\ active' = NoRequest
  BY DEF Completes, Idle
<1>2. active' \in Request /\ active'.n = 0
  BY <1>1 DEF NoRequest, Request, AllKinds, Steps
<1>3. 0 \notin silenced
  BY DEF StdioInv, TypeOK
<1>4. SilenceInv'
  BY <1>1, <1>2, <1>3 DEF StdioInv, SilenceInv
<1>5. CASE written' = written
  <2>1. OrderInv'
    BY <1>1, <1>2, <1>5, WorkTypes DEF StdioInv, OrderInv, AnswersInOrder, Idle
  <2>2. \A n \in Nat : Taken(n)' => Taken(n)
    BY <1>1, <1>2, <1>5 DEF Taken, Idle
  <2>3. BehindInv'
    BY <1>1, <2>2 DEF BehindInv, StdioInv, Stdin
  <2> QED BY <1>2, <1>4, <1>5, <2>1, <2>3, WorkTypes
<1>6. CASE written' = Append(written, [n |-> active.n, kind |-> active.kind])
  <2>1. PICK answer : answer = [n |-> active.n, kind |-> active.kind]
    OBVIOUS
  <2>2. answer \in Response /\ answer.n = active.n
    BY <1>1, <2>1, WorkTypes, Fields DEF Response
  <2>3. /\ written' \in Seq(Response) /\ DOMAIN written' = 1..(Len(written) + 1)
        /\ \A i \in DOMAIN written : written'[i] = written[i]
        /\ written'[Len(written) + 1] = answer
    BY <1>6, <2>1, <2>2, WorkTypes, Appended
  <2>4. \A i \in DOMAIN written : written[i].n < active.n
    BY <1>1 DEF StdioInv, OrderInv, Idle
  <2>5. OrderInv'
    <3>1. AnswersInOrder'
      BY <2>2, <2>3, <2>4, WorkTypes DEF StdioInv, OrderInv, AnswersInOrder
    <3>2. ASSUME NEW i \in DOMAIN written', NEW j \in DOMAIN queued'
          PROVE  written'[i].n < queued'[j].n
      <4>1. CASE i \in DOMAIN written
        BY <1>1, <2>3, <4>1 DEF StdioInv, OrderInv
      <4>2. CASE i = Len(written) + 1
        BY <1>1, <2>2, <2>3, <4>2 DEF StdioInv, OrderInv, Idle
      <4> QED BY <2>3, <4>1, <4>2, WorkTypes
    <3>3. \A j \in DOMAIN queued' : active'.n < queued'[j].n
      BY <1>1, <1>2, WorkTypes
    <3>4. \A i, j \in DOMAIN queued' : i < j => queued'[i].n < queued'[j].n
      BY <1>1 DEF StdioInv, OrderInv
    <3> QED BY <1>2, <3>1, <3>2, <3>3, <3>4 DEF OrderInv, Idle
  <2>6. ASSUME NEW n \in Nat, Taken(n)' PROVE Taken(n)
    <3>1. CASE \E i \in DOMAIN written' : written'[i].n = n
      <4>1. PICK i \in DOMAIN written' : written'[i].n = n
        BY <3>1
      <4>2. CASE i \in DOMAIN written
        BY <4>1, <4>2, <2>3 DEF Taken
      <4>3. CASE i = Len(written) + 1
        <5>1. active.n = n /\ ~Idle
          BY <1>1, <4>1, <4>3, <2>2, <2>3 DEF Idle
        <5> QED BY <5>1 DEF Taken
      <4>4. i \in DOMAIN written \/ i = Len(written) + 1
        BY <4>1, <2>3, WorkTypes
      <4> QED BY <4>2, <4>3, <4>4
    <3>2. CASE \E j \in DOMAIN queued' : queued'[j].n = n
      BY <3>2, <1>1 DEF Taken
    <3>3. CASE ~Idle' /\ active'.n = n
      BY <3>3, <1>2 DEF Idle
    <3> QED BY <2>6, <3>1, <3>2, <3>3 DEF Taken
  <2>7. BehindInv'
    BY <1>1, <2>6 DEF BehindInv, StdioInv, Stdin
  <2> QED BY <1>2, <1>4, <2>3, <2>5, <2>7
<1> QED BY <1>5, <1>6 DEF Completes

\* The frames in the pipeline are frames the host sent.
LEMMA TakenSent ==
    ASSUME StdioInv
    PROVE  /\ \A j \in DOMAIN queued : queued[j].n \in DOMAIN sent
           /\ ~Idle => active.n \in DOMAIN sent
<1>1. \A n \in Nat : Taken(n) => n <= Len(sent)
  BY DEF StdioInv, BehindInv, Behind
<1>2. DOMAIN sent = 1..Len(sent) /\ Len(sent) \in Nat
  BY DEF StdioInv, TypeOK
<1> QED BY <1>1, <1>2, WorkTypes DEF Taken, Idle

\* The work's half of WorkInv.
WholeWork ==
    /\ \A j \in DOMAIN queued :
        queued[j].kind \in Whole => sent[queued[j].n].kind = queued[j].kind
    /\ ~Idle /\ active.kind \in Whole => sent[active.n].kind = active.kind

LEMMA MovesKeep ==
    ASSUME StdioInv, Stdin, Moves
    PROVE  /\ OrderInv' /\ BehindInv' /\ SilenceInv' /\ WholeWork'
           /\ queued' \in Seq(Work) /\ written' \in Seq(Response) /\ active' \in Request
           /\ silenced' \subseteq DOMAIN sent'
<1>1. /\ WholeWork /\ silenced \subseteq DOMAIN sent
      /\ \A n \in DOMAIN sent : n \in DOMAIN sent' /\ sent'[n] = sent[n]
  BY DEF StdioInv, WorkInv, WholeWork, TypeOK, Stdin
<1>2. SameWork => WholeWork'
  BY <1>1, TakenSent DEF SameWork, WholeWork, Idle
<1>3. CASE Rests
  BY <1>1, <1>2, <1>3, RestsKeeps, WorkTypes DEF Rests
<1>4. CASE Cancels
  BY <1>1, <1>2, <1>4, CancelsKeeps, WorkTypes DEF Cancels
<1>5. CASE Joins
  <2>1. active' = active /\ silenced' = silenced /\ sent' = sent /\ written' = written
    BY <1>5 DEF Joins, Joined
  <2>2. WholeWork'
    BY <1>1, <1>5, <2>1, JoinsKeeps DEF WholeWork, Idle
  <2> QED BY <1>1, <1>5, <2>1, <2>2, JoinsKeeps, WorkTypes
<1>6. CASE Leaves
  <2>1. /\ active' = active /\ silenced' = silenced /\ sent' = sent
        /\ queued /= <<>> /\ queued' = Tail(queued)
    BY <1>6 DEF Leaves
  <2>2. \A j \in DOMAIN queued' : j + 1 \in DOMAIN queued /\ queued'[j] = queued[j + 1]
    BY <2>1, QueuePopped
  <2>3. WholeWork'
    BY <1>1, <2>1, <2>2 DEF WholeWork, Idle
  <2> QED BY <1>1, <1>6, <2>1, <2>3, LeavesKeeps, WorkTypes
<1>7. CASE Starts
  <2>1. /\ silenced' = silenced /\ sent' = sent /\ written' = written
        /\ queued /= <<>> /\ queued' = Tail(queued)
    BY <1>7 DEF Starts
  <2>2. \A j \in DOMAIN queued' : j + 1 \in DOMAIN queued /\ queued'[j] = queued[j + 1]
    BY <2>1, QueuePopped
  <2>3. WholeWork'
    BY <1>1, <1>7, <2>1, <2>2, StartsKeeps DEF WholeWork, Idle
  <2> QED BY <1>1, <1>7, <2>1, <2>3, StartsKeeps, WorkTypes
<1>8. CASE Completes
  <2>1. /\ silenced' = silenced /\ sent' = sent /\ queued' = queued /\ active'.n = 0
    BY <1>8 DEF Completes, NoRequest
  <2>2. WholeWork'
    BY <1>1, <2>1 DEF WholeWork, Idle
  <2> QED BY <1>1, <1>8, <2>1, <2>2, CompletesKeeps, WorkTypes
<1> QED BY <1>3, <1>4, <1>5, <1>6, <1>7, <1>8 DEF Moves

-----------------------------------------------------------------------------
(* The session: contexts, activations, and the task that uses them. *)

\* The session's half of the type invariant.
SessionTypes ==
    /\ stdinClosed \in BOOLEAN /\ failed \in BOOLEAN
    /\ contexts \in Seq(Projects) /\ Len(contexts) <= Capacity
    /\ running \subseteq Projects
    /\ evicted \in Projects \cup {None}
    /\ phase \in {"serving", "closing", "ended"}

\* What the session keeps besides the work.
SessionInv ==
    /\ SessionTypes /\ ContextInv
    /\ Idle <=> active.step = "none"

LEMMA SessionOf ==
    ASSUME StdioInv
    PROVE  SessionInv /\ active \in Request
  BY DEF StdioInv, SessionInv, SessionTypes, TypeOK, WorkInv

\* A step that leaves the session alone, but for the task's end.
LEMMA SessionAlone ==
    ASSUME SessionInv, UNCHANGED <<contexts, running, evicted, phase, failed>>,
           active'.n = active.n, active'.step = active.step,
           stdinClosed' \in BOOLEAN
    PROVE  SessionInv'
  BY DEF SessionInv, SessionTypes, ContextInv, Idle, Finished

LEMMA SessionReading ==
    ASSUME StdioInv,
           \/ \E kind \in Kinds, piece \in Pieces : Write(kind, piece)
           \/ WriteRest \/ CloseStdin \/ ReadFrame \/ ReadHead \/ ReadEnd
    PROVE  SessionInv'
<1>1. SessionInv /\ active \in Request
  BY SessionOf
<1>2. UNCHANGED <<contexts, running, evicted, phase, failed>> /\ stdinClosed' \in BOOLEAN
  BY <1>1 DEF SessionInv, SessionTypes, Write, WriteRest, CloseStdin, ReadFrame, ReadHead,
              ReadEnd, loopVars, projectVars, endVars
<1>3. active'.step = active.step
  BY ReadingMoves
<1>4. active'.n = active.n
  <2>1. CASE ReadFrame
    BY <1>1, <2>1, PipeReadFrame, QueueFrameDoes DEF Takes, Flagged, Joined, StdioInv
  <2>2. CASE ReadEnd
    BY <1>1, <2>2, PipeReadEnd, QueueFrameDoes DEF Takes, Flagged, Joined, StdioInv
  <2> QED BY <2>1, <2>2 DEF Write, WriteRest, CloseStdin, ReadHead
<1> QED BY <1>1, <1>2, <1>3, <1>4, SessionAlone

LEMMA SessionQueue ==
    ASSUME StdioInv,
           WriteQueuedError \/ SkipCancelled \/ StartRequest \/ CompleteRequest
    PROVE  SessionInv'
<1>1. SessionInv /\ active \in Request
  BY SessionOf
<1>2. UNCHANGED <<contexts, running, evicted, phase, failed, stdinClosed>> /\ phase = "serving"
  BY DEF WriteQueuedError, SkipCancelled, StartRequest, CompleteRequest, projectVars, endVars
<1>3. CASE WriteQueuedError \/ SkipCancelled
  <2>1. active' = active
    BY <1>3 DEF WriteQueuedError, SkipCancelled
  <2> QED BY <1>1, <1>2, <2>1, SessionAlone DEF SessionInv, SessionTypes
<1>4. CASE StartRequest
  <2>1. active.step = "none" /\ active'.step = "handle" /\ active'.n /= 0
    BY <1>1, <1>4, QueuePopped DEF StartRequest, SessionInv
  <2> QED BY <1>1, <1>2, <2>1 DEF SessionInv, SessionTypes, ContextInv, Idle, Finished
<1>5. CASE CompleteRequest
  <2>1. active.step = "done" /\ active'.step = "none" /\ active'.n = 0
    BY <1>5 DEF CompleteRequest, NoRequest
  <2> QED BY <1>1, <1>2, <2>1 DEF SessionInv, SessionTypes, ContextInv, Idle, Finished
<1> QED BY <1>3, <1>4, <1>5

LEMMA SessionClosing ==
    ASSUME StdioInv, Closing
    PROVE  SessionInv'
<1>1. SessionInv /\ active \in Request
  BY SessionOf
<1>2. CASE JoinPanicked \/ StdioFails \/ EndOfInput
  <2>1. /\ UNCHANGED <<contexts, running, evicted, stdinClosed, active>>
        /\ phase' = "closing" /\ failed' \in BOOLEAN
    BY <1>1, <1>2 DEF JoinPanicked, StdioFails, EndOfInput, loopVars, projectVars,
                      SessionInv, SessionTypes
  <2> QED BY <1>1, <2>1 DEF SessionInv, SessionTypes, ContextInv, Idle, Finished
<1>3. CASE CloseContext
  <2>1. /\ UNCHANGED <<running, evicted, stdinClosed, active, failed>>
        /\ Idle \/ Finished
    BY <1>3 DEF CloseContext, loopVars
  <2>2. active.step \in {"none", "done", "panicked"} /\ evicted = None
    BY <1>1, <2>1 DEF SessionInv, ContextInv, Finished
  <2>3. CASE /\ contexts /= <<>> /\ Head(contexts) \notin running
             /\ contexts' = Tail(contexts) /\ UNCHANGED phase
    <3>1. /\ contexts' \in Seq(Projects) /\ Len(contexts') <= Capacity
          /\ contexts /= <<>> /\ contexts \in Seq(Projects)
      BY <1>1, <2>3, Shortened, StdioAssumption DEF SessionInv, SessionTypes
    <3>2. ASSUME NEW p \in running PROVE p \in ToSet(contexts')
      <4>1. p \in ToSet(contexts)
        BY <1>1, <2>2, StdioAssumption DEF SessionInv, SessionTypes, ContextInv
      <4>2. PICK i \in DOMAIN contexts : contexts[i] = p
        BY <4>1 DEF ToSet
      <4>3. /\ Head(contexts) = contexts[1] /\ DOMAIN contexts = 1..Len(contexts)
            /\ Len(contexts) \in Nat /\ DOMAIN contexts' = 1..(Len(contexts) - 1)
            /\ \A k \in DOMAIN contexts' : contexts'[k] = contexts[k + 1]
        BY <2>3, <3>1, Shortened
      <4>4. i - 1 \in DOMAIN contexts' /\ contexts'[i - 1] = p
        BY <2>3, <4>2, <4>3
      <4> QED BY <4>4 DEF ToSet
    <3> QED BY <1>1, <2>1, <2>2, <2>3, <3>1, <3>2
            DEF SessionInv, SessionTypes, ContextInv, Idle, Finished
  <2>4. CASE contexts = <<>> /\ phase' = "ended" /\ UNCHANGED contexts
    BY <1>1, <2>1, <2>2, <2>4 DEF SessionInv, SessionTypes, ContextInv, Idle, Finished
  <2> QED BY <1>3, <2>3, <2>4 DEF CloseContext
<1> QED BY <1>2, <1>3 DEF Closing

\* select_project: whatever it takes from the list is at its front again or is
\* the one whose activation it then waits for.
LEMMA SessionSelect ==
    ASSUME StdioInv, SelectProject
    PROVE  SessionInv'
<1>1. SessionInv /\ active \in Request /\ active.step = "handle" /\ active.kind = "tool"
  BY SessionOf DEF SelectProject
<1>2. /\ contexts \in Seq(Projects) /\ Len(contexts) \in Nat /\ Len(contexts) <= Capacity
      /\ Capacity \in Nat \ {0} /\ None \notin Projects
      /\ running \subseteq Projects /\ evicted = None
      /\ running \subseteq ToSet(contexts) /\ phase /= "ended"
  BY <1>1, StdioAssumption DEF SessionInv, SessionTypes, ContextInv, Idle, Finished
<1>3. ~Idle /\ active.n \in DOMAIN sent
  BY <1>1, TakenSent DEF SessionInv
<1>4. PICK p : p = sent[active.n].of
  OBVIOUS
<1>5. p \in Projects
  BY <1>1, <1>3, <1>4 DEF StdioInv, WorkInv, Whole, SentInv
<1>6. PICK others : others = RemoveFirst(contexts, p)
  OBVIOUS
<1>7. /\ others \in Seq(Projects) /\ Len(others) <= Len(contexts) /\ Len(others) \in Nat
      /\ DOMAIN others = 1..Len(others)
      /\ \A i \in DOMAIN contexts : contexts[i] /= p =>
             \E j \in DOMAIN others : others[j] = contexts[i]
  BY <1>2, <1>6, RemoveFirstKeeps
<1>8. ASSUME NEW q \in running PROVE q = p \/ \E j \in DOMAIN others : others[j] = q
  <2>1. PICK i \in DOMAIN contexts : contexts[i] = q
    BY <1>2, <1>8 DEF ToSet
  <2> QED BY <1>7, <2>1
<1>9. UNCHANGED <<running, stdinClosed, phase, failed>>
  BY DEF SelectProject, loopVars, endVars
<1>10. CASE Len(others) >= Capacity
  <2>1. /\ contexts' = <<p>> \o Front(others) /\ evicted' = Last(others) /\ Step("evict")
    BY <1>4, <1>6, <1>10 DEF SelectProject
  <2>2. PICK front : front = Front(others)
    OBVIOUS
  <2>3. /\ front \in Seq(Projects) /\ Len(front) = Len(others) - 1
        /\ \A j \in 1..(Len(others) - 1) : front[j] = others[j]
    BY <1>2, <1>7, <1>10, <2>2 DEF Front
  <2>4. /\ contexts' \in Seq(Projects) /\ Len(contexts') = Len(others) /\ contexts'[1] = p
        /\ \A j \in 1..(Len(others) - 1) : contexts'[j + 1] = others[j]
        /\ DOMAIN contexts' = 1..Len(others)
    BY <1>5, <2>1, <2>2, <2>3, <1>2, <1>7, <1>10, Prepended
  <2>5. evicted' \in Projects /\ evicted' = others[Len(others)]
    BY <1>2, <1>7, <1>10, <2>1 DEF Last
  <2>6. ASSUME NEW q \in running PROVE q \in ToSet(contexts') \cup {evicted'}
    <3>1. CASE q = p
      <4>1. 1 \in DOMAIN contexts'
        BY <1>2, <1>7, <1>10, <2>4
      <4> QED BY <2>4, <3>1, <4>1 DEF ToSet
    <3>2. CASE \E j \in DOMAIN others : others[j] = q
      <4>1. PICK j \in DOMAIN others : others[j] = q
        BY <3>2
      <4>2. CASE j = Len(others)
        BY <2>5, <4>1, <4>2
      <4>3. CASE j /= Len(others)
        <5>1. j \in 1..(Len(others) - 1) /\ j + 1 \in DOMAIN contexts'
          BY <1>7, <2>4, <4>1, <4>3
        <5> QED BY <2>4, <4>1, <5>1 DEF ToSet
      <4> QED BY <4>2, <4>3
    <3> QED BY <1>8, <2>6, <3>1, <3>2
  <2>7. active'.step = "evict" /\ active'.n = active.n
    BY <2>1, StepOf DEF Steps
  <2>8. contexts' /= <<>>
    BY <1>2, <1>7, <1>10, <2>4
  <2>9. Len(contexts') <= Capacity
    BY <1>2, <1>7, <2>4
  <2> QED BY <1>1, <1>2, <1>3, <1>9, <2>4, <2>5, <2>6, <2>7, <2>8, <2>9
          DEF SessionInv, SessionTypes, ContextInv, Idle
<1>11. CASE ~(Len(others) >= Capacity)
  <2>1. /\ contexts' = <<p>> \o others /\ evicted' = None /\ Step("activate")
    BY <1>4, <1>6, <1>11 DEF SelectProject
  <2>2. /\ contexts' \in Seq(Projects) /\ Len(contexts') = Len(others) + 1
        /\ contexts'[1] = p
        /\ \A j \in DOMAIN others : contexts'[j + 1] = others[j]
        /\ DOMAIN contexts' = 1..(Len(others) + 1)
    BY <1>5, <1>7, <2>1, Prepended
  <2>3. ASSUME NEW q \in running PROVE q \in ToSet(contexts')
    <3>1. CASE q = p
      <4>1. 1 \in DOMAIN contexts'
        BY <1>7, <2>2
      <4> QED BY <2>2, <3>1, <4>1 DEF ToSet
    <3>2. CASE \E j \in DOMAIN others : others[j] = q
      <4>1. PICK j \in DOMAIN others : others[j] = q
        BY <3>2
      <4>2. j + 1 \in DOMAIN contexts'
        BY <1>7, <2>2, <4>1
      <4> QED BY <2>2, <4>1, <4>2 DEF ToSet
    <3> QED BY <1>8, <2>3, <3>1, <3>2
  <2>4. active'.step = "activate" /\ active'.n = active.n
    BY <2>1, StepOf DEF Steps
  <2>5. contexts' /= <<>> /\ Len(contexts') <= Capacity
    BY <1>2, <1>7, <1>11, <2>2
  <2> QED BY <1>1, <1>2, <1>3, <1>9, <2>1, <2>2, <2>3, <2>4, <2>5
          DEF SessionInv, SessionTypes, ContextInv, Idle
<1> QED BY <1>10, <1>11

LEMMA SessionRunning ==
    ASSUME StdioInv, Running
    PROVE  SessionInv'
<1>1. SessionInv /\ active \in Request /\ None \notin Projects
  BY SessionOf, StdioAssumption
<1>2. CASE \E p \in Projects : ActivationEnds(p)
  <2>1. /\ running' \subseteq running
        /\ UNCHANGED <<contexts, evicted, phase, failed, stdinClosed, active>>
    BY <1>2 DEF ActivationEnds, endVars, loopVars
  <2> QED BY <1>1, <2>1 DEF SessionInv, SessionTypes, ContextInv, Idle, Finished
<1>3. CASE SelectProject
  BY <1>3, SessionSelect
<1>4. CASE HandlePlain \/ ProjectRefused \/ Waited \/ Panic
  <2>1. /\ UNCHANGED <<contexts, running, evicted, phase, failed, stdinClosed>>
        /\ active.step \in {"handle", "activate", "wait"}
        /\ \E step \in {"done", "panicked"} : Step(step)
    BY <1>4 DEF HandlePlain, ProjectRefused, Waited, Panic, projectVars, endVars, loopVars
  <2>2. active'.step \in {"done", "panicked"} /\ active'.n = active.n
    BY <2>1, StepOf DEF Steps
  <2> QED BY <1>1, <2>1, <2>2 DEF SessionInv, SessionTypes, ContextInv, Idle, Finished
<1>5. CASE Evicted
  <2>1. /\ UNCHANGED <<contexts, running, phase, failed, stdinClosed>>
        /\ active.step = "evict" /\ evicted \notin running /\ evicted' = None
        /\ Step("activate")
    BY <1>5 DEF Evicted, endVars, loopVars
  <2>2. active'.step = "activate" /\ active'.n = active.n
    BY <2>1, StepOf DEF Steps
  <2> QED BY <1>1, <2>1, <2>2 DEF SessionInv, SessionTypes, ContextInv, Idle, Finished
<1>6. CASE Activate
  <2>1. /\ UNCHANGED <<contexts, evicted, phase, failed, stdinClosed>>
        /\ active.step = "activate"
        /\ running' \in {running, running \cup {Head(contexts)}}
        /\ Step("wait") \/ Step("done")
    BY <1>6 DEF Activate, endVars, loopVars
  <2>2. active'.step \in {"wait", "done"} /\ active'.n = active.n
    BY <2>1, StepOf DEF Steps
  <2>3. contexts /= <<>> /\ contexts \in Seq(Projects)
    BY <1>1, <2>1 DEF SessionInv, SessionTypes, ContextInv
  <2>4. Head(contexts) \in Projects /\ Head(contexts) \in ToSet(contexts)
    BY <2>3, Shortened DEF ToSet
  <2> QED BY <1>1, <2>1, <2>2, <2>3, <2>4
          DEF SessionInv, SessionTypes, ContextInv, Idle, Finished
<1> QED BY <1>2, <1>3, <1>4, <1>5, <1>6 DEF Running, Task

-----------------------------------------------------------------------------
(* The invariant, and what follows from it. *)

\* A torn frame is one the host sent.
LEMMA TornSent ==
    ASSUME StdioInv, Stdin, [Next]_vars
    PROVE  torn' \subseteq DOMAIN sent'
<1>1. torn \subseteq DOMAIN sent /\ DOMAIN sent \subseteq DOMAIN sent'
  BY DEF StdioInv, TypeOK, Stdin
<1>2. CASE ReadFrame
  <2>1. /\ pipe \in Seq(Piece) /\ pipe /= <<>>
        /\ sent' = sent /\ torn' \subseteq torn \cup {Head(pipe).n}
    BY <1>2 DEF ReadFrame, StdioInv, TypeOK, hostVars
  <2>2. Head(pipe) = pipe[1] /\ 1 \in DOMAIN pipe /\ pipe[1].n \in Nat \ {0}
    BY <2>1, Shortened, Fields
  <2>3. pipe[1].n <= Len(sent) /\ DOMAIN sent = 1..Len(sent) /\ Len(sent) \in Nat
    BY <2>2 DEF StdioInv, PipeInv, TypeOK
  <2> QED BY <1>1, <2>1, <2>2, <2>3
<1>3. CASE ~ReadFrame
  <2>1. torn' = torn
    BY <1>3 DEF Next, Loop, Join, Task, Write, WriteRest, CloseStdin, ReadHead, ReadEnd,
                WriteQueuedError, SkipCancelled, StartRequest, CompleteRequest, JoinPanicked,
                StdioFails, EndOfInput, CloseContext, HandlePlain, ProjectRefused,
                SelectProject, Evicted, Activate, Waited, Panic, ActivationEnds, vars, loopVars
  <2> QED BY <1>1, <2>1
<1> QED BY <1>2, <1>3

LEMMA SessionStep ==
    ASSUME StdioInv, [Next]_vars
    PROVE  SessionInv'
<1>1. CASE UNCHANGED vars
  BY <1>1, SessionOf DEF vars, hostVars, loopVars, projectVars, endVars, SessionInv,
                         SessionTypes, ContextInv, Idle, Finished
<1>2. CASE Next
  BY <1>1, <1>2, SessionReading, SessionQueue, SessionClosing, SessionRunning
     DEF Next, Loop, Join, Closing, Running
<1> QED BY <1>1, <1>2

LEMMA InvInit == Init => StdioInv
<1> SUFFICES ASSUME Init PROVE StdioInv
  OBVIOUS
<1>1. contexts \in Seq(Projects) /\ Len(contexts) <= Capacity
  <2>1. CASE contexts = <<>>
    BY <2>1, StdioAssumption
  <2>2. ASSUME NEW p \in Projects, contexts = <<p>>
        PROVE  contexts \in Seq(Projects) /\ Len(contexts) <= Capacity
    BY <2>2, StdioAssumption
  <2> QED BY <2>1, <2>2 DEF Init
<1>2. TypeOK
  <2>1. NoRequest \in Request /\ NoRequest.n = 0
    BY DEF NoRequest, Request, Steps, AllKinds
  <2>2. MaxFrames \in Nat
    BY StdioAssumption
  <2>3. /\ sent \in Seq(Frame) /\ Len(sent) = 0 /\ pipe \in Seq(Piece)
        /\ queued \in Seq(Work) /\ written \in Seq(Response)
    BY DEF Init
  <2>4. line \in 0..Len(sent) /\ Len(sent) <= MaxFrames /\ active.n \in 0..Len(sent)
    BY <2>1, <2>2, <2>3 DEF Init
  <2> QED BY <1>1, <2>1, <2>3, <2>4 DEF Init, TypeOK, Hosts
<1>3. SentInv /\ PipeInv /\ OrderInv /\ BehindInv
  BY DEF Init, SentInv, PipeInv, OrderInv, AnswersInOrder, BehindInv, Taken, Idle, NoRequest
<1>4. WorkInv /\ SilenceInv /\ ContextInv
  BY DEF Init, WorkInv, SilenceInv, ContextInv, Idle, NoRequest
<1> QED BY <1>2, <1>3, <1>4 DEF StdioInv

LEMMA InvStep == StdioInv /\ [Next]_vars => StdioInv'
<1> SUFFICES ASSUME StdioInv, [Next]_vars PROVE StdioInv'
  OBVIOUS
<1>1. Stdin /\ Moves
  BY StepMoves
<1>2. /\ OrderInv' /\ BehindInv' /\ SilenceInv' /\ WholeWork'
      /\ queued' \in Seq(Work) /\ written' \in Seq(Response) /\ active' \in Request
      /\ silenced' \subseteq DOMAIN sent'
  BY <1>1, MovesKeep
<1>3. SessionInv' /\ torn' \subseteq DOMAIN sent'
  BY <1>1, SessionStep, TornSent
<1>4. active'.n \in 0..Len(sent')
  <2>1. active'.n \in Nat /\ Len(sent') \in Nat
    BY <1>1, <1>2, Fields DEF Stdin
  <2>2. ASSUME NEW n \in Nat, n = active'.n, n /= 0 PROVE n <= Len(sent')
    <3>1. Taken(n)'
      BY <2>2 DEF Taken, Idle
    <3> QED BY <1>2, <3>1 DEF BehindInv, Behind
  <2> QED BY <2>1, <2>2
<1>5. TypeOK'
  BY <1>1, <1>2, <1>3, <1>4 DEF TypeOK, Stdin, SessionInv, SessionTypes
<1>6. WorkInv'
  BY <1>2, <1>3 DEF WorkInv, WholeWork, SessionInv
<1> QED BY <1>1, <1>2, <1>3, <1>5, <1>6 DEF StdioInv, Stdin, SessionInv

LEMMA Invariance == Spec => []StdioInv
  BY InvInit, InvStep, PTL DEF Spec

\* Every variable of the server stays within its type.
THEOREM StdioTypeCorrect == Spec => []TypeOK
<1>1. StdioInv => TypeOK
  BY DEF StdioInv
<1> QED BY <1>1, Invariance, PTL

\* However reading, the one running task and the queue interleave, whatever is
\* cancelled, torn or malformed, the answers on stdout are in the order of the
\* frames and no frame has two (run_stdio_server).
THEOREM AnswersOrdered == Spec => []AnswersInOrder
<1>1. StdioInv => AnswersInOrder
  BY DEF StdioInv, OrderInv
<1> QED BY <1>1, Invariance, PTL

\* At every moment, in every list the session ever holds, a running activation
\* belongs to a context or to the eviction that waits for it, and none is left
\* when the server has ended (select_project, the Drop of the session).
THEOREM ActivationsOwned == Spec => []NoOrphanActivation
<1>1. ASSUME StdioInv PROVE NoOrphanActivation
  <2>1. ContextInv /\ running \subseteq Projects /\ None \notin Projects
    BY <1>1, StdioAssumption DEF StdioInv, TypeOK
  <2>2. ASSUME phase = "ended", NEW p \in running PROVE FALSE
    <3>1. contexts = <<>> /\ active.step \in {"none", "done", "panicked"}
      BY <1>1, <2>1, <2>2 DEF ContextInv, StdioInv, WorkInv, Finished
    <3>2. evicted = None
      BY <2>1, <3>1 DEF ContextInv
    <3>3. p \in ToSet(contexts)
      BY <2>1, <2>2, <3>2 DEF ContextInv
    <3> QED BY <3>1, <3>3 DEF ToSet
  <2> QED BY <2>1, <2>2 DEF ContextInv, NoOrphanActivation
<1> QED BY <1>1, Invariance, PTL

\* A request whose cancellation was read while it was queued, running or
\* finished is never answered afterwards (queue_stdio_frame and the three
\* places that look at its flag).
THEOREM CancelledSilent == Spec => CancelledStaysSilent
<1>1. StdioInv /\ [Next]_vars =>
        [\A n \in silenced :
            (\E i \in DOMAIN written' : written'[i].n = n) =>
            (\E i \in DOMAIN written : written[i].n = n)]_vars
  <2> SUFFICES ASSUME StdioInv, [Next]_vars, NEW n \in silenced,
                      NEW i \in DOMAIN written', written'[i].n = n
               PROVE  \E k \in DOMAIN written : written[k].n = n
    OBVIOUS
  <2>1. Stdin /\ Moves
    BY StepMoves
  <2>2. ASSUME NEW answer, answer \in Response, answer.n /= n,
               written' = Append(written, answer)
        PROVE  \E k \in DOMAIN written : written[k].n = n
    <3>1. /\ DOMAIN written' = 1..(Len(written) + 1) /\ DOMAIN written = 1..Len(written)
          /\ \A k \in DOMAIN written : written'[k] = written[k]
          /\ written'[Len(written) + 1] = answer /\ Len(written) \in Nat
      BY <2>2, WorkTypes, Appended
    <3> QED BY <2>2, <3>1
  <2>3. CASE written' = written
    BY <2>3
  <2>4. CASE Leaves /\ written' /= written
    <3>1. PICK answer : answer = [n |-> Head(queued).n, kind |-> "oversized"]
      OBVIOUS
    <3>2. /\ written' = Append(written, answer) /\ Head(queued).kind = "oversized"
          /\ queued /= <<>> /\ queued' = Tail(queued)
      BY <2>4, <3>1 DEF Leaves
    <3>3. /\ Head(queued) = queued[1] /\ 1 \in DOMAIN queued /\ queued[1].n \in Nat \ {0}
      BY <3>2, QueuePopped
    <3>4. queued[1].n /= n
      BY <3>2, <3>3 DEF StdioInv, SilenceInv
    <3>5. answer \in Response /\ answer.n = queued[1].n
      BY <3>1, <3>3 DEF Response, AllKinds
    <3> QED BY <2>2, <3>2, <3>4, <3>5
  <2>5. CASE Completes /\ written' /= written
    <3>1. PICK answer : answer = [n |-> active.n, kind |-> active.kind]
      OBVIOUS
    <3>2. written' = Append(written, answer) /\ ~active.cancelled /\ active.n /= 0
      BY <2>5, <3>1 DEF Completes, Idle
    <3>3. active.n /= n
      BY <3>2 DEF StdioInv, SilenceInv
    <3>4. answer \in Response /\ answer.n = active.n
      BY <3>1, <3>2, WorkTypes, Fields DEF Response
    <3> QED BY <2>2, <3>2, <3>3, <3>4
  <2> QED BY <2>1, <2>3, <2>4, <2>5 DEF Moves, Rests, Cancels, Joins, Starts
<1> QED BY <1>1, Invariance, PTL DEF Spec, CancelledStaysSilent

-----------------------------------------------------------------------------
(* No complete request is lost between stdin and stdout. *)

\* Only a silenced request is flagged.
FlagInv ==
    /\ \A j \in DOMAIN queued : queued[j].cancelled => queued[j].n \in silenced
    /\ ~Idle /\ active.cancelled => active.n \in silenced

\* The loop sees the end of stdin with nothing left to read, and ends without
\* an error with nothing left to do.
DrainInv ==
    /\ stdinClosed => pipe = <<>> /\ Closed
    /\ phase /= "serving" /\ ~failed => stdinClosed /\ queued = <<>> /\ Idle

\* Somebody has the request, or it is settled.
CustodyInv ==
    \A n \in DOMAIN sent :
        Owed(n) => Unread(n) \/ Taken(n) \/ n \in silenced \cup torn \/ failed

KeptInv == FlagInv /\ DrainInv /\ CustodyInv

LEMMA FlagKept ==
    ASSUME StdioInv, FlagInv, Moves
    PROVE  FlagInv' /\ silenced \subseteq silenced'
<1>1. CASE Rests
  BY <1>1 DEF Rests, FlagInv, Idle
<1>2. CASE Cancels
  <2>1. PICK id \in DOMAIN sent : Flagged(id)
    BY <1>2 DEF Cancels
  <2>2. DOMAIN queued' = DOMAIN queued
    BY <2>1, WorkTypes DEF Flagged
  <2> QED BY <2>1, <2>2 DEF Flagged, FlagInv, Idle, Named
<1>3. CASE Joins
  <2>1. PICK n \in DOMAIN sent, kind \in AllKinds : Joined(n, kind)
    BY <1>3 DEF Joins
  <2>2. PICK work : work = [n |-> n, kind |-> kind, cancelled |-> FALSE]
    OBVIOUS
  <2>3. n \in Nat \ {0}
    BY DEF StdioInv, TypeOK
  <2>4. work \in Work /\ work.cancelled = FALSE
    BY <2>2, <2>3 DEF Work
  <2>5. queued' = Append(queued, work) /\ UNCHANGED <<active, silenced>>
    BY <2>1, <2>2 DEF Joined
  <2>6. /\ DOMAIN queued' = 1..(Len(queued) + 1)
        /\ \A j \in DOMAIN queued : queued'[j] = queued[j]
        /\ queued'[Len(queued) + 1] = work
    BY <2>4, <2>5, WorkTypes, Appended
  <2>7. ASSUME NEW j \in DOMAIN queued', queued'[j].cancelled
        PROVE  queued'[j].n \in silenced'
    <3>1. CASE j \in DOMAIN queued
      BY <2>5, <2>6, <2>7, <3>1 DEF FlagInv
    <3>2. CASE j = Len(queued) + 1
      BY <2>4, <2>6, <2>7, <3>2
    <3> QED BY <2>6, <3>1, <3>2, WorkTypes
  <2> QED BY <2>5, <2>7 DEF FlagInv, Idle
<1>4. CASE Leaves
  <2>1. queued /= <<>> /\ queued' = Tail(queued) /\ UNCHANGED <<active, silenced>>
    BY <1>4 DEF Leaves
  <2>2. \A j \in DOMAIN queued' : j + 1 \in DOMAIN queued /\ queued'[j] = queued[j + 1]
    BY <2>1, QueuePopped
  <2> QED BY <2>1, <2>2 DEF FlagInv, Idle
<1>5. CASE Starts
  <2>1. queued /= <<>> /\ queued' = Tail(queued) /\ silenced' = silenced /\ ~active'.cancelled
    BY <1>5 DEF Starts
  <2>2. \A j \in DOMAIN queued' : j + 1 \in DOMAIN queued /\ queued'[j] = queued[j + 1]
    BY <2>1, QueuePopped
  <2> QED BY <2>1, <2>2 DEF FlagInv
<1>6. CASE Completes
  BY <1>6 DEF Completes, NoRequest, FlagInv, Idle
<1> QED BY <1>1, <1>2, <1>3, <1>4, <1>5, <1>6 DEF Moves

\* A frame leaves the pipeline only silenced, or as a notification.
LEMMA TakenKept ==
    ASSUME StdioInv, FlagInv, Moves, NEW n \in Nat, Taken(n)
    PROVE  Taken(n)' \/ n \in silenced \/ sent[n].kind = "notification"
<1>1. CASE Rests
  BY <1>1 DEF Rests, Taken, Idle
<1>2. CASE Cancels
  <2>1. PICK id \in DOMAIN sent : Flagged(id)
    BY <1>2 DEF Cancels
  <2>2. DOMAIN queued' = DOMAIN queued /\ written' = written
    BY <1>2, <2>1, WorkTypes DEF Flagged, Cancels
  <2> QED BY <2>1, <2>2 DEF Flagged, Taken, Idle
<1>3. CASE Joins
  <2>1. PICK m \in DOMAIN sent, kind \in AllKinds : Joined(m, kind) /\ written' = written
    BY <1>3 DEF Joins
  <2>2. PICK work : work = [n |-> m, kind |-> kind, cancelled |-> FALSE]
    OBVIOUS
  <2>3. m \in Nat \ {0}
    BY DEF StdioInv, TypeOK
  <2>4. work \in Work
    BY <2>2, <2>3 DEF Work
  <2>5. queued' = Append(queued, work) /\ active' = active
    BY <2>1, <2>2 DEF Joined
  <2>6. \A j \in DOMAIN queued : j \in DOMAIN queued' /\ queued'[j] = queued[j]
    BY <2>4, <2>5, WorkTypes, Appended
  <2> QED BY <2>1, <2>5, <2>6 DEF Taken, Idle
<1>4. ASSUME queued /= <<>>, queued' = Tail(queued), NEW j \in DOMAIN queued, queued[j].n = n
      PROVE  j = 1 \/ \E i \in DOMAIN queued' : queued'[i].n = n
  <2>1. /\ DOMAIN queued' = 1..(Len(queued) - 1) /\ DOMAIN queued = 1..Len(queued)
        /\ Len(queued) \in Nat
        /\ \A i \in DOMAIN queued' : queued'[i] = queued[i + 1]
    BY <1>4, WorkTypes, Shortened
  <2>2. j /= 1 => j - 1 \in DOMAIN queued' /\ (j - 1) + 1 = j
    BY <2>1
  <2> QED BY <1>4, <2>1, <2>2
<1>5. ASSUME NEW answer, answer \in Response, written' = Append(written, answer)
      PROVE  /\ \A i \in DOMAIN written : i \in DOMAIN written' /\ written'[i] = written[i]
             /\ \E i \in DOMAIN written' : written'[i] = answer
  BY <1>5, WorkTypes, Appended
<1>6. CASE Leaves
  <2>1. /\ Idle /\ queued /= <<>> /\ queued' = Tail(queued) /\ active' = active
        /\ Head(queued) = queued[1] /\ 1 \in DOMAIN queued /\ queued[1].n \in Nat \ {0}
    BY <1>6, QueuePopped DEF Leaves
  <2>2. CASE queued[1].cancelled /\ written' = written
    BY <1>4, <2>1, <2>2 DEF Taken, FlagInv
  <2>3. CASE written' = Append(written, [n |-> queued[1].n, kind |-> "oversized"])
    <3>1. PICK answer : answer = [n |-> queued[1].n, kind |-> "oversized"]
      OBVIOUS
    <3>2. answer \in Response /\ answer.n = queued[1].n
      BY <2>1, <3>1 DEF Response, AllKinds
    <3>3. /\ \A i \in DOMAIN written : i \in DOMAIN written' /\ written'[i] = written[i]
          /\ \E i \in DOMAIN written' : written'[i] = answer
      BY <1>5, <2>3, <3>1, <3>2
    <3> QED BY <1>4, <2>1, <3>2, <3>3 DEF Taken
  <2> QED BY <1>6, <2>1, <2>2, <2>3 DEF Leaves
<1>7. CASE Starts
  <2>1. /\ Idle /\ queued /= <<>> /\ queued' = Tail(queued) /\ written' = written
        /\ Head(queued) = queued[1] /\ queued[1].n \in Nat \ {0}
        /\ active'.n = queued[1].n
    BY <1>7, QueuePopped DEF Starts
  <2> QED BY <1>4, <2>1 DEF Taken, Idle
<1>8. CASE Completes
  <2>1. ~Idle /\ queued' = queued
    BY <1>8 DEF Completes
  <2>2. CASE (active.cancelled \/ active.kind = "notification") /\ written' = written
    <3>1. active.kind = "notification" => sent[active.n].kind = "notification"
      BY <2>1 DEF StdioInv, WorkInv, Whole
    <3> QED BY <2>1, <2>2, <3>1 DEF Taken, FlagInv
  <2>3. CASE written' = Append(written, [n |-> active.n, kind |-> active.kind])
    <3>1. PICK answer : answer = [n |-> active.n, kind |-> active.kind]
      OBVIOUS
    <3>2. answer \in Response /\ answer.n = active.n
      BY <2>1, <3>1, WorkTypes, Fields DEF Response, Idle
    <3>3. /\ \A i \in DOMAIN written : i \in DOMAIN written' /\ written'[i] = written[i]
          /\ \E i \in DOMAIN written' : written'[i] = answer
      BY <1>5, <2>3, <3>1, <3>2
    <3> QED BY <2>1, <3>2, <3>3 DEF Taken
  <2> QED BY <1>8, <2>2, <2>3 DEF Completes
<1> QED BY <1>1, <1>2, <1>3, <1>6, <1>7, <1>8 DEF Moves

\* The first piece leaves the pipe.
LEMMA UnreadPopped ==
    ASSUME StdioInv, pipe /= <<>>, pipe' = Tail(pipe), NEW n, Unread(n)
    PROVE  Unread(n)' \/ (pipe[1].n = n /\ pipe[1].part /= "head")
<1>1. PICK k \in DOMAIN pipe : pipe[k].n = n /\ pipe[k].part /= "head"
  BY DEF Unread
<1>2. /\ DOMAIN pipe' = 1..(Len(pipe) - 1) /\ DOMAIN pipe = 1..Len(pipe) /\ Len(pipe) \in Nat
      /\ \A i \in DOMAIN pipe' : pipe'[i] = pipe[i + 1]
  BY Shortened DEF StdioInv, TypeOK
<1>3. k /= 1 => k - 1 \in DOMAIN pipe' /\ (k - 1) + 1 = k
  BY <1>1, <1>2
<1> QED BY <1>1, <1>2, <1>3 DEF Unread

\* One more piece enters it.
LEMMA UnreadPushed ==
    ASSUME StdioInv, NEW piece \in Piece, pipe' = Append(pipe, piece)
    PROVE  /\ \A n : Unread(n) => Unread(n)'
           /\ piece.part /= "head" => \A n : n = piece.n => Unread(n)'
<1>1. /\ DOMAIN pipe' = 1..(Len(pipe) + 1) /\ DOMAIN pipe = 1..Len(pipe) /\ Len(pipe) \in Nat
      /\ \A i \in DOMAIN pipe : pipe'[i] = pipe[i]
      /\ pipe'[Len(pipe) + 1] = piece
  BY Appended DEF StdioInv, TypeOK
<1>2. /\ Len(pipe) + 1 \in DOMAIN pipe'
      /\ \A i \in DOMAIN pipe : i \in DOMAIN pipe'
  BY <1>1
<1> QED BY <1>1, <1>2 DEF Unread

\* What the two writing steps put into the pipe.
LEMMA WritePushes ==
    ASSUME StdioInv, NEW kind \in Kinds, NEW part \in Pieces, Write(kind, part)
    PROVE  /\ Len(sent') = Len(sent) + 1 /\ Len(sent) \in Nat
           /\ \E piece \in Piece :
                 /\ pipe' = Append(pipe, piece) /\ piece.n = Len(sent')
                 /\ host' = "ready" => piece.part /= "head"
                 /\ host' \in {"ready", "midway"}
<1>1. Len(sent') = Len(sent) + 1 /\ Len(sent) \in Nat
  BY PipeWrite DEF StdioInv, TypeOK
<1>2. \A x \in {"whole", "head"} : [n |-> Len(sent'), part |-> x] \in Piece
  BY <1>1 DEF Piece
<1>3. CASE pipe' = Append(pipe, [n |-> Len(sent'), part |-> "whole"]) /\ host' = "ready"
  BY <1>1, <1>2, <1>3
<1>4. CASE pipe' = Append(pipe, [n |-> Len(sent'), part |-> "head"]) /\ host' = "midway"
  BY <1>1, <1>2, <1>4
<1> QED BY <1>3, <1>4 DEF Write

LEMMA WriteRestPushes ==
    ASSUME StdioInv, WriteRest
    PROVE  \E piece \in Piece :
               pipe' = Append(pipe, piece) /\ piece.n = Len(sent) /\ piece.part = "tail"
<1>1. Len(sent) \in Nat \ {0}
  BY DEF StdioInv, TypeOK, PipeInv, WriteRest
<1>2. [n |-> Len(sent), part |-> "tail"] \in Piece
  BY <1>1 DEF Piece
<1> QED BY <1>2 DEF WriteRest

\* A frame that is read to its end is in the pipeline, torn, or of a kind that
\* is not queued.
LEMMA ReadFrameTakes ==
    ASSUME StdioInv, ReadFrame, NEW n \in DOMAIN sent, n = Head(pipe).n,
           sent[n].kind \notin {"blank", "cancel"}
    PROVE  Taken(n)' \/ n \in torn'
<1>1. CASE QueueFrame(n, sent[n].kind)
  <2>1. n \in Nat \ {0} /\ sent[n].kind \in AllKinds /\ TypeOK
    BY Fields DEF StdioInv, TypeOK
  <2>2. PICK kind \in AllKinds : kind = sent[n].kind
    BY <2>1
  <2>3. Joined(n, kind)
    BY <1>1, <2>1, <2>2, QueueFrameDoes
  <2>4. PICK work : work = [n |-> n, kind |-> kind, cancelled |-> FALSE]
    OBVIOUS
  <2>5. work \in Work /\ work.n = n
    BY <2>1, <2>4 DEF Work
  <2>6. queued' = Append(queued, work)
    BY <2>3, <2>4 DEF Joined
  <2>7. Len(queued) + 1 \in DOMAIN queued' /\ queued'[Len(queued) + 1] = work
    BY <2>5, <2>6, WorkTypes, Appended
  <2> QED BY <2>5, <2>7 DEF Taken
<1>2. CASE torn' = torn \cup {n}
  BY <1>2
<1> QED BY <1>1, <1>2 DEF ReadFrame

\* The steps that leave the pipe alone.
Elsewhere ==
    \/ CloseStdin \/ ReadEnd
    \/ WriteQueuedError \/ SkipCancelled \/ StartRequest \/ CompleteRequest
    \/ Closing \/ Running \/ UNCHANGED vars

LEMMA ElsewhereAlone ==
    ASSUME Elsewhere
    PROVE  /\ UNCHANGED <<sent, pipe>>
           /\ host' \in {"ready", "closed"} => host \in {"ready", "closed"}
<1>1. CASE CloseStdin
  BY <1>1 DEF CloseStdin
<1>2. CASE ~CloseStdin
  BY <1>2 DEF Elsewhere, ReadEnd, WriteQueuedError, SkipCancelled, StartRequest, CompleteRequest,
              Closing, JoinPanicked, StdioFails, EndOfInput, CloseContext,
              Running, Task, HandlePlain, ProjectRefused, SelectProject, Evicted,
              Activate, Waited, Panic, ActivationEnds, vars, hostVars
<1> QED BY <1>1, <1>2

LEMMA UnreadKept ==
    ASSUME StdioInv, [Next]_vars, NEW n \in DOMAIN sent, Unread(n)
    PROVE  \/ Unread(n)' \/ Taken(n)' \/ n \in torn'
           \/ sent[n].kind \in {"blank", "cancel"}
<1>1. ASSUME NEW kind \in Kinds, NEW part \in Pieces, Write(kind, part) PROVE Unread(n)'
  BY <1>1, WritePushes, UnreadPushed
<1>2. CASE WriteRest
  BY <1>2, WriteRestPushes, UnreadPushed
<1>3. CASE ReadFrame
  <2>1. pipe /= <<>> /\ pipe' = Tail(pipe) /\ Head(pipe) = pipe[1]
    BY <1>3, Shortened DEF ReadFrame, StdioInv, TypeOK
  <2> QED BY <1>3, <2>1, UnreadPopped, ReadFrameTakes
<1>4. CASE ReadHead
  <2>1. pipe /= <<>> /\ pipe' = Tail(pipe) /\ Head(pipe) = pipe[1] /\ Head(pipe).part = "head"
    BY <1>4, Shortened DEF ReadHead, StdioInv, TypeOK
  <2> QED BY <2>1, UnreadPopped
<1>5. CASE Elsewhere
  BY <1>5, ElsewhereAlone DEF Unread
<1> QED BY <1>1, <1>2, <1>3, <1>4, <1>5 DEF Next, Loop, Join, Closing, Running, Elsewhere

\* A frame becomes complete with a piece that is in the pipe.
LEMMA DeliveredKept ==
    ASSUME StdioInv, [Next]_vars, NEW n, Delivered(n)'
    PROVE  Delivered(n) \/ Unread(n)'
<1>1. /\ sent \in Seq(Frame) /\ Len(sent) \in Nat /\ DOMAIN sent = 1..Len(sent)
      /\ DOMAIN sent' = 1..Len(sent') /\ host \in Hosts
  BY StepMoves DEF StdioInv, TypeOK, Stdin
<1>2. ASSUME NEW kind \in Kinds, NEW part \in Pieces, Write(kind, part)
      PROVE  Delivered(n) \/ Unread(n)'
  <2>1. Len(sent') = Len(sent) + 1 /\ host = "ready"
    BY <1>2, WritePushes DEF Write
  <2>2. PICK piece \in Piece :
            /\ pipe' = Append(pipe, piece) /\ piece.n = Len(sent')
            /\ host' = "ready" => piece.part /= "head"
            /\ host' \in {"ready", "midway"}
    BY <1>2, WritePushes
  <2>3. CASE n = Len(sent')
    <3>1. host' = "ready"
      BY <2>2, <2>3 DEF Delivered
    <3> QED BY <2>2, <2>3, <3>1, UnreadPushed
  <2>4. CASE n /= Len(sent')
    BY <1>1, <2>1, <2>4 DEF Delivered
  <2> QED BY <2>3, <2>4
<1>3. CASE WriteRest
  <2>1. sent' = sent
    BY <1>3 DEF WriteRest
  <2>2. CASE n = Len(sent)
    BY <1>3, <2>2, WriteRestPushes, UnreadPushed
  <2>3. CASE n /= Len(sent)
    BY <2>1, <2>3 DEF Delivered
  <2> QED BY <2>2, <2>3
<1>4. CASE ReadFrame \/ ReadHead
  BY <1>4 DEF ReadFrame, ReadHead, hostVars, Delivered
<1>5. CASE Elsewhere
  BY <1>1, <1>5, ElsewhereAlone DEF Delivered, Hosts
<1> QED BY <1>2, <1>3, <1>4, <1>5 DEF Next, Loop, Join, Closing, Running, Elsewhere

LEMMA HistoryGrows ==
    ASSUME StdioInv, [Next]_vars
    PROVE  torn \subseteq torn' /\ (failed => failed')
<1>1. torn \subseteq torn'
  BY DEF Next, Loop, Join, Task, Write, WriteRest, CloseStdin, ReadFrame, ReadHead, ReadEnd,
         WriteQueuedError, SkipCancelled, StartRequest, CompleteRequest, JoinPanicked,
         StdioFails, EndOfInput, CloseContext, HandlePlain, ProjectRefused, SelectProject, Evicted,
         Activate, Waited, Panic, ActivationEnds, vars, loopVars
<1>2. failed => failed'
  BY DEF Next, Loop, Join, Task, Write, WriteRest, CloseStdin, ReadFrame, ReadHead, ReadEnd,
         WriteQueuedError, SkipCancelled, StartRequest, CompleteRequest, JoinPanicked,
         StdioFails, EndOfInput, CloseContext, HandlePlain, ProjectRefused, SelectProject, Evicted,
         Activate, Waited, Panic, ActivationEnds, vars, endVars
<1> QED BY <1>1, <1>2

LEMMA DrainKept ==
    ASSUME StdioInv, DrainInv, [Next]_vars
    PROVE  DrainInv'
<1>1. /\ active \in Request /\ stdinClosed \in BOOLEAN /\ failed \in BOOLEAN
      /\ Idle => active.step = "none"
  BY DEF StdioInv, TypeOK, WorkInv
<1>2. CASE \/ \E kind \in Kinds, part \in Pieces : Write(kind, part)
           \/ WriteRest
  <2>1. /\ host \in {"ready", "midway"}
        /\ UNCHANGED <<queued, active, stdinClosed, phase, failed>>
    BY <1>2 DEF Write, WriteRest, loopVars, endVars
  <2> QED BY <2>1 DEF DrainInv, Closed, Idle
<1>3. CASE CloseStdin
  BY <1>3 DEF CloseStdin, DrainInv, Closed, Idle, loopVars, endVars
<1>4. CASE ReadFrame \/ ReadHead \/ ReadEnd
  <2>1. /\ phase = "serving" /\ ~stdinClosed /\ UNCHANGED <<host, phase>>
        /\ stdinClosed' => pipe' = <<>> /\ Closed
    BY <1>4 DEF ReadFrame, ReadHead, ReadEnd, Reading, hostVars, endVars
  <2> QED BY <2>1 DEF DrainInv, Closed
<1>5. CASE WriteQueuedError \/ SkipCancelled \/ StartRequest \/ CompleteRequest
  <2>1. phase = "serving" /\ UNCHANGED <<host, pipe, phase, stdinClosed>>
    BY <1>5 DEF WriteQueuedError, SkipCancelled, StartRequest, CompleteRequest, hostVars, endVars
  <2> QED BY <2>1 DEF DrainInv, Closed
<1>6. CASE JoinPanicked \/ StdioFails
  <2>1. failed' /\ UNCHANGED <<host, pipe, stdinClosed>>
    BY <1>6 DEF JoinPanicked, StdioFails, hostVars, loopVars
  <2> QED BY <2>1 DEF DrainInv, Closed
<1>7. CASE EndOfInput
  BY <1>7 DEF EndOfInput, DrainInv, Closed, Idle, hostVars, loopVars
<1>8. CASE CloseContext \/ \E p \in Projects : ActivationEnds(p)
  <2>1. /\ UNCHANGED <<host, pipe, stdinClosed, queued, active, failed>>
        /\ phase' /= "serving" => phase /= "serving"
    BY <1>8 DEF CloseContext, ActivationEnds, hostVars, loopVars, endVars
  <2> QED BY <2>1 DEF DrainInv, Closed, Idle
<1>9. CASE Task \/ Panic
  <2>1. /\ UNCHANGED <<host, pipe, stdinClosed, queued, phase, failed>>
        /\ ~Idle
    BY <1>1, <1>9 DEF Task, HandlePlain, ProjectRefused, SelectProject, Evicted,
                      Activate, Waited, Panic, hostVars, loopVars, endVars
  <2> QED BY <2>1 DEF DrainInv, Closed
<1>10. CASE UNCHANGED vars
  BY <1>10 DEF vars, hostVars, loopVars, endVars, DrainInv, Closed, Idle
<1> QED BY <1>2, <1>3, <1>4, <1>5, <1>6, <1>7, <1>8, <1>9, <1>10 DEF Next, Loop, Join

LEMMA CustodyKept ==
    ASSUME StdioInv, KeptInv, [Next]_vars
    PROVE  CustodyInv'
<1> SUFFICES ASSUME NEW n \in DOMAIN sent', Owed(n)'
             PROVE  Unread(n)' \/ Taken(n)' \/ n \in silenced' \cup torn' \/ failed'
  BY DEF CustodyInv
<1>1. Stdin /\ Moves /\ FlagInv /\ silenced \subseteq silenced'
  BY StepMoves, FlagKept DEF KeptInv
<1>2. CASE Delivered(n)
  <2>1. n \in DOMAIN sent /\ n \in Nat /\ sent'[n] = sent[n]
    BY <1>1, <1>2 DEF Delivered, Stdin, StdioInv, TypeOK
  <2>2. Owed(n) /\ sent[n].kind \notin {"blank", "cancel", "notification"}
    BY <1>2, <2>1 DEF Owed
  <2>3. CASE Unread(n)
    BY <2>1, <2>2, <2>3, UnreadKept
  <2>4. CASE Taken(n)
    BY <1>1, <2>1, <2>2, <2>4, TakenKept
  <2>5. CASE n \in silenced \cup torn \/ failed
    BY <1>1, <2>5, HistoryGrows
  <2> QED BY <2>1, <2>2, <2>3, <2>4, <2>5 DEF KeptInv, CustodyInv
<1>3. CASE Unread(n)'
  BY <1>3
<1>4. Delivered(n)'
  BY DEF Owed
<1> QED BY <1>2, <1>3, <1>4, DeliveredKept

LEMMA KeptInvariance == Spec => []KeptInv
<1>1. Init => KeptInv
  BY DEF Init, KeptInv, FlagInv, DrainInv, CustodyInv, Idle, NoRequest
<1>2. StdioInv /\ KeptInv /\ [Next]_vars => KeptInv'
  <2> SUFFICES ASSUME StdioInv, KeptInv, [Next]_vars PROVE KeptInv'
    OBVIOUS
  <2>1. FlagInv'
    BY StepMoves, FlagKept DEF KeptInv
  <2> QED BY <2>1, DrainKept, CustodyKept DEF KeptInv
<1> QED BY <1>1, <1>2, Invariance, PTL DEF Spec

\* A complete request is settled, or the loop still serves and has it: frames
\* that are read, flagged, skipped and dropped while another request runs, and
\* a queue that is drained after the end of stdin, lose none of any number of
\* requests (run_stdio_server, queue_stdio_frame).
THEOREM NoRequestLost == Spec => []RequestsKept
<1>1. ASSUME StdioInv, KeptInv PROVE RequestsKept
  <2> SUFFICES ASSUME NEW n \in DOMAIN sent, Owed(n), ~Settled(n)
               PROVE  /\ phase = "serving"
                      /\ Unread(n) \/ active.n = n \/ \E j \in DOMAIN queued : queued[j].n = n
    BY DEF RequestsKept
  <2>1. ~failed /\ n \notin silenced \cup torn /\ ~Answered(n)
    BY DEF Settled
  <2>2. Unread(n) \/ Taken(n)
    BY <1>1, <2>1 DEF KeptInv, CustodyInv
  <2>3. Unread(n) \/ (~Idle /\ active.n = n) \/ \E j \in DOMAIN queued : queued[j].n = n
    BY <2>1, <2>2 DEF Taken, Answered
  <2>4. ASSUME phase /= "serving" PROVE FALSE
    <3>1. pipe = <<>> /\ queued = <<>> /\ Idle
      BY <1>1, <2>1, <2>4 DEF KeptInv, DrainInv
    <3> QED BY <2>3, <3>1 DEF Unread
  <2> QED BY <2>3, <2>4
<1> QED BY <1>1, Invariance, KeptInvariance, PTL
=============================================================================
