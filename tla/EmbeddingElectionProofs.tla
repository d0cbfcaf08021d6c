----------------------- MODULE EmbeddingElectionProofs -----------------------
(***************************************************************************)
(* EmbeddingElection keeps its types, a serving server reachable and the   *)
(* replays of a call bounded, for any number of callers, observers and     *)
(* server processes, and under every disturbance.                          *)
(*                                                                         *)
(* The argument: from its try_lock to its unlock a server process holds    *)
(* the authority, a client holds it exactly during a probe (Owning), and   *)
(* only the holder touches the socket path; so what the holder established *)
(* there stays (Entry).  A call that is sent again remembers it in loss,   *)
(* and a call that lost a request in flight is never replayed again        *)
(* (Counted).                                                              *)
(***************************************************************************)
EXTENDS EmbeddingElection, TLAPS

Owners == {"locked", "cleared", "bare", "serving", "draining", "checked", "unlinked"}
InFlight == {"reply", "working", "leased"}

Owning ==
    /\ \A s \in Servers : server[s] \in Owners => authority = s
    /\ \A c \in Clients : pc[c] = "unlock" <=> authority = c

Entry ==
    \A s \in Servers :
        /\ server[s] \in Listening => socket = s
        /\ server[s] \in {"serving", "draining", "checked"} => mode = "private"

Sent(c) == (IF call[c].loss = "inflight" THEN 1 ELSE 0)
           + (IF pc[c] \in InFlight THEN 1 ELSE 0)

Counted ==
    \A c \in Clients :
        /\ call[c].op # "pure" => call[c].loss = "none"
        /\ call[c].sends <= Sent(c)

-----------------------------------------------------------------------------
(* What the client's helpers do to its own variables.                      *)

ClientTypes ==
    /\ pc \in [Clients -> ClientPlaces]
    /\ opened \subseteq Clients
    /\ peer \in [Clients -> Servers \cup {None}]
    /\ call \in [Clients -> Calls]

\* One client moves and rewrites its own call.
LEMMA OwnCall ==
    ASSUME TypeOK, Counted, NEW c \in Clients, NEW place \in ClientPlaces, NEW new \in Calls,
           Unconnected(c, place), call' = [call EXCEPT ![c] = new],
           new.op # "pure" => new.loss = "none",
           new.sends <= (IF new.loss = "inflight" THEN 1 ELSE 0)
                        + (IF place \in InFlight THEN 1 ELSE 0)
    PROVE  ClientTypes' /\ Counted' /\ pc' = [pc EXCEPT ![c] = place]
<1>1. ClientTypes'
    BY DEF ClientTypes, TypeOK, Unconnected, Goto
<1>2. Counted'
    BY DEF Counted, Sent, TypeOK, Unconnected, Goto
<1> QED
    BY <1>1, <1>2 DEF Unconnected, Goto

LEMMA NewCallTypes ==
    /\ NewCall \in Calls
    /\ NewCall.loss = "none" /\ NewCall.sends = 0
BY DEF NewCall, Calls, Outcomes

LEMMA ReturnStep ==
    ASSUME TypeOK, Counted, NEW c \in Clients, NEW outcome \in Outcomes, Return(c, outcome)
    PROVE  ClientTypes' /\ Counted' /\ pc' = [pc EXCEPT ![c] = "idle"]
<1> DEFINE new == [NewCall EXCEPT !.result = outcome]
<1>1. new \in Calls /\ new.loss = "none" /\ new.sends = 0
    BY DEF NewCall, Calls, Outcomes
<1>2. Unconnected(c, "idle") /\ call' = [call EXCEPT ![c] = new]
    BY DEF Return
<1>3. "idle" \in ClientPlaces /\ "idle" \notin InFlight
    BY DEF ClientPlaces, InFlight
<1> HIDE DEF new
<1>4. new.sends <= (IF new.loss = "inflight" THEN 1 ELSE 0)
                   + (IF "idle" \in InFlight THEN 1 ELSE 0)
    BY <1>1, <1>3
<1> QED
    BY <1>1, <1>2, <1>3, <1>4, OwnCall

LEMMA ReconnectStep ==
    ASSUME TypeOK, Counted, NEW c \in Clients, NEW kind \in {"connect", "inflight"},
           Reconnect(c, kind), call[c].op = "pure", call[c].loss = "none",
           kind = "connect" => pc[c] \notin InFlight
    PROVE  ClientTypes' /\ Counted' /\ pc' = [pc EXCEPT ![c] = "open"]
<1> DEFINE new == [call[c] EXCEPT !.loss = kind, !.attempt = "none", !.child = None,
                                  !.clock = "running"]
<1>1. /\ new \in Calls /\ new.loss = kind /\ new.sends = call[c].sends
      /\ new.op = "pure"
    BY DEF TypeOK, Calls
<1>2. Unconnected(c, "open") /\ call' = [call EXCEPT ![c] = new]
    BY DEF Reconnect
<1>3. new.sends <= (IF new.loss = "inflight" THEN 1 ELSE 0)
    BY <1>1 DEF Counted, Sent, TypeOK, Calls
<1>4. "open" \in ClientPlaces /\ "open" \notin InFlight
    BY DEF ClientPlaces, InFlight
<1>5. new.sends \in 0..2
    BY <1>1 DEF Calls
<1> HIDE DEF new
<1>6. new.sends <= (IF new.loss = "inflight" THEN 1 ELSE 0)
                   + (IF "open" \in InFlight THEN 1 ELSE 0)
    BY <1>3, <1>4, <1>5
<1> QED
    BY <1>1, <1>2, <1>4, <1>6, OwnCall

LEMMA LoseStep ==
    ASSUME TypeOK, Counted, NEW c \in Clients, NEW kind \in {"connect", "inflight"},
           Lose(c, kind), kind = "connect" => pc[c] \notin InFlight
    PROVE  /\ ClientTypes' /\ Counted'
           /\ \E place \in {"idle", "open"} : pc' = [pc EXCEPT ![c] = place]
<1>1. CASE call[c].op = "pure" /\ call[c].loss = "none"
    BY <1>1, ReconnectStep DEF Lose
<1>2. CASE ~(call[c].op = "pure" /\ call[c].loss = "none")
    BY <1>2, ReturnStep DEF Lose, Outcomes
<1> QED
    BY <1>1, <1>2

LEMMA WaitStep ==
    ASSUME TypeOK, Counted, NEW c \in Clients, NEW since \in {"spawn", "recovery"},
           WaitForConvergence(c, since), pc[c] \notin InFlight
    PROVE  /\ ClientTypes' /\ Counted'
           /\ \E place \in {"idle", "open"} : pc' = [pc EXCEPT ![c] = place]
<1>0. "open" \in ClientPlaces /\ "open" \notin InFlight
    BY DEF ClientPlaces, InFlight
<1>1. CASE Return(c, "failed")
    BY <1>1, ReturnStep DEF Outcomes
<1>2. CASE Unconnected(c, "open") /\ UNCHANGED call
    <2>1. ClientTypes'
        BY <1>0, <1>2 DEF ClientTypes, TypeOK, Unconnected, Goto
    <2>2. Counted'
        BY <1>0, <1>2 DEF Counted, Sent, TypeOK, Unconnected, Goto
    <2> QED
        BY <2>1, <2>2, <1>2 DEF Unconnected, Goto
<1>3. CASE SleepOut(c, since)
    <2> DEFINE new == [call[c] EXCEPT !.clock = IF @ = "running" THEN since ELSE "both"]
    <2>1. /\ new \in Calls /\ new.loss = call[c].loss /\ new.sends = call[c].sends
          /\ new.op = call[c].op
        BY DEF TypeOK, Calls
    <2>2. Unconnected(c, "open") /\ call' = [call EXCEPT ![c] = new]
        BY <1>3 DEF SleepOut
    <2> HIDE DEF new
    <2>3. /\ new.op # "pure" => new.loss = "none"
          /\ new.sends <= (IF new.loss = "inflight" THEN 1 ELSE 0)
                          + (IF "open" \in InFlight THEN 1 ELSE 0)
        BY <1>0, <2>1 DEF Counted, Sent
    <2> QED
        BY <1>0, <2>1, <2>2, <2>3, OwnCall
<1> QED
    BY <1>1, <1>2, <1>3 DEF WaitForConvergence

-----------------------------------------------------------------------------
(* The inductive invariant.                                                *)

Inv == TypeOK /\ Owning /\ Entry /\ Counted

\* A client moves between places that are not inside a probe.
LEMMA QuietStep ==
    ASSUME Inv, NEW c \in Clients, NEW place \in ClientPlaces, place # "unlock",
           pc[c] # "unlock", pc' = [pc EXCEPT ![c] = place],
           UNCHANGED <<serverVars, authority>>, ClientTypes', Counted'
    PROVE  Inv'
<1>1. TypeOK'
    BY DEF Inv, TypeOK, ClientTypes, serverVars
<1>2. Owning'
    BY DEF Inv, TypeOK, Owning, serverVars
<1>3. Entry'
    BY DEF Inv, Entry, serverVars
<1> QED
    BY <1>1, <1>2, <1>3 DEF Inv

\* No request is sent or given up when a client only moves.
LEMMA CountedMove ==
    ASSUME TypeOK, Counted, NEW c \in Clients, NEW place \in ClientPlaces,
           pc' = [pc EXCEPT ![c] = place], UNCHANGED call,
           (pc[c] \in InFlight) => (place \in InFlight)
    PROVE  Counted'
<1> SUFFICES ASSUME NEW d \in Clients
             PROVE  /\ call[d].op # "pure" => call[d].loss = "none"
                    /\ call[d].sends <= Sent(d)'
    BY DEF Counted
<1>1. call[d].sends <= Sent(d) /\ call[d].sends \in 0..2
    BY DEF Counted, TypeOK, Calls
<1>2. (pc[d] \in InFlight) => (pc'[d] \in InFlight)
    BY DEF TypeOK
<1> QED
    BY <1>1, <1>2 DEF Counted, Sent

\* The same when the call is not rewritten and no request is sent or answered.
LEMMA QuietMove ==
    ASSUME Inv, NEW c \in Clients, NEW place \in ClientPlaces, place # "unlock",
           pc[c] # "unlock", pc' = [pc EXCEPT ![c] = place],
           (pc[c] \in InFlight) => (place \in InFlight),
           UNCHANGED <<serverVars, authority, call>>,
           opened' \subseteq Clients, peer' \in [Clients -> Servers \cup {None}]
    PROVE  Inv'
<1>1. ClientTypes'
    BY DEF Inv, TypeOK, ClientTypes
<1>2. Counted'
    BY CountedMove DEF Inv
<1> QED
    BY <1>1, <1>2, QuietStep

LEMMA PlacesApart ==
    /\ "unlock" \in ClientPlaces
    /\ \A place \in {"idle", "open", "validate", "dial", "verify", "probe", "classify",
                     "noOwner", "unresponsive", "hello"} :
          place \in ClientPlaces /\ place # "unlock" /\ place \notin InFlight
    /\ \A place \in {"reply", "working", "leased"} :
          place \in ClientPlaces /\ place # "unlock" /\ place \in InFlight
BY DEF ClientPlaces, InFlight

LEMMA ClientKeeps ==
    ASSUME Inv, NEW c \in Clients,
           \/ \E operation \in Operations \cup {"observe"} : Start(c, operation)
           \/ ClientStep(c) \/ ReleaseLease(c) \/ Deadline(c) \/ BudgetOut(c)
    PROVE  Inv'
<1> USE PlacesApart
<1>0. TypeOK /\ Counted
    BY DEF Inv
<1>1. ASSUME NEW operation \in Operations \cup {"observe"}, Start(c, operation)
      PROVE  Inv'
    <2> DEFINE new == [NewCall EXCEPT !.op = operation]
    <2>1. new \in Calls /\ new.loss = "none" /\ new.sends = 0
        BY ElectionAssumption DEF NewCall, Calls, Outcomes
    <2>2. call' = [call EXCEPT ![c] = new] /\ pc' = [pc EXCEPT ![c] = "open"]
          /\ pc[c] = "idle" /\ UNCHANGED <<serverVars, authority, opened, peer>>
        BY <1>1 DEF Start, Goto
    <2> HIDE DEF new
    <2>3. ClientTypes'
        BY <1>0, <2>1, <2>2 DEF TypeOK, ClientTypes
    <2>4. Counted'
        BY <1>0, <2>1, <2>2 DEF TypeOK, Counted, Sent
    <2> QED
        BY <2>2, <2>3, <2>4, QuietStep
<1>2. CASE OpenAuthority(c)
    BY <1>2, QuietMove DEF OpenAuthority, Goto, Inv, TypeOK
<1>3. CASE ValidateSocket(c)
    <2>1. CASE Return(c, "failed")
        BY <1>0, <1>3, <2>1, ReturnStep, QuietStep DEF ValidateSocket, Outcomes
    <2>2. CASE ~Return(c, "failed")
        BY <1>3, <2>2, QuietMove DEF ValidateSocket, Goto, Inv, TypeOK
    <2> QED
        BY <2>1, <2>2
<1>4. CASE Dial(c)
    BY <1>4, QuietMove DEF Dial, Goto, Inv, TypeOK
<1>5. CASE Verify(c)
    <2>1. CASE Return(c, "failed")
        BY <1>0, <1>5, <2>1, ReturnStep, QuietStep DEF Verify, Outcomes
    <2>2. CASE ~Return(c, "failed")
        BY <1>5, <2>2, QuietMove DEF Verify, Goto, Unconnected, Inv, TypeOK
    <2> QED
        BY <2>1, <2>2
<1>6. CASE Probe(c)
    <2>1. CASE authority = None
        <3>1. TypeOK'
            BY <1>0, <1>6, <2>1 DEF Probe, Goto, TypeOK, serverVars
        <3>2. Owning'
            BY <1>6, <2>1, ElectionAssumption
               DEF Probe, Goto, Inv, TypeOK, Owning, serverVars
        <3>3. Entry'
            BY <1>6, <2>1 DEF Probe, Inv, Entry, serverVars
        <3>4. Counted'
            BY <1>0, <1>6, <2>1, CountedMove DEF Probe, Goto
        <3> QED
            BY <3>1, <3>2, <3>3, <3>4 DEF Inv
    <2>2. CASE authority # None /\ peer[c] = None
        BY <1>0, <1>6, <2>2, ReturnStep, QuietStep DEF Probe, Outcomes
    <2>3. CASE authority # None /\ peer[c] # None
        <3> DEFINE new == [call[c] EXCEPT
                              !.attempt = IF @ = "none" THEN @ ELSE "succeeded",
                              !.child = None]
        <3>1. /\ new \in Calls /\ new.loss = call[c].loss /\ new.sends = call[c].sends
              /\ new.op = call[c].op
            BY <1>0, ZenonT(60) DEF TypeOK, Calls
        <3>2. call' = [call EXCEPT ![c] = new] /\ pc' = [pc EXCEPT ![c] = "hello"]
              /\ pc[c] = "probe" /\ UNCHANGED <<serverVars, authority, peer>>
              /\ opened' = opened \ {c}
            BY <1>6, <2>3 DEF Probe, Goto
        <3> HIDE DEF new
        <3>3. ClientTypes'
            BY <1>0, <3>1, <3>2 DEF TypeOK, ClientTypes
        <3>4. Counted'
            BY <1>0, <3>1, <3>2 DEF TypeOK, Counted, Sent
        <3> QED
            BY <3>2, <3>3, <3>4, QuietStep
    <2> QED
        BY <2>1, <2>2, <2>3
<1>7. CASE Classify(c)
    <2>1. CASE pc' = [pc EXCEPT ![c] = "unlock"] /\ authority = None /\ authority' = c
               /\ UNCHANGED <<opened, peer>>
        <3>1. TypeOK'
            BY <1>0, <1>7, <2>1 DEF Classify, TypeOK, serverVars
        <3>2. Owning'
            BY <1>7, <2>1, ElectionAssumption
               DEF Classify, Inv, TypeOK, Owning, serverVars
        <3>3. Entry'
            BY <1>7, <2>1 DEF Classify, Inv, Entry, serverVars
        <3>4. Counted'
            BY <1>0, <1>7, <2>1, CountedMove DEF Classify
        <3> QED
            BY <3>1, <3>2, <3>3, <3>4 DEF Inv
    <2>2. CASE (Unconnected(c, "noOwner") \/ Unconnected(c, "unresponsive"))
               /\ UNCHANGED authority
        BY <1>7, <2>2, QuietMove DEF Classify, Goto, Unconnected, Inv, TypeOK
    <2> QED
        BY <1>7, <2>1, <2>2 DEF Classify, Goto
<1>8. CASE Unlock(c)
    <2>1. TypeOK'
        BY <1>0, <1>8 DEF Unlock, Unconnected, Goto, TypeOK, serverVars
    <2>2. Owning'
        <3>1. authority = c
            BY <1>8 DEF Unlock, Inv, Owning
        <3> QED
            BY <3>1, <1>8, ElectionAssumption
               DEF Unlock, Unconnected, Goto, Inv, TypeOK, Owning, serverVars
    <2>3. Entry'
        BY <1>8 DEF Unlock, Inv, Entry, serverVars
    <2>4. Counted'
        <3>1. /\ pc[c] = "unlock" /\ UNCHANGED call
              /\ pc' = [pc EXCEPT ![c] = "noOwner"]
            BY <1>8 DEF Unlock, Unconnected, Goto
        <3>2. pc[c] \notin InFlight
            BY <3>1 DEF InFlight
        <3> QED
            BY <1>0, <3>1, <3>2, CountedMove
    <2> QED
        BY <2>1, <2>2, <2>3, <2>4 DEF Inv
<1>9. CASE NoOwnerEnds(c)
    BY <1>0, <1>9, ReturnStep, QuietStep DEF NoOwnerEnds, Outcomes
<1>10. CASE Spawn(c)
    <2> PICK s \in Servers :
              /\ server[s] = "dead"
              /\ server' = [server EXCEPT ![s] = "starting"]
              /\ call' = [call EXCEPT ![c].attempt = "pending", ![c].child = s]
        BY <1>10 DEF Spawn
    <2> DEFINE new == [call[c] EXCEPT !.attempt = "pending", !.child = s]
    <2>0. call[c] \in Calls
        BY <1>0 DEF TypeOK
    <2>1. /\ new \in Calls /\ new.loss = call[c].loss /\ new.sends = call[c].sends
          /\ new.op = call[c].op
        BY <2>0 DEF Calls
    <2>2. call' = [call EXCEPT ![c] = new] /\ pc' = [pc EXCEPT ![c] = "open"]
          /\ pc[c] = "noOwner"
          /\ UNCHANGED <<authorityFile, authority, socket, mode, opened, peer>>
        BY <1>10 DEF Spawn, Goto
    <2> HIDE DEF new
    <2>3. TypeOK'
        BY <1>0, <2>1, <2>2, ZenonT(60) DEF TypeOK, ServerPlaces, Starting
    <2>4. Owning'
        BY <2>2 DEF Inv, TypeOK, Owning, Owners
    <2>5. Entry'
        BY <2>2 DEF Inv, TypeOK, Entry, Listening
    <2>6. Counted'
        BY <1>0, <2>1, <2>2 DEF TypeOK, Counted, Sent
    <2> QED
        BY <2>3, <2>4, <2>5, <2>6 DEF Inv
<1>11. CASE NoOwnerWaits(c)
    BY <1>0, <1>11, WaitStep, QuietStep DEF NoOwnerWaits
<1>12. CASE OwnerUnresponsive(c)
    BY <1>0, <1>12, WaitStep, LoseStep, ReturnStep, QuietStep
       DEF OwnerUnresponsive, Outcomes
<1>13. CASE HelloAnswered(c)
    <2> DEFINE new == [call[c] EXCEPT !.sends = @ + 1]
    <2>0. call[c].sends <= (IF call[c].loss = "inflight" THEN 1 ELSE 0)
          /\ call[c] \in Calls /\ call[c].sends \in 0..2
        BY <1>0, <1>13 DEF HelloAnswered, Counted, Sent, TypeOK, Calls
    <2>1. /\ new \in Calls /\ new.loss = call[c].loss /\ new.sends = call[c].sends + 1
          /\ new.op = call[c].op
        BY <2>0 DEF Calls
    <2>2. call' = [call EXCEPT ![c] = new] /\ pc' = [pc EXCEPT ![c] = "reply"]
          /\ pc[c] = "hello" /\ UNCHANGED <<serverVars, authority, opened, peer>>
        BY <1>13 DEF HelloAnswered, Goto
    <2> HIDE DEF new
    <2>3. ClientTypes'
        BY <1>0, <2>1, <2>2 DEF TypeOK, ClientTypes
    <2>4. Counted'
        BY <1>0, <2>0, <2>1, <2>2 DEF TypeOK, Counted, Sent
    <2> QED
        BY <2>2, <2>3, <2>4, QuietStep
<1>14. CASE HelloLost(c)
    BY <1>0, <1>14, WaitStep, LoseStep, QuietStep DEF HelloLost
<1>15. CASE Admitted(c)
    <2>1. CASE Goto(c, "working") /\ UNCHANGED <<opened, peer, call>>
        BY <1>15, <2>1, QuietMove DEF Admitted, Goto, Inv, TypeOK
    <2>2. CASE Return(c, "served")
        BY <1>0, <1>15, <2>2, ReturnStep, QuietStep DEF Admitted, Outcomes
    <2>3. CASE Lose(c, "inflight")
        BY <1>0, <1>15, <2>3, LoseStep, QuietStep DEF Admitted
    <2> QED
        BY <1>15, <2>1, <2>2, <2>3 DEF Admitted
<1>16. CASE Answered(c)
    <2>1. CASE Goto(c, "leased") /\ UNCHANGED <<opened, peer, call>>
        BY <1>16, <2>1, QuietMove DEF Answered, Goto, Inv, TypeOK
    <2>2. CASE Return(c, "served")
        BY <1>0, <1>16, <2>2, ReturnStep, QuietStep DEF Answered, Outcomes
    <2> QED
        BY <1>16, <2>1, <2>2 DEF Answered
<1>17. CASE ExchangeLost(c)
    BY <1>0, <1>17, LoseStep, QuietStep DEF ExchangeLost
<1>18. CASE Reap(c)
    <2> DEFINE new == [call[c] EXCEPT !.attempt = "failed"]
    <2>1. /\ new \in Calls /\ new.loss = call[c].loss /\ new.sends = call[c].sends
          /\ new.op = call[c].op
        BY <1>0 DEF TypeOK, Calls
    <2>2. call' = [call EXCEPT ![c] = new]
          /\ UNCHANGED <<serverVars, authority, pc, opened, peer>>
        BY <1>18 DEF Reap
    <2> HIDE DEF new
    <2>3. TypeOK'
        BY <1>0, <2>1, <2>2 DEF TypeOK, serverVars
    <2>4. Owning' /\ Entry'
        BY <2>2 DEF Inv, Owning, Entry, serverVars
    <2>5. Counted'
        BY <1>0, <2>1, <2>2 DEF TypeOK, Counted, Sent
    <2> QED
        BY <2>3, <2>4, <2>5 DEF Inv
<1>19. CASE ReleaseLease(c)
    BY <1>0, <1>19, ReturnStep, QuietStep DEF ReleaseLease, Outcomes
<1>20. CASE Deadline(c)
    BY <1>0, <1>20, ReturnStep, QuietStep DEF Deadline, Outcomes
<1>21. CASE BudgetOut(c)
    BY <1>21, QuietMove DEF BudgetOut, Goto, Inv, TypeOK
<1> QED
    BY <1>1, <1>2, <1>3, <1>4, <1>5, <1>6, <1>7, <1>8, <1>9, <1>10, <1>11, <1>12,
       <1>13, <1>14, <1>15, <1>16, <1>17, <1>18, <1>19, <1>20, <1>21 DEF ClientStep

-----------------------------------------------------------------------------
(* A server's step.                                                        *)

LEMMA EndsStep ==
    ASSUME TypeOK, Counted, NEW s \in Servers, NEW well \in BOOLEAN, Ends(s, well),
           UNCHANGED <<pc, opened>>
    PROVE  /\ ClientTypes' /\ Counted'
           /\ server' = [server EXCEPT ![s] = "dead"]
           /\ server' \in [Servers -> ServerPlaces]
<1>1. ASSUME NEW c \in Clients
      PROVE  /\ call'[c] \in Calls /\ call'[c].loss = call[c].loss
             /\ call'[c].op = call[c].op /\ call'[c].sends = call[c].sends
    <2>1. CASE call[c].child # s
        BY <2>1 DEF TypeOK, Ends
    <2>2. CASE call[c].child = s
        <3>1. PICK a \in {"none", "pending", "failing", "failed", "succeeded"} :
                     call'[c] = [call[c] EXCEPT !.child = None, !.attempt = a]
            BY <2>2 DEF TypeOK, Ends, Calls
        <3>2. call[c] \in Calls
            BY DEF TypeOK
        <3> QED
            BY <3>1, <3>2 DEF Calls
    <2> QED
        BY <2>1, <2>2
<1>2. call' \in [Clients -> Calls]
    BY <1>1 DEF Ends
<1>3. ClientTypes'
    BY <1>2 DEF ClientTypes, TypeOK, Ends
<1>4. Counted'
    BY <1>1 DEF Counted, Sent
<1> QED
    BY <1>3, <1>4 DEF Ends, TypeOK, ServerPlaces

\* A process that ends badly gives up the authority and leaves its entry.
LEMMA DiesStep ==
    ASSUME Inv, NEW s \in Servers, Dies(s)
    PROVE  Inv'
<1>0. TypeOK /\ Counted /\ Owning /\ Entry
    BY DEF Inv
<1>1. /\ ClientTypes' /\ Counted'
      /\ server' = [server EXCEPT ![s] = "dead"]
      /\ server' \in [Servers -> ServerPlaces]
    BY <1>0, EndsStep DEF Dies
<1>2. TypeOK'
    BY <1>0, <1>1 DEF Dies, TypeOK, ClientTypes
<1>3. Owning'
    BY <1>0, <1>1, ElectionAssumption DEF Dies, TypeOK, Owning, Owners
<1>4. Entry'
    BY <1>0, <1>1, ElectionAssumption DEF Dies, TypeOK, Entry, Listening
<1> QED
    BY <1>1, <1>2, <1>3, <1>4 DEF Inv

\* A server moves on and leaves the clients alone.
LEMMA ServerMove ==
    ASSUME Inv, NEW s \in Servers, NEW place \in ServerPlaces,
           server' = [server EXCEPT ![s] = place], UNCHANGED <<pc, opened, peer, call>>,
           authorityFile' \in BOOLEAN, mode' \in {"private", "open"},
           socket' \in Servers \cup {None, "stale"},
           authority' \in Clients \cup Servers \cup {None}
    PROVE  TypeOK' /\ Counted'
BY DEF Inv, TypeOK, Counted, Sent

LEMMA ServerKeeps ==
    ASSUME Inv, NEW s \in Servers, ServerStep(s) \/ Drain(s) \/ Crash(s)
    PROVE  Inv'
<1> USE DEF ServerPlaces, Starting, Ending
<1>0. TypeOK /\ Counted /\ Owning /\ Entry
    BY DEF Inv
<1>1. CASE CreateAuthority(s)
    <2>1. TypeOK' /\ Counted'
        BY <1>0, <1>1, ServerMove DEF CreateAuthority, TypeOK
    <2>2. Owning' /\ Entry'
        BY <1>0, <1>1 DEF CreateAuthority, TypeOK, Owning, Owners, Entry, Listening
    <2> QED
        BY <2>1, <2>2 DEF Inv
<1>2. CASE TryLock(s)
    <2>1. CASE authority = None
        <3>1. TypeOK' /\ Counted'
            BY <1>0, <1>2, <2>1, ServerMove DEF TryLock, TypeOK
        <3>2. Owning'
            BY <1>0, <1>2, <2>1, ElectionAssumption DEF TryLock, TypeOK, Owning, Owners
        <3>3. Entry'
            BY <1>0, <1>2, <2>1 DEF TryLock, TypeOK, Entry, Listening
        <3> QED
            BY <3>1, <3>2, <3>3 DEF Inv
    <2>2. CASE authority # None
        <3>1. /\ ClientTypes' /\ Counted'
              /\ server' = [server EXCEPT ![s] = "dead"]
              /\ server' \in [Servers -> ServerPlaces]
            BY <1>0, <1>2, <2>2, EndsStep DEF TryLock
        <3>2. TypeOK'
            BY <1>0, <1>2, <2>2, <3>1 DEF TryLock, TypeOK, ClientTypes
        <3>3. Owning' /\ Entry'
            BY <1>0, <1>2, <2>2, <3>1
               DEF TryLock, TypeOK, Owning, Owners, Entry, Listening
        <3> QED
            BY <3>1, <3>2, <3>3 DEF Inv
    <2> QED
        BY <2>1, <2>2
<1>3. CASE RemoveStaleSocket(s)
    <2>1. CASE Dies(s)
        BY <2>1, DiesStep
    <2>2. CASE ~Dies(s)
        <3>1. TypeOK' /\ Counted'
            BY <1>0, <1>3, <2>2, ServerMove DEF RemoveStaleSocket, TypeOK
        <3>2. Owning' /\ Entry'
            BY <1>0, <1>3, <2>2
               DEF RemoveStaleSocket, TypeOK, Owning, Owners, Entry, Listening
        <3> QED
            BY <3>1, <3>2 DEF Inv
    <2> QED
        BY <2>1, <2>2
<1>4. CASE Listen(s)
    <2>1. CASE Dies(s)
        BY <2>1, DiesStep
    <2>2. CASE ~Dies(s)
        <3>1. TypeOK' /\ Counted'
            BY <1>0, <1>4, <2>2, ServerMove DEF Listen, TypeOK
        <3>2. Owning' /\ Entry'
            BY <1>0, <1>4, <2>2
               DEF Listen, TypeOK, Owning, Owners, Entry, Listening
        <3> QED
            BY <3>1, <3>2 DEF Inv
    <2> QED
        BY <2>1, <2>2
<1>5. CASE Secure(s)
    <2>1. TypeOK' /\ Counted'
        BY <1>0, <1>5, ServerMove DEF Secure, TypeOK
    <2>2. Owning' /\ Entry'
        BY <1>0, <1>5 DEF Secure, TypeOK, Owning, Owners, Entry, Listening
    <2> QED
        BY <2>1, <2>2 DEF Inv
<1>6. CASE ListenerDrop(s)
    <2>1. CASE server[s] = "draining"
        <3>0. socket = s
            BY <1>0, <2>1 DEF Entry, Listening
        <3>1. TypeOK' /\ Counted'
            BY <1>0, <1>6, <2>1, <3>0, ServerMove DEF ListenerDrop, TypeOK
        <3>2. Owning' /\ Entry'
            BY <1>0, <1>6, <2>1, <3>0
               DEF ListenerDrop, TypeOK, Owning, Owners, Entry, Listening
        <3> QED
            BY <3>1, <3>2 DEF Inv
    <2>2. CASE server[s] = "checked"
        <3>1. TypeOK' /\ Counted'
            BY <1>0, <1>6, <2>2, ServerMove DEF ListenerDrop, TypeOK
        <3>2. Owning' /\ Entry'
            BY <1>0, <1>6, <2>2
               DEF ListenerDrop, TypeOK, Owning, Owners, Entry, Listening
        <3> QED
            BY <3>1, <3>2 DEF Inv
    <2>3. CASE server[s] = "unlinked"
        <3>0. Ends(s, TRUE) /\ authority' = None
              /\ UNCHANGED <<authorityFile, socket, mode, pc, opened>>
            BY <1>6, <2>3 DEF ListenerDrop
        <3>1. /\ ClientTypes' /\ Counted'
              /\ server' = [server EXCEPT ![s] = "dead"]
              /\ server' \in [Servers -> ServerPlaces]
            BY <1>0, <3>0, EndsStep
        <3>2. TypeOK'
            BY <1>0, <3>0, <3>1 DEF TypeOK, ClientTypes
        <3>3. authority = s
            BY <1>0, <2>3 DEF Owning, Owners
        <3>4. Owning'
            BY <1>0, <3>0, <3>1, <3>3, ElectionAssumption DEF TypeOK, Owning, Owners
        <3>5. Entry'
            BY <1>0, <3>0, <3>1 DEF TypeOK, Entry, Listening
        <3> QED
            BY <3>1, <3>2, <3>4, <3>5 DEF Inv
    <2> QED
        BY <1>6, <2>1, <2>2, <2>3 DEF ListenerDrop
<1>7. CASE Drain(s)
    <2>1. TypeOK' /\ Counted'
        BY <1>0, <1>7, ServerMove DEF Drain, TypeOK
    <2>2. Owning' /\ Entry'
        BY <1>0, <1>7 DEF Drain, TypeOK, Owning, Owners, Entry, Listening
    <2> QED
        BY <2>1, <2>2 DEF Inv
<1>8. CASE Crash(s)
    BY <1>8, DiesStep DEF Crash
<1> QED
    BY <1>1, <1>2, <1>3, <1>4, <1>5, <1>6, <1>7, <1>8 DEF ServerStep

-----------------------------------------------------------------------------
(* The theorems.                                                           *)

LEMMA InvInit == Init => Inv
<1> SUFFICES ASSUME Init PROVE Inv
    OBVIOUS
<1>1. TypeOK
    BY NewCallTypes DEF Init, TypeOK, ServerPlaces, ClientPlaces
<1>2. Owning /\ Entry
    BY ElectionAssumption DEF Init, Owning, Owners, Entry, Listening
<1>3. Counted
    BY NewCallTypes DEF Init, Counted, Sent, InFlight
<1> QED
    BY <1>1, <1>2, <1>3 DEF Inv

\* The inductive invariant: whoever touches the socket path holds the
\* authority, and a replay is remembered.
THEOREM Invariance == Spec => []Inv
<1>1. ASSUME Inv, [Next]_vars PROVE Inv'
    <2>1. CASE UNCHANGED vars
        BY <1>1, <2>1 DEF Inv, TypeOK, Owning, Entry, Counted, Sent, vars
    <2>2. CASE Next
        BY <1>1, <2>2, ClientKeeps, ServerKeeps DEF Next
    <2> QED
        BY <1>1, <2>1, <2>2
<1> QED
    BY <1>1, InvInit, PTL DEF Spec

\* Every variable keeps its type (the values the code can give it).
THEOREM TypeCorrect == Spec => []TypeOK
BY Invariance, PTL DEF Inv

\* A serving server holds the lifetime authority and owns the socket path,
\* whatever crashes, exits or races there were (bind, Drop for Listener).
THEOREM Reachable == Spec => []ServingIsReachable
<1>1. Inv => ServingIsReachable
    BY DEF Inv, Owning, Owners, Entry, Listening, ServingIsReachable
<1> QED
    BY <1>1, Invariance, PTL

\* No call is sent more often than its kind allows (call_pure_with_replay).
THEOREM BoundedReplay == Spec => []ReplaysBounded
<1>1. Inv => ReplaysBounded
    BY DEF Inv, TypeOK, Calls, Counted, Sent, ReplaysBounded
<1> QED
    BY <1>1, Invariance, PTL
=============================================================================
