---------------------------- MODULE Welcome_proofs ----------------------------
(***************************************************************************)
(* Theorems about Welcome, for any number of workers, events and retries,  *)
(* and any size of the channel.                                            *)
(***************************************************************************)
EXTENDS Welcome, SequenceTheorems, TLAPS

USE DEF Confirmed

\* The invariant holds at the start.
LEMMA InitIInv == Init => IInv
<1> SUFFICES ASSUME Init PROVE IInv
  OBVIOUS
<1>1. Holders = {}
  BY DEF Init, Holders, Free, Holding
<1>2. TypeOK
  <2>1. <<>> \in Seq(1..0) /\ Len(<<>>) = 0
    OBVIOUS
  <2>2. 0 \in 0..MaxEvents /\ 0 \in 0..0 /\ 0 \in 0..MaxRetries /\ 0 <= QueueSize
    BY EventsAssumption, RetriesAssumption, QueueAssumption
  <2> QED
    BY <2>1, <2>2 DEF Init, TypeOK
<1> QED
  BY <1>1, <1>2 DEF Init, IInv, OneHolder, WelcomedOnce, GateIsHeld, EventIsKept

\* Who holds the gate depends on the workers alone.
LEMMA SameHolders == work' = work => Holders' = Holders
BY DEF Holders

\* The gate's invariants do not depend on events and deliveries.
LEMMA GateUntouched ==
  ASSUME OneHolder, WelcomedOnce, GateIsHeld, Holders' = Holders, UNCHANGED gateVars
  PROVE  OneHolder' /\ WelcomedOnce' /\ GateIsHeld'
BY DEF OneHolder, WelcomedOnce, GateIsHeld, gateVars

-----------------------------------------------------------------------------
\* The agent and the profile service.

\* An update is announced before its event counts.
LEMMA UpdateProfileStep == ASSUME IInv, UpdateProfile PROVE IInv'
<1> USE DEF UpdateProfile, groupVars, processVars, gateVars
<1>1. TypeOK'
  BY DEF IInv, TypeOK
<1>2. OneHolder' /\ WelcomedOnce' /\ GateIsHeld'
  BY SameHolders, GateUntouched DEF IInv
<1>3. EventIsKept'
  BY DEF EventIsKept
<1> QED
  BY <1>1, <1>2, <1>3 DEF IInv

\* The new event waits in the stream, and no worker can have it.
LEMMA AnnounceStep == ASSUME IInv, Announce PROVE IInv'
<1> USE DEF Announce, groupVars, processVars, gateVars
<1>1. published \in Nat /\ read \in Nat /\ read <= published /\ published < MaxEvents
  BY EventsAssumption DEF IInv, TypeOK
<1>2. TypeOK'
  <2>0. published' = published \/ published' = published + 1
    OBVIOUS
  <2>1. published' \in 0..MaxEvents /\ read \in 0..published'
    BY <1>1, <2>0, EventsAssumption
  <2> QED
    BY <2>1 DEF IInv, TypeOK
<1>3. OneHolder' /\ WelcomedOnce' /\ GateIsHeld'
  BY SameHolders, GateUntouched DEF IInv
<1>4. EventIsKept'
  <2>1. CASE forgotten'
    BY <2>1 DEF EventIsKept
  <2>2. CASE ~forgotten'
    <3>1. published' = published + 1
      BY <2>2
    <3>2. \A w \in Workers : work[w].event <= published
      BY <1>1 DEF IInv, TypeOK, Free
    <3> QED
      BY <1>1, <3>1, <3>2 DEF EventIsKept
  <2> QED
    BY <2>1, <2>2
<1> QED
  BY <1>2, <1>3, <1>4 DEF IInv

\* A block is of no concern to the invariant.
LEMMA BlockStep == ASSUME IInv, Block PROVE IInv'
<1> USE DEF Block, groupVars, processVars, gateVars
<1>1. TypeOK'
  BY DEF IInv, TypeOK
<1>2. OneHolder' /\ WelcomedOnce' /\ GateIsHeld'
  BY SameHolders, GateUntouched DEF IInv
<1>3. EventIsKept'
  BY DEF EventIsKept, IInv
<1> QED
  BY <1>1, <1>2, <1>3 DEF IInv

-----------------------------------------------------------------------------
\* The dispatcher.

\* An entry grows old.
LEMMA AgeStep == ASSUME IInv, NEW m \in Events, Age(m) PROVE IInv'
<1> USE DEF Age, agentVars, processVars, gateVars
<1>1. TypeOK'
  BY DEF IInv, TypeOK
<1>2. OneHolder' /\ WelcomedOnce' /\ GateIsHeld'
  BY SameHolders, GateUntouched DEF IInv
<1>3. EventIsKept'
  BY DEF EventIsKept, IInv
<1> QED
  BY <1>1, <1>2, <1>3 DEF IInv

\* Delivery counts stay within the retries.
LEMMA DeliverType ==
  ASSUME NEW S, count \in [Events -> 0..MaxRetries], Deliver(S)
  PROVE  count' \in [Events -> 0..MaxRetries]
BY RetriesAssumption DEF Deliver

\* Only exhausted entries leave the list, and then something is forgotten.
LEMMA ReclaimStep == ASSUME IInv, Reclaim PROVE IInv'
<1> USE DEF Reclaim, agentVars, gateVars
<1>1. /\ pending \ Exhausted \subseteq pending'
      /\ pending' \subseteq pending
      /\ batch' = batch \/ batch' \subseteq idle
      /\ preferFresh' \in BOOLEAN
  BY DEF IInv, TypeOK
<1>2. TypeOK'
  BY <1>1, DeliverType DEF IInv, TypeOK
<1>3. OneHolder' /\ WelcomedOnce' /\ GateIsHeld'
  BY SameHolders, GateUntouched DEF IInv
<1>4. EventIsKept'
  BY <1>1 DEF EventIsKept, IInv
<1> QED
  BY <1>2, <1>3, <1>4 DEF IInv

\* A sequence stays one over a larger set.
LEMMA LargerSeq ==
  ASSUME NEW S, NEW T, S \subseteq T, NEW s \in Seq(S)
  PROVE  s \in Seq(T)
BY SeqDef

\* What is read is pending from then on.
LEMMA ReadFreshStep == ASSUME IInv, ReadFresh PROVE IInv'
<1> USE DEF ReadFresh, agentVars, gateVars
<1> DEFINE new == read + 1 .. published
<1>1. published \in Nat /\ read \in Nat /\ read <= published
  BY EventsAssumption DEF IInv, TypeOK
<1>2. read' = published /\ pending' = pending \cup new /\ batch' \in {new, {}}
  OBVIOUS
<1>3. 1..read \subseteq 1..read' /\ new \subseteq 1..read'
  BY <1>1, <1>2
<1>4. TypeOK'
  <2>1. chan' \in Seq(1..read')
    BY <1>3, LargerSeq DEF IInv, TypeOK
  <2>2. count' \in [Events -> 0..MaxRetries]
    BY DeliverType DEF IInv, TypeOK
  <2>3. work' \in [Workers -> [event : 1..read', step : Steps] \cup {Free}]
    BY <1>3 DEF IInv, TypeOK
  <2>4. pending' \subseteq 1..read' /\ batch' \subseteq 1..read' /\ read' \in 0..published'
    BY <1>1, <1>2, <1>3 DEF IInv, TypeOK
  <2> QED
    BY <2>1, <2>2, <2>3, <2>4 DEF IInv, TypeOK
<1>5. OneHolder' /\ WelcomedOnce' /\ GateIsHeld'
  BY SameHolders, GateUntouched DEF IInv
<1>6. EventIsKept'
  <2>1. published \in pending \/ published > read => published \in pending'
    BY <1>1, <1>2
  <2> QED
    BY <2>1 DEF EventIsKept, IInv
<1> QED
  BY <1>4, <1>5, <1>6 DEF IInv

\* The channel fills up to its size.
LEMMA DispatchStep == ASSUME IInv, Dispatch PROVE IInv'
<1> USE DEF Dispatch, agentVars, groupVars, gateVars
<1>1. PICK m \in batch : chan' = Append(chan, m) /\ batch' = batch \ {m}
  OBVIOUS
<1>2. TypeOK'
  <2>1. chan \in Seq(1..read) /\ m \in 1..read /\ Len(chan) < QueueSize
    BY DEF IInv, TypeOK
  <2>2. chan' \in Seq(1..read) /\ Len(chan') = Len(chan) + 1
    BY <1>1, <2>1
  <2>3. Len(chan') <= QueueSize
    BY <2>1, <2>2, QueueAssumption
  <2> QED
    BY <1>1, <2>2, <2>3 DEF IInv, TypeOK
<1>3. OneHolder' /\ WelcomedOnce' /\ GateIsHeld'
  BY SameHolders, GateUntouched DEF IInv
<1>4. EventIsKept'
  BY DEF EventIsKept, IInv
<1> QED
  BY <1>2, <1>3, <1>4 DEF IInv

-----------------------------------------------------------------------------
\* The workers.

\* A worker that has an event is not free, and the others stay where they are.
LEMMA GotoType ==
  ASSUME TypeOK, NEW w \in Workers, work[w] # Free, NEW l \in Steps, Goto(w, l)
  PROVE  /\ work' \in [Workers -> [event : 1..read, step : Steps] \cup {Free}]
         /\ \A v \in Workers \ {w} : work'[v] = work[v]
         /\ work'[w].event = work[w].event /\ work'[w].step = l
<1>1. work[w] \in [event : 1..read, step : Steps]
  BY DEF TypeOK
<1>2. [work[w] EXCEPT !.step = l] \in [event : 1..read, step : Steps]
  BY <1>1
<1>3. work' = [work EXCEPT ![w] = [work[w] EXCEPT !.step = l]]
  BY DEF Goto
<1> QED
  BY <1>1, <1>2, <1>3 DEF TypeOK

\* A worker that goes on within the gate or outside of it leaves the holders alone.
LEMMA GotoHolders ==
  ASSUME TypeOK, NEW w \in Workers, work[w] # Free, NEW l \in Steps, Goto(w, l)
  PROVE  Holders' = IF l \in Holding THEN Holders \cup {w} ELSE Holders \ {w}
BY GotoType DEF Holders

\* A worker takes the event at the head of the channel.
LEMMA TakeStep == ASSUME IInv, NEW w \in Workers, Take(w) PROVE IInv'
<1> USE DEF Take, agentVars, groupVars, gateVars
<1>1. Head(chan) \in 1..read /\ chan' \in Seq(1..read) /\ Len(chan') <= QueueSize
  <2>1. chan \in Seq(1..read) /\ chan # <<>> /\ Len(chan) <= QueueSize
    BY DEF IInv, TypeOK
  <2>2. Head(chan) \in 1..read /\ Tail(chan) \in Seq(1..read) /\ Len(Tail(chan)) = Len(chan) - 1
    BY <2>1, HeadTailProperties
  <2>3. Len(chan) \in Nat /\ QueueSize \in Nat
    BY <2>1, QueueAssumption
  <2> QED
    BY <2>1, <2>2, <2>3
<1>2. TypeOK'
  BY <1>1 DEF IInv, TypeOK, Steps
<1>3. /\ work'[w].step = "lookup"
      /\ \A v \in Workers \ {w} : work'[v] = work[v]
  BY DEF IInv, TypeOK
<1>4. Holders' = Holders
  BY <1>3 DEF Holders, Holding, Free
<1>5. OneHolder' /\ WelcomedOnce' /\ GateIsHeld'
  BY <1>4, GateUntouched DEF IInv
<1>6. EventIsKept'
  BY <1>3 DEF EventIsKept, IInv
<1> QED
  BY <1>2, <1>5, <1>6 DEF IInv

\* A completed profile is not mistaken for an incomplete one.
LEMMA LookupStep == ASSUME IInv, NEW w \in Workers, Lookup(w) PROVE IInv'
<1> USE DEF Lookup, agentVars, groupVars, gateVars
<1>1. PICK l \in {"retry", "gate", "done"} :
        /\ Goto(w, l)
        /\ l = "done" => ~complete \/ Confirmed \/ forgotten'
        /\ forgotten => forgotten'
        /\ forgotten' \in BOOLEAN /\ resolved' \in BOOLEAN
  BY DEF IInv, TypeOK
<1>2. work[w] # Free /\ l \in Steps /\ l \notin Holding
  BY DEF Free, Steps, Holding
<1>3. TypeOK'
  BY <1>1, <1>2, GotoType DEF IInv, TypeOK
<1>4. Holders' = Holders
  BY <1>1, <1>2, GotoHolders DEF Holders, Holding, IInv
<1>5. OneHolder' /\ WelcomedOnce' /\ GateIsHeld'
  BY <1>4, GateUntouched DEF IInv
<1>6. EventIsKept'
  BY <1>1, <1>2, GotoType DEF EventIsKept, IInv
<1> QED
  BY <1>3, <1>5, <1>6 DEF IInv

\* Who finds the gate open is the only one behind it.
LEMMA GateStep == ASSUME IInv, NEW w \in Workers, Gate(w) PROVE IInv'
<1> USE DEF Gate, agentVars, groupVars
<1>1. PICK l \in {"retry", "work", "done"} :
        /\ Goto(w, l)
        /\ l = "retry" => \/ gate' = gate /\ stuck' = stuck
                          \/ gate' /\ stuck'
        /\ l = "work" => ~gate /\ gate' /\ stuck' = stuck
        /\ l = "done" => gate /\ gate' = gate /\ stuck' = stuck
                           /\ (Confirmed \/ forgotten')
        /\ forgotten => forgotten'
  <2>1. CASE Goto(w, "retry") /\ gate' = gate /\ stuck' = stuck /\ forgotten' = forgotten
    BY <2>1, Zenon
  <2>2. CASE Goto(w, "retry") /\ gate' = TRUE /\ stuck' = TRUE /\ forgotten' = forgotten
    BY <2>2, Zenon
  <2>3. CASE /\ ~gate /\ gate' = TRUE /\ Goto(w, "work")
             /\ stuck' = stuck /\ forgotten' = forgotten
    BY <2>3, Zenon
  <2>4. CASE /\ gate /\ Goto(w, "done") /\ forgotten' = (forgotten \/ ~Confirmed)
             /\ gate' = gate /\ stuck' = stuck
    BY <2>4, Zenon
  <2> QED
    BY <2>1, <2>2, <2>3, <2>4
<1>2. work[w] # Free /\ l \in Steps /\ w \notin Holders
  BY DEF Free, Steps, Holding, Holders
<1>3. TypeOK'
  BY <1>1, <1>2, GotoType DEF IInv, TypeOK
<1>4. Holders' = IF l = "work" THEN Holders \cup {w} ELSE Holders
  BY <1>1, <1>2, GotoHolders DEF Holding, IInv
<1>5. OneHolder' /\ WelcomedOnce' /\ GateIsHeld'
  <2>1. CASE l = "retry"
    <3>1. Holders' = Holders
      BY <1>4, <2>1
    <3>2. (gate => gate') /\ (stuck => stuck') /\ (gate' => gate \/ stuck')
      BY <1>1, <2>1
    <3> QED
      BY <3>1, <3>2 DEF IInv, OneHolder, WelcomedOnce, GateIsHeld
  <2>2. CASE l = "work"
    <3>1. Holders = {} /\ ~Confirmed /\ Holders' = {w} /\ gate'
      BY <1>1, <1>4, <2>2 DEF IInv, OneHolder, WelcomedOnce
    <3> QED
      BY <3>1 DEF IInv, OneHolder, WelcomedOnce, GateIsHeld
  <2>3. CASE l = "done"
    <3>1. Holders' = Holders /\ UNCHANGED gateVars
      BY <1>1, <1>4, <2>3 DEF gateVars
    <3> QED
      BY <3>1, GateUntouched DEF IInv
  <2> QED
    BY <2>1, <2>2, <2>3
<1>6. EventIsKept'
  <2>1. stuck => stuck'
    <3>1. CASE l = "retry"
      BY <1>1, <3>1
    <3>2. CASE l # "retry"
      BY <1>1, <3>2
    <3> QED
      BY <3>1, <3>2
  <2>2. l = "done" => forgotten' \/ Confirmed'
    BY <1>1
  <2>3. \A v \in Workers : work'[v].event = published /\ work'[v].step = "done"
          => l = "done" \/ (work[v].event = published /\ work[v].step = "done")
    BY <1>1, <1>2, GotoType DEF IInv
  <2> QED
    BY <1>1, <2>1, <2>2, <2>3 DEF EventIsKept, IInv
<1> QED
  BY <1>3, <1>5, <1>6 DEF IInv

\* A skipped agent leaves the gate closed.
LEMMA WorkStep == ASSUME IInv, NEW w \in Workers, Work(w) PROVE IInv'
<1> USE DEF Work, agentVars, groupVars
<1>0. stuck \in BOOLEAN
  BY DEF IInv, TypeOK
<1>1. PICK l \in {"done", "send", "release"} :
        Goto(w, l) /\ (l = "done" => stuck') /\ (stuck => stuck') /\ stuck' \in BOOLEAN
  <2>1. CASE Goto(w, "done") /\ stuck' = TRUE
    BY <2>1
  <2>2. CASE Goto(w, "send") /\ stuck' = stuck
    BY <2>2, <1>0, Zenon
  <2>3. CASE Goto(w, "release") /\ stuck' = stuck
    BY <2>3, <1>0, Zenon
  <2> QED
    BY <2>1, <2>2, <2>3
<1>2. work[w] # Free /\ l \in Steps /\ w \in Holders
  BY DEF Free, Steps, Holding, Holders
<1>3. TypeOK'
  BY <1>1, <1>2, GotoType DEF IInv, TypeOK
<1>4. Holders' = IF l = "done" THEN Holders \ {w} ELSE Holders
  BY <1>1, <1>2, GotoHolders DEF Holding, IInv
<1>5. OneHolder' /\ WelcomedOnce' /\ GateIsHeld'
  <2>1. Holders' \subseteq Holders /\ (l # "done" => Holders' = Holders)
    BY <1>4
  <2> QED
    BY <1>1, <1>2, <2>1 DEF IInv, OneHolder, WelcomedOnce, GateIsHeld
<1>6. EventIsKept'
  <2>1. \A v \in Workers : work'[v].event = published /\ work'[v].step = "done"
          => l = "done" \/ (work[v].event = published /\ work[v].step = "done")
    BY <1>1, <1>2, GotoType DEF IInv
  <2> QED
    BY <1>1, <2>1 DEF EventIsKept, IInv
<1> QED
  BY <1>3, <1>5, <1>6 DEF IInv

\* Nobody before the one behind the gate knows of a welcome.
LEMMA SendStep == ASSUME IInv, NEW w \in Workers, Send(w) PROVE IInv'
<1> USE DEF Send, agentVars, groupVars
<1>0. /\ welcomed \in Nat /\ unanswered \in 0..welcomed /\ stuck \in BOOLEAN
  BY DEF IInv, TypeOK
<1>1. PICK l \in {"done", "release"} :
        /\ Goto(w, l)
        /\ \/ welcomed' = welcomed + 1 /\ unanswered' = unanswered /\ l = "done"
           \/ welcomed' = welcomed + 1 /\ unanswered' = unanswered + 1 /\ l = "release"
           \/ welcomed' = welcomed /\ unanswered' = unanswered /\ (l = "done" => stuck')
        /\ (stuck => stuck') /\ stuck' \in BOOLEAN
  <2>1. CASE /\ welcomed' = welcomed + 1 /\ Goto(w, "done")
             /\ unanswered' = unanswered /\ stuck' = stuck
    BY <1>0, <2>1
  <2>2. CASE /\ welcomed' = welcomed + 1 /\ Goto(w, "release")
             /\ unanswered' = unanswered + 1 /\ stuck' = stuck
    BY <1>0, <2>2
  <2>3. CASE /\ Goto(w, "done") /\ stuck' = TRUE
             /\ welcomed' = welcomed /\ unanswered' = unanswered
    BY <2>3
  <2>4. CASE /\ Goto(w, "release") /\ stuck' = stuck
             /\ welcomed' = welcomed /\ unanswered' = unanswered
    BY <1>0, <2>4
  <2> QED
    BY <2>1, <2>2, <2>3, <2>4
<1>2. work[w] # Free /\ l \in Steps /\ w \in Holders
  BY DEF Free, Steps, Holding, Holders
<1>3. TypeOK'
  <2>1. welcomed' \in Nat /\ unanswered' \in 0..welcomed'
    BY <1>0, <1>1
  <2> QED
    BY <1>1, <1>2, <2>1, GotoType DEF IInv, TypeOK
<1>4. Holders' = IF l = "done" THEN Holders \ {w} ELSE Holders
  BY <1>1, <1>2, GotoHolders DEF Holding, IInv
<1>5. Holders = {w} /\ gate /\ welcomed = unanswered
  <2>1. Holders = {w} /\ gate /\ ~Confirmed
    BY <1>2 DEF IInv, OneHolder, WelcomedOnce
  <2> QED
    BY <1>0, <2>1
<1>6. OneHolder' /\ WelcomedOnce' /\ GateIsHeld'
  <2>1. CASE l = "done"
    <3>1. Holders' = {} /\ gate' /\ welcomed' <= unanswered' + 1 /\ (Confirmed' \/ stuck')
      BY <1>0, <1>1, <1>4, <1>5, <2>1
    <3> QED
      BY <3>1 DEF OneHolder, WelcomedOnce, GateIsHeld
  <2>2. CASE l = "release"
    <3>1. Holders' = {w} /\ gate' /\ welcomed' = unanswered'
      BY <1>1, <1>4, <1>5, <2>2
    <3>2. welcomed' <= unanswered' + 1 /\ ~Confirmed'
      BY <1>0, <1>1, <3>1
    <3> QED
      BY <3>1, <3>2 DEF OneHolder, WelcomedOnce, GateIsHeld
  <2> QED
    BY <2>1, <2>2
<1>7. EventIsKept'
  <2>1. l = "done" => Confirmed' \/ stuck'
    BY <1>0, <1>1, <1>5
  <2>2. \A v \in Workers : work'[v].event = published /\ work'[v].step = "done"
          => l = "done" \/ (work[v].event = published /\ work[v].step = "done")
    BY <1>1, <1>2, GotoType DEF IInv
  <2>3. ~Confirmed /\ (stuck => stuck')
    BY <1>0, <1>1, <1>5
  <2> QED
    BY <2>1, <2>2, <2>3 DEF EventIsKept, IInv
<1> QED
  BY <1>3, <1>6, <1>7 DEF IInv

\* The holder lets go of its own gate, or leaves it closed.
LEMMA ReleaseStep == ASSUME IInv, NEW w \in Workers, Release(w) PROVE IInv'
<1> USE DEF Release, agentVars, groupVars
<1>1. /\ Goto(w, "released")
      /\ (gate' = FALSE /\ stuck' = stuck) \/ (gate' = gate /\ stuck' = TRUE)
  OBVIOUS
<1>2. work[w] # Free /\ "released" \in Steps /\ w \in Holders
  BY DEF Free, Steps, Holding, Holders
<1>3. TypeOK'
  BY <1>1, <1>2, GotoType DEF IInv, TypeOK
<1>4. Holders' = Holders \ {w}
  BY <1>1, <1>2, GotoHolders DEF Holding, IInv
<1>5. Holders = {w} /\ ~Confirmed
  BY <1>2 DEF IInv, OneHolder, WelcomedOnce
<1>6. OneHolder' /\ WelcomedOnce' /\ GateIsHeld'
  <2>1. Holders' = {} /\ (stuck => stuck') /\ (gate' => stuck')
    BY <1>1, <1>4, <1>5
  <2> QED
    BY <1>5, <2>1 DEF IInv, OneHolder, WelcomedOnce, GateIsHeld
<1>7. EventIsKept'
  <2>1. \A v \in Workers : work'[v].event = published /\ work'[v].step = "done"
          => work[v].event = published /\ work[v].step = "done"
    BY <1>1, <1>2, GotoType DEF IInv
  <2>2. stuck => stuck'
    BY <1>1
  <2> QED
    BY <2>1, <2>2 DEF EventIsKept, IInv
<1> QED
  BY <1>3, <1>6, <1>7 DEF IInv

\* What is acknowledged is not the event of a profile that still waits for its welcome.
LEMMA FinishStep == ASSUME IInv, NEW w \in Workers, Finish(w) PROVE IInv'
<1> USE DEF Finish, agentVars, gateVars
<1>1. /\ \A v \in Workers \ {w} : work'[v] = work[v]
      /\ work'[w] = Free
      /\ pending' \subseteq pending /\ idle' \subseteq pending'
      /\ \A m \in pending : m \in pending' \/ (m = work[w].event /\ work[w].step = "done")
  BY DEF IInv, TypeOK
<1>2. TypeOK'
  BY <1>1 DEF IInv, TypeOK
<1>3. Holders' = Holders
  BY <1>1 DEF Holders, Holding, Free
<1>4. OneHolder' /\ WelcomedOnce' /\ GateIsHeld'
  BY <1>3, GateUntouched DEF IInv
<1>5. EventIsKept'
  <2>1. \A v \in Workers : work'[v].event = published /\ work'[v].step = "done"
          => work[v].event = published /\ work[v].step = "done"
    BY <1>1 DEF Free
  <2> QED
    BY <1>1, <2>1 DEF EventIsKept, IInv
<1> QED
  BY <1>2, <1>4, <1>5 DEF IInv

\* A crash takes no event from the group, and says so when it leaves the gate closed.
LEMMA CrashStep == ASSUME IInv, Crash PROVE IInv'
<1> USE DEF Crash, agentVars, groupVars
<1>1. Holders' = {}
  BY DEF Holders, Holding, Free
<1>2. TypeOK'
  <2>1. <<>> \in Seq(1..read) /\ Len(<<>>) = 0 /\ 0 <= QueueSize
    BY QueueAssumption
  <2> QED
    BY <2>1 DEF IInv, TypeOK
<1>3. (stuck => stuck') /\ (Holders # {} => stuck')
  BY DEF Holders
<1>4. OneHolder' /\ WelcomedOnce' /\ GateIsHeld'
  BY <1>1, <1>3 DEF IInv, OneHolder, WelcomedOnce, GateIsHeld
<1>5. EventIsKept'
  <2>1. \A v \in Workers : work'[v].step # "done"
    BY DEF Free
  <2> QED
    BY <1>3, <2>1 DEF EventIsKept, IInv
<1> QED
  BY <1>2, <1>4, <1>5 DEF IInv

-----------------------------------------------------------------------------
\* Every step keeps the invariant.
LEMMA NextIInv == IInv /\ [Next]_vars => IInv'
<1> SUFFICES ASSUME IInv, [Next]_vars PROVE IInv'
  OBVIOUS
<1>1. CASE UpdateProfile \/ Announce \/ Block
  BY <1>1, UpdateProfileStep, AnnounceStep, BlockStep
<1>2. CASE \E m \in Events : Age(m)
  BY <1>2, AgeStep
<1>3. CASE Poll \/ Dispatch
  BY <1>3, ReclaimStep, ReadFreshStep, DispatchStep DEF Poll
<1>4. CASE \E w \in Workers : Handle(w)
  <2> SUFFICES ASSUME NEW w \in Workers, Handle(w) PROVE IInv'
    BY <1>4
  <2> QED
    BY TakeStep, LookupStep, GateStep, WorkStep, SendStep, ReleaseStep, FinishStep DEF Handle
<1>5. CASE Crash
  BY <1>5, CrashStep
<1>6. CASE UNCHANGED vars
  <2> USE DEF vars, agentVars, groupVars, processVars, gateVars
  <2>1. TypeOK'
    BY <1>6 DEF IInv, TypeOK
  <2>2. OneHolder' /\ WelcomedOnce' /\ GateIsHeld'
    BY <1>6, SameHolders, GateUntouched DEF IInv
  <2>3. EventIsKept'
    BY <1>6 DEF EventIsKept, IInv
  <2> QED
    BY <2>1, <2>2, <2>3 DEF IInv
<1> QED
  BY <1>1, <1>2, <1>3, <1>4, <1>5, <1>6 DEF Next

\* The invariant of Welcome.
THEOREM Invariance == Spec => []IInv
<1>1. Init => IInv
  BY InitIInv
<1>2. IInv /\ [Next]_vars => IInv'
  BY NextIInv
<1> QED
  BY <1>1, <1>2, PTL DEF Spec

\* Type correctness: no event is in hand that the group has not delivered, and the
\* channel keeps its size.
THEOREM TypeCorrect == Spec => []TypeOK
<1>1. IInv => TypeOK
  BY DEF IInv
<1> QED
  BY <1>1, Invariance, PTL

\* Mutual exclusion behind the gate, however often the event is delivered.
THEOREM Exclusion == Spec => []OneHolder
<1>1. IInv => OneHolder
  BY DEF IInv
<1> QED
  BY <1>1, Invariance, PTL

\* No agent gets a second welcome after one whose sender had its answer, and none before
\* but those whose answers were lost.
THEOREM AtMostOneWelcome == Spec => []WelcomedOnce
<1>1. IInv => WelcomedOnce
  BY DEF IInv
<1> QED
  BY <1>1, Invariance, PTL

\* A gate that stays closed without a welcome has a cause.
THEOREM ClosedGateHasACause == Spec => []GateIsHeld
<1>1. IInv => GateIsHeld
  BY DEF IInv
<1> QED
  BY <1>1, Invariance, PTL

\* The event of a completed profile is kept until a sender knows of its welcome.
THEOREM NoEventIsLost == Spec => []EventIsKept
<1>1. IInv => EventIsKept
  BY DEF IInv
<1> QED
  BY <1>1, Invariance, PTL

-----------------------------------------------------------------------------
\* The retries.

\* What a delivery does to the count of an event.
LEMMA DeliverCounts ==
  ASSUME TypeOK, NEW S, Deliver(S), NEW m \in Events
  PROVE  /\ count[m] \in Nat /\ count[m] <= MaxRetries
         /\ count[m] <= count'[m]
         /\ m \in S /\ count[m] # MaxRetries =>
              count[m] < MaxRetries /\ count'[m] = count[m] + 1
         /\ m \notin S => count'[m] = count[m]
BY RetriesAssumption DEF TypeOK, Deliver

\* Only Reclaim and ReadFresh change what is counted and what is handed out.
LEMMA OthersKeepCounts ==
  ASSUME [Next]_vars, ~Poll
  PROVE  /\ count' = count /\ read' = read
         /\ batch' \subseteq batch
<1> USE DEF agentVars, groupVars, processVars, gateVars
<1>1. CASE UpdateProfile \/ Announce \/ Block \/ \E m \in Events : Age(m)
  BY <1>1 DEF UpdateProfile, Announce, Block, Age
<1>2. CASE Dispatch \/ Crash
  BY <1>2 DEF Dispatch, Crash
<1>3. CASE \E w \in Workers : Handle(w)
  BY <1>3 DEF Handle, Take, Lookup, Gate, Work, Send, Release, Finish
<1>4. CASE UNCHANGED vars
  BY <1>4 DEF vars
<1> QED
  BY <1>1, <1>2, <1>3, <1>4 DEF Next

\* Reclaims are of events that have been read, and what is read is within the stream.
LEMMA NextUncounted ==
  ASSUME IInv, UnreadUncounted, [Next]_vars PROVE UnreadUncounted'
<1> USE DEF UnreadUncounted
<1>1. CASE ~Poll
  BY <1>1, OthersKeepCounts
<1>2. TypeOK /\ read \in Nat /\ published \in Nat /\ read <= published
  BY EventsAssumption DEF IInv, TypeOK
<1>3. CASE Reclaim
  <2>1. Deliver(idle) /\ read' = read
    BY <1>3 DEF Reclaim
  <2>2. \A m \in Events : m > read => m \notin idle
    BY <1>2 DEF TypeOK, Events
  <2> QED
    BY <1>2, <2>1, <2>2, DeliverCounts
<1>4. CASE ReadFresh
  <2>1. Deliver(read + 1 .. published) /\ read' = published
    BY <1>4 DEF ReadFresh
  <2>2. \A m \in Events : m > published => m > read /\ m \notin read + 1 .. published
    BY <1>2 DEF Events
  <2> QED
    BY <1>2, <2>1, <2>2, DeliverCounts
<1> QED
  BY <1>1, <1>3, <1>4 DEF Poll

\* An event is handed out at most MaxRetries times, whatever fails or crashes.
THEOREM BoundedRetries == Spec => RetriesAreBounded
<1>1. Init => UnreadUncounted
  BY DEF Init, UnreadUncounted
<1>2. IInv /\ UnreadUncounted /\ [Next]_vars => UnreadUncounted'
  BY NextUncounted
<1>3. IInv /\ UnreadUncounted /\ [Next]_vars =>
        [/\ \A m \in Events : count[m] <= count'[m]
         /\ \A m \in batch' \ batch : count'[m] = count[m] + 1 /\ count[m] < MaxRetries]_vars
  <2> SUFFICES ASSUME IInv, UnreadUncounted, [Next]_vars
               PROVE  /\ \A m \in Events : count[m] <= count'[m]
                      /\ \A m \in batch' \ batch :
                           count'[m] = count[m] + 1 /\ count[m] < MaxRetries
    OBVIOUS
  <2>1. /\ TypeOK /\ read \in Nat /\ published \in Nat /\ read <= published
        /\ published <= MaxEvents
    BY EventsAssumption DEF IInv, TypeOK
  <2>2. \A m \in Events : count[m] \in Nat
    BY <2>1, RetriesAssumption DEF TypeOK
  <2>3. CASE ~Poll
    BY <2>2, <2>3, OthersKeepCounts
  <2>4. CASE Reclaim
    <3>1. Deliver(idle) /\ idle \subseteq Events
      <4>1. idle \subseteq 1..read /\ 1..read \subseteq 1..MaxEvents
        BY <2>1, EventsAssumption DEF TypeOK
      <4> QED
        BY <2>4, <4>1 DEF Reclaim, Events
    <3>2. batch' \ batch \subseteq idle \ Exhausted
      BY <2>4 DEF Reclaim
    <3>3. \A m \in batch' \ batch : m \in Events /\ m \in idle /\ count[m] # MaxRetries
      BY <3>1, <3>2 DEF Exhausted
    <3> QED
      BY <2>1, <3>1, <3>3, DeliverCounts
  <2>5. CASE ReadFresh
    <3>1. Deliver(read + 1 .. published)
      BY <2>5 DEF ReadFresh
    <3>2. \A m \in batch' \ batch : m \in Events /\ m \in read + 1 .. published /\ m > read
      BY <2>1, <2>5, EventsAssumption DEF ReadFresh, Events
    <3>3. \A m \in batch' \ batch : count[m] # MaxRetries
      BY <3>2, RetriesAssumption DEF UnreadUncounted
    <3> QED
      BY <2>1, <3>1, <3>2, <3>3, DeliverCounts
  <2> QED
    BY <2>3, <2>4, <2>5 DEF Poll
<1> QED
  BY <1>1, <1>2, <1>3, Invariance, PTL DEF Spec, RetriesAreBounded
=============================================================================
