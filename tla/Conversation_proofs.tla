-------------------------- MODULE Conversation_proofs --------------------------
(***************************************************************************)
(* Theorems about Conversation, for any number of concurrent calls and     *)
(* messages, any window, with and without friends, and any faults.         *)
(***************************************************************************)
EXTENDS Conversation, FiniteSetTheorems, TLAPS

\* The verdicts that leave a mark on lock or flag.
Marks == {"firstMsg", "justBroken"}

\* The part of the invariant about lock, flag and messages.
Counts == MarksAreOwned /\ WindowCounts

\* What the window is wider by.
Spare == IF FirstUncounted THEN 1 ELSE 0

\* What has passed the check is finite: it is held by workers.
LEMMA PassedFinite ==
  ASSUME NEW x
  PROVE  IsFiniteSet(Passed(x)) /\ Cardinality(Passed(x)) \in Nat
<1>1. Passed(x) \subseteq Workers
  BY DEF Passed
<1>2. IsFiniteSet(Passed(x))
  BY <1>1, FS_Subset, WorkersAssumption
<1> QED
  BY <1>2, FS_CardinalityType

\* The invariant holds at the start.
LEMMA InitIInv == Init => IInv
<1> SUFFICES ASSUME Init PROVE IInv
  OBVIOUS
<1>1. TypeOK
  BY DEF Init, TypeOK, PCs, IceStatus, NoLock, NoCall, Agents
<1>2. CallKnown
  BY DEF Init, CallKnown
<1>3. BeginsWithInitiator
  BY DEF Init, BeginsWithInitiator, Agents
<1>4. Passed(Initiator) = {} /\ Passed(Owner) = {}
  BY DEF Init, Passed
<1>5. MarksAreOwned
  BY DEF Init, MarksAreOwned, NoLock
<1>6. WindowCounts
  <2>1. Cardinality({}) = 0
    BY FS_EmptySet
  <2>2. sent[Initiator] = 0 /\ lock.count = 0
    BY DEF Init, Agents, NoLock
  <2> QED
    BY <1>4, <2>1, <2>2 DEF WindowCounts
<1> QED
  BY <1>1, <1>2, <1>3, <1>5, <1>6 DEF IInv

\* A step that changes no count and no message that has passed the check.
LEMMA CountsUntouched ==
  ASSUME Counts, UNCHANGED <<sent, lock, broken, uncounted, missed, unsaid>>,
         Passed(Initiator)' = Passed(Initiator), Passed(Owner)' = Passed(Owner),
         \A w \in Passed(Owner) : ice'[w] = ice[w],
         Spare' = Spare
  PROVE  Counts'
<1>1. \A marks : OwnerCounted(marks)' <=> OwnerCounted(marks)
  BY DEF OwnerCounted
<1> QED
  BY <1>1 DEF Counts, MarksAreOwned, WindowCounts, Spare

\* Where a message that has passed the check is.
Judged == {"insert", "rollback"}

\* The same for a step that leaves alone what has passed the check.
LEMMA QuietStep ==
  ASSUME Counts, UNCHANGED <<sent, lock, broken, uncounted, missed, unsaid>>,
         \A w \in Workers : pc'[w] \in Judged <=> pc[w] \in Judged,
         \A w \in Workers : pc[w] \in Judged => call'[w] = call[w] /\ ice'[w] = ice[w],
         \A w \in Workers : pc'[w] = "iceNew" <=> pc[w] = "iceNew",
         \A w \in Workers : pc[w] = "iceNew" => call'[w] = call[w]
  PROVE  Counts'
<1>1. \A x : Passed(x)' = Passed(x)
  BY DEF Passed, Judged
<1>2. \A w \in Passed(Owner) : ice'[w] = ice[w]
  BY DEF Passed, Judged
<1>3. Spare' = Spare
  BY DEF Spare, FirstUncounted, ToCount
<1> QED
  BY <1>1, <1>2, <1>3, CountsUntouched

\* The invariant by its parts.
LEMMA IInvParts ==
  /\ IInv <=> TypeOK /\ CallKnown /\ BeginsWithInitiator /\ Counts
  /\ IInv' <=> TypeOK' /\ CallKnown' /\ BeginsWithInitiator' /\ Counts'
BY DEF IInv, Counts

-----------------------------------------------------------------------------
\* Steps that count nothing.

\* A request that arrives has passed nothing.
LEMMA ArriveStep == ASSUME IInv, NEW w \in Workers, Arrive(w) PROVE IInv'
<1> USE DEF Arrive, rowVars, iceVars, infoVars, historyVars
<1>0. TypeOK /\ CallKnown /\ BeginsWithInitiator /\ Counts
  BY IInvParts
<1>1. TypeOK'
  BY <1>0 DEF TypeOK, PCs
<1>2. CallKnown'
  BY <1>0 DEF CallKnown, TypeOK, NoCall
<1>3. BeginsWithInitiator'
  BY <1>0 DEF BeginsWithInitiator, TypeOK
<1>4. Counts'
  BY <1>0, QuietStep DEF TypeOK, Judged
<1> QED
  BY <1>1, <1>2, <1>3, <1>4, IInvParts

\* Nor has a first message, until it is written.
LEMMA LookupStep == ASSUME IInv, NEW w \in Workers, Lookup(w) PROVE IInv'
<1> USE DEF Lookup, Return, Goto, rowVars, iceVars, infoVars, historyVars
<1>0. TypeOK /\ CallKnown /\ BeginsWithInitiator /\ Counts
  BY IInvParts
<1>1. TypeOK'
  BY <1>0 DEF TypeOK, PCs, IceStatus
<1>2. CallKnown'
  BY <1>0 DEF CallKnown, TypeOK, NoCall
<1>3. BeginsWithInitiator'
  BY <1>0 DEF BeginsWithInitiator, TypeOK
<1>4. Counts'
  BY <1>0, QuietStep DEF TypeOK, Judged
<1> QED
  BY <1>1, <1>2, <1>3, <1>4, IInvParts

\* A hit, or a load that starts or is joined.
LEMMA GetInfoStep == ASSUME IInv, NEW w \in Workers, GetInfo(w) PROVE IInv'
<1> USE DEF GetInfo, rowVars, iceVars, historyVars
<1>0. TypeOK /\ CallKnown /\ BeginsWithInitiator /\ Counts
  BY IInvParts
<1>1. TypeOK'
  BY <1>0 DEF TypeOK, PCs
<1>2. CallKnown'
  BY <1>0 DEF CallKnown, TypeOK, NoCall
<1>3. BeginsWithInitiator'
  BY <1>0 DEF BeginsWithInitiator, TypeOK
<1>4. Counts'
  BY <1>0, QuietStep DEF TypeOK, Judged
<1> QED
  BY <1>1, <1>2, <1>3, <1>4, IInvParts

\* The load ends.
LEMMA FillInfoStep == ASSUME IInv, FillInfo PROVE IInv'
<1> USE DEF FillInfo, rowVars, iceVars, historyVars
<1>0. TypeOK /\ CallKnown /\ BeginsWithInitiator /\ Counts
  BY IInvParts
<1>1. TypeOK'
  BY <1>0 DEF TypeOK, PCs
<1>2. CallKnown'
  BY <1>0 DEF CallKnown, TypeOK
<1>3. BeginsWithInitiator'
  BY <1>0 DEF BeginsWithInitiator, TypeOK
<1>4. Counts'
  BY <1>0, QuietStep DEF TypeOK, Judged
<1> QED
  BY <1>1, <1>2, <1>3, <1>4, IInvParts

\* The cached info expires.
LEMMA ExpireInfoStep == ASSUME IInv, ExpireInfo PROVE IInv'
<1> USE DEF ExpireInfo, rowVars, iceVars, workerVars, historyVars
<1>0. TypeOK /\ CallKnown /\ BeginsWithInitiator /\ Counts
  BY IInvParts
<1>1. TypeOK' /\ CallKnown' /\ BeginsWithInitiator'
  BY <1>0 DEF TypeOK, CallKnown, BeginsWithInitiator
<1>2. Counts'
  BY <1>0, QuietStep
<1> QED
  BY <1>1, <1>2, IInvParts

\* A message goes on to the script, or back.
LEMMA JudgeStep == ASSUME IInv, NEW w \in Workers, Judge(w) PROVE IInv'
<1> USE DEF Judge, Return, Goto, rowVars, iceVars, infoVars, historyVars
<1>0. TypeOK /\ CallKnown /\ BeginsWithInitiator /\ Counts
  BY IInvParts
<1>1. TypeOK'
  BY <1>0 DEF TypeOK, PCs, IceStatus
<1>2. CallKnown'
  BY <1>0 DEF CallKnown, TypeOK, NoCall
<1>3. BeginsWithInitiator'
  BY <1>0 DEF BeginsWithInitiator, TypeOK
<1>4. Counts'
  BY <1>0, QuietStep DEF TypeOK, Judged
<1> QED
  BY <1>1, <1>2, <1>3, <1>4, IInvParts

\* The UPDATE of CloseConv.
LEMMA CloseConversationStep == ASSUME IInv, NEW w \in Workers, CloseConversation(w) PROVE IInv'
<1> USE DEF CloseConversation, Goto, iceVars, infoVars, historyVars
<1>0. TypeOK /\ CallKnown /\ BeginsWithInitiator /\ Counts
  BY IInvParts
<1>1. TypeOK'
  BY <1>0 DEF TypeOK, PCs
<1>2. CallKnown'
  BY <1>0 DEF CallKnown, TypeOK, NoCall
<1>3. BeginsWithInitiator'
  BY <1>0 DEF BeginsWithInitiator, TypeOK
<1>4. Counts'
  BY <1>0, QuietStep DEF TypeOK, Judged
<1> QED
  BY <1>1, <1>2, <1>3, <1>4, IInvParts

\* The DEL of CloseConv.
LEMMA InvalidateStep == ASSUME IInv, NEW w \in Workers, InvalidateConvCache(w) PROVE IInv'
<1> USE DEF InvalidateConvCache, Return, rowVars, iceVars, historyVars
<1>0. TypeOK /\ CallKnown /\ BeginsWithInitiator /\ Counts
  BY IInvParts
<1>1. TypeOK'
  BY <1>0 DEF TypeOK, PCs, IceStatus
<1>2. CallKnown'
  BY <1>0 DEF CallKnown, TypeOK, NoCall
<1>3. BeginsWithInitiator'
  BY <1>0 DEF BeginsWithInitiator, TypeOK
<1>4. Counts'
  BY <1>0, QuietStep DEF TypeOK, Judged
<1> QED
  BY <1>1, <1>2, <1>3, <1>4, IInvParts

-----------------------------------------------------------------------------
\* Steps that write, count or forget.

\* Who is not among those who have passed the check comes in, or goes.
LEMMA PassedAdd ==
  ASSUME NEW x, NEW w, w \notin Passed(x), Passed(x)' = Passed(x) \cup {w}
  PROVE  Cardinality(Passed(x))' = Cardinality(Passed(x)) + 1
BY PassedFinite, FS_AddElement

\* The other way round.
LEMMA PassedRemove ==
  ASSUME NEW x, NEW w \in Passed(x), Passed(x)' = Passed(x) \ {w}
  PROVE  Cardinality(Passed(x))' = Cardinality(Passed(x)) - 1
BY PassedFinite, FS_RemoveElement

\* And when any of them go.
LEMMA PassedShrinks ==
  ASSUME NEW x, Passed(x)' \subseteq Passed(x)
  PROVE  Cardinality(Passed(x))' <= Cardinality(Passed(x)) /\ Cardinality(Passed(x))' \in Nat
<1>1. /\ IsFiniteSet(Passed(x)')
      /\ Cardinality(Passed(x)') <= Cardinality(Passed(x))
  BY PassedFinite, FS_Subset
<1> QED
  BY <1>1, FS_CardinalityType

\* The first message: nobody has anything under way.
LEMMA CreateStep == ASSUME IInv, NEW w \in Workers, Create(w) PROVE IInv'
<1> USE DEF Create, Return, Goto, iceVars, infoVars, historyVars, rowVars
<1>0. TypeOK /\ CallKnown /\ BeginsWithInitiator /\ Counts
  BY IInvParts
<1>1. TypeOK'
  BY <1>0 DEF TypeOK, PCs, IceStatus
<1>2. CallKnown'
  BY <1>0 DEF CallKnown, TypeOK, NoCall
<1>3. BeginsWithInitiator'
  BY <1>0 DEF BeginsWithInitiator, TypeOK, CallKnown, Agents
<1>4. ASSUME conv = "none" PROVE Counts'
  <2>1. sent[Initiator] = 0 /\ lock = NoLock /\ ~broken
    BY <1>0, <1>4 DEF BeginsWithInitiator
  <2>2. \A v \in Workers : pc[v] \notin Judged /\ pc'[v] \notin Judged
    BY <1>0, <1>4 DEF BeginsWithInitiator, TypeOK, Judged
  <2>3. Passed(Owner)' = {} /\ Passed(Initiator)' = {}
    BY <2>2 DEF Passed, Judged
  <2>4. UNCHANGED <<lock, broken, uncounted, missed, unsaid>>
    OBVIOUS
  <2>5. MarksAreOwned'
    BY <2>1, <2>4 DEF MarksAreOwned
  <2>6. sent'[Initiator] <= Spare' /\ sent'[Initiator] \in Nat
    <3>1. CASE UNCHANGED sent
      BY <1>0, <2>1, <3>1 DEF TypeOK, Agents, Spare
    <3>2. CASE sent' = [sent EXCEPT ![call[w].by] = @ + 1] /\ Goto(w, "iceNew")
      <4>1. call[w].by = Initiator
        BY <1>0 DEF CallKnown
      <4>2. w \in ToCount(Initiator)'
        BY <1>0, <3>2, <4>1 DEF ToCount, TypeOK
      <4> QED
        BY <1>0, <2>1, <3>2, <4>1, <4>2 DEF TypeOK, Agents, Spare, FirstUncounted
    <3> QED
      BY <3>1, <3>2
  <2>7. Cardinality(Passed(Initiator)') = 0
    BY <2>3, FS_EmptySet
  <2>8. WindowCounts'
    BY <2>1, <2>3, <2>4, <2>6, <2>7 DEF WindowCounts, NoLock, Spare
  <2> QED
    BY <2>5, <2>8 DEF Counts
<1>5. ASSUME conv # "none" PROVE Counts'
  BY <1>0, <1>5, QuietStep DEF TypeOK, Judged
<1> QED
  BY <1>1, <1>2, <1>3, <1>4, <1>5, IInvParts

\* A friend's message is under way without a count, and that is recorded.
LEMMA JudgeFriendStep == ASSUME IInv, NEW w \in Workers, JudgeFriend(w) PROVE IInv'
<1> USE DEF JudgeFriend, Goto, rowVars, iceVars, infoVars
<1>0. TypeOK /\ CallKnown /\ BeginsWithInitiator /\ Counts
  BY IInvParts
<1>1. TypeOK'
  BY <1>0 DEF TypeOK, PCs
<1>2. CallKnown'
  BY <1>0 DEF CallKnown, TypeOK, NoCall
<1>3. BeginsWithInitiator'
  BY <1>0 DEF BeginsWithInitiator, TypeOK
<1>4. \A v \in Passed(Owner) : v \in Passed(Owner)' /\ ice'[v] = ice[v]
  BY <1>0 DEF TypeOK, Passed
<1>5. \A marks : OwnerCounted(marks) => OwnerCounted(marks)'
  BY <1>4 DEF OwnerCounted
<1>6. MarksAreOwned'
  BY <1>0, <1>5 DEF Counts, MarksAreOwned
<1>7. WindowCounts'
  BY DEF WindowCounts
<1> QED
  BY <1>1, <1>2, <1>3, <1>6, <1>7, IInvParts DEF Counts

-----------------------------------------------------------------------------
\* The script.

\* What the script does, as far as the marks and the count are concerned.
LEMMA ScriptFacts ==
  ASSUME TypeOK, NEW x \in Agents, RunScript(x)
  PROVE  /\ lock' \in [sender : Agents, count : 1..MaxInitiatorMsgs] \cup {NoLock}
         /\ broken' \in BOOLEAN
         /\ ScriptStatus(x) \in IceStatus
         /\ ScriptStatus(x) = "firstMsg" =>
              /\ lock'.sender = x /\ lock'.count = lock.count + 1
              /\ broken' = broken
         /\ ScriptStatus(x) = "justBroken" =>
              lock # NoLock /\ lock.sender # x /\ lock' = NoLock /\ broken'
         /\ ScriptStatus(x) \in {"broken", "limit"} => lock' = lock /\ broken' = broken
         /\ ScriptStatus(x) = "broken" => broken
         /\ ScriptStatus(x) = "limit" => lock # NoLock /\ lock.sender = x /\ ~broken
         /\ lock.count \in Nat /\ lock'.count \in Nat
<1>1. NoLock.count = 0 /\ NoLock.count \notin 1..MaxInitiatorMsgs
  BY DEF NoLock
<1>2. lock \in [sender : Agents, count : 1..MaxInitiatorMsgs] \cup {NoLock}
  BY DEF TypeOK
<1>3. lock.count \in 0..MaxInitiatorMsgs /\ broken \in BOOLEAN
  BY <1>1, <1>2, WindowAssumption DEF TypeOK
<1>4. ScriptStatus(x) \in IceStatus
  BY DEF ScriptStatus, IceStatus
<1>5. CASE ScriptStatus(x) = "firstMsg"
  <2>1. lock' = [sender |-> x, count |-> lock.count + 1] /\ broken' = broken
    BY <1>3, <1>5 DEF RunScript
  <2>2. lock.count < MaxInitiatorMsgs
    BY <1>1, <1>3, <1>5, WindowAssumption DEF ScriptStatus
  <2> QED
    BY <1>3, <1>4, <1>5, <2>1, <2>2, WindowAssumption
<1>6. CASE ScriptStatus(x) = "justBroken"
  <2>1. lock # NoLock /\ lock.sender # x
    BY <1>6 DEF ScriptStatus
  <2>2. lock' = NoLock /\ broken'
    BY <1>6 DEF RunScript
  <2> QED
    BY <1>1, <1>3, <1>4, <1>6, <2>1, <2>2
<1>7. CASE ScriptStatus(x) \in {"broken", "limit"}
  <2>1. lock' = lock /\ broken' = broken
    BY <1>3, <1>7 DEF RunScript
  <2>2. /\ ScriptStatus(x) = "broken" => broken
        /\ ScriptStatus(x) = "limit" => lock # NoLock /\ lock.sender = x /\ ~broken
    BY DEF ScriptStatus
  <2> QED
    BY <1>2, <1>3, <1>4, <1>7, <2>1, <2>2
<1> QED
  BY <1>4, <1>5, <1>6, <1>7 DEF IceStatus

\* The first message is counted.
LEMMA IceNewStep == ASSUME IInv, NEW w \in Workers, IceNew(w) PROVE IInv'
<1> USE DEF IceNew, Return, rowVars, infoVars
<1>0. TypeOK /\ CallKnown /\ BeginsWithInitiator /\ Counts
  BY IInvParts
<1>1. call[w].by = Initiator /\ RunScript(Initiator)
  BY <1>0 DEF CallKnown
<1>2. Initiator \in Agents
  BY DEF Agents
<1> HIDE DEF RunScript
<1>3. TypeOK'
  BY <1>0, <1>1, <1>2, ScriptFacts DEF TypeOK, PCs, IceStatus
<1>4. CallKnown'
  BY <1>0 DEF CallKnown, TypeOK, NoCall
<1>5. BeginsWithInitiator'
  BY <1>0 DEF BeginsWithInitiator, TypeOK
<1>6. /\ Passed(Owner)' = Passed(Owner) /\ Passed(Initiator)' = Passed(Initiator)
      /\ \A v \in Passed(Owner) : ice'[v] = ice[v]
  BY <1>0 DEF Passed, TypeOK
<1>7. \A marks : OwnerCounted(marks)' <=> OwnerCounted(marks)
  BY <1>6 DEF OwnerCounted
<1>8. OwnerCounted({"firstMsg"}) => OwnerCounted(Marks)
  BY DEF OwnerCounted, Marks
<1>9. MarksAreOwned'
  <2>1. SUFFICES ASSUME ~unsaid
                 PROVE  /\ lock' # NoLock /\ lock'.sender = Owner => OwnerCounted({"firstMsg"})
                        /\ broken' => OwnerCounted(Marks)
    BY <1>7 DEF MarksAreOwned, Marks
  <2>2. /\ lock # NoLock /\ lock.sender = Owner => OwnerCounted({"firstMsg"})
        /\ broken => OwnerCounted(Marks)
    BY <1>0, <2>1 DEF Counts, MarksAreOwned, Marks
  <2>3. lock # NoLock => lock.sender \in {Initiator, Owner}
    BY <1>0 DEF TypeOK, Agents
  <2> QED
    BY <1>0, <1>1, <1>2, <1>8, <2>2, <2>3, ScriptFacts, AgentsAssumption DEF IceStatus
<1>10. WindowCounts'
  <2>1. SUFFICES ASSUME ~uncounted, ~unsaid, ~OwnerCounted(Marks)
                 PROVE  /\ Passed(Owner)' = {}
                        /\ sent'[Initiator] + Cardinality(Passed(Initiator)')
                             <= lock'.count + Spare'
    BY <1>7 DEF WindowCounts, Marks, Spare
  <2>2. /\ Passed(Owner) = {}
        /\ sent[Initiator] + Cardinality(Passed(Initiator)) <= lock.count + Spare
    BY <1>0, <2>1 DEF Counts, WindowCounts, Marks, Spare
  <2>3. ~broken /\ (lock # NoLock => lock.sender # Owner)
    BY <1>0, <1>8, <2>1 DEF Counts, MarksAreOwned, Marks
  <2>4. ScriptStatus(Initiator) \in {"firstMsg", "limit"}
    BY <1>0, <1>1, <1>2, <2>3, ScriptFacts DEF TypeOK, IceStatus, Agents
  <2>5. lock'.count + Spare' >= lock.count + Spare
    <3>1. Spare \in 0..1 /\ Spare' \in 0..1 /\ lock.count \in Nat /\ lock'.count \in Nat
      BY <1>0, <1>1, <1>2, ScriptFacts DEF Spare
    <3>2. CASE ScriptStatus(Initiator) = "firstMsg"
      BY <1>0, <1>1, <1>2, <3>1, <3>2, ScriptFacts
    <3>3. CASE ScriptStatus(Initiator) = "limit"
      <4>1. lock' = lock /\ missed'
        BY <1>0, <1>1, <1>2, <3>3, ScriptFacts
      <4> QED
        BY <3>1, <4>1 DEF Spare, FirstUncounted
    <3> QED
      BY <2>4, <3>2, <3>3
  <2>6. sent[Initiator] \in Nat /\ Cardinality(Passed(Initiator)) \in Nat
    BY <1>0, <1>2, PassedFinite DEF TypeOK
  <2>7. /\ lock.count \in Nat /\ lock'.count \in Nat /\ Spare \in Nat /\ Spare' \in Nat
    BY <1>0, <1>1, <1>2, ScriptFacts DEF Spare
  <2>8. sent' = sent
    OBVIOUS
  <2> QED
    BY <1>6, <2>2, <2>5, <2>6, <2>7, <2>8
<1> QED
  BY <1>3, <1>4, <1>5, <1>9, <1>10, IInvParts DEF Counts

\* A reply that is over the limit, or is now under way with the script's verdict.
LEMMA IceStep == ASSUME IInv, NEW w \in Workers, Ice(w) PROVE IInv'
<1> DEFINE x == call[w].by
           status == ScriptStatus(call[w].by)
<1>0. TypeOK /\ CallKnown /\ BeginsWithInitiator /\ Counts
  BY IInvParts
<1>1. /\ pc[w] = "ice" /\ RunScript(x)
      /\ UNCHANGED <<conv, sent, info, flight, uncounted, missed, unsaid>>
  BY DEF Ice, rowVars, infoVars, historyVars
<1>2. \/ status = "limit" /\ Return(w)
      \/ /\ status # "limit"
         /\ ice' = [ice EXCEPT ![w] = status]
         /\ pc' = [pc EXCEPT ![w] = "insert"]
         /\ UNCHANGED <<call, seen>>
  BY DEF Ice
<1>3. x \in Agents
  BY <1>0, <1>1 DEF CallKnown, TypeOK
<1>4. /\ lock' \in [sender : Agents, count : 1..MaxInitiatorMsgs] \cup {NoLock}
      /\ broken' \in BOOLEAN /\ status \in IceStatus
  BY <1>0, <1>1, <1>3, ScriptFacts
<1> HIDE DEF status, x
<1>5. TypeOK'
  BY <1>0, <1>1, <1>2, <1>4 DEF TypeOK, PCs, IceStatus, Return
<1>6. CallKnown'
  BY <1>0, <1>1, <1>2 DEF CallKnown, TypeOK, NoCall, Return
<1>7. BeginsWithInitiator'
  BY <1>0, <1>1 DEF BeginsWithInitiator, TypeOK
<1>8. w \notin Passed(Owner) /\ w \notin Passed(Initiator)
  BY <1>1 DEF Passed
<1>9. \A v \in Passed(Owner) : v \in Passed(Owner)' /\ ice'[v] = ice[v]
  BY <1>0, <1>1, <1>2, <1>8 DEF Passed, TypeOK, Return
<1>10. \A marks : OwnerCounted(marks) => OwnerCounted(marks)'
  BY <1>1, <1>9 DEF OwnerCounted
<1>11. x = Owner /\ status # "limit" => w \in Passed(Owner)' /\ ice'[w] = status
  BY <1>0, <1>2 DEF Passed, TypeOK, x
<1>12. \A marks : x = Owner /\ status # "limit" /\ status \in marks => OwnerCounted(marks)'
  BY <1>11 DEF OwnerCounted
<1>13. lock # NoLock => lock.sender \in {Initiator, Owner}
  BY <1>0 DEF TypeOK, Agents
<1>14. OwnerCounted({"firstMsg"}) => OwnerCounted(Marks)
  BY DEF OwnerCounted, Marks
<1>15. /\ status = "firstMsg" => /\ lock'.sender = x /\ lock'.count = lock.count + 1
                                 /\ broken' = broken
       /\ status = "justBroken" =>
            lock # NoLock /\ lock.sender # x /\ lock' = NoLock /\ broken'
       /\ status \in {"broken", "limit"} => lock' = lock /\ broken' = broken
       /\ status = "broken" => broken
       /\ status = "limit" => lock # NoLock /\ lock.sender = x /\ ~broken
       /\ lock.count \in Nat /\ lock'.count \in Nat
  BY <1>0, <1>1, <1>3, ScriptFacts DEF status, x
<1>16. x \in {Initiator, Owner}
  BY <1>3 DEF Agents
<1>17. MarksAreOwned'
  <2>1. SUFFICES ASSUME ~unsaid
                 PROVE  /\ lock' # NoLock /\ lock'.sender = Owner => OwnerCounted({"firstMsg"})'
                        /\ broken' => OwnerCounted(Marks)'
    BY <1>1 DEF MarksAreOwned, Marks
  <2>2. /\ lock # NoLock /\ lock.sender = Owner => OwnerCounted({"firstMsg"})
        /\ broken => OwnerCounted(Marks)
    BY <1>0, <2>1 DEF Counts, MarksAreOwned, Marks
  <2>3. /\ x = Owner /\ status = "firstMsg" => OwnerCounted({"firstMsg"})'
        /\ x = Owner /\ status = "justBroken" => OwnerCounted(Marks)'
    BY <1>12 DEF Marks
  <2>4. lock' # NoLock /\ lock'.sender = Owner => OwnerCounted({"firstMsg"})'
    BY <1>4, <1>10, <1>15, <1>16, <2>2, <2>3, AgentsAssumption DEF IceStatus
  <2>5. broken' => OwnerCounted(Marks)'
    BY <1>4, <1>10, <1>13, <1>14, <1>15, <1>16, <2>2, <2>3 DEF IceStatus
  <2> QED
    BY <2>4, <2>5
<1>18. Spare' = Spare /\ Spare \in Nat
  <2>1. ToCount(Initiator)' = ToCount(Initiator)
    BY <1>0, <1>1, <1>2 DEF ToCount, TypeOK, Return
  <2> QED
    BY <1>1, <2>1 DEF Spare, FirstUncounted
<1>19. WindowCounts'
  <2>1. SUFFICES ASSUME ~uncounted, ~unsaid, ~OwnerCounted(Marks)'
                 PROVE  /\ Passed(Owner)' = {}
                        /\ sent'[Initiator] + Cardinality(Passed(Initiator)')
                             <= lock'.count + Spare
    BY <1>1, <1>18 DEF WindowCounts, Marks, Spare
  <2>2. ~OwnerCounted(Marks)
    BY <1>10, <2>1
  <2>3. /\ Passed(Owner) = {}
        /\ sent[Initiator] + Cardinality(Passed(Initiator)) <= lock.count + Spare
    BY <1>0, <2>1, <2>2 DEF Counts, WindowCounts, Marks, Spare
  <2>4. ~broken /\ (lock # NoLock => lock.sender # Owner)
    BY <1>0, <1>14, <2>1, <2>2 DEF Counts, MarksAreOwned, Marks
  <2>5. status # "broken" /\ (x = Owner => status \notin {"limit", "firstMsg", "justBroken"})
    BY <1>12, <1>15, <2>1, <2>4 DEF Marks
  <2>6. x = Initiator /\ status \in {"firstMsg", "limit"}
    BY <1>4, <1>13, <1>15, <1>16, <2>4, <2>5 DEF IceStatus
  <2>7. sent[Initiator] \in Nat /\ Cardinality(Passed(Initiator)) \in Nat
    BY <1>0, PassedFinite DEF TypeOK, Agents
  <2>8. Passed(Owner)' = Passed(Owner)
    BY <1>0, <1>1, <1>2, <2>6, AgentsAssumption DEF Passed, TypeOK, Return, x
  <2>9. CASE status = "limit"
    <3>1. Passed(Initiator)' = Passed(Initiator)
      BY <1>0, <1>1, <1>2, <2>9 DEF Passed, TypeOK, Return
    <3> QED
      BY <1>1, <1>15, <1>18, <2>3, <2>8, <2>9, <3>1
  <2>10. CASE status = "firstMsg"
    <3>1. Passed(Initiator)' = Passed(Initiator) \cup {w}
      BY <1>0, <1>1, <1>2, <2>6, <2>10 DEF Passed, TypeOK, x
    <3>2. Cardinality(Passed(Initiator)') = Cardinality(Passed(Initiator)) + 1
      BY <1>8, <3>1, PassedAdd
    <3> QED
      BY <1>1, <1>15, <1>18, <2>3, <2>7, <2>8, <2>10, <3>2
  <2> QED
    BY <2>6, <2>9, <2>10
<1> QED
  BY <1>5, <1>6, <1>7, <1>17, <1>19, IInvParts DEF Counts

-----------------------------------------------------------------------------
\* The transaction and what undoes the count.

\* A message is written, or has to be rolled back.
LEMMA InsertStep == ASSUME IInv, NEW w \in Workers, Insert(w) PROVE IInv'
<1> DEFINE x == call[w].by
<1>0. TypeOK /\ CallKnown /\ BeginsWithInitiator /\ Counts
  BY IInvParts
<1>1. /\ pc[w] = "insert"
      /\ UNCHANGED <<conv, lock, broken, info, flight, uncounted, missed, unsaid>>
  BY DEF Insert, iceVars, infoVars, historyVars
<1>2. \/ sent' = [sent EXCEPT ![x] = @ + 1] /\ Return(w)
      \/ Goto(w, "rollback") /\ UNCHANGED sent
  BY DEF Insert
<1>3. x \in Agents
  BY <1>0, <1>1 DEF CallKnown, TypeOK
<1>4. w \in Passed(x)
  BY <1>1 DEF Passed
<1> HIDE DEF x
<1>5. TypeOK'
  BY <1>0, <1>1, <1>2, <1>3 DEF TypeOK, PCs, IceStatus, Return, Goto
<1>6. CallKnown'
  BY <1>0, <1>1, <1>2 DEF CallKnown, TypeOK, NoCall, Return, Goto
<1>7. sent[Initiator] \in Nat /\ sent[Owner] \in Nat
  BY <1>0 DEF TypeOK, Agents
<1>8. BeginsWithInitiator'
  <2>1. conv # "none" /\ sent[Initiator] > 0
    BY <1>0, <1>1 DEF BeginsWithInitiator
  <2>2. sent'[Initiator] \in {sent[Initiator], sent[Initiator] + 1}
    BY <1>0, <1>2, <1>3 DEF TypeOK, Agents
  <2> QED
    BY <1>1, <1>7, <2>1, <2>2 DEF BeginsWithInitiator
<1>9. ASSUME Goto(w, "rollback"), UNCHANGED sent PROVE Counts'
  BY <1>0, <1>1, <1>9, QuietStep DEF TypeOK, Judged, Goto
<1>10. ASSUME sent' = [sent EXCEPT ![x] = @ + 1], Return(w), x = Owner PROVE Counts'
  <2>1. sent'[Owner] > 0
    BY <1>0, <1>3, <1>7, <1>10 DEF TypeOK
  <2>2. \A marks : OwnerCounted(marks)'
    BY <2>1 DEF OwnerCounted
  <2> QED
    BY <2>2 DEF Counts, MarksAreOwned, WindowCounts
<1>11. ASSUME sent' = [sent EXCEPT ![x] = @ + 1], Return(w), x = Initiator PROVE Counts'
  <2>1. sent'[Initiator] = sent[Initiator] + 1 /\ sent'[Owner] = sent[Owner]
    BY <1>0, <1>3, <1>11, AgentsAssumption DEF TypeOK, Agents
  <2>2. Passed(Initiator)' = Passed(Initiator) \ {w}
    BY <1>0, <1>11 DEF Passed, TypeOK, Return
  <2>3. /\ Passed(Owner)' = Passed(Owner)
        /\ \A v \in Passed(Owner) : ice'[v] = ice[v]
    BY <1>0, <1>1, <1>11, AgentsAssumption DEF Passed, TypeOK, Return, x
  <2>4. \A marks : OwnerCounted(marks)' <=> OwnerCounted(marks)
    BY <2>1, <2>3 DEF OwnerCounted
  <2>5. MarksAreOwned'
    BY <1>0, <1>1, <2>4 DEF Counts, MarksAreOwned
  <2>6. Cardinality(Passed(Initiator)') = Cardinality(Passed(Initiator)) - 1
    BY <1>4, <1>11, <2>2, PassedRemove
  <2>7. Cardinality(Passed(Initiator)) \in Nat
    BY PassedFinite
  <2>8. ToCount(Initiator)' = ToCount(Initiator)
    BY <1>0, <1>1, <1>11 DEF ToCount, TypeOK, Return
  <2>9. Spare' = Spare /\ Spare \in Nat /\ lock.count \in Nat
    BY <1>0, <1>1, <2>8, WindowAssumption DEF Spare, FirstUncounted, TypeOK, NoLock
  <2>10. WindowCounts'
    BY <1>0, <1>1, <1>7, <2>1, <2>3, <2>4, <2>6, <2>7, <2>9 DEF Counts, WindowCounts, Spare
  <2> QED
    BY <2>5, <2>10 DEF Counts
<1> QED
  BY <1>2, <1>3, <1>5, <1>6, <1>8, <1>9, <1>10, <1>11, IInvParts DEF Agents

\* A message is not written: what it left on lock and flag is taken back, and a count
\* that is undone is recorded.
LEMMA RollbackStep == ASSUME IInv, NEW w \in Workers, Rollback(w) PROVE IInv'
<1>0. TypeOK /\ CallKnown /\ BeginsWithInitiator /\ Counts
  BY IInvParts
<1>1. /\ pc[w] = "rollback" /\ Return(w)
      /\ UNCHANGED <<conv, sent, info, flight, missed>>
  BY DEF Rollback, rowVars, infoVars
<1>2. /\ broken' = (broken /\ ice[w] # "justBroken")
      /\ lock' = IF ice[w] = "firstMsg" THEN NoLock ELSE lock
      /\ uncounted' = (uncounted \/ ice[w] # "broken")
      /\ unsaid' = (unsaid \/ (ice[w] = "firstMsg" /\ call[w].by = Owner /\ broken))
  BY DEF Rollback
<1>3. TypeOK'
  BY <1>0, <1>1, <1>2 DEF TypeOK, PCs, IceStatus, Return
<1>4. CallKnown'
  BY <1>0, <1>1 DEF CallKnown, TypeOK, NoCall, Return
<1>5. BeginsWithInitiator'
  BY <1>0, <1>1, <1>2 DEF BeginsWithInitiator, TypeOK, Return
<1>6. \A v \in Passed(Owner) : v # w => v \in Passed(Owner)' /\ ice'[v] = ice[v]
  BY <1>0, <1>1 DEF Passed, TypeOK, Return
<1>7. w \in Passed(Owner) => call[w].by = Owner
  BY DEF Passed
<1>8. \A marks : OwnerCounted(marks) /\ (call[w].by = Owner => ice[w] \notin marks)
                   => OwnerCounted(marks)'
  BY <1>1, <1>6, <1>7 DEF OwnerCounted
<1>9. MarksAreOwned'
  <2>1. SUFFICES ASSUME ~unsaid'
                 PROVE  /\ lock' # NoLock /\ lock'.sender = Owner => OwnerCounted({"firstMsg"})'
                        /\ broken' => OwnerCounted(Marks)'
    BY DEF MarksAreOwned, Marks
  <2>2. ~unsaid /\ (call[w].by = Owner /\ broken => ice[w] # "firstMsg")
    BY <1>2, <2>1
  <2>3. /\ lock # NoLock /\ lock.sender = Owner => OwnerCounted({"firstMsg"})
        /\ broken => OwnerCounted(Marks)
    BY <1>0, <2>2 DEF Counts, MarksAreOwned, Marks
  <2>4. lock' # NoLock => lock' = lock /\ ice[w] # "firstMsg"
    BY <1>2
  <2>5. broken' => broken /\ (call[w].by = Owner => ice[w] \notin Marks)
    BY <1>2, <2>2 DEF Marks
  <2> QED
    BY <1>8, <2>2, <2>3, <2>4, <2>5
<1>10. WindowCounts'
  <2>1. SUFFICES ASSUME ~uncounted', ~unsaid', ~OwnerCounted(Marks)'
                 PROVE  /\ Passed(Owner)' = {}
                        /\ sent'[Initiator] + Cardinality(Passed(Initiator)')
                             <= lock'.count + Spare'
    BY DEF WindowCounts, Marks, Spare
  <2>2. ~uncounted /\ ~unsaid /\ ice[w] = "broken"
    BY <1>2, <2>1
  <2>3. ~OwnerCounted(Marks)
    BY <1>8, <2>1, <2>2 DEF Marks
  <2>4. /\ Passed(Owner) = {}
        /\ sent[Initiator] + Cardinality(Passed(Initiator)) <= lock.count + Spare
    BY <1>0, <2>2, <2>3 DEF Counts, WindowCounts, Marks, Spare
  <2>5. Passed(Owner)' = {} /\ Passed(Initiator)' \subseteq Passed(Initiator)
    BY <1>0, <1>1, <2>4 DEF Passed, TypeOK, Return
  <2>6. /\ Cardinality(Passed(Initiator)') <= Cardinality(Passed(Initiator))
        /\ Cardinality(Passed(Initiator)') \in Nat /\ Cardinality(Passed(Initiator)) \in Nat
    BY <2>5, PassedShrinks, PassedFinite
  <2>7. lock' = lock
    BY <1>2, <2>2
  <2>8. sent[Initiator] \in Nat /\ lock.count \in Nat
    BY <1>0, WindowAssumption DEF TypeOK, Agents, NoLock
  <2>9. ToCount(Initiator)' = ToCount(Initiator)
    BY <1>0, <1>1 DEF ToCount, TypeOK, Return
  <2>10. Spare' = Spare /\ Spare \in Nat
    BY <1>1, <2>9 DEF Spare, FirstUncounted
  <2> QED
    BY <1>1, <2>4, <2>5, <2>6, <2>7, <2>8, <2>10
<1> QED
  BY <1>3, <1>4, <1>5, <1>9, <1>10, IInvParts DEF Counts

\* All calls are gone; a message of the owner that is lost so is recorded.
LEMMA CrashStep == ASSUME IInv, Crash PROVE IInv'
<1>0. TypeOK /\ CallKnown /\ BeginsWithInitiator /\ Counts
  BY IInvParts
<1>1. /\ flight' = "none"
      /\ call' = [w \in Workers |-> NoCall] /\ seen' = [w \in Workers |-> "none"]
      /\ ice' = [w \in Workers |-> "broken"] /\ pc' = [w \in Workers |-> "idle"]
      /\ unsaid' = (unsaid \/ Passed(Owner) # {})
      /\ missed' = (missed \/ \E w \in Workers : pc[w] = "iceNew")
      /\ UNCHANGED <<conv, sent, lock, broken, info, uncounted>>
  BY DEF Crash, Passed, rowVars, iceVars
<1>2. TypeOK'
  BY <1>0, <1>1 DEF TypeOK, PCs, IceStatus
<1>3. CallKnown' /\ BeginsWithInitiator'
  BY <1>0, <1>1 DEF CallKnown, BeginsWithInitiator
<1>4. Passed(Owner)' = {} /\ Passed(Initiator)' = {}
  BY <1>1 DEF Passed
<1>5. ~unsaid' => ~unsaid /\ \A marks : OwnerCounted(marks)' <=> OwnerCounted(marks)
  BY <1>1, <1>4 DEF OwnerCounted
<1>6. MarksAreOwned'
  BY <1>0, <1>1, <1>5 DEF Counts, MarksAreOwned
<1>7. WindowCounts'
  <2>1. Cardinality(Passed(Initiator)') = 0
    BY <1>4, FS_EmptySet
  <2>2. Spare <= Spare' /\ Spare \in Nat /\ Spare' \in Nat
    <3>1. FirstUncounted => missed'
      BY <1>1 DEF FirstUncounted, ToCount
    <3>2. FirstUncounted => FirstUncounted'
      BY <3>1 DEF FirstUncounted
    <3> QED
      BY <3>2 DEF Spare
  <2>3. sent[Initiator] \in Nat /\ lock.count \in Nat /\ Cardinality(Passed(Initiator)) \in Nat
    BY <1>0, WindowAssumption, PassedFinite DEF TypeOK, Agents, NoLock
  <2> QED
    BY <1>0, <1>1, <1>4, <1>5, <2>1, <2>2, <2>3 DEF Counts, WindowCounts, Spare
<1> QED
  BY <1>2, <1>3, <1>6, <1>7, IInvParts DEF Counts

\* Lock or flag expires, and that is recorded.
LEMMA ExpireIceStep == ASSUME IInv, ExpireIce PROVE IInv'
<1>0. TypeOK /\ CallKnown /\ BeginsWithInitiator /\ Counts
  BY IInvParts
<1>1. /\ lock' \in {lock, NoLock} /\ broken' \in BOOLEAN /\ (broken' => broken)
      /\ uncounted' = TRUE
      /\ UNCHANGED <<conv, sent, info, flight, call, seen, ice, pc, missed, unsaid>>
  <2>1. UNCHANGED <<conv, sent, info, flight, call, seen, ice, pc, missed, unsaid>>
    BY DEF ExpireIce, rowVars, infoVars, workerVars
  <2>2. \/ lock' = NoLock /\ broken' = broken
        \/ broken' = FALSE /\ lock' = lock
    BY DEF ExpireIce
  <2>3. broken \in BOOLEAN
    BY <1>0 DEF TypeOK
  <2>4. uncounted' = TRUE
    BY DEF ExpireIce
  <2>5. CASE lock' = NoLock /\ broken' = broken
    BY <2>1, <2>3, <2>4, <2>5
  <2>6. CASE broken' = FALSE /\ lock' = lock
    BY <2>1, <2>4, <2>6
  <2> QED
    BY <2>2, <2>5, <2>6
<1>2. TypeOK' /\ CallKnown'
  BY <1>0, <1>1 DEF ExpireIce, TypeOK, CallKnown
<1>3. BeginsWithInitiator'
  BY <1>0, <1>1 DEF BeginsWithInitiator
<1>4. \A marks : OwnerCounted(marks)' <=> OwnerCounted(marks)
  BY <1>1 DEF OwnerCounted, Passed
<1>5. MarksAreOwned' /\ WindowCounts'
  BY <1>0, <1>1, <1>4 DEF Counts, MarksAreOwned, WindowCounts
<1> QED
  BY <1>2, <1>3, <1>5, IInvParts DEF Counts

-----------------------------------------------------------------------------
\* The theorems.

\* Every step keeps the invariant.
LEMMA NextIInv == IInv /\ [Next]_vars => IInv'
<1> SUFFICES ASSUME IInv, [Next]_vars PROVE IInv'
  OBVIOUS
<1>1. CASE UNCHANGED vars
  <2>1. UNCHANGED <<conv, sent, lock, broken, info, flight, call, seen, ice, pc, uncounted, missed, unsaid>>
    BY <1>1 DEF vars, rowVars, iceVars, infoVars, workerVars, historyVars
  <2>2. Passed(Initiator)' = Passed(Initiator) /\ Passed(Owner)' = Passed(Owner)
    BY <2>1 DEF Passed
  <2>3. Spare' = Spare
    BY <2>1 DEF Spare, FirstUncounted, ToCount
  <2>4. Counts'
    BY <2>1, <2>2, <2>3, IInvParts, CountsUntouched
  <2>5. TypeOK' /\ CallKnown' /\ BeginsWithInitiator'
    BY <2>1, IInvParts DEF TypeOK, CallKnown, BeginsWithInitiator
  <2> QED
    BY <2>4, <2>5, IInvParts
<1>2. ASSUME NEW w \in Workers, Arrive(w) \/ Step(w) PROVE IInv'
  BY <1>2, ArriveStep, LookupStep, CreateStep, IceNewStep, GetInfoStep, JudgeStep,
     JudgeFriendStep, IceStep, InsertStep, RollbackStep, CloseConversationStep,
     InvalidateStep DEF Step
<1> QED
  BY <1>1, <1>2, FillInfoStep, ExpireInfoStep, CrashStep, ExpireIceStep DEF Next

\* The inductive invariant: how lock, flag and messages under way hang together.
THEOREM Invariance == Spec => []IInv
BY InitIInv, NextIInv, PTL DEF Spec

\* Types: the script's count stays within the window.
THEOREM TypeCorrect == Spec => []TypeOK
<1>1. IInv => TypeOK
  BY DEF IInv
<1> QED
  BY <1>1, Invariance, PTL

\* Until the owner speaks the initiator gets no more messages through than the window has
\* (the check of handler.go and icebreak.go), and one more if the first escaped the count,
\* however many calls run at once and whichever die; rollbacks and expiries excepted.
THEOREM WindowHolds == Spec => []IceWindow
<1>1. IInv => IceWindow
  <2>1. SUFFICES ASSUME IInv, ~uncounted, ~unsaid, ~Speaks(Owner)
                 PROVE  sent[Initiator] <= MaxInitiatorMsgs + Spare
    BY DEF IceWindow, Spare
  <2>2. ~OwnerCounted(Marks)
    BY <2>1 DEF Speaks, OwnerCounted, Passed
  <2>3. sent[Initiator] + Cardinality(Passed(Initiator)) <= lock.count + Spare
    BY <2>1, <2>2 DEF IInv, WindowCounts, Marks, Spare
  <2>4. sent[Initiator] \in Nat /\ lock.count \in 0..MaxInitiatorMsgs
    BY <2>1, WindowAssumption DEF IInv, TypeOK, Agents, NoLock
  <2>5. Cardinality(Passed(Initiator)) \in Nat /\ Spare \in Nat
    BY PassedFinite DEF Spare
  <2> QED
    BY <2>3, <2>4, <2>5, WindowAssumption
<1> QED
  BY <1>1, Invariance, PTL

\* The broken flag stands only between two agents who both have a message in the
\* conversation, or one that has passed the check, whatever other messages are rolled back;
\* unless a message of the owner was lost in a crash, or was rolled back after the
\* initiator's next one had broken the ice over it.
THEOREM IceIsBrokenByTwo == Spec => []BrokenMeansBothSpeak
<1>1. IInv => BrokenMeansBothSpeak
  <2>1. SUFFICES ASSUME IInv, broken, ~unsaid PROVE Speaks(Initiator) /\ Speaks(Owner)
    BY DEF BrokenMeansBothSpeak, Agents
  <2>2. Speaks(Initiator)
    BY <2>1 DEF IInv, BeginsWithInitiator, Speaks
  <2>3. OwnerCounted(Marks)
    BY <2>1 DEF IInv, MarksAreOwned, Marks
  <2>4. Speaks(Owner)
    BY <2>3 DEF OwnerCounted, Passed, Speaks
  <2> QED
    BY <2>2, <2>4
<1> QED
  BY <1>1, Invariance, PTL
-----------------------------------------------------------------------------
\* The limit is earned.

\* What is to be counted or written is finite: workers hold it.
LEMMA HeldFinite ==
  ASSUME NEW x
  PROVE  /\ IsFiniteSet(ToCount(x)) /\ Cardinality(ToCount(x)) \in Nat
         /\ IsFiniteSet(ToWrite(x)) /\ Cardinality(ToWrite(x)) \in Nat
<1>1. ToCount(x) \subseteq Workers /\ ToWrite(x) \subseteq Workers
  BY DEF ToCount, ToWrite, Passed
<1>2. IsFiniteSet(ToCount(x)) /\ IsFiniteSet(ToWrite(x))
  BY <1>1, FS_Subset, WorkersAssumption
<1> QED
  BY <1>2, FS_CardinalityType

\* The count of x in the lock.
CountOf(x) == IF lock.sender = x THEN lock.count ELSE 0

\* The books of x: what waits to be counted, what is counted and what waits to be written.
Books(x) ==
  /\ Cardinality(ToCount(x)) <= sent[x]
  /\ Cardinality(ToCount(x)) + CountOf(x) <= sent[x] + Cardinality(ToWrite(x))

\* A step that counts nothing leaves the books right when nobody drops a message under way.
LEMMA BooksShrink ==
  ASSUME TypeOK, TypeOK', NEW x \in Agents, Books(x), ToCount(x)' \subseteq ToCount(x),
         sent'[x] >= sent[x], CountOf(x)' <= CountOf(x),
         ToWrite(x) \subseteq ToWrite(x)'
  PROVE  Books(x)'
<1>1. /\ Cardinality(ToCount(x)') <= Cardinality(ToCount(x)) /\ Cardinality(ToCount(x)') \in Nat
      /\ Cardinality(ToCount(x)) \in Nat
  <2>1. IsFiniteSet(ToCount(x)) /\ Cardinality(ToCount(x)) \in Nat
    BY HeldFinite
  <2> QED
    BY <2>1, FS_Subset, FS_CardinalityType
<1>2. /\ Cardinality(ToWrite(x)) <= Cardinality(ToWrite(x)') /\ Cardinality(ToWrite(x)') \in Nat
      /\ Cardinality(ToWrite(x)) \in Nat
  <2>1. ToWrite(x)' \subseteq Workers
    BY DEF ToWrite, Passed
  <2>2. IsFiniteSet(ToWrite(x)')
    BY <2>1, FS_Subset, WorkersAssumption
  <2> QED
    BY <2>2, HeldFinite, FS_Subset, FS_CardinalityType
<1>3. sent[x] \in Nat /\ sent'[x] \in Nat
  BY DEF TypeOK
<1>4. CountOf(x) \in Nat /\ CountOf(x)' \in Nat
  BY WindowAssumption DEF TypeOK, CountOf, NoLock
<1> QED
  BY <1>1, <1>2, <1>3, <1>4 DEF Books

\* Steps that neither count nor write.
LEMMA BooksUntouched ==
  ASSUME TypeOK, TypeOK', NEW x \in Agents, Books(x), UNCHANGED <<sent, lock>>,
         \A w \in Workers :
           /\ pc'[w] = "iceNew" => pc[w] = "iceNew" /\ call'[w] = call[w]
           /\ pc[w] \in Judged => pc'[w] \in Judged /\ call'[w] = call[w] /\ ice'[w] = ice[w]
  PROVE  Books(x)'
<1>1. ToCount(x)' \subseteq ToCount(x) /\ ToWrite(x) \subseteq ToWrite(x)'
  BY DEF ToCount, ToWrite, Passed, Judged
<1>2. CountOf(x)' <= CountOf(x)
  BY WindowAssumption DEF TypeOK, CountOf, NoLock
<1>3. sent'[x] >= sent[x]
  BY DEF TypeOK
<1> QED
  BY <1>1, <1>2, <1>3, BooksShrink

\* The first message is written, and to be counted.
LEMMA BooksAtCreate ==
  ASSUME IInv, TypeOK', NEW x \in Agents, Books(x), NEW w \in Workers, Create(w)
  PROVE  Books(x)'
<1>1. TypeOK /\ pc[w] = "create" /\ UNCHANGED lock
  BY DEF IInv, Create, iceVars
<1>2. CASE UNCHANGED sent /\ Return(w)
  BY <1>1, <1>2, BooksUntouched DEF TypeOK, Return, Judged
<1>3. CASE sent' = [sent EXCEPT ![call[w].by] = @ + 1] /\ Goto(w, "iceNew")
  <2>1. ToWrite(x)' = ToWrite(x)
    BY <1>1, <1>3 DEF ToWrite, Passed, Goto, TypeOK
  <2>2. CASE x # call[w].by
    <3>1. sent'[x] = sent[x] /\ ToCount(x)' = ToCount(x)
      BY <1>1, <1>3, <2>2 DEF TypeOK, ToCount, Goto
    <3> QED
      BY <1>1, <2>1, <3>1 DEF Books, CountOf
  <2>3. CASE x = call[w].by
    <3>1. sent'[x] = sent[x] + 1 /\ ToCount(x)' = ToCount(x) \cup {w} /\ w \notin ToCount(x)
      BY <1>1, <1>3, <2>3 DEF TypeOK, ToCount, Goto
    <3>2. Cardinality(ToCount(x)') = Cardinality(ToCount(x)) + 1
      BY <3>1, HeldFinite, FS_AddElement
    <3>3. /\ Cardinality(ToCount(x)) \in Nat /\ Cardinality(ToWrite(x)) \in Nat
          /\ sent[x] \in Nat /\ CountOf(x) \in Nat
      BY <1>1, HeldFinite, WindowAssumption DEF TypeOK, CountOf, NoLock
    <3>4. CountOf(x)' = CountOf(x)
      BY <1>1 DEF CountOf
    <3> QED
      BY <2>1, <3>1, <3>2, <3>3, <3>4 DEF Books
  <2> QED
    BY <2>2, <2>3
<1> QED
  BY <1>2, <1>3 DEF Create, rowVars

\* What a run of the script for y does to the count of x.
LEMMA CountOfNext ==
  ASSUME TypeOK, NEW x \in Agents, NEW y \in Agents, RunScript(y)
  PROVE  /\ CountOf(x) \in Nat /\ CountOf(x)' \in Nat
         /\ ScriptStatus(y) = "firstMsg" /\ x = y => CountOf(x)' = CountOf(x) + 1
         /\ ~(ScriptStatus(y) = "firstMsg" /\ x = y) => CountOf(x)' <= CountOf(x)
<1>1. lock \in [sender : Agents, count : 1..MaxInitiatorMsgs] \cup {NoLock}
  BY DEF TypeOK
<1>2. /\ lock' \in [sender : Agents, count : 1..MaxInitiatorMsgs] \cup {NoLock}
      /\ ScriptStatus(y) \in IceStatus
      /\ ScriptStatus(y) = "firstMsg" => lock'.sender = y /\ lock'.count = lock.count + 1
      /\ ScriptStatus(y) = "justBroken" => lock' = NoLock
      /\ ScriptStatus(y) \in {"broken", "limit"} => lock' = lock
  BY ScriptFacts
<1>3. lock.count \in Nat /\ lock'.count \in Nat /\ NoLock.count = 0
  BY <1>1, <1>2, WindowAssumption DEF NoLock
<1>4. CountOf(x) \in Nat /\ CountOf(x)' \in Nat
  BY <1>3 DEF CountOf
<1>5. ASSUME ScriptStatus(y) = "firstMsg", x = y PROVE CountOf(x)' = CountOf(x) + 1
  <2>1. lock = NoLock \/ lock.sender = x
    BY <1>5 DEF ScriptStatus
  <2> QED
    BY <1>2, <1>3, <1>5, <2>1 DEF CountOf
<1>6. ASSUME ~(ScriptStatus(y) = "firstMsg" /\ x = y) PROVE CountOf(x)' <= CountOf(x)
  <2>1. CASE ScriptStatus(y) = "firstMsg"
    <3>1. CountOf(x)' = 0
      BY <1>2, <1>6, <2>1 DEF CountOf
    <3> QED
      BY <1>4, <3>1
  <2>2. CASE ScriptStatus(y) = "justBroken"
    <3>1. CountOf(x)' = 0
      BY <1>2, <1>3, <2>2 DEF CountOf
    <3> QED
      BY <1>4, <3>1
  <2>3. CASE ScriptStatus(y) \in {"broken", "limit"}
    <3>1. CountOf(x)' = CountOf(x)
      BY <1>2, <2>3 DEF CountOf
    <3> QED
      BY <1>4, <3>1
  <2> QED
    BY <1>2, <2>1, <2>2, <2>3 DEF IceStatus
<1> QED
  BY <1>4, <1>5, <1>6

\* A message that was written is counted.
LEMMA BooksAtIceNew ==
  ASSUME IInv, TypeOK', NEW x \in Agents, Books(x), NEW w \in Workers, IceNew(w)
  PROVE  Books(x)'
<1> DEFINE y == call[w].by
<1>1. /\ TypeOK /\ pc[w] = "iceNew" /\ RunScript(y) /\ Return(w) /\ UNCHANGED sent
  BY DEF IInv, IceNew, rowVars
<1>2. y \in Agents
  BY <1>1 DEF IInv, CallKnown, Agents
<1>3. ToWrite(x)' = ToWrite(x)
  BY <1>1 DEF ToWrite, Passed, Return, TypeOK
<1>4. CASE ScriptStatus(y) = "firstMsg" /\ x = y
  <2>1. CountOf(x) \in Nat /\ CountOf(x)' = CountOf(x) + 1
    BY <1>1, <1>2, <1>4, CountOfNext
  <2>2. w \in ToCount(x) /\ ToCount(x)' = ToCount(x) \ {w}
    BY <1>1, <1>4 DEF ToCount, Return, TypeOK
  <2>3. Cardinality(ToCount(x)') = Cardinality(ToCount(x)) - 1
    BY <2>2, HeldFinite, FS_RemoveElement
  <2>4. Cardinality(ToCount(x)) \in Nat /\ Cardinality(ToWrite(x)) \in Nat /\ sent[x] \in Nat
    BY <1>1, HeldFinite DEF TypeOK
  <2> QED
    BY <1>1, <1>3, <2>1, <2>3, <2>4 DEF Books
<1>5. CASE ~(ScriptStatus(y) = "firstMsg" /\ x = y)
  <2>1. CountOf(x)' <= CountOf(x)
    BY <1>1, <1>2, <1>5, CountOfNext
  <2>2. ToCount(x)' \subseteq ToCount(x) /\ sent'[x] >= sent[x]
    BY <1>1 DEF ToCount, Return, TypeOK
  <2> QED
    BY <1>1, <1>3, <2>1, <2>2, BooksShrink
<1> QED
  BY <1>4, <1>5

\* A message that is counted is to be written.
LEMMA BooksAtIce ==
  ASSUME IInv, TypeOK', NEW x \in Agents, Books(x), NEW w \in Workers, Ice(w)
  PROVE  Books(x)'
<1> DEFINE y == call[w].by
<1>1. TypeOK /\ pc[w] = "ice" /\ RunScript(y) /\ UNCHANGED sent
  BY DEF IInv, Ice, rowVars
<1>2. call[w] # NoCall /\ y \in Agents
  BY <1>1 DEF IInv, CallKnown, TypeOK
<1>3. ToCount(x)' \subseteq ToCount(x) /\ sent'[x] >= sent[x]
  BY <1>1 DEF Ice, ToCount, Return, TypeOK
<1>4. CASE ScriptStatus(y) = "firstMsg" /\ x = y
  <2>1. CountOf(x) \in Nat /\ CountOf(x)' = CountOf(x) + 1
    BY <1>1, <1>2, <1>4, CountOfNext
  <2>2. w \notin ToWrite(x) /\ ToWrite(x)' = ToWrite(x) \cup {w}
    BY <1>1, <1>4 DEF Ice, ToWrite, Passed, TypeOK
  <2>3. Cardinality(ToWrite(x)') = Cardinality(ToWrite(x)) + 1
    BY <2>2, HeldFinite, FS_AddElement
  <2>4. Cardinality(ToCount(x)) \in Nat /\ Cardinality(ToWrite(x)) \in Nat /\ sent[x] \in Nat
    BY <1>1, HeldFinite DEF TypeOK
  <2>5. ToCount(x)' = ToCount(x)
    BY <1>1, <1>4 DEF Ice, ToCount, TypeOK
  <2> QED
    BY <1>1, <2>1, <2>3, <2>4, <2>5 DEF Books
<1>5. CASE ~(ScriptStatus(y) = "firstMsg" /\ x = y)
  <2>1. CountOf(x)' <= CountOf(x)
    BY <1>1, <1>2, <1>5, CountOfNext
  <2>2. ToWrite(x) \subseteq ToWrite(x)'
    BY <1>1 DEF Ice, ToWrite, Passed, Return, TypeOK
  <2> QED
    BY <1>1, <1>3, <2>1, <2>2, BooksShrink
<1> QED
  BY <1>4, <1>5

\* A message under way is written, or given up together with all that was counted.
LEMMA BooksAtInsert ==
  ASSUME IInv, TypeOK', NEW x \in Agents, Books(x), NEW w \in Workers, Insert(w)
  PROVE  Books(x)'
<1>1. TypeOK /\ pc[w] = "insert" /\ UNCHANGED lock
  BY DEF IInv, Insert, iceVars
<1>2. CASE UNCHANGED sent /\ Goto(w, "rollback")
  BY <1>1, <1>2, BooksUntouched DEF TypeOK, Goto, Judged
<1>3. CASE sent' = [sent EXCEPT ![call[w].by] = @ + 1] /\ Return(w)
  <2>1. ToCount(x)' = ToCount(x) /\ CountOf(x)' = CountOf(x)
    BY <1>1, <1>3 DEF ToCount, CountOf, Return, TypeOK
  <2>2. CASE x # call[w].by
    <3>1. sent'[x] = sent[x] /\ ToWrite(x)' = ToWrite(x)
      BY <1>1, <1>3, <2>2 DEF TypeOK, ToWrite, Passed, Return
    <3> QED
      BY <2>1, <3>1 DEF Books
  <2>3. CASE x = call[w].by
    <3>1. sent'[x] = sent[x] + 1 /\ ToWrite(x)' = ToWrite(x) \ {w}
      BY <1>1, <1>3, <2>3 DEF TypeOK, ToWrite, Passed, Return
    <3>2. Cardinality(ToWrite(x)') >= Cardinality(ToWrite(x)) - 1
          /\ Cardinality(ToWrite(x)') \in Nat
      <4>1. CASE w \in ToWrite(x)
        <5>1. Cardinality(ToWrite(x)') = Cardinality(ToWrite(x)) - 1
          BY <3>1, <4>1, HeldFinite, FS_RemoveElement
        <5>2. IsFiniteSet(ToWrite(x)')
          BY <3>1, HeldFinite, FS_RemoveElement
        <5>3. Cardinality(ToWrite(x)') \in Nat
          BY <5>2, FS_CardinalityType
        <5> QED
          BY <5>1, <5>3
      <4>2. CASE w \notin ToWrite(x)
        <5>1. ToWrite(x)' = ToWrite(x)
          BY <3>1, <4>2
        <5> QED
          BY <5>1, HeldFinite
      <4> QED
        BY <4>1, <4>2
    <3>3. /\ Cardinality(ToCount(x)) \in Nat /\ Cardinality(ToWrite(x)) \in Nat
          /\ sent[x] \in Nat /\ CountOf(x) \in Nat
      BY <1>1, HeldFinite, WindowAssumption DEF TypeOK, CountOf, NoLock
    <3> QED
      BY <2>1, <3>1, <3>2, <3>3 DEF Books
  <2> QED
    BY <2>2, <2>3
<1> QED
  BY <1>2, <1>3 DEF Insert

LEMMA BooksAtRollback ==
  ASSUME IInv, TypeOK', NEW x \in Agents, Books(x), NEW w \in Workers, Rollback(w)
  PROVE  Books(x)'
<1>1. /\ TypeOK /\ pc[w] = "rollback" /\ Return(w) /\ UNCHANGED sent
      /\ lock' = IF ice[w] = "firstMsg" THEN NoLock ELSE lock
  BY DEF IInv, Rollback, rowVars
<1>2. ToCount(x)' = ToCount(x)
  BY <1>1 DEF ToCount, Return, TypeOK
<1>3. CASE ice[w] = "firstMsg"
  <2>1. CountOf(x)' = 0
    BY <1>1, <1>3 DEF CountOf, NoLock
  <2>2. ToWrite(x)' \subseteq Workers
    BY DEF ToWrite, Passed
  <2>3. Cardinality(ToWrite(x)') \in Nat
    BY <2>2, FS_Subset, FS_CardinalityType, WorkersAssumption
  <2>4. Cardinality(ToCount(x)) \in Nat /\ sent[x] \in Nat
    BY <1>1, HeldFinite DEF TypeOK
  <2> QED
    BY <1>1, <1>2, <2>1, <2>3, <2>4 DEF Books
<1>4. CASE ice[w] # "firstMsg"
  <2>1. ToWrite(x) \subseteq ToWrite(x)'
    BY <1>1, <1>4 DEF ToWrite, Passed, Return, TypeOK
  <2>2. CountOf(x)' <= CountOf(x) /\ sent'[x] >= sent[x]
    BY <1>1, <1>4, WindowAssumption DEF CountOf, TypeOK, NoLock
  <2> QED
    BY <1>1, <1>2, <2>1, <2>2, BooksShrink
<1> QED
  BY <1>3, <1>4

\* Lock or flag expires: what was counted is forgotten.
LEMMA BooksAtExpireIce ==
  ASSUME TypeOK, TypeOK', NEW x \in Agents, Books(x), ExpireIce
  PROVE  Books(x)'
<1>1. UNCHANGED <<sent, call, ice, pc>> /\ lock' \in {lock, NoLock}
  BY DEF ExpireIce, rowVars, workerVars
<1>2. ToCount(x)' = ToCount(x) /\ ToWrite(x)' = ToWrite(x)
  BY <1>1 DEF ToCount, ToWrite, Passed
<1>3. CountOf(x)' <= CountOf(x) /\ sent'[x] >= sent[x]
  BY <1>1, WindowAssumption DEF CountOf, TypeOK, NoLock
<1> QED
  BY <1>2, <1>3, BooksShrink

\* Every step but a crash keeps the books.
LEMMA NextBooks ==
  ASSUME IInv, TypeOK', [Next]_vars, ~Crash, NEW x \in Agents, Books(x)
  PROVE  Books(x)'
<1>1. TypeOK
  BY DEF IInv
<1>2. CASE UNCHANGED vars
  BY <1>1, <1>2, BooksUntouched DEF vars, rowVars, iceVars, workerVars
<1>3. ASSUME NEW w \in Workers, Arrive(w)
      PROVE  Books(x)'
  BY <1>1, <1>3, BooksUntouched DEF Arrive, TypeOK, rowVars, iceVars, Judged
<1>4. ASSUME NEW w \in Workers, Lookup(w) \/ Judge(w) \/ CloseConversation(w) \/ InvalidateConvCache(w)
      PROVE  Books(x)'
  <2>1. UNCHANGED <<sent, lock>> /\ pc[w] \notin Judged /\ pc[w] # "iceNew"
    BY <1>4 DEF Lookup, Judge, CloseConversation, InvalidateConvCache, rowVars, iceVars, Judged
  <2>2. Return(w) \/ \E l \in {"create", "info", "update", "ice", "uncache"} : Goto(w, l)
    BY <1>4 DEF Lookup, Judge, CloseConversation, InvalidateConvCache
  <2> QED
    BY <1>1, <2>1, <2>2, BooksUntouched DEF Return, Goto, TypeOK
<1>5. ASSUME NEW w \in Workers, GetInfo(w)
      PROVE  Books(x)'
  BY <1>1, <1>5, BooksUntouched DEF GetInfo, TypeOK, rowVars, iceVars, Judged
<1>6. ASSUME NEW w \in Workers, JudgeFriend(w)
      PROVE  Books(x)'
  BY <1>1, <1>6, BooksUntouched DEF JudgeFriend, Goto, TypeOK, rowVars, iceVars, Judged
<1>7. CASE FillInfo
  BY <1>1, <1>7, BooksUntouched DEF FillInfo, TypeOK, rowVars, iceVars, Judged
<1>8. CASE ExpireInfo
  BY <1>1, <1>8, BooksUntouched DEF ExpireInfo, rowVars, iceVars, workerVars
<1> QED
  BY <1>1, <1>2, <1>3, <1>4, <1>5, <1>6, <1>7, <1>8, BooksAtCreate, BooksAtIceNew, BooksAtIce,
     BooksAtInsert, BooksAtRollback, BooksAtExpireIce DEF Next, Step

\* What the lock counts is earned while no crash leaves a count behind.
THEOREM CountsAreEarned == Spec => []CountIsEarned
<1>1. CountIsEarned <=> ("crash" \notin Faults => \A x \in Agents : Books(x))
  BY DEF CountIsEarned, Books, CountOf
<1>2. CountIsEarned' <=> ("crash" \notin Faults => \A x \in Agents : Books(x)')
  BY DEF CountIsEarned, Books, CountOf
<1>3. Init => CountIsEarned
  <2> SUFFICES ASSUME Init, NEW x \in Agents PROVE Books(x)
    BY <1>1
  <2>1. ToCount(x) = {} /\ ToWrite(x) = {} /\ sent[x] = 0 /\ CountOf(x) = 0
    BY DEF Init, ToCount, ToWrite, Passed, CountOf, NoLock
  <2> QED
    BY <2>1, FS_EmptySet DEF Books
<1>4. IInv /\ IInv' /\ CountIsEarned /\ [Next]_vars => CountIsEarned'
  <2> SUFFICES ASSUME IInv, IInv', CountIsEarned, [Next]_vars, "crash" \notin Faults,
                      NEW x \in Agents
               PROVE  Books(x)'
    BY <1>2
  <2>1. ~Crash
    BY DEF Crash
  <2> QED
    BY <1>1, <2>1, NextBooks DEF IInv
<1> QED
  BY <1>3, <1>4, Invariance, PTL DEF Spec

\* A 429 comes only after MaxInitiatorMsgs messages of the sender, written or under way.
THEOREM LimitsAreEarned == Spec => []LimitIsEarned
<1>1. IInv /\ CountIsEarned => LimitIsEarned
  <2> SUFFICES ASSUME IInv, CountIsEarned, "crash" \notin Faults, NEW x \in Agents,
                      ScriptStatus(x) = "limit"
               PROVE  MaxInitiatorMsgs <= sent[x] + Cardinality(ToWrite(x))
    BY DEF LimitIsEarned
  <2>1. lock.sender = x /\ lock.count >= MaxInitiatorMsgs
    BY DEF ScriptStatus
  <2>2. Cardinality(ToCount(x)) + lock.count <= sent[x] + Cardinality(ToWrite(x))
    BY <2>1 DEF CountIsEarned
  <2>3. /\ Cardinality(ToCount(x)) \in Nat /\ Cardinality(ToWrite(x)) \in Nat
        /\ lock.count \in Nat /\ sent[x] \in Nat
    BY HeldFinite, WindowAssumption DEF IInv, TypeOK, NoLock
  <2> QED
    BY <2>1, <2>2, <2>3, WindowAssumption
<1> QED
  BY <1>1, CountsAreEarned, Invariance, PTL

-----------------------------------------------------------------------------
\* A close that all have seen stays seen: loads and cache only take the status from rows
\* or from each other, and a closed conversation is never opened again.
THEOREM ClosedForGood == Spec => ClosedStaysSeen
<1> DEFINE Seen == conv = "closed" /\ NobodyBelievesOpen
<1>1. TypeOK /\ [Next]_vars => (Seen => Seen')
  <2> SUFFICES ASSUME TypeOK, [Next]_vars, Seen PROVE Seen'
    OBVIOUS
  <2> USE DEF NobodyBelievesOpen
  <2>1. CASE UNCHANGED vars
    BY <2>1 DEF vars, rowVars, infoVars, workerVars
  <2>2. ASSUME NEW w \in Workers, Arrive(w) PROVE Seen'
    BY <2>2 DEF Arrive, rowVars, infoVars
  <2>3. ASSUME NEW w \in Workers, GetInfo(w) PROVE Seen'
    BY <2>3 DEF GetInfo, rowVars, TypeOK
  <2>4. ASSUME NEW w \in Workers,
               \/ Lookup(w) \/ IceNew(w) \/ Judge(w) \/ JudgeFriend(w)
               \/ Ice(w) \/ Insert(w) \/ Rollback(w)
        PROVE  Seen'
    BY <2>4 DEF Lookup, IceNew, Judge, JudgeFriend, Ice, Insert, Rollback, Return, Goto,
                rowVars, infoVars, TypeOK
  <2>5. ASSUME NEW w \in Workers, Create(w) \/ CloseConversation(w) \/ InvalidateConvCache(w)
        PROVE  Seen'
    BY <2>5 DEF Create, CloseConversation, InvalidateConvCache, Return, Goto, rowVars, infoVars,
                TypeOK
  <2>6. CASE FillInfo
    BY <2>6 DEF FillInfo, rowVars
  <2>7. CASE ExpireInfo \/ Crash \/ ExpireIce
    BY <2>7 DEF ExpireInfo, Crash, ExpireIce, rowVars, infoVars, workerVars
  <2> QED
    BY <2>1, <2>2, <2>3, <2>4, <2>5, <2>6, <2>7 DEF Next, Step
<1>2. TypeOK /\ [Next]_vars
        => [conv = "closed" /\ NobodyBelievesOpen => conv' = "closed" /\ NobodyBelievesOpen']_vars
  BY <1>1
<1> QED
  BY <1>2, TypeCorrect, PTL DEF Spec, ClosedStaysSeen
=============================================================================
