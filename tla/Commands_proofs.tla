---------------------------- MODULE Commands_proofs ----------------------------
(***************************************************************************)
(* Theorems about Commands, for any calls, keys, runtimes and bounds.      *)
(***************************************************************************)
EXTENDS Commands, SequenceTheorems, TLAPS

CallRecord == [step : {"write", "recover", "answered"}, key : Keys, request : Nat,
               command : 0..Len(rows)]

\* What AnsweredByItsOwn says of the calls.
GoodAnswers ==
  \A u \in Calls : call[u].step = "answered" =>
    /\ call[u].command \in Ids
    /\ rows[call[u].command].key = call[u].key
    /\ rows[call[u].command].request = call[u].request

OneKeyOneCommand == \A c, d \in Ids : rows[c].key = rows[d].key => c = d

\* The invariant holds at the start.
LEMMA InitIInv == Init => IInv
<1> SUFFICES ASSUME Init PROVE IInv
  OBVIOUS
<1>1. Ids = {} /\ Len(rows) = 0 /\ rows \in Seq(Row)
  BY DEF Init, Ids
<1>2. TypeOK
  <2>1. looking \in BOOLEAN /\ overtaken \in BOOLEAN
    BY DEF Init
  <2>2. /\ item \in Item /\ rows \in Seq(Row)
        /\ claims \in [Runtimes -> SUBSET [command : Ids, epoch : 0..MaxEpoch]]
        /\ told = {} /\ call \in [Calls -> {Idle}]
    BY <1>1 DEF Init, Item
  <2> QED
    BY <2>1, <2>2 DEF TypeOK
<1>3. Responses = {}
  BY <1>1 DEF Responses
<1>4. PendingItem /\ ActedOnce /\ OneResponsePerRevision
  BY <1>3 DEF Init, PendingItem, ActedOnce, OneResponsePerRevision
<1>5. Fenced /\ AnsweredByItsOwn /\ ClaimsAreCounted
  BY <1>1 DEF Init, Fenced, AnsweredByItsOwn, ClaimsAreCounted, Idle
<1> QED
  BY <1>2, <1>4, <1>5 DEF IInv

-----------------------------------------------------------------------------
\* The calls.

\* A step that only moves a call or the job keeps everything but what is said of the calls.
LEMMA CallStep ==
  ASSUME IInv, UNCHANGED <<item, rows, runtimeVars, overtaken>>, looking' \in BOOLEAN,
         call' \in [Calls -> {Idle} \cup CallRecord], GoodAnswers'
  PROVE  IInv'
<1> USE DEF runtimeVars, IInv
<1>1. Ids' = Ids /\ Responses' = Responses /\ \A c \in Ids : Live(c)' = Live(c)
  BY DEF Ids, Responses, IsResponse, Live
<1>2. TypeOK'
  BY <1>1 DEF TypeOK, CallRecord
<1>3. PendingItem' /\ ActedOnce' /\ OneResponsePerRevision'
  BY <1>1 DEF PendingItem, ActedOnce, OneResponsePerRevision, Responses, ClosedOver
<1>4. Fenced' /\ ClaimsAreCounted'
  BY <1>1 DEF Fenced, ClaimsAreCounted
<1>5. AnsweredByItsOwn'
  BY <1>1 DEF AnsweredByItsOwn, GoodAnswers
<1> QED
  BY <1>2, <1>3, <1>4, <1>5

\* The facts about the calls that TypeOK and AnsweredByItsOwn hold.
LEMMA CallFacts ==
  ASSUME IInv
  PROVE  /\ call \in [Calls -> {Idle} \cup CallRecord]
         /\ GoodAnswers /\ OneKeyOneCommand
         /\ rows \in Seq(Row) /\ Len(rows) \in Nat
         /\ \A c \in Ids : rows[c] \in Row
BY DEF IInv, TypeOK, CallRecord, AnsweredByItsOwn, GoodAnswers, OneKeyOneCommand, Ids

\* What a call may be answered with.
GoodAnswer(a) ==
  a.step = "answered" =>
    a.command \in Ids /\ rows[a.command].key = a.key /\ rows[a.command].request = a.request

\* A call that moves on, while everything else stays.
LEMMA MoveCall ==
  ASSUME IInv, NEW u \in Calls, NEW a \in {Idle} \cup CallRecord, GoodAnswer(a),
         call' = [call EXCEPT ![u] = a], UNCHANGED <<item, rows, runtimeVars, jobVars>>
  PROVE  IInv'
<1>1. CallRecord' = CallRecord /\ Ids' = Ids
  BY DEF CallRecord, Ids
<1>2. call' \in [Calls -> {Idle} \cup CallRecord]
  BY CallFacts
<1>3. GoodAnswers'
  BY <1>1, CallFacts DEF GoodAnswers, GoodAnswer
<1>4. looking' \in BOOLEAN /\ UNCHANGED overtaken
  BY DEF jobVars, IInv, TypeOK
<1> QED
  BY <1>2, <1>3, <1>4, CallStep

LEMMA IdleIsNoAnswer == Idle.step = "idle" /\ GoodAnswer(Idle)
BY DEF Idle, GoodAnswer

\* A call that is under way, and the call with another step or answer.
LEMMA Moved ==
  ASSUME IInv, NEW u \in Calls, call[u].step # "idle"
  PROVE  /\ call[u] \in CallRecord
         /\ \A l \in {"write", "recover", "answered"} :
              [call EXCEPT ![u].step = l] = [call EXCEPT ![u] = [call[u] EXCEPT !.step = l]]
         /\ [call[u] EXCEPT !.step = "recover"] \in CallRecord
         /\ GoodAnswer([call[u] EXCEPT !.step = "recover"])
<1>1. call[u] \in CallRecord
  BY CallFacts, IdleIsNoAnswer
<1> QED
  BY <1>1, CallFacts DEF CallRecord, GoodAnswer

LEMMA ReadPriorStep == ASSUME IInv, NEW u \in Calls, ReadPrior(u) PROVE IInv'
<1>1. PICK k \in Keys, q \in 0..item.revision :
        \/ call' = [call EXCEPT ![u] = Asking("write", k, q, 0)]
        \/ \E c \in Ids : /\ rows[c].key = k /\ rows[c].request = q
                          /\ call' = [call EXCEPT ![u] = Asking("answered", k, q, c)]
  BY DEF ReadPrior
<1>2. q \in Nat /\ Len(rows) \in Nat
  BY CallFacts DEF IInv, TypeOK
<1>3. UNCHANGED <<item, rows, runtimeVars, jobVars>>
  BY DEF ReadPrior
<1>4. CASE call' = [call EXCEPT ![u] = Asking("write", k, q, 0)]
  <2>1. Asking("write", k, q, 0) \in CallRecord /\ GoodAnswer(Asking("write", k, q, 0))
    BY <1>2 DEF Asking, CallRecord, GoodAnswer
  <2> QED
    BY <1>3, <1>4, <2>1, MoveCall
<1>5. ASSUME NEW c \in Ids, rows[c].key = k, rows[c].request = q,
             call' = [call EXCEPT ![u] = Asking("answered", k, q, c)]
      PROVE  IInv'
  <2>1. Asking("answered", k, q, c) \in CallRecord /\ GoodAnswer(Asking("answered", k, q, c))
    BY <1>2, <1>5 DEF Asking, CallRecord, GoodAnswer, Ids
  <2> QED
    BY <1>3, <1>5, <2>1, MoveCall
<1> QED
  BY <1>1, <1>4, <1>5

LEMMA RecoverStep == ASSUME IInv, NEW u \in Calls, Recover(u) PROVE IInv'
<1>1. UNCHANGED <<item, rows, runtimeVars, jobVars>> /\ call[u].step = "recover"
  BY DEF Recover
<1>2. CASE Fail(u)
  BY <1>1, <1>2, IdleIsNoAnswer, MoveCall DEF Fail
<1>3. ASSUME NEW c \in Found(u), rows[c].request = call[u].request, Answer(u, c)
      PROVE  IInv'
  <2> DEFINE a == [call[u] EXCEPT !.step = "answered", !.command = c]
  <2>1. call[u] \in CallRecord /\ Len(rows) \in Nat
    BY <1>1, Moved, CallFacts
  <2>2. a \in CallRecord /\ GoodAnswer(a)
    <3>1. c \in Ids /\ rows[c].key = call[u].key /\ c \in 0..Len(rows)
      BY <2>1 DEF Found, Ids
    <3>2. /\ a \in [step : {"answered"}, key : Keys, request : Nat, command : {c}]
          /\ a.key = call[u].key /\ a.request = call[u].request /\ a.command = c
      BY <2>1 DEF CallRecord
    <3> QED
      BY <1>3, <3>1, <3>2 DEF CallRecord, GoodAnswer
  <2>3. call' = [call EXCEPT ![u] = a]
    BY <1>3, <2>1, CallFacts DEF Answer, CallRecord
  <2> QED
    BY <1>1, <2>2, <2>3, MoveCall
<1> QED
  BY <1>2, <1>3 DEF Recover

LEMMA ReturnStep == ASSUME IInv, NEW u \in Calls, Return(u) PROVE IInv'
BY IdleIsNoAnswer, MoveCall DEF Return, Fail

-----------------------------------------------------------------------------
\* The insertion of a command.

\* The item with another status and the next revision.
LEMMA ItemMoves ==
  ASSUME item \in Item, NEW s \in {"open", "pending", "acted", "dismissed", "expired"},
         item' = [item EXCEPT !.status = s, !.revision = @ + 1]
  PROVE  /\ item' \in Item /\ item.revision \in Nat
         /\ item'.status = s /\ item'.revision = item.revision + 1
<1> USE DEF Item
<1>1. item.revision \in Nat /\ item.revision + 1 \in Nat \ {0} /\ item.inTime \in BOOLEAN
  OBVIOUS
<1>2. item'.status = s /\ item'.revision = item.revision + 1 /\ item'.inTime = item.inTime
  OBVIOUS
<1>3. item' = [status |-> s, revision |-> item.revision + 1, inTime |-> item.inTime]
  OBVIOUS
<1> QED
  BY <1>1, <1>2, <1>3

\* One row more, and the others stay as they are.
LEMMA InsertRow ==
  ASSUME IInv, NEW u \in Calls, call[u].step = "write", Insert(u)
  PROVE  /\ Len(rows) \in Nat /\ Len(rows) < MaxCommands
         /\ Len(rows') = Len(rows) + 1 /\ Len(rows') \in Ids' /\ Ids \subseteq Ids'
         /\ Ids' = Ids \cup {Len(rows')} /\ rows' \in Seq(Row)
         /\ \A c \in Ids : rows'[c] = rows[c] /\ c < Len(rows') /\ c \in Nat
         /\ rows'[Len(rows')] = NewRow(u) /\ Len(rows') \notin Ids
<1>1. rows \in Seq(Row) /\ Len(rows) \in Nat
  BY CallFacts
<1>2. NewRow(u) \in Row
  <2>1. call[u] \in CallRecord
    BY Moved
  <2> QED
    BY <2>1, BoundAssumption DEF NewRow, Row, CallRecord, Statuses
<1>3. /\ rows' \in Seq(Row) /\ Len(rows') = Len(rows) + 1
      /\ \A c \in 1..Len(rows) : rows'[c] = rows[c]
      /\ rows'[Len(rows) + 1] = NewRow(u)
  BY <1>1, <1>2, AppendProperties DEF Insert
<1>4. Len(rows) < MaxCommands
  BY DEF Insert
<1> QED
  BY <1>1, <1>3, <1>4 DEF Ids

\* The answer is the new command, the key is new, and no claim is concerned.
LEMMA InsertStep ==
  ASSUME IInv, NEW u \in Calls, call[u].step = "write", Found(u) = {}, Insert(u),
         UNCHANGED <<runtimeVars, jobVars>>,
         item' \in Item
  PROVE  TypeOK' /\ AnsweredByItsOwn' /\ Fenced' /\ ClaimsAreCounted'
<1> USE DEF runtimeVars, jobVars
<1> DEFINE n == Len(rows')
           a == [call[u] EXCEPT !.step = "answered", !.command = n]
<1>0. n \in Ids' /\ n \in Nat /\ rows'[n] = NewRow(u) /\ Ids' = Ids \cup {n} /\ n = Len(rows) + 1
  BY InsertRow
<1>1. call[u] \in CallRecord /\ call' = [call EXCEPT ![u] = a]
  <2>1. call[u] \in CallRecord
    BY Moved
  <2> QED
    BY <1>0, <2>1, CallFacts DEF Insert, Answer, CallRecord
<1>2. /\ a \in CallRecord' /\ a.key = call[u].key /\ a.request = call[u].request /\ a.command = n
      /\ CallRecord \subseteq CallRecord'
  <2>1. n \in 0..n /\ 0..Len(rows) \subseteq 0..n
    BY <1>0, InsertRow
  <2> HIDE DEF n
  <2>2. /\ a \in [step : {"answered"}, key : Keys, request : Nat, command : {n}]
        /\ a.key = call[u].key /\ a.request = call[u].request /\ a.command = n
    BY <1>1 DEF CallRecord
  <2>3. CallRecord' = [step : {"write", "recover", "answered"}, key : Keys, request : Nat,
                       command : 0..n]
    BY DEF CallRecord, n
  <2> QED
    BY <2>1, <2>2, <2>3 DEF CallRecord
<1>3. TypeOK'
  <2>1. call' \in [Calls -> {Idle} \cup CallRecord']
    BY <1>1, <1>2, CallFacts
  <2>2. /\ claims' \in [Runtimes -> SUBSET [command : Ids', epoch : 0..MaxEpoch]]
        /\ told' \subseteq [command : Ids', by : Runtimes, epoch : 0..MaxEpoch,
                            verdict : {"completed", "failed"}]
    <3>1. Ids \subseteq Ids'
      BY <1>0
    <3> QED
      BY <3>1 DEF IInv, TypeOK
  <2>3. rows' \in Seq(Row) /\ looking' \in BOOLEAN /\ overtaken' \in BOOLEAN
    BY InsertRow DEF IInv, TypeOK
  <2> QED
    BY <2>1, <2>2, <2>3 DEF TypeOK, CallRecord
<1>4. AnsweredByItsOwn'
  <2>1. \A c \in Ids : rows'[c].key # call[u].key
    BY InsertRow DEF Found
  <2>2. OneKeyOneCommand'
    BY <1>0, <2>1, InsertRow, CallFacts DEF OneKeyOneCommand, NewRow
  <2>3. GoodAnswers'
    <3>1. rows'[n].key = a.key /\ rows'[n].request = a.request
      BY <1>0, <1>2 DEF NewRow
    <3>2. ASSUME NEW v \in Calls, call'[v].step = "answered"
          PROVE  /\ call'[v].command \in Ids'
                 /\ rows'[call'[v].command].key = call'[v].key
                 /\ rows'[call'[v].command].request = call'[v].request
      <4>1. CASE v = u
        BY <4>1, <3>1, <1>0, <1>1, <1>2, CallFacts
      <4>2. CASE v # u
        BY <4>2, <3>2, <1>1, InsertRow, CallFacts DEF GoodAnswers
      <4> QED
        BY <4>1, <4>2
    <3> QED
      BY <3>2 DEF GoodAnswers
  <2> QED
    BY <2>2, <2>3 DEF AnsweredByItsOwn, GoodAnswers, OneKeyOneCommand
<1>5. Fenced'
  BY InsertRow DEF IInv, TypeOK, Fenced
<1>6. ClaimsAreCounted'
  <2>1. \A c \in Ids' : rows'[c].running =>
          rows'[c].status = "claimed" /\ rows'[c].owner \in Runtimes
    BY <1>0, InsertRow DEF IInv, ClaimsAreCounted, NewRow
  <2>2. \A r \in Runtimes : \A k \in claims[r] : rows'[k.command] = rows[k.command]
    BY InsertRow DEF IInv, TypeOK
  <2> QED
    BY <2>1, <2>2 DEF IInv, ClaimsAreCounted
<1> QED
  BY <1>3, <1>4, <1>5, <1>6

LEMMA CreateStep == ASSUME IInv, NEW u \in Calls, Create(u) PROVE IInv'
<1>1. call[u].step = "write" /\ call[u].request = 0 /\ UNCHANGED <<item, runtimeVars, jobVars>>
  BY DEF Create
<1>2. CASE Found(u) = {} /\ Insert(u)
  <2>1. TypeOK' /\ AnsweredByItsOwn' /\ Fenced' /\ ClaimsAreCounted'
    BY <1>1, <1>2, InsertStep DEF IInv, TypeOK
  <2>2. /\ Responses' = Responses
        /\ \A c \in Responses : rows'[c] = rows[c]
    <3> DEFINE n == Len(rows')
    <3>1. rows'[n].request = 0
      <4>1. rows'[n] = NewRow(u)
        BY <1>1, <1>2, InsertRow
      <4>2. NewRow(u).request = 0
        BY <1>1 DEF NewRow
      <4> QED
        BY <4>1, <4>2
    <3>2. Ids' = Ids \cup {n} /\ \A c \in Ids : rows'[c] = rows[c]
      BY <1>1, <1>2, InsertRow
    <3> HIDE DEF n
    <3>3. \A c : c \in Responses' <=> c \in Responses
      BY <3>1, <3>2 DEF Responses, IsResponse
    <3> QED
      BY <3>2, <3>3 DEF Responses
  <2>3. PendingItem' /\ ActedOnce' /\ OneResponsePerRevision'
    BY <1>1, <2>2
    DEF IInv, PendingItem, ActedOnce, OneResponsePerRevision, Live, ClosedOver, jobVars
  <2> QED
    BY <2>1, <2>3 DEF IInv
<1>3. CASE UNCHANGED rows /\ Goto(u, "recover")
  BY <1>1, <1>3, Moved, MoveCall DEF Goto
<1>4. CASE UNCHANGED rows /\ Fail(u)
  BY <1>1, <1>4, IdleIsNoAnswer, MoveCall DEF Fail
<1> QED
  BY <1>2, <1>3, <1>4 DEF Create

LEMMA RespondStep == ASSUME IInv, NEW u \in Calls, Respond(u) PROVE IInv'
<1>1. call[u].step = "write" /\ call[u].request # 0 /\ UNCHANGED <<runtimeVars, jobVars>>
  BY DEF Respond
<1>2. CASE /\ MayRespond(u) /\ Found(u) = {} /\ Insert(u)
           /\ item' = [item EXCEPT !.status = "pending", !.revision = @ + 1]
  <2> DEFINE n == Len(rows')
  <2>1. /\ item.status = "open" /\ item.revision = call[u].request /\ item.revision \in Nat
        /\ item'.status = "pending" /\ item'.revision = item.revision + 1
        /\ item' \in Item
    BY <1>2, ItemMoves DEF MayRespond, IInv, TypeOK
  <2>2. TypeOK' /\ AnsweredByItsOwn' /\ Fenced' /\ ClaimsAreCounted'
    BY <1>1, <1>2, <2>1, InsertStep
  <2>3. /\ Responses' = Responses \cup {n} /\ rows'[n] = NewRow(u)
        /\ n \in Nat
        /\ \A c \in Responses : rows'[c] = rows[c] /\ c < n /\ c \in Nat
    BY <1>1, <1>2, InsertRow DEF Responses, IsResponse, NewRow
  <2>4. \A c \in Responses :
          ~Live(c) /\ rows[c].status # "completed" /\ rows[c].request < item.revision
    BY <2>1 DEF IInv, PendingItem, ActedOnce, OneResponsePerRevision, ClosedOver
  <2>5. PendingItem'
    BY <2>1, <2>3, <2>4 DEF PendingItem, Live, NewRow
  <2>6. ActedOnce'
    BY <2>1, <2>3, <2>4 DEF ActedOnce, NewRow
  <2>7. OneResponsePerRevision'
    <3>1. \A c \in Responses : rows[c].request \in Nat
      BY CallFacts DEF Responses, Row
    <3> HIDE DEF n
    <3> QED
      BY <2>1, <2>3, <2>4, <3>1 DEF IInv, OneResponsePerRevision, NewRow
  <2> QED
    BY <2>2, <2>5, <2>6, <2>7 DEF IInv
<1>3. CASE Goto(u, "recover") /\ UNCHANGED <<item, rows>>
  BY <1>1, <1>3, Moved, MoveCall DEF Goto
<1>4. CASE Fail(u) /\ UNCHANGED <<item, rows>>
  BY <1>1, <1>4, IdleIsNoAnswer, MoveCall DEF Fail
<1> QED
  BY <1>2, <1>3, <1>4 DEF Respond

-----------------------------------------------------------------------------
\* Steps of the item.

\* A step of the item alone: what is left to show is what relates it to the responses.
LEMMA ItemStep ==
  ASSUME IInv, UNCHANGED <<rows, runtimeVars, call>>, item' \in Item,
         looking' \in BOOLEAN, overtaken' \in BOOLEAN,
         item'.revision >= item.revision, PendingItem', ActedOnce'
  PROVE  IInv'
<1> USE DEF runtimeVars, IInv
<1>1. Ids' = Ids /\ Responses' = Responses
  BY DEF Ids, Responses, IsResponse
<1>2. TypeOK'
  BY <1>1 DEF TypeOK
<1>3. Fenced' /\ ClaimsAreCounted' /\ AnsweredByItsOwn'
  BY <1>1 DEF Fenced, ClaimsAreCounted, AnsweredByItsOwn
<1>4. OneResponsePerRevision'
  <2>1. \A c \in Responses : rows[c].request \in Nat
    BY CallFacts DEF Responses, Row
  <2>2. item.revision \in Nat /\ item'.revision \in Nat
    BY DEF TypeOK, Item
  <2> QED
    BY <1>1, <2>1, <2>2 DEF OneResponsePerRevision
<1> QED
  BY <1>2, <1>3, <1>4

\* The responses are what they were when the rows are.
LEMMA SameResponses ==
  rows' = rows => Responses' = Responses /\ \A c \in Responses : Live(c)' = Live(c)
BY DEF Ids, Responses, IsResponse, Live

LEMMA SameJob ==
  IInv /\ UNCHANGED jobVars => looking' \in BOOLEAN /\ overtaken' \in BOOLEAN
BY DEF IInv, TypeOK, jobVars

LEMMA DismissStep == ASSUME IInv, Dismiss PROVE IInv'
<1>1. /\ item.status = "open" /\ item'.status = "dismissed" /\ item' \in Item
      /\ item'.revision = item.revision /\ item.revision \in Nat
  BY DEF Dismiss, IInv, TypeOK, Item
<1>2. UNCHANGED <<rows, runtimeVars, call, jobVars>>
  BY DEF Dismiss
<1>3. PendingItem' /\ ActedOnce'
  BY <1>1, <1>2, SameResponses DEF IInv, PendingItem, ActedOnce, ClosedOver, jobVars
<1> QED
  BY <1>1, <1>2, <1>3, SameJob, ItemStep

LEMMA ItemTimeRunsOutStep == ASSUME IInv, ItemTimeRunsOut PROVE IInv'
<1>1. /\ item'.status = item.status /\ item' \in Item
      /\ item'.revision = item.revision /\ item.revision \in Nat
  BY DEF ItemTimeRunsOut, IInv, TypeOK, Item
<1>2. UNCHANGED <<rows, runtimeVars, call, jobVars>>
  BY DEF ItemTimeRunsOut
<1>3. PendingItem' /\ ActedOnce'
  BY <1>1, <1>2, SameResponses DEF IInv, PendingItem, ActedOnce, ClosedOver, jobVars
<1> QED
  BY <1>1, <1>2, <1>3, SameJob, ItemStep

LEMMA ReopenItemStep == ASSUME IInv, ReopenItem PROVE IInv'
<1>1. /\ item.status = "pending" /\ item'.status = "open" /\ item' \in Item
      /\ item'.revision = item.revision + 1 /\ item.revision \in Nat
  BY ItemMoves DEF ReopenItem, IInv, TypeOK
<1>2. UNCHANGED <<rows, runtimeVars, call, jobVars>> /\ NoLiveResponse
  BY DEF ReopenItem
<1>3. PendingItem' /\ ActedOnce'
  BY <1>1, <1>2, SameResponses DEF IInv, PendingItem, ActedOnce, ClosedOver, jobVars, NoLiveResponse
<1> QED
  BY <1>1, <1>2, <1>3, SameJob, ItemStep

\* The item closed by attention_expiry: a live response it has not seen is the last one.
LEMMA ExpireItemStep == ASSUME IInv, ExpireItem PROVE IInv'
<1>1. /\ UNCHANGED <<rows, runtimeVars, call>> /\ looking' \in BOOLEAN
      /\ item \in Item /\ item.revision \in Nat /\ overtaken \in BOOLEAN
  BY DEF ExpireItem, IInv, TypeOK, Item
<1>2. CASE UNCHANGED <<item, overtaken>>
  <2>1. PendingItem' /\ ActedOnce'
    BY <1>1, <1>2, SameResponses DEF IInv, PendingItem, ActedOnce, ClosedOver
  <2>2. item' \in Item /\ item'.revision >= item.revision /\ overtaken' \in BOOLEAN
    BY <1>1, <1>2
  <2> QED
    BY <1>1, <2>1, <2>2, ItemStep
<1>3. CASE /\ item.status \in {"open", "pending"}
           /\ item' = [item EXCEPT !.status = "expired", !.revision = @ + 1]
           /\ overtaken' = ~NoLiveResponse
  <2>1. /\ item' \in Item /\ item'.status = "expired"
        /\ item'.revision = item.revision + 1
    BY <1>1, <1>3, ItemMoves
  <2>2. \A c \in Responses : Live(c) => overtaken'
    BY <1>3 DEF NoLiveResponse
  <2>3. \A c \in Responses : rows[c].status # "completed"
    BY <1>3 DEF IInv, ActedOnce, ClosedOver
  <2>4. PendingItem' /\ ActedOnce'
    BY <1>1, <2>1, <2>2, <2>3, SameResponses DEF IInv, PendingItem, ActedOnce, ClosedOver
  <2>5. overtaken' \in BOOLEAN
    BY <1>3
  <2>6. item'.revision >= item.revision
    BY <1>1, <2>1
  <2> QED
    BY <1>1, <2>1, <2>4, <2>5, <2>6, ItemStep
<1> QED
  BY <1>2, <1>3 DEF ExpireItem

LEMMA LookForExpiredStep == ASSUME IInv, LookForExpired PROVE IInv'
<1>1. UNCHANGED <<item, rows, runtimeVars, call, overtaken>> /\ looking' \in BOOLEAN
  BY DEF LookForExpired
<1>2. GoodAnswers'
  BY <1>1, CallFacts DEF GoodAnswers, Ids
<1> QED
  BY <1>1, <1>2, CallStep, CallFacts

-----------------------------------------------------------------------------
\* Steps of one command.

\* Only the command c changes, and neither its key nor its request.
Changes(c, st, o, e, b) ==
  /\ rows' \in Seq(Row) /\ Len(rows') = Len(rows)
  /\ \A d \in Ids : d # c => rows'[d] = rows[d]
  /\ rows'[c].key = rows[c].key /\ rows'[c].request = rows[c].request
  /\ rows'[c].status = st /\ rows'[c].owner = o /\ rows'[c].epoch = e /\ rows'[c].running = b

LEMMA ChangeRow ==
  ASSUME rows \in Seq(Row), NEW c \in Ids, NEW x \in Row,
         x.key = rows[c].key, x.request = rows[c].request, rows' = [rows EXCEPT ![c] = x]
  PROVE  Changes(c, x.status, x.owner, x.epoch, x.running)
<1>1. /\ rows' \in Seq(Row) /\ Len(rows') = Len(rows)
      /\ rows'[c] = x /\ \A d \in Ids : d # c => rows'[d] = rows[d]
  BY ExceptSeq DEF Ids
<1> QED
  BY <1>1 DEF Changes

\* What the steps of a command do to its row.
LEMMA ClaimChanges ==
  ASSUME IInv, NEW r \in Runtimes, NEW c \in Ids, Claim(r, c), rows' # rows
  PROVE  /\ Claimable(c) /\ rows[c].epoch \in Nat /\ rows[c].epoch + 1 \in 0..MaxEpoch
         /\ Changes(c, "claimed", r, rows[c].epoch + 1, TRUE)
<1> DEFINE e == rows[c].epoch + 1
           x == [rows[c] EXCEPT !.status = "claimed", !.owner = r, !.epoch = @ + 1,
                                !.running = TRUE]
<1>1. rows[c] \in Row /\ rows \in Seq(Row)
  BY CallFacts
<1>2. e \in 0..MaxEpoch /\ rows[c].epoch \in Nat
  BY <1>1, BoundAssumption DEF Claim, Row
<1>3. rows' = [rows EXCEPT ![c] = x] /\ Claimable(c)
  BY <1>1 DEF Claim, Ids
<1>4. /\ x \in Row /\ x.key = rows[c].key /\ x.request = rows[c].request
      /\ x.status = "claimed" /\ x.owner = r /\ x.epoch = e /\ x.running = TRUE
  BY <1>1, <1>2 DEF Row, Statuses
<1> HIDE DEF x
<1>5. Changes(c, x.status, x.owner, x.epoch, x.running)
  BY <1>1, <1>3, <1>4, ChangeRow
<1> QED
  BY <1>2, <1>3, <1>4, <1>5

LEMMA LapseChanges ==
  ASSUME IInv, NEW c \in Ids, ClaimLapses(c)
  PROVE  Changes(c, rows[c].status, rows[c].owner, rows[c].epoch, FALSE)
<1> DEFINE x == [rows[c] EXCEPT !.running = FALSE]
<1>1. rows[c] \in Row /\ rows \in Seq(Row)
  BY CallFacts
<1>2. rows' = [rows EXCEPT ![c] = x]
  BY <1>1 DEF ClaimLapses, Ids
<1>3. /\ x \in Row /\ x.key = rows[c].key /\ x.request = rows[c].request
      /\ x.status = rows[c].status /\ x.owner = rows[c].owner
      /\ x.epoch = rows[c].epoch /\ x.running = FALSE
  BY <1>1 DEF Row
<1> HIDE DEF x
<1>4. Changes(c, x.status, x.owner, x.epoch, x.running)
  BY <1>1, <1>2, <1>3, ChangeRow
<1> QED
  BY <1>3, <1>4

LEMMA ExpireChanges ==
  ASSUME IInv, NEW c \in Ids, ExpireCommand(c)
  PROVE  Live(c) /\ Changes(c, "expired", NoRuntime, rows[c].epoch, FALSE)
<1> DEFINE x == [rows[c] EXCEPT !.status = "expired", !.owner = NoRuntime]
<1>1. rows[c] \in Row /\ rows \in Seq(Row)
  BY CallFacts
<1>2. rows' = [rows EXCEPT ![c] = x] /\ Live(c) /\ rows[c].running = FALSE
  BY <1>1 DEF ExpireCommand, Claimable, Ids, Row
<1>3. /\ x \in Row /\ x.key = rows[c].key /\ x.request = rows[c].request
      /\ x.status = "expired" /\ x.owner = NoRuntime
      /\ x.epoch = rows[c].epoch /\ x.running = FALSE
  BY <1>1, <1>2 DEF Row, Statuses
<1> HIDE DEF x
<1>4. Changes(c, x.status, x.owner, x.epoch, x.running)
  BY <1>1, <1>2, <1>3, ChangeRow
<1> QED
  BY <1>2, <1>3, <1>4

LEMMA CompleteChanges ==
  ASSUME IInv, NEW r \in Runtimes, NEW k \in claims[r], NEW verdict \in {"completed", "failed"},
         Complete(r, k, verdict), rows[k.command].status # verdict
  PROVE  /\ k.command \in Ids /\ rows[k.command].status = "claimed"
         /\ Changes(k.command, verdict, r, rows[k.command].epoch, FALSE)
<1> DEFINE c == k.command
           x == [rows[c] EXCEPT !.status = verdict, !.running = FALSE]
<1>1. /\ c \in Ids /\ rows[c].owner = r /\ rows[c].status = "claimed"
      /\ rows' = [rows EXCEPT ![c].status = verdict, ![c].running = FALSE]
  BY DEF Complete, Owns
<1>2. rows[c] \in Row /\ rows \in Seq(Row)
  BY <1>1, CallFacts
<1>3. rows' = [rows EXCEPT ![c] = x]
  BY <1>1, <1>2 DEF Ids
<1>4. /\ x \in Row /\ x.key = rows[c].key /\ x.request = rows[c].request
      /\ x.status = verdict /\ x.owner = r /\ x.epoch = rows[c].epoch /\ x.running = FALSE
  BY <1>1, <1>2 DEF Row, Statuses
<1> HIDE DEF x, c
<1>5. Changes(c, x.status, x.owner, x.epoch, x.running)
  BY <1>1, <1>2, <1>3, <1>4, ChangeRow
<1> QED
  BY <1>1, <1>4, <1>5 DEF c

\* What such a step keeps, whatever it does to the command.
LEMMA CommandStep ==
  ASSUME IInv, NEW c \in Ids, NEW st, NEW o, NEW e, NEW b, Changes(c, st, o, e, b),
         UNCHANGED call, item' \in Item, item'.revision >= item.revision
  PROVE  /\ Ids' = Ids /\ Responses' = Responses
         /\ AnsweredByItsOwn' /\ OneResponsePerRevision'
         /\ call' \in [Calls -> {Idle} \cup CallRecord']
<1>1. Ids' = Ids /\ CallRecord' = CallRecord
  BY DEF Changes, Ids, CallRecord
<1>2. \A d \in Ids : rows'[d].key = rows[d].key /\ rows'[d].request = rows[d].request
  BY DEF Changes
<1>3. Responses' = Responses
  BY <1>1, <1>2 DEF Responses, IsResponse
<1>4. AnsweredByItsOwn'
  BY <1>1, <1>2 DEF IInv, AnsweredByItsOwn
<1>5. OneResponsePerRevision'
  <2>1. \A d \in Responses : rows[d].request \in Nat
    BY CallFacts DEF Responses, Row
  <2>2. item.revision \in Nat /\ item'.revision \in Nat
    BY DEF IInv, TypeOK, Item
  <2>3. Responses \subseteq Ids
    BY DEF Responses
  <2> QED
    BY <1>2, <1>3, <2>1, <2>2, <2>3 DEF IInv, OneResponsePerRevision
<1> QED
  BY <1>1, <1>3, <1>4, <1>5, CallFacts

\* The claim that a runtime gets, or that is lost on its way.
LEMMA ClaimStep == ASSUME IInv, NEW r \in Runtimes, NEW c \in Ids, Claim(r, c) PROVE IInv'
<1> DEFINE k == [command |-> c, epoch |-> rows'[c].epoch]
<1>1. UNCHANGED <<item, told, call, jobVars>>
  BY DEF Claim
<1>2. \/ claims' = [claims EXCEPT ![r] = @ \cup {k}]
      \/ claims' = claims
  BY DEF Claim
<1>3. rows[c] \in Row /\ rows \in Seq(Row)
  BY CallFacts
<1>4. claims \in [Runtimes -> SUBSET [command : Ids, epoch : 0..MaxEpoch]]
  BY DEF IInv, TypeOK
<1>5. \A s \in Runtimes : \A m \in claims'[s] : m \in claims[s] \/ (s = r /\ m = k)
  BY <1>2, <1>4
<1>6. CASE rows[c].status = "claimed" /\ rows[c].owner = r /\ rows[c].running /\ UNCHANGED rows
  <2>1. Ids' = Ids /\ Responses' = Responses
    BY <1>6, SameResponses DEF Ids
  <2>2. TypeOK'
    <3>1. k \in [command : Ids, epoch : 0..MaxEpoch]
      BY <1>3, <1>6 DEF Row
    <3> HIDE DEF k
    <3>2. claims' \in [Runtimes -> SUBSET [command : Ids, epoch : 0..MaxEpoch]]
      BY <1>2, <1>4, <3>1
    <3> QED
      BY <1>1, <1>6, <2>1, <3>2 DEF IInv, TypeOK, jobVars
  <2>3. PendingItem' /\ ActedOnce' /\ OneResponsePerRevision'
    BY <1>1, <1>6, <2>1, SameResponses
    DEF IInv, PendingItem, ActedOnce, OneResponsePerRevision, ClosedOver, jobVars
  <2>4. Fenced' /\ AnsweredByItsOwn'
    BY <1>1, <1>6, <2>1 DEF IInv, Fenced, AnsweredByItsOwn
  <2>5. ClaimsAreCounted'
    <3>1. k.command = c /\ k.epoch = rows[c].epoch /\ rows[c].owner = r /\ r # NoRuntime
      BY <1>6, NoRuntimeAssumption
    <3>2. \A s \in Runtimes : k \in claims[s] => s = r
      BY <3>1 DEF IInv, ClaimsAreCounted
    <3>3. rows[c].epoch <= rows[c].epoch
      BY <1>3 DEF Row
    <3> HIDE DEF k
    <3>4. \A s \in Runtimes : \A m \in claims'[s] :
            /\ m.epoch <= rows[m.command].epoch
            /\ m.epoch = rows[m.command].epoch => rows[m.command].owner \in {s, NoRuntime}
      BY <1>5, <3>1, <3>3 DEF IInv, ClaimsAreCounted
    <3>5. \A s, t \in Runtimes : claims'[s] \cap claims'[t] # {} => s = t
      BY <1>5, <3>2 DEF IInv, ClaimsAreCounted
    <3>6. \A d \in Ids : rows[d].running => rows[d].status = "claimed" /\ rows[d].owner \in Runtimes
      BY DEF IInv, ClaimsAreCounted
    <3> QED
      BY <1>6, <2>1, <3>4, <3>5, <3>6 DEF ClaimsAreCounted
  <2> QED
    BY <2>2, <2>3, <2>4, <2>5 DEF IInv
<1>7. CASE /\ Claimable(c) /\ rows[c].epoch < MaxEpoch
           /\ rows' = [rows EXCEPT ![c].status = "claimed", ![c].owner = r,
                                   ![c].epoch = @ + 1, ![c].running = TRUE]
  <2> DEFINE e == rows[c].epoch + 1
  <2>1. e \in 0..MaxEpoch /\ rows[c].epoch \in Nat
    BY <1>3, <1>7, BoundAssumption DEF Row
  <2>2. Changes(c, "claimed", r, e, TRUE)
    <3>1. rows'[c].epoch = e
      BY <1>3, <1>7 DEF Ids, IInv, TypeOK, Row
    <3>2. rows' # rows
      BY <2>1, <3>1
    <3> QED
      BY <3>2, ClaimChanges
  <2> HIDE DEF e
  <2>3. item' \in Item /\ item'.revision >= item.revision
    BY <1>1 DEF IInv, TypeOK, Item
  <2>4. /\ Ids' = Ids /\ Responses' = Responses
        /\ AnsweredByItsOwn' /\ OneResponsePerRevision'
        /\ call' \in [Calls -> {Idle} \cup CallRecord']
    BY <1>1, <2>2, <2>3, CommandStep
  <2>5. Live(c) /\ rows[c].status # "completed" /\ rows[c].status # "failed"
    BY <1>7 DEF Claimable, Live
  <2>6. k = [command |-> c, epoch |-> e]
    BY <2>2 DEF Changes
  <2>7. TypeOK'
    <3>1. k \in [command : Ids, epoch : 0..MaxEpoch]
      BY <2>1, <2>6
    <3> HIDE DEF k
    <3>2. claims' \in [Runtimes -> SUBSET [command : Ids, epoch : 0..MaxEpoch]]
      BY <1>2, <1>4, <3>1
    <3>3. rows' \in Seq(Row)
      BY <2>2 DEF Changes
    <3> QED
      BY <1>1, <2>3, <2>4, <3>2, <3>3 DEF IInv, TypeOK, CallRecord, jobVars
  <2>8. PendingItem' /\ ActedOnce'
    <3>1. \A d \in Ids : /\ Live(d)' <=> Live(d)
                         /\ rows'[d].status = "completed" <=> rows[d].status = "completed"
                         /\ rows[d].status = "expired" => rows'[d].status = "expired"
      BY <2>2, <2>5 DEF Changes, Live
    <3>2. Responses \subseteq Ids
      BY DEF Responses
    <3> QED
      BY <1>1, <2>4, <3>1, <3>2 DEF IInv, PendingItem, ActedOnce, Live, ClosedOver, jobVars
  <2>9. Fenced'
    <3>1. \A t \in told : t.command \in Ids /\ t.command # c
      BY <2>5 DEF IInv, TypeOK, Fenced
    <3> QED
      BY <1>1, <2>2, <3>1 DEF IInv, Fenced, Changes
  <2>10. ClaimsAreCounted'
    <3>1. \A s \in Runtimes : \A m \in claims[s] :
            /\ m.command \in Ids /\ m.epoch \in Nat
            /\ m.command = c => m.epoch < e
      BY <1>4, <2>1 DEF IInv, ClaimsAreCounted, e
    <3>2. \A s \in Runtimes : k \notin claims[s]
      BY <2>1, <2>6, <3>1
    <3>3. rows'[c].epoch = e /\ rows'[c].owner = r /\ e <= e
      BY <2>1, <2>2 DEF Changes
    <3>4. \A s \in Runtimes : \A m \in claims[s] :
            /\ m.epoch <= rows'[m.command].epoch
            /\ m.epoch = rows'[m.command].epoch => rows'[m.command].owner \in {s, NoRuntime}
      BY <2>1, <2>2, <3>1, <3>3 DEF IInv, ClaimsAreCounted, Changes
    <3>5. k.command = c /\ k.epoch = e
      BY <2>6
    <3> HIDE DEF k
    <3>6. \A s \in Runtimes : \A m \in claims'[s] :
            /\ m.epoch <= rows'[m.command].epoch
            /\ m.epoch = rows'[m.command].epoch => rows'[m.command].owner \in {s, NoRuntime}
      BY <1>5, <3>3, <3>4, <3>5
    <3>7. \A s, t \in Runtimes : claims'[s] \cap claims'[t] # {} => s = t
      BY <1>5, <3>2 DEF IInv, ClaimsAreCounted
    <3>8. \A d \in Ids : rows'[d].running =>
            rows'[d].status = "claimed" /\ rows'[d].owner \in Runtimes
      BY <2>2 DEF IInv, ClaimsAreCounted, Changes
    <3> QED
      BY <2>4, <3>6, <3>7, <3>8 DEF ClaimsAreCounted
  <2> QED
    BY <2>4, <2>7, <2>8, <2>9, <2>10 DEF IInv
<1> QED
  BY <1>6, <1>7 DEF Claim

\* A command that nobody runs any more does not disturb the claims.
LEMMA ClaimEnds ==
  ASSUME IInv, NEW c \in Ids, NEW st, NEW o \in {rows[c].owner, NoRuntime},
         Changes(c, st, o, rows[c].epoch, FALSE), Ids' = Ids, UNCHANGED claims
  PROVE  ClaimsAreCounted'
<1>1. \A s \in Runtimes : \A m \in claims[s] : m.command \in Ids
  BY DEF IInv, TypeOK
<1>2. \A d \in Ids : /\ rows'[d].epoch = rows[d].epoch
                     /\ rows'[d].owner \in {rows[d].owner, NoRuntime}
                     /\ rows'[d].running => rows'[d] = rows[d]
  BY DEF Changes
<1> QED
  BY <1>1, <1>2 DEF IInv, ClaimsAreCounted

\* The types, when one command changes.
LEMMA CommandTypes ==
  ASSUME IInv, NEW c \in Ids, NEW st, NEW o, NEW e, NEW b, Changes(c, st, o, e, b),
         Ids' = Ids, item' \in Item, UNCHANGED <<claims, jobVars>>,
         told' \subseteq [command : Ids, by : Runtimes, epoch : 0..MaxEpoch,
                          verdict : {"completed", "failed"}],
         call' \in [Calls -> {Idle} \cup CallRecord']
  PROVE  TypeOK'
BY DEF IInv, TypeOK, Changes, CallRecord, jobVars

LEMMA ClaimLapsesStep == ASSUME IInv, NEW c \in Ids, ClaimLapses(c) PROVE IInv'
<1>1. rows[c] \in Row /\ rows \in Seq(Row)
  BY CallFacts
<1>2. Changes(c, rows[c].status, rows[c].owner, rows[c].epoch, FALSE)
  BY LapseChanges
<1>3. UNCHANGED <<item, claims, told, call, jobVars>>
  BY DEF ClaimLapses, runtimeVars
<1>4. item' \in Item /\ item'.revision >= item.revision
  BY <1>3 DEF IInv, TypeOK, Item
<1>5. /\ Ids' = Ids /\ Responses' = Responses
      /\ AnsweredByItsOwn' /\ OneResponsePerRevision'
      /\ call' \in [Calls -> {Idle} \cup CallRecord']
  BY <1>2, <1>3, <1>4, CommandStep
<1>6. TypeOK'
  BY <1>2, <1>3, <1>4, <1>5, CommandTypes DEF IInv, TypeOK
<1>7. \A d \in Ids : /\ rows'[d].status = rows[d].status
                     /\ rows'[d].owner = rows[d].owner /\ rows'[d].epoch = rows[d].epoch
  BY <1>2 DEF Changes
<1>8. PendingItem' /\ ActedOnce'
  <2>1. Responses \subseteq Ids
    BY DEF Responses
  <2> QED
    BY <1>3, <1>5, <1>7, <2>1 DEF IInv, PendingItem, ActedOnce, Live, ClosedOver, jobVars
<1>9. Fenced'
  BY <1>3, <1>7 DEF IInv, TypeOK, Fenced
<1>10. ClaimsAreCounted'
  BY <1>2, <1>3, <1>5, ClaimEnds
<1> QED
  BY <1>5, <1>6, <1>8, <1>9, <1>10 DEF IInv

LEMMA ExpireCommandStep == ASSUME IInv, NEW c \in Ids, ExpireCommand(c) PROVE IInv'
<1>2. Live(c) /\ Changes(c, "expired", NoRuntime, rows[c].epoch, FALSE)
  BY ExpireChanges
<1>3. UNCHANGED <<item, claims, told, call, jobVars>>
  BY DEF ExpireCommand, runtimeVars
<1>4. item' \in Item /\ item'.revision >= item.revision
  BY <1>3 DEF IInv, TypeOK, Item
<1>5. /\ Ids' = Ids /\ Responses' = Responses
      /\ AnsweredByItsOwn' /\ OneResponsePerRevision'
      /\ call' \in [Calls -> {Idle} \cup CallRecord']
  BY <1>2, <1>3, <1>4, CommandStep
<1>6. TypeOK'
  BY <1>2, <1>3, <1>4, <1>5, CommandTypes DEF IInv, TypeOK
<1>7. /\ rows'[c].status = "expired" /\ ~Live(c)'
      /\ \A d \in Ids : d # c => rows'[d] = rows[d] /\ (Live(d)' <=> Live(d))
  BY <1>2 DEF Changes, Live
<1>8. PendingItem' /\ ActedOnce'
  <2>1. Responses \subseteq Ids
    BY DEF Responses
  <2>2. rows[c].status # "completed"
    BY <1>2 DEF Live
  <2>3. PendingItem'
    BY <1>3, <1>5, <1>7, <2>1 DEF IInv, PendingItem, ClosedOver, jobVars
  <2>4. ActedOnce'
    BY <1>3, <1>5, <1>7, <2>1, <2>2 DEF IInv, ActedOnce, ClosedOver, jobVars
  <2> QED
    BY <2>3, <2>4
<1>9. Fenced'
  <2>1. \A t \in told : t.command \in Ids /\ t.command # c
    BY <1>2 DEF IInv, TypeOK, Fenced, Live
  <2> QED
    BY <1>3, <1>7, <2>1 DEF IInv, Fenced
<1>10. ClaimsAreCounted'
  BY <1>2, <1>3, <1>5, ClaimEnds
<1> QED
  BY <1>5, <1>6, <1>8, <1>9, <1>10 DEF IInv

\* The verdict of the owner; the same verdict again changes nothing.
LEMMA CompleteStep ==
  ASSUME IInv, NEW r \in Runtimes, NEW k \in claims[r], NEW verdict \in {"completed", "failed"},
         Complete(r, k, verdict)
  PROVE  IInv'
<1> DEFINE c == k.command
           t == [command |-> c, by |-> r, epoch |-> k.epoch, verdict |-> verdict]
<1>0. /\ c \in Ids /\ Owns(r, k) /\ UNCHANGED <<claims, call, jobVars>> /\ told' = told \cup {t}
      /\ k.epoch \in 0..MaxEpoch
  BY DEF Complete, IInv, TypeOK
<1>1. rows[c] \in Row /\ rows \in Seq(Row)
  BY <1>0, CallFacts
<1>2. told' \subseteq [command : Ids, by : Runtimes, epoch : 0..MaxEpoch,
                       verdict : {"completed", "failed"}]
  <2>1. t \in [command : Ids, by : Runtimes, epoch : 0..MaxEpoch,
               verdict : {"completed", "failed"}]
    BY <1>0
  <2> QED
    BY <1>0, <2>1 DEF IInv, TypeOK
<1>3. t.command = c /\ t.by = r /\ t.epoch = rows[c].epoch /\ t.verdict = verdict
      /\ rows[c].owner = r
  BY <1>0 DEF Owns
<1> HIDE DEF c, t
<1>4. CASE rows[c].status = verdict /\ UNCHANGED <<rows, item>>
  <2>1. Ids' = Ids
    BY <1>4 DEF Ids
  <2>2. TypeOK'
    BY <1>0, <1>2, <1>4, <2>1 DEF IInv, TypeOK, jobVars
  <2>3. Fenced'
    BY <1>0, <1>3, <1>4 DEF IInv, Fenced
  <2>4. PendingItem' /\ ActedOnce' /\ OneResponsePerRevision'
    BY <1>0, <1>4, SameResponses
    DEF IInv, PendingItem, ActedOnce, OneResponsePerRevision, ClosedOver, jobVars
  <2>5. AnsweredByItsOwn' /\ ClaimsAreCounted'
    BY <1>0, <1>4, <2>1 DEF IInv, AnsweredByItsOwn, ClaimsAreCounted
  <2> QED
    BY <2>2, <2>3, <2>4, <2>5 DEF IInv
<1>5. CASE /\ rows[c].status = "claimed" /\ rows[c].running
           /\ rows' = [rows EXCEPT ![c].status = verdict, ![c].running = FALSE]
           /\ Settle(c, verdict)
  <2>1. Changes(c, verdict, r, rows[c].epoch, FALSE)
    BY <1>5, CompleteChanges DEF c
  <2>2. /\ item' \in Item /\ item'.revision >= item.revision
        /\ IsResponse(c) /\ item.status = "pending" =>
             item'.status = IF verdict = "completed" THEN "acted" ELSE "open"
        /\ ~(IsResponse(c) /\ item.status = "pending") => item' = item
    <3>1. item \in Item /\ item.revision \in Nat
      BY DEF IInv, TypeOK, Item
    <3>2. CASE IsResponse(c) /\ item.status = "pending"
      <4> DEFINE s == IF verdict = "completed" THEN "acted" ELSE "open"
      <4>1. item' = [item EXCEPT !.status = s, !.revision = @ + 1]
        BY <1>5, <3>2 DEF Settle
      <4>2. s \in {"open", "pending", "acted", "dismissed", "expired"}
        OBVIOUS
      <4> HIDE DEF s
      <4>3. item' \in Item /\ item'.status = s /\ item'.revision = item.revision + 1
        BY <3>1, <4>1, <4>2, ItemMoves
      <4> QED
        BY <3>1, <3>2, <4>3 DEF s
    <3>3. CASE ~(IsResponse(c) /\ item.status = "pending")
      <4>1. item' = item
        BY <1>5, <3>3 DEF Settle
      <4> QED
        BY <3>1, <3>3, <4>1
    <3> QED
      BY <3>2, <3>3
  <2>3. /\ Ids' = Ids /\ Responses' = Responses
        /\ AnsweredByItsOwn' /\ OneResponsePerRevision'
        /\ call' \in [Calls -> {Idle} \cup CallRecord']
    BY <1>0, <2>1, <2>2, CommandStep
  <2>4. TypeOK'
    BY <1>0, <1>2, <2>1, <2>2, <2>3, CommandTypes
  <2>5. /\ rows'[c].status = verdict /\ ~Live(c)'
        /\ \A d \in Ids : d # c => rows'[d] = rows[d] /\ (Live(d)' <=> Live(d))
    BY <2>1 DEF Changes, Live
  <2>6. Responses \subseteq Ids /\ Live(c) /\ rows[c].status # "completed"
        /\ (IsResponse(c) <=> c \in Responses)
    BY <1>0, <1>5 DEF Responses, Live
  <2>7. PendingItem' /\ ActedOnce'
    <3>1. CASE c \in Responses
      <4>1. /\ item.status = "pending" \/ (ClosedOver /\ item.status = "expired")
            /\ \A d \in Responses : d <= c /\ (d # c => ~Live(d))
        BY <3>1, <2>6 DEF IInv, PendingItem, Responses, Ids, ClosedOver
      <4>2. \A d \in Responses : d # c => rows[d].status # "completed"
        BY <3>1, <4>1, <2>6 DEF IInv, ActedOnce, Responses, Ids
      <4>3. \A d \in Responses : d # c => rows'[d] = rows[d] /\ ~Live(d)'
        BY <2>5, <2>6, <4>1
      <4>4. CASE item.status = "pending"
        <5>1. item'.status = IF verdict = "completed" THEN "acted" ELSE "open"
          BY <2>2, <2>6, <3>1, <4>4
        <5>2. PendingItem'
          BY <2>3, <2>5, <4>3, <5>1 DEF PendingItem
        <5>3. ActedOnce'
          BY <2>3, <2>5, <3>1, <4>1, <4>2, <4>3, <5>1 DEF ActedOnce
        <5> QED
          BY <5>2, <5>3
      <4>5. CASE ClosedOver /\ item.status = "expired"
        <5>1. item' = item /\ ClosedOver'
          BY <1>0, <2>2, <4>5 DEF ClosedOver, jobVars
        <5>2. PendingItem'
          BY <2>3, <2>5, <4>3, <4>5, <5>1 DEF PendingItem
        <5>3. ActedOnce'
          BY <2>3, <2>5, <3>1, <4>1, <4>2, <4>3, <4>5, <5>1 DEF ActedOnce
        <5> QED
          BY <5>2, <5>3
      <4> QED
        BY <4>1, <4>4, <4>5
    <3>2. CASE c \notin Responses
      <4>1. item' = item /\ \A d \in Responses : rows'[d] = rows[d] /\ (Live(d)' <=> Live(d))
        BY <2>2, <2>5, <2>6, <3>2
      <4>2. ClosedOver' = ClosedOver
        BY <1>0, <4>1 DEF ClosedOver, jobVars
      <4> QED
        BY <2>3, <4>1, <4>2 DEF IInv, PendingItem, ActedOnce
    <3> QED
      BY <3>1, <3>2
  <2>8. Fenced'
    <3>1. \A m \in told : m.command \in Ids /\ m.command # c
      BY <1>5 DEF IInv, TypeOK, Fenced
    <3> QED
      BY <1>0, <1>3, <2>1, <3>1 DEF IInv, Fenced, Changes
  <2>9. ClaimsAreCounted'
    BY <1>0, <1>3, <2>1, <2>3, ClaimEnds
  <2> QED
    BY <2>3, <2>4, <2>7, <2>8, <2>9 DEF IInv
<1> QED
  BY <1>4, <1>5 DEF Complete, c

-----------------------------------------------------------------------------
\* The parts of the invariant are kept by every step.
LEMMA StepIInv == IInv /\ [Next]_vars => IInv'
<1> SUFFICES ASSUME IInv, [Next]_vars PROVE IInv'
  OBVIOUS
<1>1. CASE \E u \in Calls : Console(u)
  BY <1>1, ReadPriorStep, RespondStep, CreateStep, RecoverStep, ReturnStep DEF Console
<1>2. CASE \E r \in Runtimes : Runtime(r)
  BY <1>2, ClaimStep, CompleteStep DEF Runtime
<1>3. CASE Dismiss
  BY <1>3, DismissStep
<1>4. CASE Passing
  BY <1>4, ItemTimeRunsOutStep, ClaimLapsesStep DEF Passing
<1>5. CASE \E c \in Ids : ExpireCommand(c)
  BY <1>5, ExpireCommandStep
<1>6. CASE ReopenItem \/ LookForExpired \/ ExpireItem
  BY <1>6, ReopenItemStep, LookForExpiredStep, ExpireItemStep
<1>7. CASE UNCHANGED vars
  <2>1. UNCHANGED <<item, rows, runtimeVars, call>>
    BY <1>7 DEF vars
  <2>2. GoodAnswers'
    BY <2>1, CallFacts DEF GoodAnswers, Ids
  <2>3. looking' \in BOOLEAN /\ UNCHANGED overtaken
    BY <1>7, SameJob DEF vars, jobVars
  <2> QED
    BY <2>1, <2>2, <2>3, CallStep, CallFacts
<1> QED
  BY <1>1, <1>2, <1>3, <1>4, <1>5, <1>6, <1>7 DEF Next

\* The inductive invariant: what the rows of one item and its commands, the claims and
\* the calls under way say of each other.
THEOREM Invariance == Spec => []IInv
BY InitIInv, StepIInv, PTL DEF Spec

\* Types.
THEOREM TypeCorrect == Spec => []TypeOK
<1>1. IInv => TypeOK
  BY DEF IInv
<1> QED
  BY <1>1, Invariance, PTL

\* An item waits for one command, the last response (respondAttentionItem against
\* completeAgentCommand and the retention jobs).
THEOREM OneChoicePending == Spec => []PendingItem
<1>1. IInv => PendingItem
  BY DEF IInv
<1> QED
  BY <1>1, Invariance, PTL

\* The item is acted upon at most once, by the last choice.
THEOREM ChoiceActedOnce == Spec => []ActedOnce
<1>1. IInv => ActedOnce
  BY DEF IInv
<1> QED
  BY <1>1, Invariance, PTL

\* A revision of the item is answered once.
THEOREM RevisionAnsweredOnce == Spec => []OneResponsePerRevision
<1>1. IInv => OneResponsePerRevision
  BY DEF IInv
<1> QED
  BY <1>1, Invariance, PTL

\* A completion that was confirmed is final: late owners are fenced.
THEOREM CompletionsAreFinal == Spec => []Fenced
<1>1. IInv => Fenced
  BY DEF IInv
<1> QED
  BY <1>1, Invariance, PTL

\* An idempotency key makes one command, and its request gets that command for answer.
THEOREM KeysMakeOneCommand == Spec => []AnsweredByItsOwn
<1>1. IInv => AnsweredByItsOwn
  BY DEF IInv
<1> QED
  BY <1>1, Invariance, PTL

\* Two runtimes never hold the same claim.
THEOREM ClaimsAreExclusive == Spec => []ClaimsAreCounted
<1>1. IInv => ClaimsAreCounted
  BY DEF IInv
<1> QED
  BY <1>1, Invariance, PTL

\* Whatever is answered to the runtimes, a command has one outcome.
THEOREM OneOutcome == Spec => []OneOutcomeTold
<1>1. IInv => OneOutcomeTold
  BY DEF IInv, TypeOK, Fenced, OneOutcomeTold
<1> QED
  BY <1>1, Invariance, PTL

-----------------------------------------------------------------------------
\* Commands implements Choice.

LEMMA IdsAreNumbers == rows \in Seq(Row) => Ids \subseteq Int
BY LenProperties DEF Ids

\* There is one last response at most, and the outcome is its.
LEMMA OutcomeOf ==
  ASSUME rows \in Seq(Row), NEW c \in LastResponse
  PROVE  Outcome = IF Live(c) THEN "live" ELSE rows[c].status
<1>1. \A d \in LastResponse : d = c
  BY IdsAreNumbers DEF LastResponse, Responses
<1> QED
  BY <1>1 DEF Outcome

\* The same of the next state.
LEMMA OutcomeOfNext ==
  ASSUME rows' \in Seq(Row), NEW c \in LastResponse'
  PROVE  Outcome' = IF Live(c)' THEN "live" ELSE rows'[c].status
<1>1. Ids' \subseteq Int
  BY LenProperties DEF Ids
<1>2. \A d \in LastResponse' : d = c
  BY <1>1 DEF LastResponse, Responses
<1> QED
  BY <1>2 DEF Outcome

\* The outcome depends on the responses alone, and not on who has claimed them.
LEMMA SameOutcome ==
  ASSUME rows \in Seq(Row), rows' \in Seq(Row), Responses' = Responses,
         \A c \in Responses : Live(c)' = Live(c) /\ (~Live(c) => rows'[c].status = rows[c].status)
  PROVE  Outcome' = Outcome
<1>1. LastResponse' = LastResponse /\ LastResponse \subseteq Responses
  BY DEF LastResponse
<1>2. CASE LastResponse = {}
  BY <1>1, <1>2 DEF Outcome
<1>3. ASSUME NEW c \in LastResponse PROVE Outcome' = Outcome
  BY <1>1, <1>3, OutcomeOf, OutcomeOfNext
<1> QED
  BY <1>2, <1>3

\* A response that can still be carried out is the choice, and the item waits for it or is
\* closed.
LEMMA LiveIsChoice ==
  ASSUME IInv, NEW c \in Responses, Live(c)
  PROVE  Outcome = "live" /\ item.status \in {"pending", "expired"} /\ c \in LastResponse
<1>1. c \in LastResponse /\ item.status \in {"pending", "expired"}
  BY DEF IInv, PendingItem, LastResponse, ClosedOver
<1> QED
  BY <1>1, OutcomeOf DEF IInv, TypeOK

LEMMA RespondImplements ==
  ASSUME IInv, NEW u \in Calls, Respond(u) PROVE [Abstract!ChoiceNext]_<<item, Outcome, looking>>
<1>1. CASE UNCHANGED <<item, rows>>
  BY <1>1, SameResponses, SameOutcome DEF IInv, TypeOK, Respond, jobVars
<1>2. CASE ~UNCHANGED <<item, rows>>
  <2>1. /\ call[u].step = "write" /\ call[u].request # 0 /\ MayRespond(u) /\ Insert(u)
        /\ item' = [item EXCEPT !.status = "pending", !.revision = @ + 1]
    BY <1>2 DEF Respond
  <2> DEFINE n == Len(rows')
  <2>2. /\ n \in Responses' /\ \A d \in Responses' : d <= n
        /\ rows'[n].status = "pending" /\ rows' \in Seq(Row)
    <3>1. /\ n \in Nat /\ Ids' = 1..n /\ n \in Ids'
          /\ rows'[n] = NewRow(u) /\ rows' \in Seq(Row)
      BY <2>1, InsertRow DEF Ids
    <3>2. rows'[n].status = "pending" /\ rows'[n].request # 0
      BY <2>1, <3>1 DEF NewRow
    <3> HIDE DEF n
    <3> QED
      BY <3>1, <3>2 DEF Responses, IsResponse
  <2> HIDE DEF n
  <2>3. Outcome' = "live"
    BY <2>2, OutcomeOfNext DEF LastResponse, Live
  <2>4. Abstract!Choose
    BY <2>1, <2>3 DEF MayRespond, Abstract!Choose, Abstract!Turn, Respond, jobVars
  <2> QED
    BY <2>4 DEF Abstract!ChoiceNext
<1> QED
  BY <1>1, <1>2

\* A command without an item is no choice.
LEMMA CreateImplements ==
  ASSUME IInv, NEW u \in Calls, Create(u) PROVE UNCHANGED <<item, Outcome, looking>>
<1>1. CASE UNCHANGED rows
  BY <1>1, SameResponses, SameOutcome DEF IInv, TypeOK, Create, jobVars
<1>2. CASE ~UNCHANGED rows
  <2>1. /\ call[u].step = "write" /\ call[u].request = 0 /\ Insert(u)
        /\ UNCHANGED <<item, looking>>
    BY <1>2 DEF Create, jobVars
  <2> DEFINE n == Len(rows')
  <2>2. /\ Ids' = Ids \cup {n} /\ rows'[n] = NewRow(u)
        /\ \A c \in Ids : rows'[c] = rows[c]
        /\ rows' \in Seq(Row)
    BY <2>1, InsertRow
  <2>3. rows'[n].request = 0
    BY <2>1, <2>2 DEF NewRow
  <2> HIDE DEF n
  <2>4. Responses' = Responses /\ \A c \in Responses : rows'[c] = rows[c]
    <3>1. \A c : c \in Responses' <=> c \in Responses
      BY <2>2, <2>3 DEF Responses, IsResponse
    <3> QED
      BY <2>2, <3>1 DEF Responses
  <2> QED
    BY <2>1, <2>2, <2>4, SameOutcome DEF IInv, TypeOK, Live
<1> QED
  BY <1>1, <1>2

\* What a change of one command means for the choice.
LEMMA ChangedOutcome ==
  ASSUME IInv, NEW c \in Ids, NEW st, NEW o, NEW e, NEW b, Changes(c, st, o, e, b)
  PROVE  /\ c \notin Responses => Outcome' = Outcome
         /\ st \in {"pending", "claimed"} /\ Live(c) => Outcome' = Outcome
         /\ st = rows[c].status => Outcome' = Outcome
         /\ c \in Responses /\ Live(c) /\ st \notin {"pending", "claimed"} => Outcome' = st
<1>1. /\ rows \in Seq(Row) /\ rows' \in Seq(Row) /\ Responses' = Responses
      /\ Responses \subseteq Ids
      /\ \A d \in Ids : d # c => rows'[d] = rows[d]
      /\ rows'[c].status = st
  BY DEF Changes, IInv, TypeOK, Responses, IsResponse, Ids
<1>2. ASSUME \/ c \notin Responses
             \/ st \in {"pending", "claimed"} /\ Live(c)
             \/ st = rows[c].status
      PROVE  Outcome' = Outcome
  <2>1. \A d \in Responses :
          Live(d)' = Live(d) /\ (~Live(d) => rows'[d].status = rows[d].status)
    BY <1>1, <1>2 DEF Live
  <2> QED
    BY <1>1, <2>1, SameOutcome
<1>3. ASSUME c \in Responses, Live(c), st \notin {"pending", "claimed"}
      PROVE  Outcome' = st
  <2>1. c \in LastResponse'
    BY <1>1, <1>3, LiveIsChoice DEF LastResponse
  <2> QED
    BY <1>1, <1>3, <2>1, OutcomeOfNext DEF Live
<1> QED
  BY <1>2, <1>3

LEMMA ClaimImplements ==
  ASSUME IInv, NEW r \in Runtimes, NEW c \in Ids, Claim(r, c) PROVE UNCHANGED <<item, Outcome, looking>>
<1>1. CASE rows' = rows
  BY <1>1, SameResponses, SameOutcome DEF IInv, TypeOK, Claim, jobVars
<1>2. CASE rows' # rows
  <2>1. Live(c) /\ UNCHANGED <<item, looking>>
    BY <1>2 DEF Claim, Claimable, jobVars
  <2>2. Changes(c, "claimed", r, rows[c].epoch + 1, TRUE)
    BY <1>2, ClaimChanges
  <2>3. Outcome' = Outcome
    BY <2>1, <2>2, ChangedOutcome
  <2> QED
    BY <2>1, <2>3
<1> QED
  BY <1>1, <1>2

\* The verdict of the owner is the outcome of the choice.
LEMMA CompleteImplements ==
  ASSUME IInv, NEW r \in Runtimes, NEW k \in claims[r], NEW verdict \in {"completed", "failed"},
         Complete(r, k, verdict)
  PROVE  [Abstract!ChoiceNext]_<<item, Outcome, looking>>
<1> DEFINE c == k.command
<1>0. UNCHANGED looking
  BY DEF Complete, jobVars
<1>1. CASE rows[c].status = verdict
  <2>1. UNCHANGED <<rows, item>>
    BY <1>1 DEF Complete
  <2> QED
    BY <1>0, <2>1, SameResponses, SameOutcome DEF IInv, TypeOK
<1>2. CASE rows[c].status # verdict
  <2>1. /\ c \in Ids /\ rows[c].status = "claimed" /\ Live(c)
        /\ Changes(c, verdict, r, rows[c].epoch, FALSE)
    BY <1>2, CompleteChanges DEF Live
  <2>2. Settle(c, verdict)
    BY <1>2 DEF Complete
  <2>3. CASE c \notin Responses
    BY <1>0, <2>1, <2>2, <2>3, ChangedOutcome DEF Settle, Responses
  <2>4. CASE c \in Responses
    <3>1. Outcome' = verdict /\ Outcome = "live" /\ item.status \in {"pending", "expired"}
      BY <2>1, <2>4, ChangedOutcome, LiveIsChoice
    <3>2. CASE item.status = "pending"
      <4>1. item' = [item EXCEPT !.status = IF verdict = "completed" THEN "acted" ELSE "open",
                                 !.revision = @ + 1]
        BY <2>2, <2>4, <3>2 DEF Settle, Responses
      <4>2. Abstract!Act \/ Abstract!FallThrough
        BY <1>0, <3>1, <3>2, <4>1 DEF Abstract!Act, Abstract!FallThrough, Abstract!Turn
      <4> QED
        BY <4>2 DEF Abstract!ChoiceNext
    <3>3. CASE item.status = "expired"
      <4>1. item' = item
        BY <2>2, <3>3 DEF Settle
      <4>2. Abstract!EndUnseen
        BY <1>0, <3>1, <3>3, <4>1 DEF Abstract!EndUnseen
      <4> QED
        BY <4>2 DEF Abstract!ChoiceNext
    <3> QED
      BY <3>1, <3>2, <3>3
  <2> QED
    BY <2>3, <2>4
<1> QED
  BY <1>1, <1>2

\* The retention of commands: only that of a response is seen.
LEMMA ExpireCommandImplements ==
  ASSUME IInv, NEW c \in Ids, ExpireCommand(c) PROVE [Abstract!ChoiceNext]_<<item, Outcome, looking>>
<1>1. /\ Live(c) /\ Changes(c, "expired", NoRuntime, rows[c].epoch, FALSE)
      /\ UNCHANGED <<item, looking>>
  BY ExpireChanges DEF ExpireCommand, jobVars
<1>2. CASE c \notin Responses
  BY <1>1, <1>2, ChangedOutcome
<1>3. CASE c \in Responses
  <2>1. Outcome' = "expired"
    <3>1. "expired" \notin {"pending", "claimed"}
      OBVIOUS
    <3> QED
      BY <1>1, <1>3, <3>1, ChangedOutcome, Zenon
  <2>2. Outcome = "live" /\ item.status \in {"pending", "expired"}
    BY <1>1, <1>3, LiveIsChoice
  <2>3. Abstract!Lapse \/ Abstract!EndUnseen
    BY <1>1, <2>1, <2>2 DEF Abstract!Lapse, Abstract!EndUnseen
  <2> QED
    BY <2>3 DEF Abstract!ChoiceNext
<1> QED
  BY <1>2, <1>3

\* Without a live response no choice is under way.
LEMMA NoChoiceUnderWay ==
  ASSUME IInv, NoLiveResponse PROVE Outcome # "live"
<1>1. CASE LastResponse = {}
  BY <1>1 DEF Outcome
<1>2. ASSUME NEW c \in LastResponse PROVE Outcome # "live"
  <2>1. ~Live(c) /\ rows[c] \in Row
    BY CallFacts DEF NoLiveResponse, LastResponse, Responses
  <2>2. Outcome = rows[c].status
    BY <2>1, OutcomeOf DEF IInv, TypeOK
  <2> QED
    BY <2>1, <2>2 DEF Row, Statuses
<1> QED
  BY <1>1, <1>2

\* The steps of the item, and of the job that closes it.
LEMMA ItemImplements ==
  ASSUME IInv, Dismiss \/ ItemTimeRunsOut \/ ReopenItem \/ LookForExpired \/ ExpireItem
  PROVE  [Abstract!ChoiceNext]_<<item, Outcome, looking>>
<1>1. Outcome' = Outcome
  <2>1. rows' = rows
    BY DEF Dismiss, ItemTimeRunsOut, ReopenItem, LookForExpired, ExpireItem
  <2> QED
    BY <2>1, SameResponses, SameOutcome DEF IInv, TypeOK
<1>2. CASE Dismiss
  BY <1>1, <1>2 DEF Dismiss, jobVars, Abstract!Dismiss, Abstract!ChoiceNext
<1>3. CASE ItemTimeRunsOut
  BY <1>1, <1>3 DEF ItemTimeRunsOut, jobVars, Abstract!TimeRunsOut, Abstract!ChoiceNext
<1>4. CASE ReopenItem
  <2>1. PICK c \in LastResponse : rows[c].status \in {"pending", "claimed", "expired"}
    BY <1>4 DEF ReopenItem, IInv, PendingItem, LastResponse
  <2>2. rows[c].status = "expired" /\ ~Live(c)
    BY <1>4, <2>1 DEF ReopenItem, NoLiveResponse, Live, LastResponse
  <2>3. Outcome = "expired"
    BY <2>2, OutcomeOf DEF IInv, TypeOK
  <2> QED
    BY <1>1, <1>4, <2>3
    DEF ReopenItem, jobVars, Abstract!Reopen, Abstract!Turn, Abstract!ChoiceNext
<1>5. CASE LookForExpired
  BY <1>1, <1>5, NoChoiceUnderWay
  DEF LookForExpired, Abstract!BeginClosing, Abstract!ChoiceNext
<1>6. CASE ExpireItem
  BY <1>1, <1>6
  DEF ExpireItem, Abstract!Expire, Abstract!LeaveOpen, Abstract!Turn, Abstract!ChoiceNext
<1> QED
  BY <1>2, <1>3, <1>4, <1>5, <1>6

\* The item, its commands and everybody who works on them keep what Choice promises:
\* one choice at a time, carried out once at most, none after the item is settled.
THEOREM Refinement == Spec => ChoiceSpec
<1>1. Init => Abstract!ChoiceInit
  <2> SUFFICES ASSUME Init PROVE Abstract!ChoiceInit
    OBVIOUS
  <2>1. LastResponse = {}
    BY DEF Init, LastResponse, Responses, Ids
  <2> QED
    BY <2>1 DEF Init, Abstract!ChoiceInit, Outcome
<1>2. IInv /\ [Next]_vars => [Abstract!ChoiceNext]_<<item, Outcome, looking>>
  <2> SUFFICES ASSUME IInv, [Next]_vars PROVE [Abstract!ChoiceNext]_<<item, Outcome, looking>>
    OBVIOUS
  <2>1. CASE UNCHANGED <<item, rows, looking>>
    BY <2>1, SameResponses, SameOutcome DEF IInv, TypeOK
  <2>2. CASE ~UNCHANGED <<item, rows, looking>>
    <3>1. \/ \E u \in Calls : Respond(u) \/ Create(u)
          \/ \E r \in Runtimes : Runtime(r)
          \/ Dismiss \/ ItemTimeRunsOut \/ ReopenItem \/ LookForExpired \/ ExpireItem
          \/ \E c \in Ids : ClaimLapses(c) \/ ExpireCommand(c)
      BY <2>2 DEF vars, jobVars, Next, Console, Passing, ReadPrior, Recover, Return
    <3>2. ASSUME NEW c \in Ids, ClaimLapses(c) PROVE UNCHANGED <<item, Outcome, looking>>
      BY <3>2, LapseChanges, ChangedOutcome DEF ClaimLapses, jobVars
    <3> QED
      BY <3>1, <3>2, RespondImplements, CreateImplements, ClaimImplements, CompleteImplements,
         ItemImplements, ExpireCommandImplements DEF Runtime
  <2> QED
    BY <2>1, <2>2
<1> QED
  BY <1>1, <1>2, Invariance, PTL DEF Spec, ChoiceSpec, Abstract!ChoiceSpec, Abstract!choiceVars
=============================================================================
