-------------------------- MODULE Relations_proofs --------------------------
(***************************************************************************)
(* Theorems about Relations, for any number of agents, concurrent calls    *)
(* and requests: its invariants, and that the transactions implement       *)
(* FriendGraph.                                                            *)
(***************************************************************************)
EXTENDS Relations, TLAPS

USE DEF Judged

LEMMA FlipFacts ==
  ASSUME NEW p \in Pairs
  PROVE  /\ Flip(p) \in Pairs
         /\ Flip(Flip(p)) = p
         /\ Both(p) \subseteq Pairs
         /\ Both(Flip(p)) = Both(p)
BY DEF Pairs, Flip, Both

LEMMA LockFacts ==
  ASSUME NEW p \in Pairs
  PROVE  /\ PairLock(p) \in Locks
         /\ RequestLock(p) \in Locks
         /\ FriendLock(p) \in Locks
         /\ BlockLock(p) \in Locks
         /\ PairLock(Flip(p)) = PairLock(p)
BY DEF Locks, PairLock, RequestLock, FriendLock, BlockLock, Flip

LEMMA NoRowFacts == NoRow.id = 0 /\ NoRow.status = "none" /\ NoRow \notin Rows
BY MaxRequestsAssumption DEF NoRow, Rows

LEMMA SetStatusType ==
  ASSUME NEW P, NEW s \in Statuses,
         req \in [Pairs -> Rows \cup {NoRow}],
         \A q \in P : q \in Pairs => req[q] # NoRow
  PROVE  SetStatus(P, s) \in [Pairs -> Rows \cup {NoRow}]
<1>1. ASSUME NEW q \in Pairs, q \in P
      PROVE  [req[q] EXCEPT !.status = s] \in Rows
  <2>1. req[q] \in Rows
    BY <1>1
  <2> QED
    BY <2>1 DEF Rows
<1> QED
  BY <1>1 DEF SetStatus

LEMMA InitIInv == Init => IInv
<1> SUFFICES ASSUME Init PROVE IInv
  OBVIOUS
<1>1. TypeOK
  <2>1. nextId \in 1..(MaxRequests + 1)
    BY MaxRequestsAssumption DEF Init, GraphInit
  <2> QED
    BY <2>1 DEF Init, GraphInit, TypeOK, PCs
<1>2. \A p \in Pairs : holder[RequestLock(p)] = Nobody /\ req[p] = NoRow
  BY LockFacts DEF Init, GraphInit
<1>3. \A w \in Workers : pc[w] = "idle"
  BY DEF Init
<1>4. FriendSymmetric /\ NoMutualPending
  BY <1>2, NoRowFacts DEF Init, GraphInit, FriendSymmetric, NoMutualPending, Pending
<1>5. StatementOfOp /\ PairLockHeld /\ LockedRowsExist /\ NotFoundStaysNotFound /\ JudgedPending
  BY <1>2, <1>3 DEF StatementOfOp, PairLockHeld, InPair, LockedRowsExist,
                    NotFoundStaysNotFound, JudgedPending
<1> QED
  BY <1>1, <1>4, <1>5 DEF IInv

-----------------------------------------------------------------------------
\* What the steps do to the locks.

LEMMA TakeLocks ==
  ASSUME TypeOK, NEW w \in Workers, NEW l, Take(w, l), NEW k \in Locks
  PROVE  /\ holder'[k] = IF k \in Wants(w) THEN w ELSE holder[k]
         /\ holder[k] = w => holder'[k] = w
         /\ \A v \in Workers \ {w} : holder'[k] = v <=> holder[k] = v
<1>1. k \in Wants(w) => holder[k] \in {w, Nobody}
  BY DEF Take, CanStep, BlockedBy
<1>2. holder'[k] = IF k \in Wants(w) THEN w ELSE holder[k]
  BY DEF Take
<1> QED
  BY <1>1, <1>2, NobodyAssumption

LEMMA FinishLocks ==
  ASSUME NEW w \in Workers, Finish(w), NEW k \in Locks
  PROVE  /\ holder'[k] = IF holder[k] = w THEN Nobody ELSE holder[k]
         /\ \A v \in Workers \ {w} : holder'[k] = v <=> holder[k] = v
         /\ holder'[k] # Nobody => holder[k] # Nobody
BY NobodyAssumption DEF Finish, Release

\* Locks of different kinds or pairs are different locks.
LEMMA LocksDiffer ==
  ASSUME NEW p \in Pairs, NEW q \in Pairs
  PROVE  /\ RequestLock(p) = RequestLock(q) => p = q
         /\ RequestLock(p) # PairLock(q)
         /\ RequestLock(p) # FriendLock(q)
         /\ RequestLock(p) # BlockLock(q)
BY DEF RequestLock, PairLock, FriendLock, BlockLock

\* A statement that locks a request row found the row.
LEMMA WantsExistingRows ==
  ASSUME IInv, NEW w \in Workers, pc[w] # "idle",
         NEW p \in Pairs, RequestLock(p) \in Wants(w)
  PROVE  req[p] # NoRow
<1> DEFINE c == call[w]
<1>1. c.pair \in Pairs /\ Flip(c.pair) \in Pairs
  BY FlipFacts DEF IInv, StatementOfOp, Calls
<1>2. \A q \in MarkedRows(c) : q \in Pairs /\ req[q].status # "none"
  BY <1>1, FlipFacts DEF MarkedRows, Pending
<1>3. \/ RequestLock(p) = RequestLock(c.pair) /\ req[c.pair] # NoRow
      \/ RequestLock(p) = RequestLock(Flip(c.pair)) /\ req[Flip(c.pair)] # NoRow
      \/ \E q \in MarkedRows(c) : RequestLock(p) = RequestLock(q)
  BY <1>1, LocksDiffer DEF Wants
<1> QED
  BY <1>1, <1>2, <1>3, LocksDiffer, NoRowFacts

-----------------------------------------------------------------------------
\* Steps that leave the tables alone.

\* A call that ends without a write takes nothing from the other calls.
LEMMA GiveUpStep ==
  ASSUME IInv, NEW w \in Workers, GiveUp(w)
  PROVE  IInv'
<1> USE DEF GiveUp, dbVars
<1>1. TypeOK'
  BY DEF IInv, TypeOK, Finish, Release, PCs
<1>2. \A v \in Workers : v # w => pc'[v] = pc[v] /\ call'[v] = call[v]
  BY DEF IInv, TypeOK, Finish
<1>3. pc'[w] = "idle"
  BY DEF IInv, TypeOK, Finish
<1>4. \A v \in Workers : pc[v] # "idle" =>
        call[v] \in Calls /\ call[v].pair \in Pairs /\ Flip(call[v].pair) \in Pairs
  BY FlipFacts DEF IInv, StatementOfOp, Calls
<1>5. \A v \in Workers, k \in Locks : v # w => (Holds(v, k)' <=> Holds(v, k))
  BY FinishLocks DEF Holds
<1>6. StatementOfOp'
  BY <1>2, <1>3 DEF IInv, StatementOfOp
<1>7. PairLockHeld'
  BY <1>2, <1>3, <1>4, <1>5, LockFacts DEF IInv, PairLockHeld, InPair
<1>8. LockedRowsExist'
  BY FinishLocks, LockFacts DEF IInv, LockedRowsExist
<1>9. NotFoundStaysNotFound'
  BY <1>2, <1>3, <1>4, <1>5, LockFacts DEF IInv, NotFoundStaysNotFound
<1>10. JudgedPending'
  BY <1>2, <1>3, <1>4, <1>5, LockFacts DEF IInv, JudgedPending, Pending
<1>11. FriendSymmetric' /\ NoMutualPending'
  BY DEF IInv, FriendSymmetric, NoMutualPending, Pending
<1> QED
  BY <1>1, <1>6, <1>7, <1>8, <1>9, <1>10, <1>11 DEF IInv

\* A call that goes on to its statement l, with the locks it had and maybe more.
LEMMA MoveStep ==
  ASSUME IInv, NEW w \in Workers, pc[w] # "idle", NEW l \in PCs \ {"idle"},
         pc' = [pc EXCEPT ![w] = l],
         UNCHANGED <<dbVars, call>>,
         holder' \in [Locks -> Workers \cup {Nobody}],
         \A v \in Workers \ {w}, k \in Locks : holder'[k] = v <=> holder[k] = v,
         LockedRowsExist',
         l \in {"checkBlocked", "checkFriend"} => call[w].op = "send",
         l \in {"out", "in"} => call[w].op \in PairFirstOps,
         l = "isFriend" => call[w].op \in {"welcome", "accept"},
         l = "keep" => call[w].op = "accept",
         l \in {"row", "judge"} => call[w].op \in HandleOps,
         l # "row",
         l \in {"delete", "mark"} => call[w].op \in {"unfriend", "unblock"},
         l = "pair" => call[w].op \in PairFirstOps \cup HandleOps,
         InPair(w)' => holder'[PairLock(call[w].pair)] = w,
         l = "commit" /\ call[w].op \in PairFirstOps =>
           \/ holder'[RequestLock(Flip(call[w].pair))] = w
           \/ req[Flip(call[w].pair)] = NoRow,
         l \in {"pair", "judge"} \cup Judged /\ call[w].op \in HandleOps =>
           holder'[RequestLock(call[w].pair)] = w,
         l \in Judged /\ call[w].op \in HandleOps => Pending(call[w].pair)
  PROVE  IInv'
<1> USE DEF dbVars
<1>1. TypeOK'
  BY DEF IInv, TypeOK
<1>2. \A v \in Workers : v # w => pc'[v] = pc[v]
  BY DEF IInv, TypeOK
<1>3. pc'[w] = l /\ l # "idle"
  BY DEF IInv, TypeOK
<1>4. \A v \in Workers : pc[v] # "idle" =>
        call[v] \in Calls /\ call[v].pair \in Pairs /\ Flip(call[v].pair) \in Pairs
  BY FlipFacts DEF IInv, StatementOfOp, Calls
<1>5. \A v \in Workers, k \in Locks : v # w => (Holds(v, k)' <=> Holds(v, k))
  BY DEF Holds
<1>6. StatementOfOp'
  BY <1>2, <1>3, <1>4 DEF IInv, StatementOfOp
<1>7. PairLockHeld'
  BY <1>2, <1>3, <1>4, <1>5, LockFacts DEF IInv, PairLockHeld, InPair, Holds
<1>9. NotFoundStaysNotFound'
  BY <1>2, <1>3, <1>4, <1>5, LockFacts DEF IInv, NotFoundStaysNotFound, Holds
<1>10. JudgedPending'
  BY <1>2, <1>3, <1>4, <1>5, LockFacts DEF IInv, JudgedPending, Pending, Holds
<1>11. FriendSymmetric' /\ NoMutualPending'
  BY DEF IInv, FriendSymmetric, NoMutualPending, Pending
<1> QED
  BY <1>1, <1>6, <1>7, <1>9, <1>10, <1>11 DEF IInv

\* Taking the locks a statement wants is such a move.
LEMMA TakeIsMove ==
  ASSUME IInv, NEW w \in Workers, pc[w] # "idle", NEW l, Take(w, l)
  PROVE  /\ holder' \in [Locks -> Workers \cup {Nobody}]
         /\ \A v \in Workers \ {w}, k \in Locks : holder'[k] = v <=> holder[k] = v
         /\ LockedRowsExist'
         /\ \A k \in Locks : holder'[k] = w <=> holder[k] = w \/ k \in Wants(w)
<1> USE DEF dbVars
<1>1. TypeOK
  BY DEF IInv
<1>2. holder' \in [Locks -> Workers \cup {Nobody}]
  BY <1>1 DEF Take, TypeOK
<1>3. \A v \in Workers \ {w}, k \in Locks : holder'[k] = v <=> holder[k] = v
  BY <1>1, TakeLocks
<1>4. \A k \in Locks : holder'[k] = w <=> holder[k] = w \/ k \in Wants(w)
  BY DEF Take
<1>5. ASSUME NEW p \in Pairs, holder'[RequestLock(p)] # Nobody
      PROVE  req'[p] # NoRow
  <2>1. req' = req
    BY DEF Take
  <2>2. CASE RequestLock(p) \in Wants(w)
    BY <2>1, <2>2, WantsExistingRows
  <2>3. CASE RequestLock(p) \notin Wants(w)
    <3>1. holder'[RequestLock(p)] = holder[RequestLock(p)]
      BY <2>3, LockFacts DEF Take
    <3> QED
      BY <1>5, <2>1, <3>1 DEF IInv, LockedRowsExist
  <2> QED
    BY <2>2, <2>3
<1>6. LockedRowsExist'
  BY <1>5 DEF LockedRowsExist
<1> QED
  BY <1>2, <1>3, <1>4, <1>6

LEMMA CheckStep ==
  ASSUME IInv, NEW w \in Workers, CheckBlocking(w) \/ CheckBlocked(w) \/ CheckFriend(w)
  PROVE  IInv'
<1>1. CASE GiveUp(w)
  BY <1>1, GiveUpStep
<1>2. CASE ~GiveUp(w)
  <2>1. PICK l \in {"checkBlocked", "checkFriend", "pair"} : Goto(w, l)
    BY <1>2 DEF CheckBlocking, CheckBlocked, CheckFriend
  <2>2. /\ pc[w] # "idle" /\ l \in PCs \ {"idle"}
        /\ l \in {"checkBlocked", "checkFriend"} => call[w].op = "send"
        /\ call[w].op \in PairFirstOps
    BY <1>2, <2>1 DEF CheckBlocking, CheckBlocked, CheckFriend, Goto, PCs, PairFirstOps,
                      IInv, StatementOfOp, TypeOK
  <2>3. PairFirstOps \cap HandleOps = {}
    BY DEF PairFirstOps, HandleOps
  <2>4. /\ holder' \in [Locks -> Workers \cup {Nobody}]
        /\ \A v \in Workers \ {w}, k \in Locks : holder'[k] = v <=> holder[k] = v
        /\ LockedRowsExist'
    BY <2>1 DEF Goto, IInv, TypeOK, LockedRowsExist, dbVars
  <2>5. ~InPair(w)'
    BY <2>1 DEF Goto, InPair, IInv, TypeOK
  <2> QED
    BY <2>1, <2>2, <2>3, <2>4, <2>5, MoveStep DEF Goto
<1> QED
  BY <1>1, <1>2

LEMMA LockStep ==
  ASSUME IInv, NEW w \in Workers,
         \/ LockRelationPair(w) \/ LockOutgoing(w) \/ LockIncoming(w)
         \/ LockRequest(w) \/ Delete(w) \/ Mark(w)
  PROVE  IInv'
<1> DEFINE c == call[w]
           p == call[w].pair
<1>1. CASE GiveUp(w)
  BY <1>1, GiveUpStep
<1> SUFFICES ASSUME ~GiveUp(w) PROVE IInv'
  BY <1>1
<1>2. pc[w] # "idle" /\ pc[w] \in PCs
  BY DEF LockRelationPair, LockOutgoing, LockIncoming, LockRequest, Delete, Mark, IInv, TypeOK
<1>3. p \in Pairs /\ Flip(p) \in Pairs
  BY <1>2, FlipFacts DEF IInv, StatementOfOp, Calls
<1>4. PairFirstOps \cap HandleOps = {} /\ {"unfriend", "unblock"} \cap (PairFirstOps \cup HandleOps) = {}
  BY DEF PairFirstOps, HandleOps
<1>5. PairLock(p) \in Locks /\ RequestLock(p) \in Locks /\ RequestLock(Flip(p)) \in Locks
  BY <1>3, LockFacts
<1>6. CASE LockRelationPair(w)
  <2>1. Take(w, AfterPairLock(c.op)) /\ pc[w] = "pair"
    BY <1>6 DEF LockRelationPair
  <2>2. c.op \in PairFirstOps \cup HandleOps
    BY <2>1 DEF IInv, StatementOfOp
  <2>3. holder'[PairLock(p)] = w
    BY <1>2, <1>5, <2>1, TakeIsMove DEF Wants
  <2>4. c.op \in HandleOps => holder'[RequestLock(p)] = w
    BY <1>2, <1>5, <2>1, TakeIsMove DEF IInv, JudgedPending, Holds
  <2>5. PICK l \in PCs : l = AfterPairLock(c.op)
    BY <2>2 DEF AfterPairLock, PCs
  <2>6. /\ l \in {"isFriend", "out", "judge"}
        /\ l = "judge" => c.op \in HandleOps
        /\ l = "isFriend" => c.op = "welcome" /\ c.op \notin HandleOps
        /\ l = "out" => c.op \in PairFirstOps
    BY <2>2, <2>5 DEF AfterPairLock, PairFirstOps, HandleOps
  <2>7. Take(w, l)
    BY <2>1, <2>5
  <2> QED
    BY <1>2, <2>3, <2>4, <2>6, <2>7, TakeIsMove, MoveStep DEF Take
<1>7. CASE LockOutgoing(w)
  <2>1. Take(w, "in") /\ pc[w] = "out" /\ c.op \in PairFirstOps
    BY <1>7 DEF LockOutgoing, IInv, StatementOfOp
  <2>2. holder'[PairLock(p)] = w
    BY <1>2, <1>5, <2>1, TakeIsMove DEF IInv, PairLockHeld, InPair, Holds
  <2> QED
    BY <1>2, <2>1, <2>2, TakeIsMove, MoveStep DEF Take, PCs
<1>8. CASE LockIncoming(w)
  <2>1. Take(w, "commit") /\ pc[w] = "in" /\ c.op \in PairFirstOps
    BY <1>8 DEF LockIncoming, IInv, StatementOfOp
  <2>2. holder'[PairLock(p)] = w
    BY <1>2, <1>5, <2>1, TakeIsMove DEF IInv, PairLockHeld, InPair, Holds
  <2>3. holder'[RequestLock(Flip(p))] = w \/ req[Flip(p)] = NoRow
    BY <1>2, <1>5, <2>1, TakeIsMove DEF Wants
  <2> QED
    BY <1>2, <1>4, <2>1, <2>2, <2>3, TakeIsMove, MoveStep DEF Take, PCs
<1>9. CASE LockRequest(w)
  <2>1. Take(w, "pair") /\ pc[w] = "row" /\ c.op \in HandleOps /\ req[p].id = c.id
    BY <1>9 DEF LockRequest, IInv, StatementOfOp
  <2>2. req[p] # NoRow
    BY <2>1, NoRowFacts DEF IInv, StatementOfOp
  <2>3. holder'[RequestLock(p)] = w
    BY <1>2, <1>5, <2>1, <2>2, TakeIsMove DEF Wants
  <2>4. ~InPair(w)'
    BY <2>1 DEF Take, InPair, IInv, TypeOK
  <2> QED
    BY <1>2, <1>4, <2>1, <2>3, <2>4, TakeIsMove, MoveStep DEF Take, PCs
<1>10. CASE Delete(w)
  <2>1. Take(w, "mark") /\ c.op \in {"unfriend", "unblock"}
    BY <1>10 DEF Delete
  <2>2. ~InPair(w)'
    BY <2>1 DEF Take, InPair, IInv, TypeOK
  <2> QED
    BY <1>2, <1>4, <2>1, <2>2, TakeIsMove, MoveStep DEF Take, PCs
<1>11. CASE Mark(w)
  <2>1. Take(w, "commit") /\ c.op \in {"unfriend", "unblock"}
    BY <1>11 DEF Mark, IInv, StatementOfOp
  <2>2. ~InPair(w)'
    BY <2>1 DEF Take, InPair, IInv, TypeOK
  <2>3. c.op \notin PairFirstOps /\ c.op \notin HandleOps
    BY <2>1 DEF PairFirstOps, HandleOps
  <2> QED
    BY <1>2, <2>1, <2>2, <2>3, TakeIsMove, MoveStep DEF Take, PCs
<1> QED
  BY <1>6, <1>7, <1>8, <1>9, <1>10, <1>11

LEMMA ReadStep ==
  ASSUME IInv, NEW w \in Workers, IsFriend(w) \/ Judge(w)
  PROVE  IInv'
<1> DEFINE p == call[w].pair
<1>1. CASE GiveUp(w)
  BY <1>1, GiveUpStep
<1> SUFFICES ASSUME ~GiveUp(w) PROVE IInv'
  BY <1>1
<1>2. /\ holder' = holder
      /\ holder' \in [Locks -> Workers \cup {Nobody}]
      /\ \A v \in Workers \ {w}, k \in Locks : holder'[k] = v <=> holder[k] = v
      /\ LockedRowsExist'
  BY DEF IsFriend, Judge, Goto, IInv, TypeOK, LockedRowsExist, dbVars
<1>3. holder[PairLock(p)] = w
  BY DEF IsFriend, Judge, IInv, PairLockHeld, InPair, Holds
<1>4. CASE IsFriend(w)
  <2>1. CASE call[w].op = "welcome"
    <3>1. Goto(w, "out") /\ pc[w] # "idle" /\ call[w].op \in PairFirstOps
      BY <1>4, <2>1 DEF IsFriend, PairFirstOps
    <3> QED
      BY <1>2, <1>3, <3>1, MoveStep DEF Goto, PCs
  <2>2. CASE call[w].op = "accept"
    <3>1. PICK l \in {"keep", "commit"} : Goto(w, l)
      BY <1>4, <2>2 DEF IsFriend
    <3>2. pc[w] = "isFriend" /\ call[w].op \in HandleOps /\ call[w].op \notin PairFirstOps
      BY <1>4, <2>2 DEF IsFriend, HandleOps, PairFirstOps
    <3>3. holder[RequestLock(p)] = w /\ Pending(p)
      BY <3>2 DEF IInv, JudgedPending, Holds
    <3> QED
      BY <1>2, <1>3, <2>2, <3>1, <3>2, <3>3, MoveStep DEF Goto, PCs
  <2> QED
    BY <1>4, <2>1, <2>2 DEF IsFriend
<1>5. CASE Judge(w)
  <2>1. pc[w] = "judge" /\ call[w].op \in HandleOps
    BY <1>5 DEF Judge, IInv, StatementOfOp
  <2>5. PICK l \in {"isFriend", "commit"} :
          Goto(w, l) /\ (l = "isFriend" => call[w].op = "accept")
    BY <1>5 DEF Judge
  <2>2. holder[RequestLock(p)] = w
    BY <2>1 DEF IInv, JudgedPending, Holds
  <2>3. Pending(p)
    BY <1>5, <2>2 DEF Judge, MayHandle, Seen, Holds, Pending
  <2>4. call[w].op \notin PairFirstOps
    BY <2>1 DEF PairFirstOps, HandleOps
  <2> QED
    BY <1>2, <1>3, <2>1, <2>2, <2>3, <2>4, <2>5, MoveStep DEF Goto, PCs
<1> QED
  BY <1>4, <1>5

LEMMA ArriveStep ==
  ASSUME IInv, NEW w \in Workers, Arrive(w)
  PROVE  IInv'
<1> USE DEF dbVars
<1>1. PICK c \in Requests : call' = [call EXCEPT ![w] = c]
                            /\ pc' = [pc EXCEPT ![w] = FirstStatement(c.op)]
  BY DEF Arrive
<1>2. c \in Calls /\ c.op \in AllOps /\ (c.op \in HandleOps => c.id # 0)
  BY DEF Requests, Calls
<1>3. /\ pc'[w] = FirstStatement(c.op) /\ call'[w] = c
      /\ \A v \in Workers : v # w => pc'[v] = pc[v] /\ call'[v] = call[v]
  BY <1>1 DEF IInv, TypeOK
<1>4. /\ FirstStatement(c.op) \in {"checkBlocking", "pair", "row", "delete"}
      /\ FirstStatement(c.op) = "pair" => c.op \in PairFirstOps /\ c.op \notin HandleOps
      /\ FirstStatement(c.op) = "row" => c.op \in HandleOps
      /\ FirstStatement(c.op) = "delete" => c.op \in {"unfriend", "unblock"}
  BY <1>2 DEF FirstStatement, AllOps, HandleOps, PairFirstOps
<1>5. TypeOK'
  BY <1>1, <1>2, <1>4 DEF IInv, TypeOK, Arrive, PCs
<1>6. StatementOfOp'
  BY <1>2, <1>3, <1>4 DEF IInv, StatementOfOp
<1>7. PairLockHeld' /\ NotFoundStaysNotFound' /\ JudgedPending'
  BY <1>3, <1>4 DEF Arrive, IInv, PairLockHeld, InPair, NotFoundStaysNotFound,
                    JudgedPending, Pending, Holds
<1>8. LockedRowsExist' /\ FriendSymmetric' /\ NoMutualPending'
  BY DEF Arrive, IInv, LockedRowsExist, FriendSymmetric, NoMutualPending, Pending
<1> QED
  BY <1>5, <1>6, <1>7, <1>8 DEF IInv

-----------------------------------------------------------------------------
\* Commits.

\* A commit writes only rows its transaction has locked, or a new row of a pair
\* whose advisory lock it has: no other transaction's reads are disturbed.
LEMMA CommitStep ==
  ASSUME IInv, NEW w \in Workers, pc[w] # "idle", Finish(w),
         friend' \subseteq Pairs, block' \subseteq Pairs,
         req' \in [Pairs -> Rows \cup {NoRow}],
         nextId' \in 1..(MaxRequests + 1),
         \A q \in Pairs : req'[q] # req[q] =>
           /\ req'[q] # NoRow
           /\ \/ holder[RequestLock(q)] = w
              \/ req[q] = NoRow /\ holder[PairLock(q)] = w,
         FriendSymmetric', NoMutualPending'
  PROVE  IInv'
<1>1. TypeOK'
  BY DEF IInv, TypeOK, Finish, Release, PCs
<1>2. \A v \in Workers : v # w => pc'[v] = pc[v] /\ call'[v] = call[v]
  BY DEF IInv, TypeOK, Finish
<1>3. pc'[w] = "idle"
  BY DEF IInv, TypeOK, Finish
<1>4. \A v \in Workers : pc[v] # "idle" =>
        call[v] \in Calls /\ call[v].pair \in Pairs /\ Flip(call[v].pair) \in Pairs
  BY FlipFacts DEF IInv, StatementOfOp, Calls
<1>5. \A v \in Workers, k \in Locks : v # w => (Holds(v, k)' <=> Holds(v, k))
  BY FinishLocks DEF Holds
<1>6. StatementOfOp'
  BY <1>2, <1>3 DEF IInv, StatementOfOp
<1>7. PairLockHeld'
  BY <1>2, <1>3, <1>4, <1>5, LockFacts DEF IInv, PairLockHeld, InPair
<1>8. LockedRowsExist'
  BY FinishLocks, LockFacts DEF IInv, LockedRowsExist
<1>9. NotFoundStaysNotFound'
  <2> SUFFICES ASSUME NEW v \in Workers, v # w, pc[v] = "commit", call[v].op \in PairFirstOps,
                      ~Holds(v, RequestLock(Flip(call[v].pair)))
               PROVE  req'[Flip(call[v].pair)] = NoRow
    BY <1>2, <1>3, <1>4, <1>5, LockFacts DEF NotFoundStaysNotFound
  <2>1. req[Flip(call[v].pair)] = NoRow
    BY DEF IInv, NotFoundStaysNotFound
  <2>2. holder[PairLock(Flip(call[v].pair))] = v
    BY <1>4, LockFacts DEF IInv, PairLockHeld, InPair, Holds, PairFirstOps
  <2> QED
    BY <1>4, <2>1, <2>2, LockFacts, NobodyAssumption DEF IInv, LockedRowsExist
<1>10. JudgedPending'
  <2>1. \A v \in Workers, q \in Pairs : v # w /\ Holds(v, RequestLock(q)) => req'[q] = req[q]
    BY NobodyAssumption DEF Holds, IInv, LockedRowsExist
  <2> QED
    BY <1>2, <1>3, <1>4, <1>5, <2>1, LockFacts DEF IInv, JudgedPending, Pending
<1> QED
  BY <1>1, <1>6, <1>7, <1>8, <1>9, <1>10 DEF IInv

LEMMA SetStatusFacts ==
  ASSUME req \in [Pairs -> Rows \cup {NoRow}], NEW P, NEW s \in Statuses,
         NEW q \in Pairs
  PROVE  /\ q \notin P => SetStatus(P, s)[q] = req[q]
         /\ q \in P /\ req[q] # NoRow =>
              /\ SetStatus(P, s)[q] \in Rows
              /\ SetStatus(P, s)[q].status = s
              /\ SetStatus(P, s)[q].id = req[q].id
BY DEF SetStatus, Rows

\* A commit that moves locked rows out of (or not into) "pending".
LEMMA StatusCommit ==
  ASSUME IInv, NEW w \in Workers, pc[w] # "idle", Finish(w),
         NEW P, NEW s \in Statuses \ {"pending"},
         P \subseteq Pairs,
         \A q \in P : holder[RequestLock(q)] = w,
         req' = SetStatus(P, s),
         nextId' = nextId,
         block' \subseteq Pairs,
         NEW p \in Pairs,
         friend' \in {friend, friend \cup Both(p), friend \ Both(p)}
  PROVE  IInv'
<1>1. req \in [Pairs -> Rows \cup {NoRow}] /\ friend \subseteq Pairs
  BY DEF IInv, TypeOK
<1>2. \A q \in P : req[q] # NoRow
  BY NobodyAssumption DEF IInv, LockedRowsExist
<1>3. req' \in [Pairs -> Rows \cup {NoRow}]
  BY <1>1, <1>2, SetStatusType
<1>4. \A q \in Pairs : Pending(q)' => Pending(q)
  BY <1>1, <1>2, SetStatusFacts DEF Pending
<1>5. \A q \in Pairs : req'[q] # req[q] => req'[q] # NoRow /\ holder[RequestLock(q)] = w
  BY <1>1, <1>2, SetStatusFacts, NoRowFacts
<1>6. friend' \subseteq Pairs /\ FriendSymmetric'
  <2>1. friend' \subseteq Pairs
    BY <1>1, FlipFacts
  <2>2. \A q \in Pairs : q \in Both(p) <=> Flip(q) \in Both(p)
    BY DEF Both, Flip, Pairs
  <2> QED
    BY <1>1, <2>1, <2>2 DEF IInv, FriendSymmetric
<1>7. NoMutualPending'
  BY <1>4, FlipFacts DEF IInv, NoMutualPending
<1>8. nextId' \in 1..(MaxRequests + 1)
  BY DEF IInv, TypeOK
<1> QED
  BY <1>3, <1>5, <1>6, <1>7, <1>8, CommitStep

LEMMA CallPair ==
  ASSUME IInv, NEW w \in Workers, pc[w] # "idle"
  PROVE  /\ call[w] \in Calls
         /\ call[w].pair \in Pairs
         /\ Flip(call[w].pair) \in Pairs
         /\ Both(call[w].pair) \subseteq Pairs
BY FlipFacts DEF IInv, StatementOfOp, Calls

LEMMA SendPendingStep ==
  ASSUME IInv, NEW w \in Workers, SendPending(w)
  PROVE  IInv'
<1> DEFINE p == call[w].pair
<1>1. pc[w] = "commit" /\ call[w].op = "send" /\ pc[w] # "idle"
  BY DEF SendPending, AtCommit
<1>2. p \in Pairs /\ Flip(p) \in Pairs /\ p # Flip(p) /\ Flip(Flip(p)) = p
  BY <1>1, CallPair, FlipFacts DEF Pairs, Flip
<1>3. holder[PairLock(p)] = w
  BY <1>1 DEF IInv, PairLockHeld, InPair, Holds
<1>4. holder[RequestLock(p)] = w \/ req[p] = NoRow
  BY DEF SendPending, Seen, Holds
<1>5. ~Pending(Flip(p))
  <2>1. CASE Holds(w, RequestLock(Flip(p)))
    BY <2>1 DEF SendPending, Seen, Pending
  <2>2. CASE ~Holds(w, RequestLock(Flip(p)))
    BY <1>1, <2>2, NoRowFacts DEF IInv, NotFoundStaysNotFound, PairFirstOps, Pending
  <2> QED
    BY <2>1, <2>2
<1>6. nextId \in 1..MaxRequests /\ nextId' \in 1..(MaxRequests + 1)
  BY MaxRequestsAssumption DEF SendPending, IInv, TypeOK
<1>7. req' = [req EXCEPT ![p] = [id |-> nextId, status |-> "pending"]]
  BY DEF SendPending
<1>8. [id |-> nextId, status |-> "pending"] \in Rows
  BY <1>6 DEF Rows, Statuses
<1>9. req' \in [Pairs -> Rows \cup {NoRow}] /\ \A q \in Pairs : q # p => req'[q] = req[q]
  BY <1>7, <1>8 DEF IInv, TypeOK
<1>10. req'[p] # NoRow
  BY <1>2, <1>7, <1>8, NoRowFacts DEF IInv, TypeOK
<1>11. NoMutualPending'
  BY <1>2, <1>5, <1>9, FlipFacts DEF IInv, NoMutualPending, Pending
<1>12. friend' = friend /\ block' = block /\ FriendSymmetric' /\ Finish(w)
  BY DEF SendPending, IInv, FriendSymmetric
<1>13. friend \subseteq Pairs /\ block \subseteq Pairs
  BY DEF IInv, TypeOK
<1> QED
  BY <1>1, <1>3, <1>4, <1>6, <1>9, <1>10, <1>11, <1>12, <1>13, CommitStep

\* The commits that only move locked rows on: accept, reject, cancel, the mutual
\* request, the welcome, unfriend and unblock.
LEMMA AnswerStep ==
  ASSUME IInv, NEW w \in Workers,
         \/ SendMutual(w) \/ WelcomeCommit(w) \/ HandleCommit(w)
         \/ AcceptBetweenFriends(w) \/ UnfriendCommit(w) \/ UnblockCommit(w)
  PROVE  IInv'
<1> DEFINE p == call[w].pair
<1>1. pc[w] \in {"commit", "keep"} /\ pc[w] # "idle"
  BY DEF SendMutual, WelcomeCommit, HandleCommit, AcceptBetweenFriends, UnfriendCommit,
         UnblockCommit, AtCommit
<1>2. p \in Pairs /\ Flip(p) \in Pairs /\ Both(p) \subseteq Pairs
  BY <1>1, CallPair
<1>3. block \subseteq Pairs /\ {"accepted", "rejected", "cancelled", "unfriended"} \subseteq Statuses \ {"pending"}
  BY DEF IInv, TypeOK, Statuses
<1>4. CASE SendMutual(w)
  <2>1. holder[RequestLock(Flip(p))] = w
    BY <1>4, NoRowFacts DEF SendMutual, Seen, Holds
  <2> QED
    BY <1>1, <1>2, <1>3, <1>4, <2>1, StatusCommit DEF SendMutual
<1>5. CASE WelcomeCommit(w)
  <2>1. CASE GiveUp(w)
    BY <2>1, GiveUpStep
  <2>2. CASE ~GiveUp(w)
    <3> DEFINE P == {q \in Both(p) : Seen(w, q).status = "pending"}
    <3>1. P \subseteq Pairs /\ \A q \in P : holder[RequestLock(q)] = w
      BY <1>2, NoRowFacts DEF Seen, Holds
    <3>2. /\ req' = SetStatus(P, "accepted") /\ friend' = friend \cup Both(p)
          /\ UNCHANGED <<block, nextId>> /\ Finish(w)
      BY <1>5, <2>2 DEF WelcomeCommit
    <3> QED
      BY <1>1, <1>2, <1>3, <3>1, <3>2, StatusCommit
  <2> QED
    BY <2>1, <2>2
<1>6. CASE HandleCommit(w)
  <2> SUFFICES ASSUME ~GiveUp(w) PROVE IInv'
    BY GiveUpStep
  <2>1. PICK op \in HandleOps : AtCommit(w, op)
    BY <1>6 DEF HandleCommit
  <2>2. holder[RequestLock(p)] = w
    BY <2>1 DEF AtCommit, IInv, JudgedPending, Holds
  <2>3. PICK s \in Statuses \ {"pending"} : s = Answer(call[w].op)
    BY <1>3 DEF Answer
  <2>4. req' = SetStatus({p}, s) /\ UNCHANGED <<block, nextId>> /\ Finish(w)
    BY <1>6, <2>3 DEF HandleCommit
  <2>5. friend' \in {friend, friend \cup Both(p)}
    BY <1>6 DEF HandleCommit
  <2> QED
    BY <1>1, <1>2, <1>3, <2>2, <2>4, <2>5, StatusCommit
<1>7. CASE UnfriendCommit(w)
  <2> DEFINE P == {q \in Both(p) : Holds(w, RequestLock(q))}
  <2>1. P \subseteq Pairs /\ \A q \in P : holder[RequestLock(q)] = w
    BY <1>2 DEF Holds
  <2>2. /\ req' = SetStatus(P, "unfriended") /\ friend' = friend \ Both(p)
        /\ UNCHANGED <<block, nextId>> /\ Finish(w)
    BY <1>7 DEF UnfriendCommit
  <2> QED
    BY <1>1, <1>2, <1>3, <2>1, <2>2, StatusCommit
<1>8. CASE UnblockCommit(w)
  <2> DEFINE P == {q \in {Flip(p)} : Holds(w, RequestLock(q))}
  <2>1. P \subseteq Pairs /\ \A q \in P : holder[RequestLock(q)] = w
    BY <1>2 DEF Holds
  <2>2. /\ req' = SetStatus(P, "cancelled") /\ block' = block \ {p}
        /\ UNCHANGED <<friend, nextId>> /\ Finish(w)
    BY <1>8 DEF UnblockCommit
  <2> QED
    BY <1>1, <1>2, <1>3, <2>1, <2>2, StatusCommit
<1>9. CASE AcceptBetweenFriends(w)
  <2>1. call[w].op \in HandleOps
    BY <1>9 DEF AcceptBetweenFriends, IInv, StatementOfOp, HandleOps
  <2>2. holder[RequestLock(p)] = w
    BY <1>9, <2>1 DEF AcceptBetweenFriends, IInv, JudgedPending, Holds
  <2> QED
    BY <1>1, <1>2, <1>3, <1>9, <2>2, StatusCommit DEF AcceptBetweenFriends
<1> QED
  BY <1>4, <1>5, <1>6, <1>7, <1>8, <1>9

LEMMA BlockStep ==
  ASSUME IInv, NEW w \in Workers, BlockCommit(w)
  PROVE  IInv'
<1> DEFINE p == call[w].pair
<1>1. CASE GiveUp(w)
  BY <1>1, GiveUpStep
<1> SUFFICES ASSUME ~GiveUp(w) PROVE IInv'
  BY <1>1
<1>2. pc[w] = "commit" /\ pc[w] # "idle"
  BY DEF BlockCommit, AtCommit
<1>3. p \in Pairs /\ Both(p) \subseteq Pairs
  BY <1>2, CallPair
<1>4. /\ block' = block \cup {p} /\ friend' = friend \ Both(p)
      /\ nextId' = nextId /\ Finish(w)
      /\ req' = [q \in Pairs |->
                   IF q \in Both(p) /\ Seen(w, q).status = "pending"
                   THEN [req[q] EXCEPT !.status = "cancelled"]
                   ELSE IF q \in Both(p) /\ Seen(w, q).status = "accepted"
                   THEN [req[q] EXCEPT !.status = "unfriended"]
                   ELSE req[q]]
  BY DEF BlockCommit
<1>5. ASSUME NEW q \in Pairs
      PROVE  /\ req'[q] \in Rows \cup {NoRow}
             /\ req'[q] # req[q] => req'[q] # NoRow /\ holder[RequestLock(q)] = w
             /\ Pending(q)' => Pending(q)
  <2>1. req[q] \in Rows \cup {NoRow}
    BY DEF IInv, TypeOK
  <2>2. CASE ~Holds(w, RequestLock(q))
    BY <1>4, <2>1, <2>2, NoRowFacts DEF Seen, Pending
  <2>3. CASE Holds(w, RequestLock(q))
    <3>1. Seen(w, q) = req[q] /\ req[q] \in Rows
      BY <2>1, <2>3, NobodyAssumption DEF Seen, Holds, IInv, LockedRowsExist
    <3>2. \/ req'[q] = req[q]
          \/ req'[q] = [req[q] EXCEPT !.status = "cancelled"]
          \/ req'[q] = [req[q] EXCEPT !.status = "unfriended"]
      BY <1>4
    <3>3. req'[q] \in Rows /\ (req'[q] # req[q] => req'[q].status # "pending")
      BY <3>1, <3>2 DEF Rows, Statuses
    <3> QED
      BY <2>3, <3>3, NoRowFacts DEF Holds, Pending
  <2> QED
    BY <2>2, <2>3
<1>6. req' \in [Pairs -> Rows \cup {NoRow}]
  BY <1>4, <1>5
<1>7. NoMutualPending'
  BY <1>5, FlipFacts DEF IInv, NoMutualPending
<1>8. friend' \subseteq Pairs /\ FriendSymmetric'
  <2>1. \A q \in Pairs : q \in Both(p) <=> Flip(q) \in Both(p)
    BY <1>3 DEF Both, Flip, Pairs
  <2> QED
    BY <1>4, <2>1 DEF IInv, TypeOK, FriendSymmetric
<1>9. block' \subseteq Pairs /\ nextId' \in 1..(MaxRequests + 1)
  BY <1>3, <1>4 DEF IInv, TypeOK
<1> QED
  BY <1>2, <1>4, <1>5, <1>6, <1>7, <1>8, <1>9, CommitStep

-----------------------------------------------------------------------------

LEMMA NextIInv == IInv /\ [Next]_vars => IInv'
<1> SUFFICES ASSUME IInv, [Next]_vars PROVE IInv'
  OBVIOUS
<1>1. CASE UNCHANGED vars
  BY <1>1 DEF vars, dbVars, IInv, TypeOK, StatementOfOp, PairLockHeld, InPair, LockedRowsExist,
              NotFoundStaysNotFound, JudgedPending, FriendSymmetric, NoMutualPending, Pending, Holds
<1>2. CASE Next
  <2> SUFFICES ASSUME NEW w \in Workers,
                      Arrive(w) \/ Statement(w) \/ Fail(w) \/ DeadlockVictim(w)
               PROVE  IInv'
    BY <1>2 DEF Next
  <2>1. CASE Arrive(w)
    BY <2>1, ArriveStep
  <2>2. CASE Fail(w) \/ DeadlockVictim(w) \/ SendRefused(w)
    BY <2>2, GiveUpStep DEF Fail, DeadlockVictim, SendRefused
  <2>3. CASE CheckBlocking(w) \/ CheckBlocked(w) \/ CheckFriend(w)
    BY <2>3, CheckStep
  <2>4. CASE \/ LockRelationPair(w) \/ LockOutgoing(w) \/ LockIncoming(w)
             \/ LockRequest(w) \/ Delete(w) \/ Mark(w)
    BY <2>4, LockStep
  <2>5. CASE IsFriend(w) \/ Judge(w)
    BY <2>5, ReadStep
  <2>6. CASE \/ SendMutual(w) \/ WelcomeCommit(w) \/ HandleCommit(w)
             \/ AcceptBetweenFriends(w) \/ UnfriendCommit(w) \/ UnblockCommit(w)
    BY <2>6, AnswerStep
  <2>7. CASE SendPending(w)
    BY <2>7, SendPendingStep
  <2>8. CASE BlockCommit(w)
    BY <2>8, BlockStep
  <2> QED
    BY <2>1, <2>2, <2>3, <2>4, <2>5, <2>6, <2>7, <2>8 DEF Statement
<1> QED
  BY <1>1, <1>2

\* IInv is an inductive invariant of the service.
THEOREM Invariance == Spec => []IInv
<1>1. Init => IInv
  BY InitIInv
<1>2. IInv /\ [Next]_vars => IInv'
  BY NextIInv
<1> QED
  BY <1>1, <1>2, PTL DEF Spec

\* Every variable keeps its type.
THEOREM TypeCorrect == Spec => []TypeOK
<1>1. IInv => TypeOK
  BY DEF IInv
<1> QED
  BY <1>1, Invariance, PTL

\* For any agents and any number of concurrent calls: no two agents ever have
\* requests pending in both directions (SendFriendRequest, handler.go:758-811).
THEOREM NeverMutuallyPending == Spec => []NoMutualPending
<1>1. IInv => NoMutualPending
  BY DEF IInv
<1> QED
  BY <1>1, Invariance, PTL

\* The two rows of a friendship are always both there or both absent.
THEOREM FriendshipSymmetric == Spec => []FriendSymmetric
<1>1. IInv => FriendSymmetric
  BY DEF IInv
<1> QED
  BY <1>1, Invariance, PTL

-----------------------------------------------------------------------------
\* The refinement: every commit is one atomic step of FriendGraph and every other
\* statement is a stutter.

\* A friendship or block row is locked by every transaction that deletes it, a row
\* of friend_requests by every one that changes it, and whoever inserts a row of
\* friend_requests, a friendship or a block has the pair lock.
WritesWhatItHolds(w) ==
  /\ \A q \in Pairs : req'[q] # req[q] =>
       \/ holder[RequestLock(q)] = w
       \/ req[q] = NoRow /\ holder[PairLock(q)] = w
  /\ \A q \in friend \ friend' : holder[FriendLock(q)] \in {w, Nobody}
  /\ \A q \in block \ block' : holder[BlockLock(q)] = w
  /\ \A q \in block' \ block : holder[PairLock(q)] = w
  /\ \A q \in friend' \ friend : holder[PairLock(q)] = w

LEMMA BothLocks ==
  ASSUME NEW p \in Pairs, NEW q \in Both(p)
  PROVE  PairLock(q) = PairLock(p) /\ FriendLock(q) = FriendLock(p)
BY DEF Both, Flip, PairLock, FriendLock

LEMMA InitCommitInv == Init => CommitInv
<1> SUFFICES ASSUME Init PROVE CommitInv
  OBVIOUS
<1>1. IdsUsed
  BY NoRowFacts DEF Init, GraphInit, IdsUsed
<1>2. ASSUME NEW w \in Workers PROVE Knows(w)
  <2>1. pc[w] = "idle" /\ \A q \in Pairs : holder[RequestLock(q)] = Nobody
    BY LockFacts DEF Init
  <2> QED
    BY <2>1, NobodyAssumption DEF Knows, NoRowYet, DeletedRowsThere, MarkedRowsKept,
       OutgoingStaysAbsent, StaysUnblocked, NotFriendsYet, Holds
<1> QED
  BY <1>1, <1>2 DEF CommitInv

-----------------------------------------------------------------------------
\* What a call knows is not disturbed by the others.

\* A step of w leaves what another call v knows true.
LEMMA OthersKnow ==
  ASSUME IInv, CommitInv, NEW w \in Workers, NEW v \in Workers \ {w},
         pc'[v] = pc[v], call'[v] = call[v],
         \A k \in Locks : holder'[k] = v <=> holder[k] = v,
         WritesWhatItHolds(w)
  PROVE  Knows(v)'
<1> DEFINE p == call[v].pair
<1>1. Knows(v)
  BY DEF CommitInv
<1>2. pc[v] # "idle" => p \in Pairs /\ Flip(p) \in Pairs /\ Both(p) \subseteq Pairs
  BY CallPair
<1>3. \A k \in Locks : Holds(v, k)' <=> Holds(v, k)
  BY DEF Holds
<1>4. \A q \in Pairs : Holds(v, RequestLock(q)) => req'[q] = req[q]
  BY NobodyAssumption DEF WritesWhatItHolds, Holds, IInv, LockedRowsExist
<1>5. NoRowYet(v)'
  BY <1>1, <1>3, LockFacts DEF Knows, NoRowYet
<1>6. DeletedRowsThere(v)'
  <2> SUFFICES ASSUME pc[v] \in {"mark", "commit"}
               PROVE  /\ call[v].op = "unfriend" => Holds(v, FriendLock(p))' /\ Both(p) \subseteq friend'
                      /\ call[v].op = "unblock" => Holds(v, BlockLock(p))' /\ p \in block'
    BY DEF DeletedRowsThere
  <2>1. p \in Pairs /\ Both(p) \subseteq Pairs
    BY <1>2
  <2>2. ASSUME call[v].op = "unfriend"
        PROVE  Holds(v, FriendLock(p))' /\ Both(p) \subseteq friend'
    <3>1. Holds(v, FriendLock(p)) /\ Both(p) \subseteq friend
      BY <1>1, <2>2 DEF Knows, DeletedRowsThere
    <3>2. ASSUME NEW q \in Both(p) PROVE holder[FriendLock(q)] = v
      BY <2>1, <3>1, BothLocks DEF Holds
    <3>3. \A q \in Both(p) : q \in friend'
      BY <3>1, <3>2, NobodyAssumption DEF WritesWhatItHolds
    <3> QED
      BY <1>3, <2>1, <3>1, <3>3, LockFacts
  <2>3. ASSUME call[v].op = "unblock"
        PROVE  Holds(v, BlockLock(p))' /\ p \in block'
    <3>1. Holds(v, BlockLock(p)) /\ p \in block
      BY <1>1, <2>3 DEF Knows, DeletedRowsThere
    <3> QED
      BY <1>3, <2>1, <3>1, LockFacts DEF WritesWhatItHolds, Holds
  <2> QED
    BY <2>2, <2>3
<1>7. MarkedRowsKept(v)'
  BY <1>1, <1>3, <1>4, LockFacts DEF Knows, MarkedRowsKept, Pending
<1>8. OutgoingStaysAbsent(v)'
  <2> SUFFICES ASSUME pc[v] \in {"in", "commit"}, call[v].op \in PairFirstOps,
                      ~Holds(v, RequestLock(p))
               PROVE  req'[p] = NoRow
    BY <1>2, <1>3, LockFacts DEF OutgoingStaysAbsent
  <2>1. req[p] = NoRow
    BY <1>1 DEF Knows, OutgoingStaysAbsent
  <2>2. holder[PairLock(p)] = v
    BY DEF IInv, PairLockHeld, InPair, Holds, PairFirstOps
  <2>3. holder[RequestLock(p)] = Nobody
    BY <1>2, <2>1 DEF IInv, LockedRowsExist
  <2> QED
    BY <1>2, <2>1, <2>2, <2>3, NobodyAssumption DEF WritesWhatItHolds
<1>9. StaysUnblocked(v)'
  <2> SUFFICES ASSUME pc[v] \in Judged, call[v].op = "accept"
               PROVE  Both(p) \cap block' = {}
    BY DEF StaysUnblocked
  <2>1. Both(p) \cap block = {} /\ p \in Pairs
    BY <1>1, <1>2 DEF Knows, StaysUnblocked
  <2>2. holder[PairLock(p)] = v
    BY DEF IInv, PairLockHeld, InPair, Holds
  <2>3. ASSUME NEW q \in Both(p) PROVE q \notin block' \ block
    BY <2>1, <2>2, BothLocks DEF WritesWhatItHolds
  <2> QED
    BY <2>1, <2>3
<1>10. NotFriendsYet(v)'
  <2> SUFFICES ASSUME pc[v] = "commit", call[v].op = "accept"
               PROVE  Both(p) \cap friend' = {}
    BY DEF NotFriendsYet
  <2>1. Both(p) \cap friend = {} /\ p \in Pairs
    BY <1>1, <1>2 DEF Knows, NotFriendsYet
  <2>2. holder[PairLock(p)] = v
    BY DEF IInv, PairLockHeld, InPair, Holds
  <2>3. ASSUME NEW q \in Both(p) PROVE q \notin friend' \ friend
    BY <2>1, <2>2, BothLocks DEF WritesWhatItHolds
  <2> QED
    BY <2>1, <2>3
<1> QED
  BY <1>5, <1>6, <1>7, <1>8, <1>9, <1>10 DEF Knows

\* A call that has returned knows nothing and holds nothing.
LEMMA FinishKnows ==
  ASSUME IInv, CommitInv, NEW w \in Workers, Finish(w), WritesWhatItHolds(w), IdsUsed'
  PROVE  CommitInv'
<1>1. \A v \in Workers \ {w} : pc'[v] = pc[v] /\ call'[v] = call[v]
  BY DEF IInv, TypeOK, Finish
<1>2. pc'[w] = "idle"
  BY DEF IInv, TypeOK, Finish
<1>3. \A v \in Workers \ {w} : Knows(v)'
  BY <1>1, FinishLocks, OthersKnow
<1>4. \A q \in Pairs : ~Holds(w, RequestLock(q))'
  BY FinishLocks, LockFacts, NobodyAssumption DEF Holds
<1>5. Knows(w)'
  BY <1>2, <1>4 DEF Knows, NoRowYet, DeletedRowsThere, MarkedRowsKept,
                    OutgoingStaysAbsent, StaysUnblocked, NotFriendsYet
<1> QED
  BY <1>3, <1>5 DEF CommitInv

\* A step that leaves the tables alone disturbs no one.
LEMMA QuietStep ==
  ASSUME UNCHANGED dbVars, CommitInv, NEW w
  PROVE  WritesWhatItHolds(w) /\ IdsUsed'
BY DEF dbVars, WritesWhatItHolds, CommitInv, IdsUsed

LEMMA GiveUpKnows ==
  ASSUME IInv, CommitInv, NEW w \in Workers, GiveUp(w)
  PROVE  CommitInv'
BY QuietStep, FinishKnows DEF GiveUp

\* A call that goes on, to a statement at which it knows what it should.
LEMMA MoveKnows ==
  ASSUME IInv, CommitInv, NEW w \in Workers, NEW l, UNCHANGED dbVars,
         pc' = [pc EXCEPT ![w] = l],
         \A v \in Workers \ {w} : call'[v] = call[v],
         \A v \in Workers \ {w}, k \in Locks : holder'[k] = v <=> holder[k] = v,
         Knows(w)'
  PROVE  CommitInv'
<1>1. \A v \in Workers \ {w} : pc'[v] = pc[v]
  BY DEF IInv, TypeOK
<1>2. WritesWhatItHolds(w) /\ IdsUsed'
  BY QuietStep
<1>3. \A v \in Workers \ {w} : Knows(v)'
  BY <1>1, <1>2, OthersKnow
<1> QED
  BY <1>2, <1>3 DEF CommitInv

\* The checks before the transaction.
LEMMA EarlyKnows ==
  ASSUME IInv, CommitInv, NEW w \in Workers,
         Arrive(w) \/ CheckBlocking(w) \/ CheckBlocked(w) \/ CheckFriend(w)
  PROVE  CommitInv'
<1>1. CASE GiveUp(w)
  BY <1>1, GiveUpKnows
<1> SUFFICES ASSUME ~GiveUp(w) PROVE CommitInv'
  BY <1>1
<1>2. PICK l \in {"checkBlocking", "checkBlocked", "checkFriend", "pair", "out", "row", "delete"} :
        pc' = [pc EXCEPT ![w] = l] /\ (l = "delete" => pc[w] = "idle")
  BY DEF Arrive, FirstStatement, CheckBlocking, CheckBlocked, CheckFriend, Goto
<1>3. holder' = holder /\ UNCHANGED dbVars /\ \A v \in Workers \ {w} : call'[v] = call[v]
  BY DEF Arrive, CheckBlocking, CheckBlocked, CheckFriend, Goto, IInv, TypeOK
<1>4. pc'[w] = l
  BY <1>2 DEF IInv, TypeOK
<1>5. Knows(w)'
  BY <1>2, <1>3, <1>4 DEF CommitInv, Knows, NoRowYet, DeletedRowsThere, MarkedRowsKept,
     OutgoingStaysAbsent, StaysUnblocked, NotFriendsYet, Holds
<1> QED
  BY <1>2, <1>3, <1>5, MoveKnows

\* HandleFriendRequest's checks, with the pair lock held.
LEMMA JudgeKnows ==
  ASSUME IInv, CommitInv, NEW w \in Workers, Judge(w)
  PROVE  CommitInv'
<1>1. CASE GiveUp(w)
  BY <1>1, GiveUpKnows
<1>2. CASE ~GiveUp(w)
  <2>1. PICK l \in {"isFriend", "commit"} :
          /\ Goto(w, l) /\ MayHandle(w) /\ call[w].op \in HandleOps
          /\ l = "commit" => call[w].op # "accept"
    BY <1>2 DEF Judge, IInv, StatementOfOp
  <2>2. pc'[w] = l /\ call' = call /\ holder' = holder /\ UNCHANGED dbVars
    BY <2>1 DEF Goto, IInv, TypeOK
  <2>3. Knows(w)'
    BY <2>1, <2>2 DEF MayHandle, dbVars, HandleOps, PairFirstOps, Knows, NoRowYet,
       DeletedRowsThere, MarkedRowsKept, OutgoingStaysAbsent, StaysUnblocked, NotFriendsYet
  <2> QED
    BY <2>1, <2>2, <2>3, MoveKnows DEF Goto
<1> QED
  BY <1>1, <1>2

\* The look at the friend rows: one row stands for both.
LEMMA IsFriendKnows ==
  ASSUME IInv, CommitInv, NEW w \in Workers, IsFriend(w)
  PROVE  CommitInv'
<1>1. CASE GiveUp(w)
  BY <1>1, GiveUpKnows
<1>2. CASE ~GiveUp(w)
  <2>1. PICK l \in {"out", "keep", "commit"} :
          /\ Goto(w, l) /\ pc[w] = "isFriend"
          /\ l = "out" => call[w].op = "welcome"
          /\ l # "out" => call[w].op = "accept"
          /\ l = "commit" => call[w].pair \notin friend
    BY <1>2 DEF IsFriend
  <2>2. pc'[w] = l /\ call' = call /\ holder' = holder /\ UNCHANGED dbVars
    BY <2>1 DEF Goto, IInv, TypeOK
  <2>3. l = "commit" => Both(call[w].pair) \cap friend = {}
    BY <2>1, CallPair, FlipFacts DEF IInv, FriendSymmetric, Both
  <2>4. Knows(w)'
    BY <2>1, <2>2, <2>3 DEF dbVars, PairFirstOps, CommitInv, Knows, NoRowYet,
       DeletedRowsThere, MarkedRowsKept, OutgoingStaysAbsent, StaysUnblocked, NotFriendsYet
  <2> QED
    BY <2>1, <2>2, <2>4, MoveKnows DEF Goto
<1> QED
  BY <1>1, <1>2

\* The statements that lock.
LEMMA LockKnows ==
  ASSUME IInv, CommitInv, NEW w \in Workers,
         \/ LockRelationPair(w) \/ LockOutgoing(w) \/ LockIncoming(w)
         \/ LockRequest(w) \/ Delete(w) \/ Mark(w)
  PROVE  CommitInv'
<1> DEFINE c == call[w]
           p == call[w].pair
<1>1. CASE GiveUp(w)
  BY <1>1, GiveUpKnows
<1> SUFFICES ASSUME ~GiveUp(w) PROVE CommitInv'
  BY <1>1
<1>2. pc[w] # "idle"
  BY DEF LockRelationPair, LockOutgoing, LockIncoming, LockRequest, Delete, Mark
<1>3. p \in Pairs /\ Flip(p) \in Pairs /\ Both(p) \subseteq Pairs
  BY <1>2, CallPair
<1>4. /\ PairFirstOps \cap HandleOps = {}
      /\ {"unfriend", "unblock"} \cap (PairFirstOps \cup HandleOps) = {}
      /\ "accept" \in HandleOps
  BY DEF PairFirstOps, HandleOps
<1>5. Knows(w)
  BY DEF CommitInv
<1>6. ASSUME NEW l, Take(w, l), Knows(w)' PROVE CommitInv'
  BY <1>2, <1>6, TakeIsMove, MoveKnows DEF Take
<1>7. ASSUME NEW l, Take(w, l)
      PROVE  /\ pc'[w] = l /\ call' = call /\ UNCHANGED dbVars
             /\ \A k \in Locks : holder'[k] = w <=> holder[k] = w \/ k \in Wants(w)
  BY <1>2, <1>7, TakeIsMove DEF Take, IInv, TypeOK
<1>8. CASE LockRelationPair(w) \/ LockRequest(w)
  <2>1. PICK l \in {"isFriend", "judge", "out", "pair"} :
          Take(w, l) /\ (l = "isFriend" => call[w].op = "welcome")
    BY <1>8 DEF LockRelationPair, AfterPairLock, LockRequest
  <2>2. Knows(w)'
    BY <1>7, <2>1 DEF Knows, NoRowYet, DeletedRowsThere, MarkedRowsKept,
       OutgoingStaysAbsent, StaysUnblocked, NotFriendsYet
  <2> QED
    BY <1>6, <2>1, <2>2
<1>9. CASE LockOutgoing(w)
  <2>1. Take(w, "in") /\ pc[w] = "out"
    BY <1>9 DEF LockOutgoing
  <2>2. holder'[RequestLock(p)] = w \/ req'[p] = NoRow
    BY <1>3, <1>7, <2>1, LockFacts DEF Wants, dbVars
  <2>3. Knows(w)'
    BY <1>7, <2>1, <2>2 DEF Knows, NoRowYet, DeletedRowsThere, MarkedRowsKept,
       OutgoingStaysAbsent, StaysUnblocked, NotFriendsYet, Holds
  <2> QED
    BY <1>6, <2>1, <2>3
<1>10. CASE LockIncoming(w)
  <2>1. Take(w, "commit") /\ pc[w] = "in" /\ c.op \in PairFirstOps
    BY <1>10 DEF LockIncoming, IInv, StatementOfOp
  <2>2. holder'[RequestLock(p)] = w \/ req'[p] = NoRow
    BY <1>3, <1>5, <1>7, <2>1, LockFacts DEF Knows, OutgoingStaysAbsent, Holds, dbVars
  <2>3. c.op \notin {"unfriend", "unblock", "accept"}
    BY <1>4, <2>1
  <2>4. Knows(w)'
    BY <1>7, <2>1, <2>2, <2>3 DEF Knows, NoRowYet, DeletedRowsThere, MarkedRowsKept,
       OutgoingStaysAbsent, StaysUnblocked, NotFriendsYet, Holds
  <2> QED
    BY <1>6, <2>1, <2>4
<1>11. CASE Delete(w)
  <2>1. Take(w, "mark") /\ pc[w] = "delete"
    BY <1>11 DEF Delete
  <2>2. \A q \in Pairs : RequestLock(q) \notin Wants(w)
    BY <1>3, <2>1, LocksDiffer DEF Wants
  <2>3. NoRowYet(w)'
    BY <1>5, <1>7, <2>1, <2>2, LockFacts DEF Knows, NoRowYet, Holds
  <2>4. DeletedRowsThere(w)'
    <3>1. CASE c.op = "unfriend"
      <4>1. Both(p) \subseteq friend /\ p \in Both(p)
        BY <1>11, <3>1 DEF Delete, Both
      <4>2. FriendLock(p) \in Wants(w)
        BY <1>3, <2>1, <3>1, <4>1, LockFacts DEF Wants
      <4> QED
        BY <1>3, <1>7, <2>1, <3>1, <4>1, <4>2, LockFacts DEF DeletedRowsThere, Holds, dbVars
    <3>2. CASE c.op = "unblock"
      <4>1. p \in block
        BY <1>11, <3>2 DEF Delete
      <4>2. BlockLock(p) \in Wants(w)
        BY <1>3, <2>1, <3>2, <4>1, LockFacts DEF Wants
      <4> QED
        BY <1>3, <1>7, <2>1, <3>2, <4>1, <4>2, LockFacts DEF DeletedRowsThere, Holds, dbVars
    <3> QED
      BY <1>7, <1>11, <2>1, <3>1, <3>2 DEF Delete, IInv, StatementOfOp
  <2>5. Knows(w)'
    BY <1>7, <2>1, <2>3, <2>4 DEF Knows, MarkedRowsKept, OutgoingStaysAbsent, StaysUnblocked, NotFriendsYet
  <2> QED
    BY <1>6, <2>1, <2>5
<1>12. CASE Mark(w)
  <2>1. Take(w, "commit") /\ pc[w] = "mark" /\ c.op \in {"unfriend", "unblock"}
    BY <1>12 DEF Mark, IInv, StatementOfOp
  <2>2. DeletedRowsThere(w)'
    BY <1>3, <1>5, <1>7, <2>1, LockFacts DEF Knows, DeletedRowsThere, Holds, dbVars
  <2>3. ASSUME NEW q \in Pairs, holder'[RequestLock(q)] = w
        PROVE  q \in MarkedRows(c)
    <3>1. RequestLock(q) \in Wants(w)
      BY <1>5, <1>7, <2>1, <2>3, LockFacts DEF Knows, NoRowYet, Holds
    <3>2. PICK r \in MarkedRows(c) : RequestLock(q) = RequestLock(r)
      BY <2>1, <3>1 DEF Wants
    <3>3. r \in Pairs
      BY <1>3 DEF MarkedRows
    <3> QED
      BY <3>2, <3>3, LocksDiffer
  <2>4. MarkedRowsKept(w)'
    BY <1>7, <2>1, <2>3 DEF MarkedRowsKept, MarkedRows, Holds, Pending, dbVars
  <2>5. c.op \notin PairFirstOps /\ c.op # "accept"
    BY <1>4, <2>1
  <2>6. Knows(w)'
    BY <1>7, <2>1, <2>2, <2>4, <2>5 DEF Knows, NoRowYet, OutgoingStaysAbsent, StaysUnblocked, NotFriendsYet
  <2> QED
    BY <1>6, <2>1, <2>6
<1> QED
  BY <1>8, <1>9, <1>10, <1>11, <1>12

-----------------------------------------------------------------------------
\* Each commit is a step of FriendGraph that writes what it holds.

\* The rows of request rows whose status is set keep their ids.
LEMMA SetStatusKeepsIds ==
  ASSUME IInv, CommitInv, NEW P, NEW s, req' = SetStatus(P, s), nextId' = nextId
  PROVE  IdsUsed' /\ \A q \in Pairs : q \notin P => req'[q] = req[q]
<1>1. \A q \in Pairs : req[q] \in Rows \cup {NoRow}
  BY DEF IInv, TypeOK
<1>2. \A q \in Pairs : req'[q].id = req[q].id
  BY <1>1 DEF SetStatus, Rows, NoRow
<1> QED
  BY <1>2 DEF SetStatus, CommitInv, IdsUsed

\* The mutual request: both agents asked, so they meet.
LEMMA SendMutualImplements ==
  ASSUME IInv, CommitInv, NEW w \in Workers, SendMutual(w)
  PROVE  Meet(call[w].pair) /\ WritesWhatItHolds(w) /\ IdsUsed'
<1> DEFINE p == call[w].pair
<1>1. p \in Pairs /\ Flip(p) \in Pairs
  BY CallPair DEF SendMutual, AtCommit
<1>2. Pending(Flip(p)) /\ holder[RequestLock(Flip(p))] = w
  BY NoRowFacts DEF SendMutual, Seen, Holds, Pending
<1>3. /\ req' = SetStatus({Flip(p)}, "accepted") /\ friend' = friend \cup Both(p)
      /\ UNCHANGED <<block, nextId>>
  BY DEF SendMutual
<1>4. Befriend(p, {Flip(p)}) /\ {Flip(p)} \in SUBSET Both(p)
  BY <1>2, <1>3 DEF Befriend, Both
<1>5. Meet(p)
  BY <1>4 DEF Meet
<1>6. IdsUsed' /\ \A q \in Pairs : q # Flip(p) => req'[q] = req[q]
  BY <1>3, SetStatusKeepsIds
<1>7. \A q \in Both(p) : holder[PairLock(q)] = w
  BY <1>1, BothLocks DEF SendMutual, AtCommit, IInv, PairLockHeld, InPair, Holds
<1> QED
  BY <1>2, <1>3, <1>5, <1>6, <1>7 DEF WritesWhatItHolds

\* The welcome of a new agent, unless there is nothing to do.
LEMMA WelcomeImplements ==
  ASSUME IInv, CommitInv, NEW w \in Workers, WelcomeCommit(w), ~GiveUp(w)
  PROVE  Meet(call[w].pair) /\ WritesWhatItHolds(w) /\ IdsUsed'
<1> DEFINE p == call[w].pair
           P == {q \in Both(p) : Seen(w, q).status = "pending"}
<1>1. p \in Pairs /\ Both(p) \subseteq Pairs
  BY CallPair DEF WelcomeCommit, AtCommit
<1>2. \A q \in P : Pending(q) /\ holder[RequestLock(q)] = w
  BY NoRowFacts DEF Seen, Holds, Pending
<1>3. /\ req' = SetStatus(P, "accepted") /\ friend' = friend \cup Both(p)
      /\ UNCHANGED <<block, nextId>>
  BY DEF WelcomeCommit
<1>4. P \subseteq Both(p)
  OBVIOUS
<1>5. IdsUsed' /\ \A q \in Pairs : q \notin P => req'[q] = req[q]
  BY <1>3, SetStatusKeepsIds
<1> HIDE DEF P
<1>6. Meet(p)
  BY <1>2, <1>3, <1>4 DEF Meet, Befriend
<1>7. \A q \in Both(p) : holder[PairLock(q)] = w
  BY <1>1, BothLocks DEF WelcomeCommit, AtCommit, IInv, PairLockHeld, InPair, Holds
<1> QED
  BY <1>2, <1>3, <1>5, <1>6, <1>7 DEF WritesWhatItHolds

\* The new request: none is pending in either direction.
LEMMA SendPendingImplements ==
  ASSUME IInv, CommitInv, NEW w \in Workers, SendPending(w)
  PROVE  Ask(call[w].pair) /\ WritesWhatItHolds(w) /\ IdsUsed'
<1> DEFINE p == call[w].pair
<1>1. pc[w] = "commit" /\ call[w].op = "send"
  BY DEF SendPending, AtCommit
<1>2. p \in Pairs /\ Flip(p) \in Pairs
  BY <1>1, CallPair
<1>3. holder[PairLock(p)] = w
  BY <1>1 DEF IInv, PairLockHeld, InPair, Holds
<1>4. holder[RequestLock(p)] = w \/ req[p] = NoRow
  BY DEF SendPending, Seen, Holds
<1>5. ~Pending(p)
  BY <1>4, NoRowFacts DEF SendPending, Seen, Holds, Pending
<1>6. ~Pending(Flip(p))
  <2>1. CASE Holds(w, RequestLock(Flip(p)))
    BY <2>1 DEF SendPending, Seen, Pending
  <2>2. CASE ~Holds(w, RequestLock(Flip(p)))
    BY <1>1, <2>2, NoRowFacts DEF IInv, NotFoundStaysNotFound, PairFirstOps, Pending
  <2> QED
    BY <2>1, <2>2
<1>7. /\ nextId <= MaxRequests /\ nextId' = nextId + 1 /\ UNCHANGED <<friend, block>>
      /\ req' = [req EXCEPT ![p] = [id |-> nextId, status |-> "pending"]]
  BY DEF SendPending
<1>8. Ask(p)
  BY <1>5, <1>6, <1>7 DEF Ask
<1>9. req'[p].id = nextId /\ \A q \in Pairs : q # p => req'[q] = req[q]
  BY <1>2, <1>7 DEF IInv, TypeOK
<1>10. IdsUsed'
  <2>1. nextId \in Int /\ \A q \in Pairs : req[q].id \in Int
    BY MaxRequestsAssumption DEF IInv, TypeOK, Rows, NoRow
  <2> QED
    BY <1>7, <1>9, <2>1 DEF CommitInv, IdsUsed
<1> QED
  BY <1>3, <1>4, <1>7, <1>8, <1>9, <1>10 DEF WritesWhatItHolds

\* The answer to a pending request.
LEMMA HandleImplements ==
  ASSUME IInv, CommitInv, NEW w \in Workers, HandleCommit(w), ~GiveUp(w)
  PROVE  /\ \/ Accept(call[w].pair)
            \/ \E s \in {"rejected", "cancelled"} : Decline(call[w].pair, s)
         /\ WritesWhatItHolds(w) /\ IdsUsed'
<1> DEFINE p == call[w].pair
<1>1. pc[w] = "commit" /\ call[w].op \in HandleOps
  BY DEF HandleCommit, AtCommit
<1>2. p \in Pairs /\ Flip(p) \in Pairs
  BY <1>1, CallPair
<1>3. holder[RequestLock(p)] = w /\ Pending(p)
  BY <1>1 DEF IInv, JudgedPending, Holds
<1>4. req' = SetStatus({p}, Answer(call[w].op)) /\ UNCHANGED <<block, nextId>>
  BY DEF HandleCommit
<1>5. IdsUsed' /\ \A q \in Pairs : q # p => req'[q] = req[q]
  BY <1>4, SetStatusKeepsIds
<1>6. friend \subseteq friend'
  BY DEF HandleCommit
<1>9. \A q \in Both(p) : holder[PairLock(q)] = w
  BY <1>1, <1>2, BothLocks DEF HandleOps, IInv, PairLockHeld, InPair, Holds
<1>7. CASE call[w].op = "accept"
  <2>1. Both(p) \cap block = {}
    BY <1>1, <1>7 DEF CommitInv, Knows, StaysUnblocked
  <2>2. friend' = friend \cup Both(p)
    BY <1>7 DEF HandleCommit
  <2>3. req' = SetStatus({p}, "accepted")
    BY <1>4, <1>7 DEF Answer
  <2>4. Accept(p)
    BY <1>3, <1>4, <2>1, <2>2, <2>3 DEF Accept, Befriend, Both
  <2> QED
    BY <1>3, <1>4, <1>5, <1>6, <1>9, <2>2, <2>4 DEF WritesWhatItHolds
<1>8. CASE call[w].op # "accept"
  <2>1. Answer(call[w].op) \in {"rejected", "cancelled"} /\ friend' = friend
    BY <1>8 DEF Answer, HandleCommit
  <2>2. Decline(p, Answer(call[w].op))
    BY <1>3, <1>4, <2>1 DEF Decline
  <2> QED
    BY <1>3, <1>4, <1>5, <1>6, <2>1, <2>2 DEF WritesWhatItHolds
<1> QED
  BY <1>7, <1>8

\* The acceptance between agents who were friends when it looked.
LEMMA KeepImplements ==
  ASSUME IInv, CommitInv, NEW w \in Workers, AcceptBetweenFriends(w)
  PROVE  Confirm(call[w].pair) /\ WritesWhatItHolds(w) /\ IdsUsed'
<1> DEFINE p == call[w].pair
<1>1. pc[w] = "keep" /\ call[w].op = "accept" /\ call[w].op \in HandleOps
  BY DEF AcceptBetweenFriends, IInv, StatementOfOp, HandleOps
<1>2. holder[RequestLock(p)] = w /\ Pending(p)
  BY <1>1 DEF IInv, JudgedPending, Holds
<1>3. Both(p) \cap block = {}
  BY <1>1 DEF CommitInv, Knows, StaysUnblocked
<1>4. req' = SetStatus({p}, "accepted") /\ UNCHANGED <<friend, block, nextId>>
  BY DEF AcceptBetweenFriends
<1>5. IdsUsed' /\ \A q \in Pairs : q # p => req'[q] = req[q]
  BY <1>4, SetStatusKeepsIds
<1> QED
  BY <1>2, <1>3, <1>4, <1>5 DEF Confirm, WritesWhatItHolds

\* Both friend rows were there when they were deleted, and the marked requests
\* were accepted.
LEMMA UnfriendImplements ==
  ASSUME IInv, CommitInv, NEW w \in Workers, UnfriendCommit(w)
  PROVE  Unfriend(call[w].pair) /\ WritesWhatItHolds(w) /\ IdsUsed'
<1> DEFINE p == call[w].pair
           P == {q \in Both(p) : Holds(w, RequestLock(q))}
<1>1. pc[w] = "commit" /\ call[w].op = "unfriend" /\ Knows(w)
  BY DEF UnfriendCommit, AtCommit, CommitInv
<1>2. p \in Pairs /\ Both(p) \subseteq Pairs
  BY <1>1, CallPair
<1>3. Both(p) \subseteq friend /\ holder[FriendLock(p)] = w
  BY <1>1 DEF Knows, DeletedRowsThere, Holds
<1>4. \A q \in P : req[q].status = "accepted" /\ holder[RequestLock(q)] = w
  BY <1>1, <1>2 DEF Knows, MarkedRowsKept, Holds
<1>5. /\ friend' = friend \ Both(p) /\ req' = SetStatus(P, "unfriended")
      /\ UNCHANGED <<block, nextId>>
  BY DEF UnfriendCommit
<1>6. P \in SUBSET {q \in Both(p) : req[q].status = "accepted"}
  BY <1>4
<1>7. IdsUsed' /\ \A q \in Pairs : q \notin P => req'[q] = req[q]
  BY <1>5, SetStatusKeepsIds
<1>8. \A q \in Both(p) : holder[FriendLock(q)] = w
  BY <1>2, <1>3, BothLocks
<1> HIDE DEF P
<1>9. Unfriend(p)
  BY <1>3, <1>5, <1>6 DEF Unfriend
<1> QED
  BY <1>4, <1>5, <1>7, <1>8, <1>9 DEF WritesWhatItHolds

LEMMA UnblockImplements ==
  ASSUME IInv, CommitInv, NEW w \in Workers, UnblockCommit(w)
  PROVE  Unblock(call[w].pair) /\ WritesWhatItHolds(w) /\ IdsUsed'
<1> DEFINE p == call[w].pair
           P == {q \in {Flip(p)} : Holds(w, RequestLock(q))}
<1>1. pc[w] = "commit" /\ call[w].op = "unblock" /\ Knows(w)
  BY DEF UnblockCommit, AtCommit, CommitInv
<1>2. p \in Pairs /\ Flip(p) \in Pairs
  BY <1>1, CallPair
<1>3. p \in block /\ holder[BlockLock(p)] = w
  BY <1>1 DEF Knows, DeletedRowsThere, Holds
<1>4. \A q \in P : Pending(q) /\ holder[RequestLock(q)] = w
  BY <1>1, <1>2 DEF Knows, MarkedRowsKept, Holds
<1>5. /\ block' = block \ {p} /\ req' = SetStatus(P, "cancelled")
      /\ UNCHANGED <<friend, nextId>>
  BY DEF UnblockCommit
<1>6. P \in SUBSET {q \in {Flip(p)} : Pending(q)}
  BY <1>4
<1>7. IdsUsed' /\ \A q \in Pairs : q \notin P => req'[q] = req[q]
  BY <1>5, SetStatusKeepsIds
<1> HIDE DEF P
<1>8. Unblock(p)
  BY <1>3, <1>5, <1>6 DEF Unblock
<1> QED
  BY <1>3, <1>4, <1>5, <1>7, <1>8 DEF WritesWhatItHolds

\* The block sees every request of the pair: what it did not find is not there.
LEMMA BlockImplements ==
  ASSUME IInv, CommitInv, NEW w \in Workers, BlockCommit(w), ~GiveUp(w)
  PROVE  Block(call[w].pair) /\ WritesWhatItHolds(w) /\ IdsUsed'
<1> DEFINE p == call[w].pair
<1>1. pc[w] = "commit" /\ call[w].op = "block" /\ Knows(w) /\ CanStep(w)
  BY DEF BlockCommit, AtCommit, CommitInv
<1>2. p \in Pairs /\ Flip(p) \in Pairs /\ Both(p) \subseteq Pairs
  BY <1>1, CallPair
<1>3. holder[PairLock(p)] = w
  BY <1>1 DEF IInv, PairLockHeld, InPair, Holds
<1>4. holder[FriendLock(p)] \in {w, Nobody}
  <2>1. FriendLock(p) \in Wants(w)
    BY <1>1, <1>2, LockFacts DEF Wants
  <2> QED
    BY <1>1, <2>1 DEF CanStep, BlockedBy
<1>5. \A q \in Both(p) : Holds(w, RequestLock(q)) \/ req[q] = NoRow
  BY <1>1 DEF Both, Knows, OutgoingStaysAbsent, PairFirstOps, IInv, NotFoundStaysNotFound
<1>6. \A q \in Both(p) : Seen(w, q) = req[q]
  BY <1>5 DEF Seen
<1>7. /\ p \notin block /\ block' = block \cup {p} /\ friend' = friend \ Both(p)
      /\ nextId' = nextId
      /\ req' = [q \in Pairs |->
                   IF q \in Both(p) /\ Seen(w, q).status = "pending"
                   THEN [req[q] EXCEPT !.status = "cancelled"]
                   ELSE IF q \in Both(p) /\ Seen(w, q).status = "accepted"
                   THEN [req[q] EXCEPT !.status = "unfriended"]
                   ELSE req[q]]
  BY DEF BlockCommit
<1>8. req' = [q \in Pairs |->
                IF q \in Both(p) /\ req[q].status = "pending"
                THEN [req[q] EXCEPT !.status = "cancelled"]
                ELSE IF q \in Both(p) /\ req[q].status = "accepted"
                THEN [req[q] EXCEPT !.status = "unfriended"]
                ELSE req[q]]
  BY <1>6, <1>7
<1>9. Block(p)
  BY <1>7, <1>8 DEF Block
<1>10. \A q \in Pairs : req[q] \in Rows \cup {NoRow}
  BY DEF IInv, TypeOK
<1>11. \A q \in Pairs : req'[q].id = req[q].id
  BY <1>8, <1>10 DEF Rows, NoRow
<1>12. IdsUsed'
  BY <1>7, <1>11 DEF CommitInv, IdsUsed
<1>13. \A q \in Pairs : req'[q] # req[q] => holder[RequestLock(q)] = w
  BY <1>5, <1>8, NoRowFacts DEF Holds
<1>14. \A q \in Both(p) : holder[FriendLock(q)] \in {w, Nobody}
  BY <1>2, <1>4, BothLocks
<1> QED
  BY <1>3, <1>7, <1>9, <1>12, <1>13, <1>14 DEF WritesWhatItHolds

-----------------------------------------------------------------------------
\* The steps of FriendGraph but Confirm.
GraphNextBut ==
  \E p \in Pairs :
    \/ Ask(p) \/ Accept(p) \/ Meet(p) \/ Unfriend(p) \/ Block(p) \/ Unblock(p)
    \/ \E s \in {"rejected", "cancelled"} : Decline(p, s)

\* Every statement is a step of FriendGraph or a stutter, and keeps CommitInv.
LEMMA StepImplements ==
  ASSUME IInv, CommitInv, NEW w \in Workers,
         Arrive(w) \/ Statement(w) \/ Fail(w) \/ DeadlockVictim(w)
  PROVE  /\ \/ UNCHANGED dbVars
            \/ GraphNextBut
            \/ AcceptBetweenFriends(w) /\ call[w].pair \in Pairs /\ Confirm(call[w].pair)
         /\ CommitInv'
<1> DEFINE p == call[w].pair
<1>1. CASE GiveUp(w)
  BY <1>1, GiveUpKnows DEF GiveUp
<1> SUFFICES ASSUME ~GiveUp(w)
             PROVE  /\ \/ UNCHANGED dbVars
                       \/ GraphNextBut
                       \/ AcceptBetweenFriends(w) /\ p \in Pairs /\ Confirm(p)
                    /\ CommitInv'
  BY <1>1
<1>2. ~Fail(w) /\ ~DeadlockVictim(w) /\ ~SendRefused(w)
  BY DEF Fail, DeadlockVictim, SendRefused
<1>3. CASE Arrive(w) \/ CheckBlocking(w) \/ CheckBlocked(w) \/ CheckFriend(w)
  <2>1. UNCHANGED dbVars
    BY <1>3 DEF Arrive, CheckBlocking, CheckBlocked, CheckFriend, Goto
  <2> QED
    BY <1>3, <2>1, EarlyKnows
<1>4. CASE Judge(w) \/ IsFriend(w)
  <2>1. UNCHANGED dbVars
    BY <1>4 DEF Judge, IsFriend, Goto
  <2> QED
    BY <1>4, <2>1, JudgeKnows, IsFriendKnows
<1>5. CASE \/ LockRelationPair(w) \/ LockOutgoing(w) \/ LockIncoming(w)
           \/ LockRequest(w) \/ Delete(w) \/ Mark(w)
  <2>1. UNCHANGED dbVars
    BY <1>5 DEF LockRelationPair, LockOutgoing, LockIncoming, LockRequest, Delete, Mark, Take
  <2> QED
    BY <1>5, <2>1, LockKnows
<1>6. CASE \/ SendMutual(w) \/ WelcomeCommit(w) \/ SendPending(w) \/ HandleCommit(w)
           \/ UnfriendCommit(w) \/ UnblockCommit(w) \/ BlockCommit(w)
  <2>1. p \in Pairs /\ Finish(w)
    BY <1>6, CallPair DEF SendMutual, WelcomeCommit, SendPending, HandleCommit, UnfriendCommit,
                          UnblockCommit, BlockCommit, AtCommit
  <2>2. WritesWhatItHolds(w) /\ IdsUsed'
    BY <1>6, SendMutualImplements, WelcomeImplements, SendPendingImplements, HandleImplements,
       UnfriendImplements, UnblockImplements, BlockImplements
  <2>3. \/ Ask(p) \/ Accept(p) \/ Meet(p) \/ Unfriend(p) \/ Block(p) \/ Unblock(p)
        \/ \E s \in {"rejected", "cancelled"} : Decline(p, s)
    BY <1>6, SendMutualImplements, WelcomeImplements, SendPendingImplements, HandleImplements,
       UnfriendImplements, UnblockImplements, BlockImplements
  <2>4. GraphNextBut
    BY <2>1, <2>3 DEF GraphNextBut
  <2> QED
    BY <2>1, <2>2, <2>4, FinishKnows
<1>7. CASE AcceptBetweenFriends(w)
  <2>1. p \in Pairs /\ Finish(w)
    BY <1>7, CallPair DEF AcceptBetweenFriends
  <2> QED
    BY <1>7, <2>1, KeepImplements, FinishKnows
<1> QED
  BY <1>2, <1>3, <1>4, <1>5, <1>6, <1>7 DEF Statement

LEMMA NextImplements ==
  IInv /\ CommitInv /\ [Next]_vars => [GraphNext]_dbVars /\ CommitInv'
<1> SUFFICES ASSUME IInv, CommitInv, [Next]_vars
             PROVE  [GraphNext]_dbVars /\ CommitInv'
  OBVIOUS
<1>1. CASE UNCHANGED vars
  BY <1>1 DEF vars, dbVars, CommitInv, IdsUsed, Knows, NoRowYet, DeletedRowsThere,
     MarkedRowsKept, OutgoingStaysAbsent, StaysUnblocked, NotFriendsYet, Holds, Pending
<1>2. CASE Next
  BY <1>2, StepImplements DEF Next, GraphNext, GraphNextBut
<1> QED
  BY <1>1, <1>2

\* What a call has locked, or read under a lock every writer takes, is true until it
\* commits.
THEOREM CommitInvariance == Spec => []CommitInv
<1>1. Init => CommitInv
  BY InitCommitInv
<1>2. IInv /\ CommitInv /\ [Next]_vars => CommitInv'
  BY NextImplements
<1> QED
  BY <1>1, <1>2, Invariance, PTL DEF Spec

\* The relation service with its transactions, locks, failures and deadlocks
\* implements the atomic FriendGraph.
THEOREM Refinement == Spec => GraphSpec
<1>1. Init => GraphInit
  BY DEF Init
<1>2. IInv /\ CommitInv /\ [Next]_vars => [GraphNext]_dbVars
  BY NextImplements
<1> QED
  BY <1>1, <1>2, Invariance, CommitInvariance, PTL DEF Spec, GraphSpec

-----------------------------------------------------------------------------
\* What follows for clients, from the steps of FriendGraph alone.

\* What a step of FriendGraph does to the row of a pair.
LEMMA GraphRows ==
  ASSUME TypeOK, GraphNext, NEW p \in Pairs
  PROVE  \/ req'[p] = req[p]
         \/ req'[p] = [id |-> nextId, status |-> "pending"]
         \/ /\ req[p].status = "pending"
            /\ \/ req'[p].status \in {"rejected", "cancelled"}
               \/ /\ req'[p].status = "accepted"
                  /\ GraphNextBut => Both(p) \subseteq friend'
         \/ req[p].status = "accepted" /\ req'[p].status = "unfriended"
<1>1. \A q \in Pairs : req[q] \in Rows \cup {NoRow}
  BY DEF TypeOK
<1>2. \A P, s : req' = SetStatus(P, s) =>
        \/ req'[p] = req[p]
        \/ p \in P /\ req'[p].status = s
  BY <1>1 DEF SetStatus, Rows, NoRow
<1>3. PICK q \in Pairs :
        \/ Ask(q) \/ Accept(q) \/ Meet(q) \/ Unfriend(q) \/ Block(q) \/ Unblock(q)
        \/ \E s \in {"rejected", "cancelled"} : Decline(q, s)
        \/ Confirm(q) /\ ~GraphNextBut
  BY DEF GraphNext, GraphNextBut
<1>10. CASE Confirm(q) /\ ~GraphNextBut
  BY <1>2, <1>10 DEF Confirm, Pending
<1>4. CASE Ask(q)
  BY <1>4 DEF Ask, TypeOK
<1>5. CASE Accept(q) \/ Meet(q)
  <2>1. PICK P \in SUBSET Both(q) : Befriend(q, P)
    BY <1>5 DEF Accept, Meet, Befriend
  <2>2. p \in P => req[p].status = "pending" /\ Both(p) = Both(q)
    BY <1>3, <2>1, FlipFacts DEF Befriend, Pending, Both
  <2>3. req' = SetStatus(P, "accepted") /\ friend' = friend \cup Both(q)
    BY <2>1 DEF Befriend
  <2> QED
    BY <1>2, <2>2, <2>3
<1>6. CASE \E s \in {"rejected", "cancelled"} : Decline(q, s)
  <2>1. PICK s \in {"rejected", "cancelled"} : Decline(q, s)
    BY <1>6
  <2> QED
    BY <1>2, <2>1 DEF Decline, Pending
<1>7. CASE Unfriend(q)
  <2>1. PICK P \in SUBSET {r \in Both(q) : req[r].status = "accepted"} :
          req' = SetStatus(P, "unfriended")
    BY <1>7 DEF Unfriend
  <2> QED
    BY <1>2, <2>1
<1>8. CASE Block(q)
  <2>1. \/ req'[p] = req[p]
        \/ req[p].status = "pending" /\ req'[p] = [req[p] EXCEPT !.status = "cancelled"]
        \/ req[p].status = "accepted" /\ req'[p] = [req[p] EXCEPT !.status = "unfriended"]
    BY <1>8 DEF Block
  <2> QED
    BY <1>1, <2>1 DEF Rows, NoRow
<1>9. CASE Unblock(q)
  <2>1. PICK P \in SUBSET {r \in {Flip(q)} : Pending(r)} : req' = SetStatus(P, "cancelled")
    BY <1>9 DEF Unblock
  <2> QED
    BY <1>2, <2>1 DEF Pending
<1> QED
  BY <1>3, <1>4, <1>5, <1>6, <1>7, <1>8, <1>9, <1>10

\* An id is answered once (UpdateRequestStatusIfPending and the locked reads).
THEOREM RequestsAnsweredOnce == Spec => RequestLifecycle
<1> DEFINE A == \A p \in Pairs :
       req'[p].id = req[p].id /\ req'[p].status # req[p].status =>
         \/ req[p].status = "pending" /\ req'[p].status \in {"accepted", "rejected", "cancelled"}
         \/ req[p].status = "accepted" /\ req'[p].status = "unfriended"
<1>1. IInv /\ CommitInv /\ [Next]_vars => [A]_vars
  <2> SUFFICES ASSUME IInv, CommitInv, [Next]_vars, NEW p \in Pairs,
                      req'[p].id = req[p].id, req'[p].status # req[p].status
               PROVE  \/ req[p].status = "pending"
                            /\ req'[p].status \in {"accepted", "rejected", "cancelled"}
                      \/ req[p].status = "accepted" /\ req'[p].status = "unfriended"
    OBVIOUS
  <2>1. GraphNext /\ TypeOK
    BY NextImplements DEF dbVars, IInv
  <2>2. req'[p] # [id |-> nextId, status |-> "pending"]
    <3>1. nextId \in Int /\ req[p].id < nextId
      BY MaxRequestsAssumption DEF IInv, TypeOK, CommitInv, IdsUsed
    <3>2. req[p].id \in Int
      BY MaxRequestsAssumption DEF IInv, TypeOK, Rows, NoRow
    <3> QED
      BY <3>1, <3>2
  <2> QED
    BY <2>1, <2>2, GraphRows
<1> QED
  BY <1>1, Invariance, CommitInvariance, PTL DEF Spec, RequestLifecycle

StepOf(w) == Arrive(w) \/ Statement(w) \/ Fail(w) \/ DeadlockVictim(w)

CommitOf(w) ==
  \/ SendMutual(w) \/ WelcomeCommit(w) \/ SendPending(w) \/ HandleCommit(w)
  \/ AcceptBetweenFriends(w)
  \/ UnfriendCommit(w) \/ UnblockCommit(w) \/ BlockCommit(w)

\* A step either leaves the tables alone or is a commit, and it is one call's.
LEMMA StepIsOwn ==
  ASSUME IInv, NEW w \in Workers, StepOf(w)
  PROVE  /\ \A v \in Workers \ {w} : pc'[v] = pc[v] /\ call'[v] = call[v]
         /\ \/ UNCHANGED dbVars
            \/ CommitOf(w) /\ ~GiveUp(w) /\ pc[w] \in {"commit", "keep"}
<1>1. CASE Arrive(w)
  BY <1>1 DEF Arrive, IInv, TypeOK, dbVars
<1>2. CASE Finish(w)
  <2>1. \/ UNCHANGED dbVars
        \/ CommitOf(w) /\ ~GiveUp(w) /\ pc[w] \in {"commit", "keep"}
    <3>1. CASE GiveUp(w)
      BY <3>1 DEF GiveUp
    <3>2. CASE ~GiveUp(w) /\ CommitOf(w)
      BY <3>2 DEF CommitOf, SendMutual, WelcomeCommit, SendPending, HandleCommit,
                  AcceptBetweenFriends, UnfriendCommit, UnblockCommit, BlockCommit, AtCommit
    <3>3. CASE ~GiveUp(w) /\ ~CommitOf(w)
      BY <3>3 DEF CommitOf, StepOf, Statement, Fail, DeadlockVictim, SendRefused, Arrive,
                  CheckBlocking, CheckBlocked, CheckFriend, Goto, LockRelationPair, IsFriend,
                  LockOutgoing, LockIncoming, LockRequest, Delete, Mark, Take, Judge
    <3> QED
      BY <3>1, <3>2, <3>3
  <2> QED
    BY <1>2, <2>1 DEF Finish, IInv, TypeOK
<1>3. CASE ~Arrive(w) /\ ~Finish(w)
  <2>1. \E l : Goto(w, l) \/ Take(w, l)
    BY <1>3 DEF StepOf, Statement, Fail, DeadlockVictim, SendRefused, GiveUp,
                CheckBlocking, CheckBlocked, CheckFriend, LockRelationPair, IsFriend,
                LockOutgoing, LockIncoming, LockRequest, Delete, Mark, Judge,
                SendMutual, WelcomeCommit, SendPending, HandleCommit,
                AcceptBetweenFriends, UnfriendCommit, UnblockCommit, BlockCommit
  <2> QED
    BY <2>1 DEF Goto, Take, IInv, TypeOK
<1> QED
  BY <1>1, <1>2, <1>3

\* A commit that accepts a request makes two friends, or found them.
LEMMA AcceptedStep ==
  ASSUME IInv, CommitInv, Next, NEW p \in Pairs,
         req[p].status # "accepted", req'[p].status = "accepted",
         ~(Both(p) \subseteq friend')
  PROVE  \E w \in Workers : pc[w] = "keep" /\ call[w].pair = p /\ pc'[w] = "idle"
<1>1. PICK w \in Workers : Arrive(w) \/ Statement(w) \/ Fail(w) \/ DeadlockVictim(w)
  BY DEF Next
<1>2. ~UNCHANGED dbVars /\ TypeOK
  BY DEF dbVars, IInv
<1>3. CASE GraphNextBut
  <2>1. GraphNext
    BY <1>3 DEF GraphNext, GraphNextBut
  <2>2. req'[p] # [id |-> nextId, status |-> "pending"] /\ req'[p] # req[p]
    OBVIOUS
  <2> QED
    BY <1>2, <1>3, <2>1, <2>2, GraphRows
<1>4. CASE AcceptBetweenFriends(w)
  <2>1. pc[w] = "keep" /\ pc'[w] = "idle"
    BY <1>4 DEF AcceptBetweenFriends, Finish, IInv, TypeOK
  <2>2. p = call[w].pair
    BY <1>4 DEF AcceptBetweenFriends, SetStatus
  <2> QED
    BY <2>1, <2>2
<1> QED
  BY <1>1, <1>2, <1>3, <1>4, StepImplements

\* An ACCEPT that found two friends knows no better until an Unfriend commits.
LEMMA KeptStep ==
  ASSUME IInv, CommitInv, Next, NEW w \in Workers, pc'[w] = "keep",
         ~(Both(call[w].pair) \subseteq friend')
  PROVE  /\ pc[w] = "keep"
         /\ \/ ~(Both(call[w].pair) \subseteq friend)
            \/ \E v \in Workers :
                 call[v].op = "unfriend" /\ pc[v] = "commit" /\ pc'[v] = "idle"
<1> DEFINE p == call[w].pair
<1>1. PICK v \in Workers : Arrive(v) \/ Statement(v) \/ Fail(v) \/ DeadlockVictim(v)
  BY DEF Next
<1>2. CASE v = w
  <2>1. ~GiveUp(w) /\ ~Finish(w)
    BY DEF GiveUp, Finish, IInv, TypeOK
  <2>2. IsFriend(w)
    BY <1>1, <1>2, <2>1 DEF Arrive, FirstStatement, Statement, Fail, DeadlockVictim,
       CheckBlocking, CheckBlocked, CheckFriend, Goto, LockRelationPair, AfterPairLock,
       LockOutgoing, LockIncoming, LockRequest, Delete, Mark, Take, SendMutual, SendPending,
       SendRefused, WelcomeCommit, Judge, HandleCommit, AcceptBetweenFriends, UnfriendCommit,
       UnblockCommit, BlockCommit, IInv, TypeOK
  <2>3. p \in friend /\ friend' = friend /\ pc[w] = "isFriend"
    BY <2>1, <2>2 DEF IsFriend, Goto, dbVars, IInv, TypeOK
  <2>4. Both(p) \subseteq friend
    BY <2>3 DEF IInv, FriendSymmetric, Both
  <2> QED
    BY <2>3, <2>4
<1>3. CASE v # w
  <2>1. pc[w] = "keep"
    BY <1>1, <1>3, StepIsOwn DEF StepOf
  <2> SUFFICES ASSUME Both(p) \subseteq friend
               PROVE  call[v].op = "unfriend" /\ pc[v] = "commit" /\ pc'[v] = "idle"
    BY <2>1
  <2>2. p \in Pairs /\ holder[PairLock(p)] = w
    BY <2>1, CallPair DEF IInv, PairLockHeld, InPair, Holds
  <2>3. friend' # friend /\ ~(friend \subseteq friend')
    OBVIOUS
  <2>4. BlockCommit(v) \/ UnfriendCommit(v)
    BY <1>1, <2>3 DEF Arrive, Statement, Fail, DeadlockVictim, GiveUp,
       CheckBlocking, CheckBlocked, CheckFriend, Goto, LockRelationPair,
       IsFriend, LockOutgoing, LockIncoming, LockRequest, Delete, Mark, Take, SendMutual,
       SendPending, SendRefused, WelcomeCommit, Judge, HandleCommit, AcceptBetweenFriends,
       UnblockCommit, dbVars
  <2>5. CASE BlockCommit(v)
    <3>1. /\ pc[v] = "commit" /\ call[v].op = "block"
          /\ friend' = friend \ Both(call[v].pair)
      BY <2>3, <2>5 DEF BlockCommit, AtCommit, GiveUp, dbVars
    <3>2. holder[PairLock(call[v].pair)] = v
      BY <3>1 DEF IInv, PairLockHeld, InPair, Holds
    <3>3. PICK q \in Both(p) : q \in Both(call[v].pair)
      BY <3>1
    <3>4. call[v].pair \in Pairs
      BY <3>1, CallPair
    <3>5. PairLock(p) = PairLock(call[v].pair)
      BY <2>2, <3>3, <3>4, BothLocks
    <3> QED
      BY <1>3, <2>2, <3>2, <3>5
  <2>6. CASE UnfriendCommit(v)
    BY <2>6 DEF UnfriendCommit, AtCommit, Finish, IInv, TypeOK
  <2> QED
    BY <2>4, <2>5, <2>6
<1> QED
  BY <1>2, <1>3

\* A request is accepted between two who are friends then, or were when ACCEPT looked.
THEOREM AcceptancesBefriend == Spec => AcceptanceBefriends
<1> DEFINE A ==
      /\ \A p \in Pairs :
           req[p].status # "accepted" /\ req'[p].status = "accepted" =>
             \/ Both(p) \subseteq friend'
             \/ \E w \in Workers : pc[w] = "keep" /\ call[w].pair = p /\ pc'[w] = "idle"
      /\ \A w \in Workers :
           LET p == call[w].pair
           IN pc'[w] = "keep" =>
                \/ Both(p) \subseteq friend'
                \/ /\ pc[w] = "keep"
                   /\ \/ ~(Both(p) \subseteq friend)
                      \/ \E v \in Workers :
                           call[v].op = "unfriend" /\ pc[v] = "commit" /\ pc'[v] = "idle"
<1>1. IInv /\ CommitInv /\ [Next]_vars => [A]_vars
  BY AcceptedStep, KeptStep
<1> QED
  BY <1>1, Invariance, CommitInvariance, PTL DEF Spec, AcceptanceBefriends

\* A block leaves no friendship and no live request, whatever commits around it.
THEOREM BlocksCutTies == Spec => BlockCutsTies
<1> DEFINE A == \A p \in block' \ block :
       /\ Both(p) \cap friend' = {}
       /\ \A q \in Both(p) : req'[q].status \notin {"pending", "accepted"}
<1>1. IInv /\ CommitInv /\ [Next]_vars => [A]_vars
  <2> SUFFICES ASSUME IInv, CommitInv, [Next]_vars, NEW p \in block' \ block
               PROVE  /\ Both(p) \cap friend' = {}
                      /\ \A q \in Both(p) : req'[q].status \notin {"pending", "accepted"}
    OBVIOUS
  <2>1. GraphNext
    BY NextImplements DEF dbVars
  <2>2. PICK r \in Pairs : Block(r)
    BY <2>1 DEF GraphNext, Ask, Accept, Confirm, Meet, Befriend, Decline, Unfriend, Unblock
  <2>3. p = r /\ Both(p) \subseteq Pairs
    BY <2>2, FlipFacts DEF Block
  <2>4. \A q \in Both(p) : req[q] \in Rows \cup {NoRow}
    BY <2>3 DEF IInv, TypeOK
  <2>5. ASSUME NEW q \in Both(p) PROVE req'[q].status \notin {"pending", "accepted"}
    <3>1. \/ req[q].status = "pending" /\ req'[q] = [req[q] EXCEPT !.status = "cancelled"]
          \/ req[q].status = "accepted" /\ req'[q] = [req[q] EXCEPT !.status = "unfriended"]
          \/ req[q].status \notin {"pending", "accepted"} /\ req'[q] = req[q]
      BY <2>2, <2>3 DEF Block
    <3> QED
      BY <2>4, <3>1 DEF Rows, NoRow
  <2> QED
    BY <2>2, <2>3, <2>5 DEF Block
<1> QED
  BY <1>1, Invariance, CommitInvariance, PTL DEF Spec, BlockCutsTies

\* HandleFriendRequest never accepts across a block.
THEOREM NoAcceptancesAcrossBlocks == Spec => NoAcceptAcrossBlock
<1> DEFINE A == \A w \in Workers :
       call[w].op = "accept" /\ friend' # friend /\ pc'[w] # pc[w] =>
         Both(call[w].pair) \cap block = {}
<1>1. IInv /\ CommitInv /\ [Next]_vars => [A]_vars
  <2> SUFFICES ASSUME IInv, CommitInv, Next, NEW w \in Workers,
                      call[w].op = "accept", friend' # friend, pc'[w] # pc[w]
               PROVE  Both(call[w].pair) \cap block = {}
    BY DEF vars
  <2>1. PICK v \in Workers : Arrive(v) \/ Statement(v) \/ Fail(v) \/ DeadlockVictim(v)
    BY DEF Next
  <2>2. \/ SendMutual(v) \/ WelcomeCommit(v) \/ HandleCommit(v)
        \/ UnfriendCommit(v) \/ BlockCommit(v)
    BY <2>1 DEF Arrive, Statement, Fail, DeadlockVictim, GiveUp, CheckBlocking, CheckBlocked,
       CheckFriend, Goto, LockRelationPair, IsFriend, LockOutgoing, LockIncoming, LockRequest,
       Delete, Mark, Take, SendPending, SendRefused, Judge, AcceptBetweenFriends,
       UnblockCommit, dbVars
  <2>3. pc[v] = "commit" /\ \A u \in Workers : u # v => pc'[u] = pc[u]
    BY <2>2 DEF SendMutual, WelcomeCommit, HandleCommit, UnfriendCommit, BlockCommit, AtCommit,
       GiveUp, Finish, IInv, TypeOK
  <2> QED
    BY <2>3 DEF CommitInv, Knows, StaysUnblocked
<1> QED
  BY <1>1, Invariance, CommitInvariance, PTL DEF Spec, NoAcceptAcrossBlock

-----------------------------------------------------------------------------
\* Deadlocks.

LEMMA OwnLocks ==
  ASSUME NEW p \in Pairs
  PROVE  {PairLock(p), FriendLock(p), RequestLock(p), BlockLock(p),
          RequestLock(Flip(p)), BlockLock(Flip(p))} \subseteq LocksOf(p)
BY DEF LocksOf, Both

\* A lock belongs to one pair of agents.
LEMMA LocksOfOnePair ==
  ASSUME NEW p \in Pairs, NEW q \in Pairs, NEW l \in LocksOf(p), l \in LocksOf(q)
  PROVE  PairLock(p) = PairLock(q)
<1>1. PICK k \in {"pair", "friend", "request", "block"} : l[1] = k
  BY DEF LocksOf, PairLock, FriendLock, RequestLock, BlockLock
<1>2. CASE k \in {"pair", "friend"}
  BY <1>1, <1>2 DEF LocksOf, PairLock, FriendLock, RequestLock, BlockLock
<1>3. CASE k \in {"request", "block"}
  <2>1. /\ \E r \in Both(p) : l[2] = r
        /\ \E r \in Both(q) : l[2] = r
    BY <1>1, <1>3 DEF LocksOf, PairLock, FriendLock, RequestLock, BlockLock
  <2>2. Both(p) \cap Both(q) # {}
    BY <2>1
  <2>3. PICK r \in Both(p) : r \in Both(q)
    BY <2>2
  <2>4. /\ {p[1], p[2]} = {r[1], r[2]}
        /\ {q[1], q[2]} = {r[1], r[2]}
    BY <2>3 DEF Both, Flip, Pairs
  <2> QED
    BY <2>4 DEF PairLock
<1> QED
  BY <1>2, <1>3

\* What a call that starts with the pair lock waits for is a lock of its pair, and
\* before it has the pair lock it waits for nothing else.
LEMMA PairFirstWants ==
  ASSUME IInv, NEW w \in Workers, pc[w] # "idle", call[w].op \in PairFirstOps,
         NEW l \in Wants(w)
  PROVE  /\ l \in LocksOf(call[w].pair)
         /\ (pc[w] = "pair" /\ l = PairLock(call[w].pair)) \/ InPair(w)
<1>1. call[w].pair \in Pairs
  BY DEF IInv, StatementOfOp, Calls
<1>2. call[w].op \notin {"unfriend", "unblock"} /\ call[w].op \notin HandleOps
  BY DEF PairFirstOps, HandleOps
<1>3. pc[w] \notin {"row", "delete", "mark"}
  BY <1>2 DEF IInv, StatementOfOp
<1>4. \/ pc[w] = "pair" /\ l = PairLock(call[w].pair)
      \/ pc[w] = "out" /\ l = RequestLock(call[w].pair)
      \/ pc[w] = "in" /\ l = RequestLock(Flip(call[w].pair))
      \/ pc[w] = "commit" /\ l \in {BlockLock(call[w].pair), FriendLock(call[w].pair)}
  BY <1>3 DEF Wants
<1> QED
  BY <1>1, <1>2, <1>4, OwnLocks DEF InPair

LEMMA IdleTakesNothing ==
  ASSUME NEW w \in Workers, pc[w] = "idle" PROVE Wants(w) = {}
BY DEF Wants

\* A step by w that leaves the others and their locks alone keeps PairLockFirst if
\* what w holds afterwards obeys it.
LEMMA PairFirstLocal ==
  ASSUME PairLockFirst, NEW w \in Workers,
         \A v \in Workers : v # w => pc'[v] = pc[v] /\ call'[v] = call[v],
         \A v \in Workers \ {w}, k \in Locks : holder'[k] = v <=> holder[k] = v,
         \A k \in Locks : holder'[k] = w =>
           /\ pc'[w] # "idle"
           /\ call'[w].op \in PairFirstOps => InPair(w)' /\ k \in LocksOf(call'[w].pair)
  PROVE  PairLockFirst'
<1> SUFFICES ASSUME NEW v \in Workers, NEW k \in Locks, holder'[k] = v
             PROVE  /\ pc'[v] # "idle"
                    /\ call'[v].op \in PairFirstOps => InPair(v)' /\ k \in LocksOf(call'[v].pair)
  BY DEF PairLockFirst, Holds, LocksOf, PairLock, FriendLock, RequestLock, BlockLock, Both, Flip
<1>1. CASE v = w
  BY <1>1
<1>2. CASE v # w
  BY <1>2 DEF PairLockFirst, Holds, InPair
<1> QED
  BY <1>1, <1>2

LEMMA FinishPairFirst ==
  ASSUME IInv, PairLockFirst, NEW w \in Workers, Finish(w)
  PROVE  PairLockFirst'
<1>1. \A v \in Workers : v # w => pc'[v] = pc[v] /\ call'[v] = call[v]
  BY DEF Finish, IInv, TypeOK
<1>2. \A k \in Locks : holder'[k] # w
  BY FinishLocks, NobodyAssumption
<1>3. \A v \in Workers \ {w}, k \in Locks : holder'[k] = v <=> holder[k] = v
  BY FinishLocks
<1> QED
  BY <1>1, <1>2, <1>3, PairFirstLocal

\* A statement after which the call is past the pair lock, or that takes nothing.
LEMMA MovePairFirst ==
  ASSUME IInv, PairLockFirst, NEW w \in Workers, pc[w] # "idle", NEW l, l # "idle",
         Goto(w, l) \/ Take(w, l),
         call[w].op \in PairFirstOps => l \in {"isFriend", "out", "in", "commit"} \/ Goto(w, l),
         InPair(w) => l \in {"isFriend", "out", "in", "judge", "keep", "commit"}
  PROVE  PairLockFirst'
<1>1. /\ \A v \in Workers : v # w => pc'[v] = pc[v] /\ call'[v] = call[v]
      /\ pc'[w] = l /\ call'[w] = call[w]
  BY DEF Goto, Take, IInv, TypeOK
<1>2. /\ \A v \in Workers \ {w}, k \in Locks : holder'[k] = v <=> holder[k] = v
      /\ \A k \in Locks : holder'[k] = w =>
           holder[k] = w \/ (k \in Wants(w) /\ Take(w, l))
  <2>1. CASE Goto(w, l)
    BY <2>1 DEF Goto
  <2>2. CASE Take(w, l)
    BY <2>2, TakeIsMove
  <2> QED
    BY <2>1, <2>2
<1>3. ASSUME NEW k \in Locks, holder'[k] = w, call[w].op \in PairFirstOps
      PROVE  InPair(w)' /\ k \in LocksOf(call[w].pair)
  <2>1. call[w].op \notin {"unfriend", "unblock"}
    BY <1>3 DEF PairFirstOps
  <2>2. CASE holder[k] = w
    <3>1. InPair(w) /\ k \in LocksOf(call[w].pair)
      BY <1>3, <2>2 DEF PairLockFirst, Holds
    <3> QED
      BY <1>1, <2>1, <3>1 DEF InPair
  <2>3. CASE holder[k] # w
    <3>1. k \in Wants(w) /\ Take(w, l)
      BY <1>2, <1>3, <2>3
    <3>2. k \in LocksOf(call[w].pair)
      BY <1>3, <3>1, PairFirstWants
    <3>3. l \in {"isFriend", "out", "in", "commit"}
      <4>1. CASE Goto(w, l)
        BY <1>3, <2>3, <4>1 DEF Goto
      <4>2. CASE ~Goto(w, l)
        BY <1>3, <4>2
      <4> QED
        BY <4>1, <4>2
    <3> QED
      BY <1>1, <2>1, <3>2, <3>3 DEF InPair
  <2> QED
    BY <2>2, <2>3
<1> QED
  BY <1>1, <1>2, <1>3, PairFirstLocal

LEMMA NextPairFirst == IInv /\ PairLockFirst /\ [Next]_vars => PairLockFirst'
<1> SUFFICES ASSUME IInv, PairLockFirst, [Next]_vars PROVE PairLockFirst'
  OBVIOUS
<1>1. CASE UNCHANGED vars
  BY <1>1 DEF vars, PairLockFirst, Holds, InPair, LocksOf, PairLock, FriendLock,
              RequestLock, BlockLock, Both, Flip
<1>2. CASE Next
  <2> SUFFICES ASSUME NEW w \in Workers,
                      Arrive(w) \/ Statement(w) \/ Fail(w) \/ DeadlockVictim(w)
               PROVE  PairLockFirst'
    BY <1>2 DEF Next
  <2>1. CASE Finish(w)
    BY <2>1, FinishPairFirst
  <2>2. CASE Arrive(w)
    <3>1. /\ pc[w] = "idle" /\ holder' = holder
          /\ \A v \in Workers : v # w => pc'[v] = pc[v] /\ call'[v] = call[v]
      BY <2>2 DEF Arrive, IInv, TypeOK
    <3>2. \A k \in Locks : holder[k] # w
      BY <3>1 DEF PairLockFirst, Holds
    <3> QED
      BY <3>1, <3>2, PairFirstLocal
  <2>3. CASE ~Finish(w) /\ ~Arrive(w)
    <3>1. \/ CheckBlocking(w) \/ CheckBlocked(w) \/ CheckFriend(w)
          \/ LockRelationPair(w) \/ IsFriend(w) \/ LockOutgoing(w) \/ LockIncoming(w)
          \/ LockRequest(w) \/ Delete(w) \/ Mark(w) \/ Judge(w)
      BY <2>3 DEF Statement, Fail, DeadlockVictim, GiveUp, SendMutual, SendPending,
                  SendRefused, WelcomeCommit, HandleCommit, AcceptBetweenFriends,
                  UnfriendCommit, UnblockCommit, BlockCommit
    <3>2. PairFirstOps \cap HandleOps = {} /\ {"unfriend", "unblock"} \cap PairFirstOps = {}
      BY DEF PairFirstOps, HandleOps
    <3>3. CASE CheckBlocking(w) \/ CheckBlocked(w) \/ CheckFriend(w)
      <4>1. PICK l \in {"checkBlocked", "checkFriend", "pair"} : Goto(w, l)
        BY <2>3, <3>3 DEF CheckBlocking, CheckBlocked, CheckFriend, GiveUp
      <4>2. pc[w] # "idle" /\ ~InPair(w)
        BY <3>3 DEF CheckBlocking, CheckBlocked, CheckFriend, InPair
      <4> QED
        BY <4>1, <4>2, MovePairFirst
    <3>4. CASE LockRelationPair(w)
      <4>1. pc[w] = "pair" /\ Take(w, AfterPairLock(call[w].op)) /\ ~InPair(w)
        BY <3>4 DEF LockRelationPair, InPair
      <4>2. /\ AfterPairLock(call[w].op) \in {"isFriend", "judge", "out"}
            /\ call[w].op \in PairFirstOps => AfterPairLock(call[w].op) \in {"isFriend", "out"}
        BY <3>2 DEF AfterPairLock
      <4> QED
        BY <4>1, <4>2, MovePairFirst
    <3>5. CASE LockRequest(w) \/ Delete(w) \/ Mark(w)
      <4>1. PICK l \in {"pair", "mark", "commit"} : Take(w, l)
        BY <2>3, <3>5 DEF LockRequest, Delete, Mark, GiveUp
      <4>2. pc[w] # "idle" /\ ~InPair(w)
        BY <3>5 DEF LockRequest, Delete, Mark, InPair
      <4>3. call[w].op \notin PairFirstOps
        BY <3>2, <3>5 DEF LockRequest, Delete, Mark, IInv, StatementOfOp
      <4> QED
        BY <4>1, <4>2, <4>3, MovePairFirst
    <3>6. CASE IsFriend(w) \/ LockOutgoing(w) \/ LockIncoming(w) \/ Judge(w)
      <4>1. PICK l \in {"out", "in", "isFriend", "keep", "commit"} :
              Goto(w, l) \/ (Take(w, l) /\ l \in {"in", "commit"})
        BY <2>3, <3>6 DEF IsFriend, LockOutgoing, LockIncoming, Judge, GiveUp
      <4>2. pc[w] # "idle"
        BY <3>6 DEF IsFriend, LockOutgoing, LockIncoming, Judge
      <4> QED
        BY <4>1, <4>2, MovePairFirst
    <3> QED
      BY <3>1, <3>3, <3>4, <3>5, <3>6
  <2> QED
    BY <2>1, <2>2, <2>3
<1> QED
  BY <1>1, <1>2

\* In a cycle of calls that all started with the pair lock, one past it waits for a
\* lock of its pair, which only the holder of that pair lock, itself, may have; and
\* one still before it waits for a call that is past it.
LEMMA NoCycleOfPairFirst ==
  ASSUME IInv, PairLockFirst, NEW D \in SUBSET Workers, Deadlock(D)
  PROVE  \E w \in D : call[w].op \notin PairFirstOps
<1> SUFFICES ASSUME \A w \in D : call[w].op \in PairFirstOps PROVE FALSE
  OBVIOUS
<1>1. ASSUME NEW w \in D
      PROVE  /\ pc[w] = "pair"
             /\ \E u \in D : InPair(u)
  <2>1. PICK l \in Wants(w) : holder[l] \in D /\ holder[l] # w
    BY <1>1 DEF Deadlock, BlockedBy
  <2> DEFINE u == holder[l]
  <2>2. w \in Workers /\ u \in Workers /\ l \in Locks /\ Holds(u, l)
    BY <1>1, <2>1 DEF Wants, Holds
  <2>3. pc[w] # "idle"
    BY <2>1, <2>2, IdleTakesNothing
  <2>4. /\ l \in LocksOf(call[w].pair)
        /\ pc[w] = "pair" \/ InPair(w)
    BY <1>1, <2>2, <2>3, PairFirstWants
  <2>5. pc[u] # "idle" /\ InPair(u) /\ l \in LocksOf(call[u].pair)
    BY <2>1, <2>2 DEF PairLockFirst
  <2>6. call[w].pair \in Pairs /\ call[u].pair \in Pairs
    BY <2>2, <2>3, <2>5 DEF IInv, StatementOfOp, Calls
  <2>7. PairLock(call[w].pair) = PairLock(call[u].pair)
    BY <2>4, <2>5, <2>6, LocksOfOnePair
  <2>8. ~InPair(w)
    <3>1. holder[PairLock(call[u].pair)] = u
      BY <2>2, <2>5 DEF IInv, PairLockHeld, Holds
    <3>2. InPair(w) => holder[PairLock(call[w].pair)] = w
      BY <2>2 DEF IInv, PairLockHeld, Holds
    <3> QED
      BY <2>1, <2>7, <3>1, <3>2
  <2> QED
    BY <2>1, <2>4, <2>5, <2>8
<1>2. D # {}
  BY DEF Deadlock
<1>3. PICK u \in D : InPair(u) /\ pc[u] = "pair"
  BY <1>1, <1>2
<1> QED
  BY <1>3 DEF InPair

\* PairLockFirst is inductive, with IInv.
LEMMA LocksHaveCalls == Spec => []PairLockFirst
<1>1. Init => PairLockFirst
  BY NobodyAssumption DEF Init, PairLockFirst, Holds
<1>2. IInv /\ PairLockFirst /\ [Next]_vars => PairLockFirst'
  BY NextPairFirst
<1> QED
  BY <1>1, <1>2, Invariance, PTL DEF Spec

\* However many calls run, those that start with LockRelationPair (SendFriendRequest,
\* BlockUser, the welcome) never deadlock among themselves (dal/relations.go:268).
THEOREM DeadlocksNeedARowFirst == Spec => []DeadlockNeedsRowFirst
<1>1. IInv /\ PairLockFirst => DeadlockNeedsRowFirst
  BY NoCycleOfPairFirst DEF DeadlockNeedsRowFirst
<1> QED
  BY <1>1, Invariance, LocksHaveCalls, PTL
-----------------------------------------------------------------------------
\* Who may change what: the caller of a request and the agents it names.

\* No step writes a request row another call has locked.
LEMMA StepKeepsLockedRows ==
  ASSUME IInv, CommitInv, NEW w \in Workers, StepOf(w),
         NEW v \in Workers \ {w}, NEW q \in Pairs, Holds(v, RequestLock(q))
  PROVE  req'[q] = req[q]
<1>1. WritesWhatItHolds(w)
  <2>1. CASE UNCHANGED dbVars
    BY <2>1, QuietStep
  <2>2. CASE CommitOf(w) /\ ~GiveUp(w)
    BY <2>2, SendMutualImplements, WelcomeImplements, SendPendingImplements, HandleImplements,
       KeepImplements, UnfriendImplements, UnblockImplements, BlockImplements DEF CommitOf
  <2> QED
    BY <2>1, <2>2, StepIsOwn
<1> QED
  BY <1>1, NobodyAssumption DEF WritesWhatItHolds, Holds, IInv, LockedRowsExist

LEMMA OthersAsked ==
  ASSUME IInv, CommitInv, AskedInv, NEW w \in Workers, StepOf(w), NEW v \in Workers \ {w}
  PROVE  AskedFor(v)'
<1> DEFINE c == call[v]
<1>1. AskedFor(v) /\ pc'[v] = pc[v] /\ call'[v] = c
  BY StepIsOwn DEF AskedInv
<1>2. ASSUME pc[v] \in {"pair", "judge"} \cup Judged, c.op \in HandleOps
      PROVE  req'[c.pair] = req[c.pair]
  <2>1. c.pair \in Pairs /\ Holds(v, RequestLock(c.pair))
    BY <1>2, CallPair DEF IInv, JudgedPending
  <2> QED
    BY <2>1, StepKeepsLockedRows
<1> QED
  BY <1>1, <1>2 DEF AskedFor, AnswersFor

\* The call that takes the step: where it goes on, it has compared what it must.
LEMMA OwnAsked ==
  ASSUME IInv, CommitInv, AskedInv, NEW w \in Workers, StepOf(w)
  PROVE  AskedFor(w)'
<1> DEFINE c == call[w]
<1>1. CASE Finish(w)
  <2>1. pc'[w] = "idle"
    BY <1>1 DEF Finish, IInv, TypeOK
  <2> QED
    BY <2>1 DEF AskedFor
<1>2. CASE Arrive(w)
  <2>1. PICK d \in Requests : call'[w] = d /\ pc'[w] = FirstStatement(d.op)
    BY <1>2 DEF Arrive, IInv, TypeOK
  <2>2. /\ FirstStatement(d.op) \notin {"judge"} \cup Judged
        /\ FirstStatement(d.op) = "pair" => d.op \notin HandleOps
    BY DEF FirstStatement, HandleOps
  <2> QED
    BY <2>1, <2>2 DEF AskedFor, Requests
<1>3. CASE ~Finish(w) /\ ~Arrive(w)
  <2>1. AskedFor(w) /\ pc[w] # "idle" => c.op \in AllOps
    BY CallPair DEF AskedInv, Calls
  <2>2. ASSUME NEW l, Goto(w, l) \/ Take(w, l), pc[w] # "idle",
               l \in {"pair", "judge"} \cup Judged /\ c.op \in HandleOps =>
                 req[c.pair].id = c.id,
               l \in Judged /\ c.op \in HandleOps => c.by = AnswersFor(c)
        PROVE  AskedFor(w)'
    <3>1. pc'[w] = l /\ call'[w] = c /\ req' = req
      BY <2>2 DEF Goto, Take, IInv, TypeOK, dbVars
    <3> QED
      BY <2>2, <3>1 DEF AskedInv, AskedFor, AnswersFor
  <2>3. {"send", "welcome", "unfriend", "unblock"} \cap HandleOps = {}
    BY DEF HandleOps
  <2>4. PairFirstOps \cap HandleOps = {}
    BY DEF PairFirstOps, HandleOps
  <2>5. CASE CheckBlocking(w) \/ CheckBlocked(w) \/ CheckFriend(w)
    <3>1. PICK l \in {"checkBlocked", "checkFriend", "pair"} : Goto(w, l)
      BY <1>3, <2>5 DEF CheckBlocking, CheckBlocked, CheckFriend, GiveUp
    <3>2. pc[w] # "idle" /\ c.op \notin HandleOps
      BY <2>3, <2>5 DEF CheckBlocking, CheckBlocked, CheckFriend, IInv, StatementOfOp
    <3> QED
      BY <2>2, <3>1, <3>2
  <2>6. CASE LockRelationPair(w)
    <3>1. pc[w] = "pair" /\ Take(w, AfterPairLock(c.op))
      BY <2>6 DEF LockRelationPair
    <3>2. AfterPairLock(c.op) \in Judged => c.op \notin HandleOps
      BY <2>3 DEF AfterPairLock
    <3> QED
      BY <2>2, <3>1, <3>2 DEF AskedInv, AskedFor
  <2>7. CASE LockRequest(w)
    <3>1. pc[w] = "row" /\ Take(w, "pair") /\ req[c.pair].id = c.id
      BY <1>3, <2>7 DEF LockRequest, GiveUp
    <3> QED
      BY <2>2, <3>1
  <2>8. CASE Judge(w)
    <3>1. pc[w] = "judge" /\ MayHandle(w) /\ \E l \in Judged : Goto(w, l)
      BY <1>3, <2>8 DEF Judge, GiveUp
    <3>2. c.op \in HandleOps => req[c.pair].id = c.id /\ c.by = AnswersFor(c)
      BY <3>1 DEF AskedInv, AskedFor, MayHandle, AnswersFor
    <3> QED
      BY <2>2, <3>1, <3>2
  <2>9. CASE LockOutgoing(w) \/ LockIncoming(w) \/ Delete(w) \/ Mark(w)
    <3>1. \E l : Take(w, l)
      BY <1>3, <2>9 DEF LockOutgoing, LockIncoming, Delete, Mark, GiveUp
    <3>2. pc[w] # "idle" /\ c.op \notin HandleOps
      BY <2>3, <2>4, <2>9 DEF LockOutgoing, LockIncoming, Delete, Mark, IInv, StatementOfOp
    <3> QED
      BY <2>2, <3>1, <3>2
  <2>10. CASE IsFriend(w)
    <3>1. pc[w] = "isFriend" /\ \E l : Goto(w, l)
      BY <1>3, <2>10 DEF IsFriend, GiveUp
    <3> QED
      BY <2>2, <3>1 DEF AskedInv, AskedFor
  <2> QED
    BY <1>3, <2>5, <2>6, <2>7, <2>8, <2>9, <2>10 DEF StepOf, Statement, Fail, DeadlockVictim,
       SendRefused, GiveUp, SendMutual, WelcomeCommit, SendPending, HandleCommit,
       AcceptBetweenFriends,
       UnfriendCommit, UnblockCommit, BlockCommit
<1> QED
  BY <1>1, <1>2, <1>3

LEMMA NextAsked == IInv /\ CommitInv /\ AskedInv /\ [Next]_vars => AskedInv'
<1> SUFFICES ASSUME IInv, CommitInv, AskedInv, [Next]_vars PROVE AskedInv'
  OBVIOUS
<1>1. CASE UNCHANGED vars
  BY <1>1 DEF vars, dbVars, AskedInv, AskedFor, AnswersFor
<1>2. CASE Next
  <2>1. PICK w \in Workers : StepOf(w)
    BY <1>2 DEF Next, StepOf
  <2>2. \A v \in Workers : AskedFor(v)'
    BY <2>1, OthersAsked, OwnAsked
  <2> QED
    BY <2>2 DEF AskedInv
<1> QED
  BY <1>1, <1>2

\* A call is about what it was let in with until it returns: in particular the request
\* HandleFriendRequest looked up by its id keeps that id, whatever waits it goes through.
THEOREM AskedInvariance == Spec => []AskedInv
<1>1. Init => AskedInv
  BY DEF Init, AskedInv, AskedFor
<1>2. IInv /\ CommitInv /\ AskedInv /\ [Next]_vars => AskedInv'
  BY NextAsked
<1> QED
  BY <1>1, <1>2, Invariance, CommitInvariance, PTL DEF Spec

\* An answer decides the request it names, once, and comes from the agent it is for.
THEOREM AnswersTheirRequest == Spec => AnswersTheRequest
<1> DEFINE A == \A w \in Workers :
       call[w].op \in HandleOps /\ req' # req /\ pc'[w] # pc[w] =>
         /\ req[call[w].pair].id = call[w].id
         /\ Pending(call[w].pair)
         /\ call[w].by = AnswersFor(call[w])
<1>1. IInv /\ AskedInv /\ [Next]_vars => [A]_vars
  <2> SUFFICES ASSUME IInv, AskedInv, Next, NEW w \in Workers,
                      call[w].op \in HandleOps, req' # req, pc'[w] # pc[w]
               PROVE  /\ req[call[w].pair].id = call[w].id
                      /\ Pending(call[w].pair)
                      /\ call[w].by = AnswersFor(call[w])
    BY DEF vars
  <2>1. PICK v \in Workers : StepOf(v)
    BY DEF Next, StepOf
  <2>2. v = w /\ pc[w] \in Judged
    BY <2>1, StepIsOwn DEF dbVars
  <2> QED
    BY <2>2 DEF AskedInv, AskedFor, IInv, JudgedPending
<1> QED
  BY <1>1, Invariance, AskedInvariance, PTL DEF Spec, AnswersTheRequest

\* A commit befriends only agents who both asked or accepted, or a new agent and the
\* official account; and only a call of its sender makes a request.
LEMMA CommitConsents ==
  ASSUME IInv, CommitInv, AskedInv, NEW w \in Workers, CommitOf(w), ~GiveUp(w)
  PROVE  /\ \A p \in friend' \ friend : p \in Both(call[w].pair) /\ Consented(w)
         /\ \A p \in Pairs : req'[p].id # req[p].id =>
              call[w].op = "send" /\ call[w].pair = p /\ call[w].by = p[1]
<1> DEFINE c == call[w]
           p == call[w].pair
<1>1. pc[w] \in {"commit", "keep"} /\ AskedFor(w)
  BY DEF CommitOf, SendMutual, WelcomeCommit, SendPending, HandleCommit, AcceptBetweenFriends,
         UnfriendCommit, UnblockCommit, BlockCommit, AtCommit, AskedInv
<1>2. p \in Pairs /\ \A q \in Pairs : req[q] \in Rows \cup {NoRow}
  BY <1>1, CallPair DEF IInv, TypeOK
<1>3. \A P, s : req' = SetStatus(P, s) => \A q \in Pairs : req'[q].id = req[q].id
  BY <1>2 DEF SetStatus, Rows, NoRow
<1>4. CASE SendMutual(w)
  <2>1. c.op = "send" /\ c.by = p[1]
    BY <1>1, <1>4 DEF SendMutual, AtCommit, AskedFor, HandleOps
  <2>2. Pending(Flip(p))
    BY <1>4, NoRowFacts DEF SendMutual, Seen, Pending
  <2> QED
    BY <1>3, <1>4, <2>1, <2>2 DEF SendMutual, Consented
<1>5. CASE WelcomeCommit(w)
  <2>1. c.op = "welcome" /\ p[2] \in Official
    BY <1>1, <1>5 DEF WelcomeCommit, AtCommit, AskedFor
  <2> QED
    BY <1>3, <1>5, <2>1 DEF WelcomeCommit, Consented
<1>6. CASE SendPending(w)
  <2>1. c.op = "send" /\ c.by = p[1] /\ friend' = friend
    BY <1>1, <1>6 DEF SendPending, AtCommit, AskedFor, HandleOps
  <2>2. \A q \in Pairs : q # p => req'[q] = req[q]
    BY <1>6 DEF SendPending, IInv, TypeOK
  <2> QED
    BY <2>1, <2>2
<1>7. CASE HandleCommit(w)
  <2>1. c.op \in HandleOps /\ c.by = AnswersFor(c) /\ Pending(p)
    BY <1>1, <1>7 DEF HandleCommit, AtCommit, AskedFor, IInv, JudgedPending
  <2>2. c.op = "accept" => Consented(w)
    BY <2>1 DEF Consented, AnswersFor
  <2> QED
    BY <1>3, <1>7, <2>2 DEF HandleCommit, GiveUp, dbVars
<1>8. CASE AcceptBetweenFriends(w) \/ UnfriendCommit(w) \/ UnblockCommit(w)
  BY <1>3, <1>8 DEF AcceptBetweenFriends, UnfriendCommit, UnblockCommit
<1>9. CASE BlockCommit(w)
  <2>1. \A q \in Pairs : req'[q].id = req[q].id
    BY <1>2, <1>9 DEF BlockCommit, GiveUp, Rows, NoRow, dbVars
  <2> QED
    BY <1>9, <2>1 DEF BlockCommit, GiveUp, dbVars
<1> QED
  BY <1>4, <1>5, <1>6, <1>7, <1>8, <1>9 DEF CommitOf

\* No friendship without the consent of both, no request but in its sender's name.
THEOREM FriendshipsAreConsented == Spec => Consent
<1> DEFINE A ==
      /\ \A p \in friend' \ friend :
           \E w \in Workers : pc'[w] # pc[w] /\ p \in Both(call[w].pair) /\ Consented(w)
      /\ \A p \in Pairs : req'[p].id # req[p].id =>
           \E w \in Workers :
             /\ pc'[w] # pc[w]
             /\ call[w].op = "send" /\ call[w].pair = p /\ call[w].by = p[1]
<1>1. IInv /\ CommitInv /\ AskedInv /\ [Next]_vars => [A]_vars
  <2> SUFFICES ASSUME IInv, CommitInv, AskedInv, Next PROVE A
    BY DEF vars
  <2>1. PICK w \in Workers : StepOf(w)
    BY DEF Next, StepOf
  <2>2. CASE UNCHANGED dbVars
    BY <2>2 DEF dbVars
  <2>3. CASE CommitOf(w) /\ ~GiveUp(w) /\ pc[w] \in {"commit", "keep"}
    <3>1. pc'[w] = "idle"
      BY <2>3 DEF CommitOf, SendMutual, WelcomeCommit, SendPending, HandleCommit,
         AcceptBetweenFriends, UnfriendCommit, UnblockCommit, BlockCommit, GiveUp, Finish, IInv, TypeOK
    <3> QED
      BY <2>3, <3>1, CommitConsents
  <2> QED
    BY <2>1, <2>2, <2>3, StepIsOwn
<1> QED
  BY <1>1, Invariance, CommitInvariance, AskedInvariance, PTL DEF Spec, Consent

-----------------------------------------------------------------------------
\* Ids name requests.

\* Whatever an operation does, a row keeps its id or gets the next one, and only the
\* row of one pair does.
LEMMA GraphIds ==
  ASSUME TypeOK, GraphNext
  PROVE  \/ \A p \in Pairs : req'[p].id = req[p].id
         \/ \E q \in Pairs :
              /\ req'[q] = [id |-> nextId, status |-> "pending"]
              /\ \A p \in Pairs : p # q => req'[p] = req[p]
<1>1. \A q \in Pairs : req[q] \in Rows \cup {NoRow}
  BY DEF TypeOK
<1>2. \A P, s : req' = SetStatus(P, s) => \A p \in Pairs : req'[p].id = req[p].id
  BY <1>1 DEF SetStatus, Rows, NoRow
<1>3. PICK q \in Pairs :
        \/ Ask(q) \/ Accept(q) \/ Meet(q) \/ Unfriend(q) \/ Block(q) \/ Unblock(q)
        \/ \E s \in {"rejected", "cancelled"} : Decline(q, s)
        \/ Confirm(q)
  BY DEF GraphNext
<1>4. CASE Ask(q)
  BY <1>4 DEF Ask, TypeOK
<1>5. CASE Block(q)
  <2>1. \A p \in Pairs :
          \/ req'[p] = req[p]
          \/ req'[p] = [req[p] EXCEPT !.status = "cancelled"]
          \/ req'[p] = [req[p] EXCEPT !.status = "unfriended"]
    BY <1>5 DEF Block
  <2>2. \A p \in Pairs : req'[p].id = req[p].id
    BY <1>1, <2>1 DEF Rows, NoRow
  <2> QED
    BY <2>2
<1>6. CASE ~Ask(q) /\ ~Block(q)
  BY <1>2, <1>3, <1>6 DEF Accept, Confirm, Meet, Befriend, Unfriend, Unblock, Decline
<1> QED
  BY <1>4, <1>5, <1>6

\* The id alone tells GetFriendRequestForUpdate which of the rows is meant.
THEOREM IdsNameRequests == Spec => []RequestIdsUnique
<1>1. Init => RequestIdsUnique
  BY DEF Init, GraphInit, RequestIdsUnique
<1>2. IInv /\ CommitInv /\ RequestIdsUnique /\ [Next]_vars => RequestIdsUnique'
  <2> SUFFICES ASSUME IInv, CommitInv, RequestIdsUnique, [Next]_vars,
                      NEW p \in Pairs, NEW q \in Pairs, req'[p].id = req'[q].id, req'[p] # NoRow
               PROVE  p = q
    BY DEF RequestIdsUnique
  <2>1. \A r \in Pairs : /\ req[r] \in Rows \cup {NoRow}
                         /\ req[r].id \in Nat /\ nextId \in Nat /\ req[r].id < nextId
                         /\ req[r] = NoRow <=> req[r].id = 0
    BY MaxRequestsAssumption DEF IInv, TypeOK, CommitInv, IdsUsed, Rows, NoRow
  <2>2. req' \in [Pairs -> Rows \cup {NoRow}]
    BY NextIInv DEF IInv, TypeOK
  <2>3. req'[p].id # 0
    BY <2>2, MaxRequestsAssumption DEF Rows, NoRow
  <2>4. CASE \A r \in Pairs : req'[r].id = req[r].id
    BY <2>1, <2>3, <2>4 DEF RequestIdsUnique
  <2>5. CASE \E r \in Pairs : /\ req'[r] = [id |-> nextId, status |-> "pending"]
                              /\ \A s \in Pairs : s # r => req'[s] = req[s]
    <3>1. PICK r \in Pairs : /\ req'[r].id = nextId
                             /\ \A s \in Pairs : s # r => req'[s] = req[s]
      BY <2>5
    <3>2. \A s \in Pairs : s # r => req'[s].id # nextId
      BY <2>1, <3>1
    <3> QED
      BY <2>1, <2>3, <3>1, <3>2 DEF RequestIdsUnique
  <2>6. UNCHANGED dbVars \/ GraphNext
    BY NextImplements
  <2> QED
    BY <2>4, <2>5, <2>6, GraphIds DEF dbVars, IInv
<1> QED
  BY <1>1, <1>2, Invariance, CommitInvariance, PTL DEF Spec

-----------------------------------------------------------------------------
\* Progress, as far as it is a matter of safety.

\* However many calls wait for each other, one of them can run its statement or the
\* deadlock detector has a cycle to break: what CallsReturn needs beside fairness.
THEOREM WaitingEnds == Spec => []SomeoneMoves
<1>1. IInv /\ PairLockFirst => SomeoneMoves
  <2> SUFFICES ASSUME IInv, PairLockFirst,
                      NEW u \in Workers, pc[u] # "idle",
                      \A w \in Workers : pc[w] # "idle" => ~CanStep(w)
               PROVE  \E D \in SUBSET Workers : Deadlock(D)
    BY DEF SomeoneMoves
  <2> DEFINE D == {w \in Workers : pc[w] # "idle"}
  <2>1. ASSUME NEW w \in D PROVE BlockedBy(w) \cap D # {}
    <3>1. PICK l \in Wants(w) : holder[l] \notin {w, Nobody}
      BY <2>1 DEF CanStep, BlockedBy
    <3>2. l \in Locks /\ holder[l] \in Workers /\ Holds(holder[l], l)
      BY <3>1 DEF Wants, IInv, TypeOK, Holds
    <3>3. holder[l] \in D
      BY <3>2 DEF PairLockFirst
    <3> QED
      BY <3>1, <3>3 DEF BlockedBy
  <2> QED
    BY <2>1 DEF Deadlock
<1> QED
  BY <1>1, Invariance, LocksHaveCalls, PTL

-----------------------------------------------------------------------------
\* The rows of one agent, as RelationCache takes them to change.

\* What a step does to the friend and block rows of an agent o and a peer q.
LEMMA ViewOfPair ==
  ASSUME NEW o \in Users, NEW p \in Pairs, o \in {p[1], p[2]},
         NEW q, q = IF p[1] = o THEN p[2] ELSE p[1]
  PROVE  /\ q \in Users \ {o}
         /\ \A r \in Users : <<o, r>> \in Both(p) <=> r = q
         /\ \A r \in Users : <<o, r>> = p <=> r = q /\ p[1] = o
BY DEF Pairs, Both, Flip

LEMMA ViewStep ==
  ASSUME TypeOK, GraphNext, NEW o \in Users
  PROVE  [View(o)!RowsNext]_(RowsOf(o))
<1> DEFINE F == {r \in Users : <<o, r>> \in friend}
           B == {r \in Users : <<o, r>> \in block}
<1>1. RowsOf(o) = [friend |-> F, block |-> B]
  BY DEF RowsOf
<1>2. RowsOf(o)' = [friend |-> F', block |-> B']
  BY DEF RowsOf
<1>3. PICK p \in Pairs :
        \/ Ask(p) \/ Accept(p) \/ Meet(p) \/ Unfriend(p) \/ Block(p) \/ Unblock(p)
        \/ \E s \in {"rejected", "cancelled"} : Decline(p, s)
        \/ Confirm(p)
  BY DEF GraphNext
<1>4. CASE o \notin {p[1], p[2]}
  <2>1. \A r \in Users : <<o, r>> \notin Both(p) /\ <<o, r>> # p
    BY <1>4 DEF Both, Flip, Pairs
  <2>2. F' = F /\ B' = B
    BY <1>3, <2>1 DEF Ask, Accept, Confirm, Meet, Befriend, Decline, Unfriend, Block, Unblock
  <2> QED
    BY <1>1, <1>2, <2>2
<1>5. CASE o \in {p[1], p[2]}
  <2>1. PICK q : q = IF p[1] = o THEN p[2] ELSE p[1]
    OBVIOUS
  <2>2. /\ q \in Users \ {o}
        /\ \A r \in Users : <<o, r>> \in Both(p) <=> r = q
        /\ \A r \in Users : <<o, r>> = p <=> r = q /\ p[1] = o
    BY <1>5, <2>1, ViewOfPair
  <2>3. CASE Ask(p) \/ Confirm(p) \/ \E s \in {"rejected", "cancelled"} : Decline(p, s)
    BY <1>1, <1>2, <2>3 DEF Ask, Confirm, Decline
  <2>4. CASE Accept(p) \/ Meet(p)
    <3>1. friend' = friend \cup Both(p) /\ block' = block
      BY <2>4 DEF Accept, Meet, Befriend
    <3>2. F' = F \cup {q} /\ B' = B
      BY <2>2, <3>1
    <3> HIDE DEF F, B
    <3>3. View(o)!Befriend(q)
      BY <1>1, <1>2, <3>2 DEF View!Befriend
    <3> QED
      BY <2>2, <3>3 DEF View!RowsNext
  <2>5. CASE Unfriend(p)
    <3>1. friend' = friend \ Both(p) /\ block' = block /\ Both(p) \subseteq friend
      BY <2>5 DEF Unfriend
    <3>2. F' = F \ {q} /\ B' = B /\ q \in F
      BY <2>2, <3>1
    <3> HIDE DEF F, B
    <3>3. View(o)!Unfriend(q)
      BY <1>1, <1>2, <3>2 DEF View!Unfriend
    <3> QED
      BY <2>2, <3>3 DEF View!RowsNext
  <2>6. CASE Block(p)
    <3>1. friend' = friend \ Both(p) /\ block' = block \cup {p} /\ p \notin block
      BY <2>6 DEF Block
    <3>2. CASE p[1] = o
      <4>1. F' = F \ {q} /\ B' = B \cup {q} /\ q \notin B
        BY <2>2, <3>1, <3>2
      <4> HIDE DEF F, B
      <4>2. View(o)!Block(q)
        BY <1>1, <1>2, <4>1 DEF View!Block
      <4> QED
        BY <2>2, <4>2 DEF View!RowsNext
    <3>3. CASE p[1] # o
      <4>1. F' = F \ {q} /\ B' = B
        BY <2>2, <3>1, <3>3
      <4> HIDE DEF F, B
      <4>2. CASE q \in F
        <5>1. View(o)!Unfriend(q)
          BY <1>1, <1>2, <4>1, <4>2 DEF View!Unfriend
        <5> QED
          BY <2>2, <5>1 DEF View!RowsNext
      <4>3. CASE q \notin F
        <5>1. F' = F
          BY <4>1, <4>3
        <5> QED
          BY <1>1, <1>2, <4>1, <5>1
      <4> QED
        BY <4>2, <4>3
    <3> QED
      BY <3>2, <3>3
  <2>7. CASE Unblock(p)
    <3>1. friend' = friend /\ block' = block \ {p} /\ p \in block
      BY <2>7 DEF Unblock
    <3>2. CASE p[1] = o
      <4>1. F' = F /\ B' = B \ {q} /\ q \in B
        BY <2>2, <3>1, <3>2
      <4> HIDE DEF F, B
      <4>2. View(o)!Unblock(q)
        BY <1>1, <1>2, <4>1 DEF View!Unblock
      <4> QED
        BY <2>2, <4>2 DEF View!RowsNext
    <3>3. CASE p[1] # o
      <4>1. F' = F /\ B' = B
        BY <2>2, <3>1, <3>3
      <4> QED
        BY <1>1, <1>2, <4>1
    <3> QED
      BY <3>2, <3>3
  <2> QED
    BY <1>3, <2>3, <2>4, <2>5, <2>6, <2>7
<1> QED
  BY <1>4, <1>5

\* For every agent the transactions change its rows as RelationCache assumes: the two
\* models are cut where the code commits.
THEOREM CachedRowsRefinement == Spec => RowsAsCached
<1> SUFFICES ASSUME NEW o \in Users PROVE Spec => View(o)!RowsSpec
  BY DEF RowsAsCached
<1>1. Init => View(o)!RowsInit
  BY DEF Init, GraphInit, RowsOf, View!RowsInit
<1>2. TypeOK /\ [GraphNext]_dbVars => [View(o)!RowsNext]_(RowsOf(o))
  BY ViewStep DEF RowsOf, dbVars
<1> QED
  BY <1>1, <1>2, TypeCorrect, Refinement, PTL DEF Spec, GraphSpec, View!RowsSpec
=============================================================================
