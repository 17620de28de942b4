------------------------------ MODULE Relations ------------------------------
(***************************************************************************)
(* The relation operations of rpc/pm/handler.go (SendFriendRequest,        *)
(* HandleFriendRequest, Unfriend, BlockUser, UnblockUser) and the welcome  *)
(* consumer's ensureFriendship, at the grain of SQL statements in          *)
(* PostgreSQL transactions at READ COMMITTED.                              *)
(*                                                                         *)
(* A worker runs one call.  pc[w] is its next statement.  A statement that *)
(* needs a lock another worker holds waits; a transaction's writes become  *)
(* visible when it commits, so the writes of a call are all in its commit  *)
(* step.  A row a worker has locked cannot change under it, so the row     *)
(* "read FOR UPDATE" is the current row of a pair whose lock it holds.     *)
(* What the handlers do in Redis after the commit is not in this module.   *)
(***************************************************************************)
EXTENDS FriendGraph

CONSTANTS
  Workers,       \* concurrent calls of the service
  Ops,           \* the operations clients call, a subset of AllOps
  Official,      \* the official account(s) that welcome new agents
  StaleCache,    \* TRUE: the cached checks before a transaction may say anything
  Nobody         \* the holder of a free lock

AllOps == {"send", "welcome", "accept", "reject", "cancel",
           "unfriend", "block", "unblock"}

HandleOps == {"accept", "reject", "cancel"}

\* The operations whose transaction starts with LockRelationPair.
PairFirstOps == {"send", "welcome", "block"}

ASSUME OpsAssumption == Ops \subseteq AllOps
ASSUME OfficialAssumption == Official \subseteq Users
ASSUME StaleAssumption == StaleCache \in BOOLEAN
ASSUME NobodyAssumption == Nobody \notin Workers

VARIABLES
  holder,   \* lock -> the worker that holds it, or Nobody
  call,     \* worker -> the request it serves
  pc        \* worker -> its next statement

vars == <<dbVars, holder, call, pc>>

PairLock(p) == <<"pair", {p[1], p[2]}>>     \* pg_advisory_xact_lock of the pair
FriendLock(p) == <<"friend", {p[1], p[2]}>> \* the two friend rows of the pair
RequestLock(p) == <<"request", p>>          \* the row of friend_requests
BlockLock(p) == <<"block", p>>              \* the block row p[1] -> p[2]

Locks == UNION {{PairLock(p), FriendLock(p), RequestLock(p), BlockLock(p)} : p \in Pairs}

\* pair: the agents <<from_uid, to_uid>> of the call.  A "welcome" of agent u by
\* the official account o has pair <<u, o>>.  by and id matter to HandleOps only.
Calls == [op : AllOps, pair : Pairs, by : Users, id : 0..MaxRequests]

NoCall == [op |-> "none"]

PCs == {"idle", "checkBlocking", "checkBlocked", "checkFriend",
        "pair", "isFriend", "out", "in", "row",
        "judge", "keep", "mark", "delete", "commit"}

-----------------------------------------------------------------------------
\* Locks.

Holds(w, l) == holder[l] = w

\* The row w has read FOR UPDATE: NoRow when there was none to lock.
Seen(w, p) == IF Holds(w, RequestLock(p)) THEN req[p] ELSE NoRow

\* Mutant: UnblockUser's UPDATE without "AND status = pending".
MarkedRowsAnyStatus(c) ==
  IF c.op = "unfriend"
  THEN {q \in Both(c.pair) : req[q].status = "accepted"}
  ELSE {q \in {Flip(c.pair)} : req[q] # NoRow}

\* The rows the second statement of Unfriend and UnblockUser updates.
MarkedRows(c) ==
  IF c.op = "unfriend"
  THEN {q \in Both(c.pair) : req[q].status = "accepted"}
  ELSE {q \in {Flip(c.pair)} : Pending(q)}

\* The locks the next statement of w takes.
Wants(w) ==
  LET c == call[w]
      p == c.pair
  IN {l \in Locks :
       \/ pc[w] = "pair" /\ l = PairLock(p)
       \* SELECT ... FOR UPDATE locks the row it finds
       \/ pc[w] \in {"out", "row"} /\ req[p] # NoRow /\ l = RequestLock(p)
       \/ pc[w] = "in" /\ req[Flip(p)] # NoRow /\ l = RequestLock(Flip(p))
       \* so do DELETE and UPDATE
       \/ /\ pc[w] = "delete" /\ c.op = "unfriend"
          /\ Both(p) \cap friend # {} /\ l = FriendLock(p)
       \/ pc[w] = "delete" /\ c.op = "unblock" /\ p \in block /\ l = BlockLock(p)
       \/ pc[w] = "mark" /\ \E q \in MarkedRows(c) : l = RequestLock(q)
       \/ pc[w] = "commit" /\ c.op = "block" /\ l \in {BlockLock(p), FriendLock(p)}
       \* an INSERT waits for the transaction that is deleting the same row; accept
       \* and welcome have seen that there is none, and no one else may insert it
       \/ /\ pc[w] = "commit" /\ c.op = "send"
          /\ Seen(w, Flip(p)).status = "pending" /\ l = FriendLock(p)}

BlockedBy(w) == {holder[l] : l \in Wants(w)} \ {w, Nobody}

CanStep(w) == BlockedBy(w) = {}

\* Workers that wait for one another in a cycle.
Deadlock(D) == D # {} /\ \A w \in D : BlockedBy(w) \cap D # {}

\* End of the transaction, by COMMIT or ROLLBACK: all its locks are released.
Release(w) == [l \in Locks |-> IF holder[l] = w THEN Nobody ELSE holder[l]]

\* The next statement of w takes the locks it wants; w goes on at l.
Take(w, l) ==
  /\ CanStep(w)
  /\ holder' = [k \in Locks |-> IF k \in Wants(w) THEN w ELSE holder[k]]
  /\ pc' = [pc EXCEPT ![w] = l]
  /\ UNCHANGED <<dbVars, call>>

\* The call returns; a transaction it was in has ended.
Finish(w) ==
  /\ holder' = Release(w)
  /\ call' = [call EXCEPT ![w] = NoCall]
  /\ pc' = [pc EXCEPT ![w] = "idle"]

\* Mutant: an error return that leaves the transaction open.
GiveUpWithoutRollback(w) ==
  /\ call' = [call EXCEPT ![w] = NoCall]
  /\ pc' = [pc EXCEPT ![w] = "idle"]
  /\ UNCHANGED <<dbVars, holder>>

\* An early return, an error or a rollback: nothing is written.
GiveUp(w) == Finish(w) /\ UNCHANGED dbVars

-----------------------------------------------------------------------------
Init ==
  /\ GraphInit
  /\ holder = [l \in Locks |-> Nobody]
  /\ call = [w \in Workers |-> NoCall]
  /\ pc = [w \in Workers |-> "idle"]

\* Mutant: BlockUser without LockRelationPair.
FirstStatementNoPair(op) ==
  IF op \in {"send", "welcome"} THEN "checkBlocking"
  ELSE IF op = "block" THEN "out"
  ELSE IF op \in HandleOps THEN "row"
  ELSE "delete"

\* Where the handler of an operation starts.
FirstStatement(op) ==
  IF op \in {"send", "welcome"} THEN "checkBlocking"
  ELSE IF op = "block" THEN "pair"
  ELSE IF op \in HandleOps THEN "row"
  ELSE "delete"

\* A client calls the service: any operation, between any two agents, about any
\* request id handed out so far.
Requests ==
  {c \in Calls :
     /\ c.op \in Ops
     /\ c.by \in {c.pair[1], c.pair[2]}
     /\ IF c.op \in HandleOps THEN c.id \in 1..(nextId - 1)
                              ELSE c.id = 0 /\ c.by = c.pair[1]
     /\ c.op = "welcome" => c.pair[2] \in Official}

Arrive(w) ==
  /\ pc[w] = "idle"
  /\ \E c \in Requests :
       /\ call' = [call EXCEPT ![w] = c]
       /\ pc' = [pc EXCEPT ![w] = FirstStatement(c.op)]
  /\ UNCHANGED <<dbVars, holder>>

\* SendFriendRequest asks the relation cache three questions before it opens its
\* transaction, and never asks them again; the welcome asks the table one.
CachedAnswers(truth) == IF StaleCache THEN BOOLEAN ELSE {truth}

Goto(w, l) ==
  /\ pc' = [pc EXCEPT ![w] = l]
  /\ UNCHANGED <<dbVars, holder, call>>

CheckBlocking(w) ==
  /\ pc[w] = "checkBlocking"
  /\ \/ /\ call[w].op = "send"
        /\ \E blocked \in CachedAnswers(call[w].pair \in block) :
             IF blocked THEN GiveUp(w) ELSE Goto(w, "checkBlocked")
     \/ /\ call[w].op = "welcome"
        /\ IF call[w].pair \in block THEN GiveUp(w) ELSE Goto(w, "pair")

CheckBlocked(w) ==
  /\ pc[w] = "checkBlocked"
  /\ \E blocked \in CachedAnswers(Flip(call[w].pair) \in block) :
       IF blocked THEN GiveUp(w) ELSE Goto(w, "checkFriend")

CheckFriend(w) ==
  /\ pc[w] = "checkFriend"
  /\ \E isFriend \in CachedAnswers(call[w].pair \in friend) :
       IF isFriend THEN GiveUp(w) ELSE Goto(w, "pair")

-----------------------------------------------------------------------------
\* Statements that only read or lock.

AfterPairLock(op) ==
  IF op = "welcome" THEN "isFriend" ELSE IF op \in HandleOps THEN "judge" ELSE "out"

\* Mutant: no advisory lock.
NoPairLock(w) == pc[w] = "pair" /\ Goto(w, AfterPairLock(call[w].op))

LockRelationPair(w) == pc[w] = "pair" /\ Take(w, AfterPairLock(call[w].op))

\* A plain read under the pair lock, which Unfriend does not take.  Between friends
\* ensureFriendship has nothing to do, and ACCEPT no rows to insert.
IsFriend(w) ==
  /\ pc[w] = "isFriend"
  /\ \/ /\ call[w].op = "welcome"
        /\ IF call[w].pair \in friend THEN GiveUp(w) ELSE Goto(w, "out")
     \/ /\ call[w].op = "accept"
        /\ Goto(w, IF call[w].pair \in friend THEN "keep" ELSE "commit")

LockOutgoing(w) == pc[w] = "out" /\ Take(w, "in")

LockIncoming(w) == pc[w] = "in" /\ Take(w, "commit")

\* Mutant: the locked row's id is not compared with the one asked for.
LockRequestAnyId(w) ==
  /\ pc[w] = "row"
  /\ IF req[call[w].pair] # NoRow
     THEN Take(w, "pair")
     ELSE GiveUp(w)

\* GetFriendRequestForUpdate: an id that is no longer that of a row is a 404.
LockRequest(w) ==
  /\ pc[w] = "row"
  /\ IF req[call[w].pair].id = call[w].id
     THEN Take(w, "pair")
     ELSE GiveUp(w)

\* The DELETE of Unfriend (which must hit both rows) and of UnblockUser.
Delete(w) ==
  /\ pc[w] = "delete"
  /\ CanStep(w)
  /\ IF \/ call[w].op = "unfriend" /\ Both(call[w].pair) \subseteq friend
        \/ call[w].op = "unblock" /\ call[w].pair \in block
     THEN Take(w, "mark")
     ELSE GiveUp(w)

\* The UPDATE of Unfriend and of UnblockUser: the rows that match now.
Mark(w) == pc[w] = "mark" /\ Take(w, "commit")

-----------------------------------------------------------------------------
\* Commits.

AtCommit(w, op) == pc[w] = "commit" /\ call[w].op = op /\ CanStep(w)

\* The other agent's request is pending: accept it and become friends.
SendMutual(w) ==
  LET p == call[w].pair
  IN /\ AtCommit(w, "send")
     /\ Seen(w, Flip(p)).status = "pending"
     /\ Both(p) \cap friend = {}
     /\ friend' = friend \cup Both(p)
     /\ req' = SetStatus({Flip(p)}, "accepted")
     /\ UNCHANGED <<block, nextId>>
     /\ Finish(w)

\* Mutant: the id generator's error is not looked at.
SendPendingUnchecked(w) ==
  LET p == call[w].pair
  IN /\ AtCommit(w, "send")
     /\ Seen(w, Flip(p)).status # "pending"
     /\ Seen(w, p).status # "pending"
     /\ Seen(w, p) = NoRow => req[p] = NoRow
     /\ req' = [req EXCEPT ![p] = [id |-> nextId, status |-> "pending"]]
     /\ nextId' = nextId + 1
     /\ UNCHANGED <<friend, block>>
     /\ Finish(w)

\* A new row, or the old one (in any status but pending) under a new id.
SendPending(w) ==
  LET p == call[w].pair
  IN /\ AtCommit(w, "send")
     /\ Seen(w, Flip(p)).status # "pending"
     /\ Seen(w, p).status # "pending"
     /\ Seen(w, p) = NoRow => req[p] = NoRow
     /\ nextId <= MaxRequests
     /\ req' = [req EXCEPT ![p] = [id |-> nextId, status |-> "pending"]]
     /\ nextId' = nextId + 1
     /\ UNCHANGED <<friend, block>>
     /\ Finish(w)

\* Already pending, a unique violation, or no request id: 400 or 500.
SendRefused(w) ==
  LET p == call[w].pair
  IN /\ AtCommit(w, "send")
     /\ IF Seen(w, Flip(p)).status = "pending"
        THEN Both(p) \cap friend # {}
        ELSE \/ Seen(w, p).status = "pending"
             \/ Seen(w, p) = NoRow /\ req[p] # NoRow
             \/ nextId > MaxRequests
     /\ GiveUp(w)

WelcomeCommit(w) ==
  LET p == call[w].pair
  IN /\ AtCommit(w, "welcome")
     /\ IF Both(p) \cap friend = {}
        THEN /\ friend' = friend \cup Both(p)
             /\ req' = SetStatus({q \in Both(p) : Seen(w, q).status = "pending"}, "accepted")
             /\ UNCHANGED <<block, nextId>>
             /\ Finish(w)
        ELSE GiveUp(w)

\* Mutant: the caller is not compared with the request's recipient.
MayHandleAnyone(w) ==
  LET c == call[w]
      p == c.pair
  IN /\ Seen(w, p).status = "pending"
     /\ c.op = "accept" => Both(p) \cap block = {}

\* HandleFriendRequest's checks once both locks are held: the row is pending, the
\* caller is its recipient (for CANCEL its sender), and ACCEPT is not across a block.
MayHandle(w) ==
  LET c == call[w]
      p == c.pair
  IN /\ Seen(w, p).status = "pending"
     /\ c.by = IF c.op = "cancel" THEN p[1] ELSE p[2]
     /\ c.op = "accept" => Both(p) \cap block = {}

Judge(w) ==
  /\ pc[w] = "judge"
  /\ IF MayHandle(w)
     THEN Goto(w, IF call[w].op = "accept" THEN "isFriend" ELSE "commit")
     ELSE GiveUp(w)

Answer(op) ==
  IF op = "accept" THEN "accepted" ELSE IF op = "reject" THEN "rejected" ELSE "cancelled"

\* The request gets its answer; an ACCEPT that comes here has found no friend rows
\* and inserts them.
HandleCommit(w) ==
  LET c == call[w]
      p == c.pair
  IN /\ \E op \in HandleOps : AtCommit(w, op)
     /\ IF c.op = "accept" /\ Both(p) \cap friend # {}
        THEN GiveUp(w)
        ELSE /\ req' = SetStatus({p}, Answer(c.op))
             /\ friend' = IF c.op = "accept" THEN friend \cup Both(p) ELSE friend
             /\ UNCHANGED <<block, nextId>>
             /\ Finish(w)

\* The ACCEPT that found the two agents friends, whether they still are or not.
AcceptBetweenFriends(w) ==
  /\ pc[w] = "keep"
  /\ req' = SetStatus({call[w].pair}, "accepted")
  /\ UNCHANGED <<friend, block, nextId>>
  /\ Finish(w)

\* Mutant: only one of the two friend rows is deleted.
UnfriendCommitOneRow(w) ==
  LET p == call[w].pair
  IN /\ AtCommit(w, "unfriend")
     /\ friend' = friend \ {p}
     /\ req' = SetStatus({q \in Both(p) : Holds(w, RequestLock(q))}, "unfriended")
     /\ UNCHANGED <<block, nextId>>
     /\ Finish(w)

UnfriendCommit(w) ==
  LET p == call[w].pair
  IN /\ AtCommit(w, "unfriend")
     /\ friend' = friend \ Both(p)
     /\ req' = SetStatus({q \in Both(p) : Holds(w, RequestLock(q))}, "unfriended")
     /\ UNCHANGED <<block, nextId>>
     /\ Finish(w)

UnblockCommit(w) ==
  LET p == call[w].pair
  IN /\ AtCommit(w, "unblock")
     /\ block' = block \ {p}
     /\ req' = SetStatus({q \in {Flip(p)} : Holds(w, RequestLock(q))}, "cancelled")
     /\ UNCHANGED <<friend, nextId>>
     /\ Finish(w)

\* A second block of the same agent is a unique violation.
BlockCommit(w) ==
  LET p == call[w].pair
  IN /\ AtCommit(w, "block")
     /\ IF p \in block
        THEN GiveUp(w)
        ELSE /\ block' = block \cup {p}
             /\ friend' = friend \ Both(p)
             /\ req' = [q \in Pairs |->
                  IF q \in Both(p) /\ Seen(w, q).status = "pending"
                  THEN [req[q] EXCEPT !.status = "cancelled"]
                  ELSE IF q \in Both(p) /\ Seen(w, q).status = "accepted"
                  THEN [req[q] EXCEPT !.status = "unfriended"]
                  ELSE req[q]]
             /\ UNCHANGED nextId
             /\ Finish(w)

-----------------------------------------------------------------------------
\* A transaction may fail at any statement: the connection, the request's
\* context or the process goes away.  Nothing is written, the locks are freed.
Fail(w) == pc[w] # "idle" /\ GiveUp(w)

\* PostgreSQL finds the cycle and aborts one of the transactions in it.
DeadlockVictim(w) ==
  /\ \E D \in SUBSET Workers : w \in D /\ Deadlock(D)
  /\ GiveUp(w)

Statement(w) ==
  \/ CheckBlocking(w) \/ CheckBlocked(w) \/ CheckFriend(w)
  \/ LockRelationPair(w) \/ IsFriend(w) \/ LockOutgoing(w) \/ LockIncoming(w)
  \/ LockRequest(w) \/ Delete(w) \/ Mark(w)
  \/ SendMutual(w) \/ SendPending(w) \/ SendRefused(w) \/ WelcomeCommit(w)
  \/ Judge(w) \/ HandleCommit(w) \/ AcceptBetweenFriends(w)
  \/ UnfriendCommit(w) \/ UnblockCommit(w) \/ BlockCommit(w)

Next == \E w \in Workers : Arrive(w) \/ Statement(w) \/ Fail(w) \/ DeadlockVictim(w)

Spec == Init /\ [][Next]_vars

\* Fairness: lock waiters are served first come first served, so a statement that
\* could run time and again does run, and the database's deadlock detector runs.
\* Nothing makes clients call, and nothing makes calls fail.
FairSpec ==
  /\ Spec
  /\ \A w \in Workers : SF_vars(Statement(w)) /\ WF_vars(DeadlockVictim(w))

-----------------------------------------------------------------------------
TypeOK ==
  /\ friend \subseteq Pairs
  /\ block \subseteq Pairs
  /\ req \in [Pairs -> Rows \cup {NoRow}]
  /\ nextId \in 1..(MaxRequests + 1)
  /\ holder \in [Locks -> Workers \cup {Nobody}]
  /\ call \in [Workers -> Calls \cup {NoCall}]
  /\ pc \in [Workers -> PCs]

\* Friendship is stored twice and the two rows come and go together: no reader
\* that looks up one direction (FriendSet, LoadFriendSet) sees half a friendship.
FriendSymmetric == \A p \in friend : Flip(p) \in friend

\* Two agents never wait for each other: a request that meets one in the other
\* direction is accepted on the spot, whichever way the two calls interleave.
NoMutualPending == \A p \in Pairs : ~(Pending(p) /\ Pending(Flip(p)))

\* A cycle of waiting transactions always has one that took a row lock before
\* (or without) the pair lock: the operations that start with LockRelationPair
\* never deadlock among themselves.
DeadlockNeedsRowFirst ==
  \A D \in SUBSET Workers : Deadlock(D) => \E w \in D : call[w].op \notin PairFirstOps

\* An id is answered at most once: accepted, rejected or cancelled is final for
\* it, except that an accepted request ends as "unfriended".
RequestLifecycle ==
  [][\A p \in Pairs :
       req'[p].id = req[p].id /\ req'[p].status # req[p].status =>
         \/ req[p].status = "pending" /\ req'[p].status \in {"accepted", "rejected", "cancelled"}
         \/ req[p].status = "accepted" /\ req'[p].status = "unfriended"]_vars

\* The commit that accepts a request leaves the two agents friends, unless it is an
\* ACCEPT that found them friends already; and then only an Unfriend that commits
\* after that look can have ended the friendship.
AcceptanceBefriends ==
  [][/\ \A p \in Pairs :
          req[p].status # "accepted" /\ req'[p].status = "accepted" =>
            \/ Both(p) \subseteq friend'
            \/ \E w \in Workers : pc[w] = "keep" /\ call[w].pair = p /\ pc'[w] = "idle"
     /\ \A w \in Workers :
          LET p == call[w].pair
          IN pc'[w] = "keep" =>
               \/ Both(p) \subseteq friend'
               \/ /\ pc[w] = "keep"
                  /\ \/ ~(Both(p) \subseteq friend)
                     \/ \E v \in Workers :
                          call[v].op = "unfriend" /\ pc[v] = "commit" /\ pc'[v] = "idle"]_vars

\* The commit that blocks an agent leaves no friendship and no live request in
\* either direction, whatever other calls about the pair are under way.
BlockCutsTies ==
  [][\A p \in block' \ block :
       /\ Both(p) \cap friend' = {}
       /\ \A q \in Both(p) : req'[q].status \notin {"pending", "accepted"}]_vars

\* ACCEPT checks the blocks before it writes; none appears in between, so no
\* recipient becomes the friend of an agent one of the two has blocked.
NoAcceptAcrossBlock ==
  [][\A w \in Workers :
       call[w].op = "accept" /\ friend' # friend /\ pc'[w] # pc[w] =>
         Both(call[w].pair) \cap block = {}]_vars

\* The agent HandleFriendRequest lets answer: the recipient, or who cancels its own.
AnswersFor(c) == IF c.op = "cancel" THEN c.pair[1] ELSE c.pair[2]

\* An answer lands on the request whose id the caller named, still pending, and
\* comes from the agent it was for: rows are reused under new ids, and a late
\* answer to the old id never decides the new request.
AnswersTheRequest ==
  [][\A w \in Workers :
       call[w].op \in HandleOps /\ req' # req /\ pc'[w] # pc[w] =>
         /\ req[call[w].pair].id = call[w].id
         /\ Pending(call[w].pair)
         /\ call[w].by = AnswersFor(call[w])]_vars

\* Who became friends by the step of w: the one accepts what the other asked for, or
\* asks for it too, or the official account welcomes.
Consented(w) ==
  LET c == call[w]
  IN \/ c.op = "accept" /\ c.by = c.pair[2] /\ Pending(c.pair)
     \/ c.op = "send" /\ c.by = c.pair[1] /\ Pending(Flip(c.pair))
     \/ c.op = "welcome" /\ c.pair[2] \in Official

\* Nobody gets a friend without asking or accepting: both agents of a new friendship
\* did, and a request is put in the name of the agent who sent it.
Consent ==
  [][/\ \A p \in friend' \ friend :
          \E w \in Workers : pc'[w] # pc[w] /\ p \in Both(call[w].pair) /\ Consented(w)
     /\ \A p \in Pairs : req'[p].id # req[p].id =>
          \E w \in Workers :
            /\ pc'[w] # pc[w]
            /\ call[w].op = "send" /\ call[w].pair = p /\ call[w].by = p[1]]_vars

\* Every call returns: waiting transactions are served or chosen as victims.
CallsReturn == \A w \in Workers : pc[w] # "idle" ~> pc[w] = "idle"

-----------------------------------------------------------------------------
\* The inductive invariant of the proofs.

\* A worker that is past LockRelationPair, and has not ended its transaction.
InPair(w) ==
  \/ pc[w] \in {"isFriend", "out", "in", "judge", "keep"}
  \/ pc[w] = "commit" /\ call[w].op \notin {"unfriend", "unblock"}

\* Each statement belongs to the handlers that have it.
StatementOfOp ==
  \A w \in Workers :
    /\ pc[w] # "idle" => call[w] \in Calls
    /\ pc[w] \in {"checkBlocked", "checkFriend"} => call[w].op = "send"
    /\ pc[w] \in {"out", "in"} => call[w].op \in PairFirstOps
    /\ pc[w] = "isFriend" => call[w].op \in {"welcome", "accept"}
    /\ pc[w] = "keep" => call[w].op = "accept"
    /\ pc[w] \in {"row", "judge"} => call[w].op \in HandleOps
    /\ pc[w] = "row" => call[w].id # 0
    /\ pc[w] \in {"delete", "mark"} => call[w].op \in {"unfriend", "unblock"}
    /\ pc[w] = "pair" => call[w].op \in PairFirstOps \cup HandleOps

\* The pair lock is held from LockRelationPair to the end of the transaction.
PairLockHeld == \A w \in Workers : InPair(w) => Holds(w, PairLock(call[w].pair))

\* Only rows that exist are locked, and rows are never deleted.
LockedRowsExist ==
  \A p \in Pairs : holder[RequestLock(p)] # Nobody => req[p] # NoRow

\* A row a handler did not find when it looked does not appear before it commits.
NotFoundStaysNotFound ==
  \A w \in Workers :
    pc[w] = "commit" /\ call[w].op \in PairFirstOps =>
      LET q == Flip(call[w].pair) IN ~Holds(w, RequestLock(q)) => req[q] = NoRow

\* The statements of HandleFriendRequest after its checks.
Judged == {"isFriend", "keep", "commit"}

\* The row a HandleFriendRequest answers is locked and pending.
JudgedPending ==
  \A w \in Workers :
    /\ pc[w] \in {"pair", "judge"} \cup Judged /\ call[w].op \in HandleOps =>
         Holds(w, RequestLock(call[w].pair))
    /\ pc[w] \in Judged /\ call[w].op \in HandleOps => Pending(call[w].pair)

IInv ==
  /\ TypeOK
  /\ StatementOfOp
  /\ PairLockHeld
  /\ LockedRowsExist
  /\ NotFoundStaysNotFound
  /\ JudgedPending
  /\ FriendSymmetric
  /\ NoMutualPending

-----------------------------------------------------------------------------
\* What a call has found out about the tables and still holds when it writes: with
\* it every commit is one step of FriendGraph.

\* A request has an id the generator has handed out.
IdsUsed == \A p \in Pairs : req[p].id < nextId

\* No request row is locked before the statement that locks the first one.
NoRowYet(w) ==
  pc[w] \in {"idle", "delete", "mark"} => \A q \in Pairs : ~Holds(w, RequestLock(q))

\* The rows Unfriend and UnblockUser have deleted were there, and no one else can
\* delete them; the requests they have marked keep their status.
DeletedRowsThere(w) ==
  LET p == call[w].pair
  IN pc[w] \in {"mark", "commit"} =>
       /\ call[w].op = "unfriend" => Holds(w, FriendLock(p)) /\ Both(p) \subseteq friend
       /\ call[w].op = "unblock" => Holds(w, BlockLock(p)) /\ p \in block

MarkedRowsKept(w) ==
  pc[w] = "commit" =>
    \A q \in Pairs : Holds(w, RequestLock(q)) =>
      /\ call[w].op = "unfriend" => req[q].status = "accepted"
      /\ call[w].op = "unblock" => Pending(q)

\* The row of the outgoing request, when LockOutgoing did not find it, stays absent.
OutgoingStaysAbsent(w) ==
  LET p == call[w].pair
  IN pc[w] \in {"in", "commit"} /\ call[w].op \in PairFirstOps =>
       Holds(w, RequestLock(p)) \/ req[p] = NoRow

\* Nobody blocks between the block checks of ACCEPT and its commit.
StaysUnblocked(w) ==
  pc[w] \in Judged /\ call[w].op = "accept" => Both(call[w].pair) \cap block = {}

\* Nobody befriends the two agents between the look of ACCEPT that found no friend
\* rows and its commit, so that its INSERT succeeds.  The look that found them proves
\* nothing about the commit: see AcceptanceBefriends.
NotFriendsYet(w) ==
  pc[w] = "commit" /\ call[w].op = "accept" => Both(call[w].pair) \cap friend = {}

Knows(w) ==
  /\ NoRowYet(w)
  /\ DeletedRowsThere(w)
  /\ MarkedRowsKept(w)
  /\ OutgoingStaysAbsent(w)
  /\ StaysUnblocked(w)
  /\ NotFriendsYet(w)

\* What the call was let in with, and what it has found its request to be: the row
\* a handler has locked keeps the id it was looked up by.
AskedFor(w) ==
  LET c == call[w]
  IN /\ pc[w] # "idle" =>
          /\ c.op \notin HandleOps => c.by = c.pair[1]
          /\ c.op = "welcome" => c.pair[2] \in Official
     /\ pc[w] \in {"pair", "judge"} \cup Judged /\ c.op \in HandleOps =>
          req[c.pair].id = c.id
     /\ pc[w] \in Judged /\ c.op \in HandleOps => c.by = AnswersFor(c)

\* Every call is still about what it was let in with.
AskedInv == \A w \in Workers : AskedFor(w)

\* An id names one request, so that an answer needs no more than the id.
RequestIdsUnique ==
  \A p, q \in Pairs : req[p].id = req[q].id /\ req[p] # NoRow => p = q

\* What a call has locked, or reads under a lock that every writer of it takes, is
\* true until it commits, whatever the others do.
CommitInv == IdsUsed /\ \A w \in Workers : Knows(w)

-----------------------------------------------------------------------------
\* Why the operations that start with LockRelationPair do not deadlock.

LocksOf(p) ==
  {PairLock(p), FriendLock(p)} \cup UNION {{RequestLock(q), BlockLock(q)} : q \in Both(p)}

\* Such a call holds nothing before the pair lock, and then locks of its pair only;
\* between two calls a worker holds nothing.
PairLockFirst ==
  \A w \in Workers, l \in Locks :
    Holds(w, l) =>
      /\ pc[w] # "idle"
      /\ call[w].op \in PairFirstOps => InPair(w) /\ l \in LocksOf(call[w].pair)

\* As long as calls are under way one of them can go on, or the database finds a
\* cycle to break: no lock outlives the call that took it, and no one waits for it
\* in vain.
SomeoneMoves ==
  (\E w \in Workers : pc[w] # "idle") =>
    \/ \E w \in Workers : pc[w] # "idle" /\ CanStep(w)
    \/ \E D \in SUBSET Workers : Deadlock(D)

-----------------------------------------------------------------------------
\* What documents and comments say that the code does not keep.

\* A request whose status is accepted belongs to two friends.
AcceptedAreFriends == \A p \in Pairs : req[p].status = "accepted" => p \in friend

\* Agents one of whom blocked the other are not friends.
NoFriendAcrossBlock == \A p \in block : Both(p) \cap friend = {}
=============================================================================
