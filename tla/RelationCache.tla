---------------------------- MODULE RelationCache ----------------------------
(***************************************************************************)
(* The Redis sets friend:<uid> and block:<uid> of one agent                *)
(* (rpc/pm/relations/cache.go) beside the rows of user_relations they      *)
(* cache.  Readers fill a set that is absent with EXISTS, a query and a    *)
(* pipeline DEL, SADD, EXPIRE, and then ask SISMEMBER; the handlers of     *)
(* rpc/pm/handler.go change the rows in a transaction and the set after    *)
(* the commit.  Commands of different clients interleave, those of a       *)
(* pipeline included.  The transactions are those of Relations.tla, here   *)
(* one step each.                                                          *)
(***************************************************************************)
EXTENDS FiniteSets

CONSTANTS
  Peers,     \* the other agents
  Workers,   \* concurrent calls of the service
  Ops,       \* the operations clients call, a subset of ReadOps and WriteOps
  Faults     \* TRUE: a call may die, or lose its Redis command, after its commit

ReadOps == {"isFriend", "isBlocked"}
WriteOps == {"befriend", "unfriend", "block", "unblock"}

ASSUME OpsAssumption == Ops \subseteq ReadOps \cup WriteOps
ASSUME FaultsAssumption == Faults \in BOOLEAN

VARIABLES
  rows,   \* kind -> the peers with a row owner -> peer in user_relations
  key,    \* kind -> the Redis set: its members (none: no key) and whether it expires
  call,   \* worker -> the operation it runs and the peer it is about
  snap,   \* worker -> the rows a loader has read
  pc,     \* worker -> its next statement or command
  calm    \* history: since the friend set was last absent between calls, calls came
          \* one at a time and none died

vars == <<rows, key, call, snap, pc, calm>>

Kinds == {"friend", "block"}

\* The set a reader of the cache looks at.
KindRead(op) == IF op = "isFriend" THEN "friend" ELSE "block"

NoKey == [members |-> {}, expires |-> FALSE]
NoCall == [op |-> "none"]

PCs == {"idle", "exists", "query", "del", "sadd", "expire", "isMember",
        "commit", "addBlock", "removeBlock", "invalidate"}

Init ==
  /\ rows = [k \in Kinds |-> {}]
  /\ key = [k \in Kinds |-> NoKey]
  /\ call = [w \in Workers |-> NoCall]
  /\ snap = [w \in Workers |-> {}]
  /\ pc = [w \in Workers |-> "idle"]
  /\ calm = TRUE

Arrive(w) ==
  /\ pc[w] = "idle"
  /\ \E op \in Ops, p \in Peers :
       /\ call' = [call EXCEPT ![w] = [op |-> op, peer |-> p]]
       /\ pc' = [pc EXCEPT ![w] = IF op \in ReadOps THEN "exists" ELSE "commit"]
  /\ calm' = ((\A v \in Workers : pc[v] = "idle") /\ (calm \/ key["friend"] = NoKey))
  /\ UNCHANGED <<rows, key, snap>>

Goto(w, l) == pc' = [pc EXCEPT ![w] = l] /\ UNCHANGED <<call, calm>>

Leave(w) ==
  /\ pc' = [pc EXCEPT ![w] = "idle"]
  /\ call' = [call EXCEPT ![w] = NoCall]
  /\ snap' = [snap EXCEPT ![w] = {}]

Return(w) == Leave(w) /\ UNCHANGED calm

-----------------------------------------------------------------------------
\* IsFriendCached, IsBlockedCached.

Kind(w) == KindRead(call[w].op)

Exists(w) ==
  /\ pc[w] = "exists"
  /\ Goto(w, IF key[Kind(w)] = NoKey THEN "query" ELSE "isMember")
  /\ UNCHANGED <<rows, key, snap>>

\* Mutant: the wrong end of the rows is read, which is always the owner.
QueryOwnEnd(w) ==
  /\ pc[w] = "query"
  /\ snap' = [snap EXCEPT ![w] = IF rows[Kind(w)] = {} THEN {} ELSE {"owner"}]
  /\ Goto(w, "del")
  /\ UNCHANGED <<rows, key>>

Query(w) ==
  /\ pc[w] = "query"
  /\ snap' = [snap EXCEPT ![w] = rows[Kind(w)]]
  /\ Goto(w, "del")
  /\ UNCHANGED <<rows, key>>

\* An empty list of rows leaves no key: the next reader asks the database again.
Del(w) ==
  /\ pc[w] = "del"
  /\ key' = [key EXCEPT ![Kind(w)] = NoKey]
  /\ Goto(w, IF snap[w] = {} THEN "isMember" ELSE "sadd")
  /\ UNCHANGED <<rows, snap>>

SAdd(w) ==
  /\ pc[w] = "sadd"
  /\ key' = [key EXCEPT ![Kind(w)].members = @ \cup snap[w]]
  /\ Goto(w, "expire")
  /\ UNCHANGED <<rows, snap>>

\* Mutant: the pipeline sets no TTL.
SetNoTTL(w) ==
  /\ pc[w] = "expire"
  /\ Goto(w, "isMember")
  /\ UNCHANGED <<rows, key, snap>>

\* EXPIRE of a key that is gone does nothing.
SetTTL(w) ==
  /\ pc[w] = "expire"
  /\ key' = IF key[Kind(w)] = NoKey THEN key
            ELSE [key EXCEPT ![Kind(w)].expires = TRUE]
  /\ Goto(w, "isMember")
  /\ UNCHANGED <<rows, snap>>

\* SISMEMBER is the answer; on a Redis error the row itself is.
IsMember(w) == pc[w] = "isMember" /\ Return(w) /\ UNCHANGED <<rows, key>>

-----------------------------------------------------------------------------
\* The operations that change the rows.

AtCommit(w, op) == pc[w] = "commit" /\ call[w].op = op

\* HandleFriendRequest(ACCEPT), of friends too, the mutual request, or the welcome.
Befriend(w) ==
  /\ AtCommit(w, "befriend")
  /\ rows' = [rows EXCEPT !["friend"] = @ \cup {call[w].peer}]
  /\ Goto(w, "invalidate")
  /\ UNCHANGED <<key, snap>>

\* Mutant: Unfriend returns without InvalidateFriendCache.
UnfriendKeepsKey(w) ==
  /\ AtCommit(w, "unfriend")
  /\ call[w].peer \in rows["friend"]
  /\ rows' = [rows EXCEPT !["friend"] = @ \ {call[w].peer}]
  /\ Return(w)
  /\ UNCHANGED key

Unfriend(w) ==
  /\ AtCommit(w, "unfriend")
  /\ call[w].peer \in rows["friend"]
  /\ rows' = [rows EXCEPT !["friend"] = @ \ {call[w].peer}]
  /\ Goto(w, "invalidate")
  /\ UNCHANGED <<key, snap>>

BlockUser(w) ==
  /\ AtCommit(w, "block")
  /\ call[w].peer \notin rows["block"]
  /\ rows' = [friend |-> rows["friend"] \ {call[w].peer},
              block |-> rows["block"] \cup {call[w].peer}]
  /\ Goto(w, "addBlock")
  /\ UNCHANGED <<key, snap>>

UnblockUser(w) ==
  /\ AtCommit(w, "unblock")
  /\ call[w].peer \in rows["block"]
  /\ rows' = [rows EXCEPT !["block"] = @ \ {call[w].peer}]
  /\ Goto(w, "removeBlock")
  /\ UNCHANGED <<key, snap>>

\* The transaction has nothing to do or fails: an error, and no Redis command.
Refuse(w) ==
  LET c == call[w]
  IN /\ pc[w] = "commit"
     /\ \/ c.op = "befriend" /\ c.peer \in rows["friend"]
        \/ c.op = "unfriend" /\ c.peer \notin rows["friend"]
        \/ c.op = "block" /\ c.peer \in rows["block"]
        \/ c.op = "unblock" /\ c.peer \notin rows["block"]
     /\ Return(w)
     /\ UNCHANGED <<rows, key>>

\* SADD of one peer: creates the set, without a TTL, when there is none.
AddBlock(w) ==
  /\ pc[w] = "addBlock"
  /\ key' = [key EXCEPT !["block"].members = @ \cup {call[w].peer}]
  /\ Goto(w, "invalidate")
  /\ UNCHANGED <<rows, snap>>

\* SREM of one peer: a set that loses its last member is gone.
RemoveBlock(w) ==
  /\ pc[w] = "removeBlock"
  /\ LET left == key["block"].members \ {call[w].peer}
     IN key' = [key EXCEPT !["block"] =
                  IF left = {} THEN NoKey ELSE [@ EXCEPT !.members = left]]
  /\ Return(w)
  /\ UNCHANGED rows

\* InvalidateFriendCache.
Invalidate(w) ==
  /\ pc[w] = "invalidate"
  /\ key' = [key EXCEPT !["friend"] = NoKey]
  /\ Return(w)
  /\ UNCHANGED rows

-----------------------------------------------------------------------------
\* A call goes away, or an error its handler ignores: what it had still to do in
\* Redis is not done.  A pipeline is sent as one write, so it is not cut short.
Die(w) ==
  /\ Faults
  /\ pc[w] \in {"query", "del", "addBlock", "removeBlock", "invalidate"}
  /\ Leave(w)
  /\ calm' = FALSE
  /\ UNCHANGED <<rows, key>>

\* 24 hours have passed since EXPIRE.
Expire(k) ==
  /\ key[k].expires
  /\ key' = [key EXCEPT ![k] = NoKey]
  /\ UNCHANGED <<rows, call, snap, pc, calm>>

Command(w) ==
  \/ Exists(w) \/ Query(w) \/ Del(w) \/ SAdd(w) \/ SetTTL(w) \/ IsMember(w)
  \/ Befriend(w) \/ Unfriend(w) \/ BlockUser(w) \/ UnblockUser(w) \/ Refuse(w)
  \/ AddBlock(w) \/ RemoveBlock(w) \/ Invalidate(w)

Next ==
  \/ \E w \in Workers : Arrive(w) \/ Command(w) \/ Die(w)
  \/ \E k \in Kinds : Expire(k)

Spec == Init /\ [][Next]_vars

\* A call goes on to its next command, and a key that has a TTL expires.
FairSpec ==
  /\ Spec
  /\ \A w \in Workers : WF_vars(Command(w))
  /\ \A k \in Kinds : WF_vars(Expire(k))

Owner == INSTANCE OwnerRows

\* The rows change only as the transactions change them.
RowsAsCommitted == Owner!RowsSpec

-----------------------------------------------------------------------------
TypeOK ==
  /\ rows \in [Kinds -> SUBSET Peers]
  /\ key \in [Kinds -> [members : SUBSET Peers, expires : BOOLEAN]]
  /\ \A k \in Kinds : key[k].members = {} => key[k] = NoKey
  /\ call \in [Workers -> [op : Ops, peer : Peers] \cup {NoCall}]
  /\ snap \in [Workers -> SUBSET Peers]
  /\ pc \in [Workers -> PCs]
  /\ calm \in BOOLEAN

\* No friend set lives for ever: whoever wrote one has set, or is about to set,
\* its TTL, whatever other loaders and invalidations came in between.
FriendSetExpires ==
  key["friend"] # NoKey =>
    \/ key["friend"].expires
    \/ \E w \in Workers : pc[w] = "expire" /\ Kind(w) = "friend"

\* While calls come one at a time and none dies, the friend set is absent or exactly
\* the rows whenever no call is under way: each operation that ends or starts a
\* friendship, BlockUser included, invalidates it, and every load is exact.  A race or
\* a death in the past does no harm once the set has been absent between two calls.
FriendSetExact ==
  calm /\ (\A w \in Workers : pc[w] = "idle") =>
    key["friend"].members \in {{}, rows["friend"]}

\* What the calls under way rely on, and the inductive invariant of the proofs.
CallKnown == \A w \in Workers : pc[w] # "idle" => call[w] # NoCall
NeverAddsNothing == \A w \in Workers : pc[w] = "sadd" => snap[w] # {}

OneCall == \A v, w \in Workers : pc[v] # "idle" /\ pc[w] # "idle" => v = w
SetUnlessChanging ==
  (\A w \in Workers : pc[w] \notin {"addBlock", "invalidate"}) =>
    key["friend"].members \in {{}, rows["friend"]}
LoadIsFresh ==
  \A w \in Workers : Kind(w) = "friend" =>
    /\ pc[w] \in {"del", "sadd"} => snap[w] = rows["friend"]
    /\ pc[w] = "sadd" => key["friend"] = NoKey
CalmInv == calm => OneCall /\ SetUnlessChanging /\ LoadIsFresh

IInv == TypeOK /\ CallKnown /\ NeverAddsNothing /\ FriendSetExpires /\ CalmInv

\* A friendship that no longer changes is seen as it is in the end: a loader that
\* read too early, or a call that died before it invalidated, is repaired by the TTL.
FriendSetConverges ==
  \A S \in SUBSET Peers :
    <>[](rows["friend"] = S) => <>[](key["friend"].members \in {{}, S})
=============================================================================
