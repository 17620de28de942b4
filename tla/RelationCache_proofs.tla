------------------------ MODULE RelationCache_proofs ------------------------
(***************************************************************************)
(* Theorems about RelationCache, for any peers, concurrent calls,          *)
(* operations and faults.                                                  *)
(***************************************************************************)
EXTENDS RelationCache, TLAPS

\* A worker's command is about one of the two sets.
LEMMA KindFacts ==
  ASSUME NEW w \in Workers
  PROVE  Kind(w) \in Kinds
BY DEF Kind, KindRead, Kinds

\* What a call under way knows.
LEMMA CallFacts ==
  ASSUME IInv, NEW w \in Workers, pc[w] # "idle"
  PROVE  call[w] \in [op : Ops, peer : Peers]
BY DEF IInv, TypeOK, CallKnown

\* A command of the only call under way keeps what holds while it is calm.
LEMMA CalmStep ==
  ASSUME IInv, NEW w \in Workers, pc[w] # "idle", calm' = calm,
         \A v \in Workers \ {w} : /\ pc'[v] = pc[v]
                                  /\ call'[v] = call[v]
                                  /\ snap'[v] = snap[v],
         OneCall /\ SetUnlessChanging /\ LoadIsFresh =>
           /\ pc'[w] \notin {"addBlock", "invalidate"} =>
                key'["friend"].members \in {{}, rows'["friend"]}
           /\ Kind(w)' = "friend" =>
                /\ pc'[w] \in {"del", "sadd"} => snap'[w] = rows'["friend"]
                /\ pc'[w] = "sadd" => key'["friend"] = NoKey
  PROVE  CalmInv'
<1> SUFFICES ASSUME calm' PROVE OneCall' /\ SetUnlessChanging' /\ LoadIsFresh'
  BY DEF CalmInv
<1>1. OneCall /\ SetUnlessChanging /\ LoadIsFresh
  BY DEF IInv, CalmInv
<1>2. \A v \in Workers \ {w} : pc'[v] = "idle"
  BY <1>1 DEF OneCall
<1>3. OneCall'
  BY <1>2 DEF OneCall
<1>4. SetUnlessChanging'
  BY <1>1 DEF SetUnlessChanging
<1>5. LoadIsFresh'
  BY <1>1, <1>2 DEF LoadIsFresh
<1> QED
  BY <1>3, <1>4, <1>5

\* In a calm state the set of a call under way is what the call's place says.
LEMMA CalmFacts ==
  ASSUME IInv, NEW w \in Workers, pc[w] \notin {"idle", "addBlock", "invalidate"},
         OneCall /\ SetUnlessChanging /\ LoadIsFresh
  PROVE  key["friend"].members \in {{}, rows["friend"]}
<1>1. \A v \in Workers : pc[v] \notin {"addBlock", "invalidate"}
  BY DEF OneCall
<1> QED
  BY <1>1 DEF SetUnlessChanging

\* A call that ends without touching rows or sets.
LEMMA LeaveStep ==
  ASSUME IInv, NEW w \in Workers, Leave(w), UNCHANGED <<rows, key>>,
         pc[w] \notin {"idle", "expire"},
         calm' = FALSE \/ (calm' = calm /\ pc[w] \notin {"addBlock", "invalidate"})
  PROVE  IInv'
<1> USE DEF Leave, NoCall, PCs
<1>1. TypeOK'
  BY DEF IInv, TypeOK
<1>2. CallKnown' /\ NeverAddsNothing'
  BY DEF IInv, TypeOK, CallKnown, NeverAddsNothing
<1>3. FriendSetExpires'
  BY DEF IInv, TypeOK, FriendSetExpires, Kind
<1>4. CalmInv'
  <2>1. CASE calm' = FALSE
    BY <2>1 DEF CalmInv
  <2>2. CASE calm' = calm /\ pc[w] \notin {"addBlock", "invalidate"}
    <3>1. pc'[w] = "idle"
      BY DEF IInv, TypeOK
    <3>2. \A v \in Workers \ {w} : pc'[v] = pc[v] /\ call'[v] = call[v] /\ snap'[v] = snap[v]
      BY DEF IInv, TypeOK
    <3> QED
      BY <2>2, <3>1, <3>2, CalmStep, CalmFacts
  <2> QED
    BY <2>1, <2>2
<1> QED
  BY <1>1, <1>2, <1>3, <1>4 DEF IInv

\* A call that goes on without touching the sets or what a loader has read.
LEMMA GotoStep ==
  ASSUME IInv, NEW w \in Workers, NEW l \in PCs \ {"del", "sadd"}, Goto(w, l),
         pc[w] \notin {"idle", "expire", "addBlock", "invalidate"},
         rows' \in [Kinds -> SUBSET Peers],
         l \in {"addBlock", "invalidate"} \/ rows'["friend"] = rows["friend"],
         UNCHANGED <<key, snap>>
  PROVE  IInv'
<1> USE DEF Goto, PCs
<1>1. TypeOK'
  BY DEF IInv, TypeOK
<1>2. CallKnown' /\ NeverAddsNothing'
  BY DEF IInv, TypeOK, CallKnown, NeverAddsNothing
<1>3. FriendSetExpires'
  BY DEF IInv, TypeOK, FriendSetExpires, Kind
<1>4. CalmInv'
  <2>1. pc'[w] = l
    BY DEF IInv, TypeOK
  <2>2. \A v \in Workers \ {w} : pc'[v] = pc[v] /\ call'[v] = call[v] /\ snap'[v] = snap[v]
    BY DEF IInv, TypeOK
  <2> QED
    BY <2>1, <2>2, CalmStep, CalmFacts
<1> QED
  BY <1>1, <1>2, <1>3, <1>4 DEF IInv

-----------------------------------------------------------------------------
\* The commands of a fill.

\* DEL of a fill: the set is gone, and only rows that are there are added next.
LEMMA DelStep ==
  ASSUME IInv, NEW w \in Workers, Del(w)
  PROVE  IInv'
<1> USE KindFacts DEF Del, Goto, PCs
<1>1. TypeOK'
  BY DEF IInv, TypeOK, NoKey
<1>2. CallKnown' /\ NeverAddsNothing'
  BY DEF IInv, TypeOK, CallKnown, NeverAddsNothing
<1>3. FriendSetExpires'
  <2>1. CASE Kind(w) = "friend"
    BY <2>1 DEF IInv, TypeOK, FriendSetExpires, Kinds
  <2>2. CASE Kind(w) # "friend"
    BY <2>2 DEF IInv, TypeOK, FriendSetExpires, Kinds, Kind
  <2> QED
    BY <2>1, <2>2
<1>4. CalmInv'
  <2>1. \A v \in Workers \ {w} : pc'[v] = pc[v] /\ call'[v] = call[v] /\ snap'[v] = snap[v]
    BY DEF IInv, TypeOK
  <2>2. pc'[w] \in {"isMember", "sadd"} /\ Kind(w)' = Kind(w)
    BY DEF IInv, TypeOK, Kind
  <2>3. CASE Kind(w) = "friend"
    <3>1. key'["friend"] = NoKey
      BY <2>3 DEF IInv, TypeOK, Kinds
    <3> QED
      BY <2>1, <2>2, <2>3, <3>1, CalmStep DEF NoKey, LoadIsFresh
  <2>4. CASE Kind(w) # "friend"
    <3>1. key'["friend"] = key["friend"]
      BY <2>4 DEF IInv, TypeOK, Kinds
    <3> QED
      BY <2>1, <2>2, <2>4, <3>1, CalmStep, CalmFacts
  <2> QED
    BY <2>3, <2>4
<1> QED
  BY <1>1, <1>2, <1>3, <1>4 DEF IInv

\* SADD of a fill: its EXPIRE is the worker's next command.
LEMMA SAddStep ==
  ASSUME IInv, NEW w \in Workers, SAdd(w)
  PROVE  IInv'
<1> USE KindFacts DEF SAdd, Goto, PCs
<1>1. TypeOK'
  <2>1. snap[w] # {} /\ snap[w] \subseteq Peers
    BY DEF IInv, TypeOK, NeverAddsNothing
  <2>2. key' \in [Kinds -> [members : SUBSET Peers, expires : BOOLEAN]]
    BY <2>1 DEF IInv, TypeOK
  <2>3. \A k \in Kinds : key'[k].members = {} => key'[k] = NoKey
    BY <2>1 DEF IInv, TypeOK
  <2> QED
    BY <2>2, <2>3 DEF IInv, TypeOK
<1>2. CallKnown' /\ NeverAddsNothing'
  BY DEF IInv, TypeOK, CallKnown, NeverAddsNothing
<1>3. FriendSetExpires'
  <2>1. CASE Kind(w) = "friend"
    <3>1. pc'[w] = "expire" /\ Kind(w)' = "friend"
      BY <2>1 DEF IInv, TypeOK, Kind
    <3> QED
      BY <3>1 DEF FriendSetExpires
  <2>2. CASE Kind(w) # "friend"
    <3>1. key'["friend"] = key["friend"]
      BY <2>2 DEF IInv, TypeOK, Kinds
    <3>2. \A v \in Workers : pc[v] = "expire" =>
            pc'[v] = "expire" /\ Kind(v)' = Kind(v)
      BY DEF IInv, TypeOK, Kind
    <3> QED
      BY <3>1, <3>2 DEF IInv, FriendSetExpires
  <2> QED
    BY <2>1, <2>2
<1>4. CalmInv'
  <2>1. \A v \in Workers \ {w} : pc'[v] = pc[v] /\ call'[v] = call[v] /\ snap'[v] = snap[v]
    BY DEF IInv, TypeOK
  <2>2. pc'[w] = "expire" /\ Kind(w)' = Kind(w)
    BY DEF IInv, TypeOK, Kind
  <2>3. CASE Kind(w) = "friend"
    <3>1. key'["friend"].members = key["friend"].members \cup snap[w]
      BY <2>3 DEF IInv, TypeOK, Kinds
    <3> QED
      BY <2>1, <2>2, <2>3, <3>1, CalmStep DEF NoKey, LoadIsFresh
  <2>4. CASE Kind(w) # "friend"
    <3>1. key'["friend"] = key["friend"]
      BY <2>4 DEF IInv, TypeOK, Kinds
    <3> QED
      BY <2>1, <2>2, <2>4, <3>1, CalmStep, CalmFacts
  <2> QED
    BY <2>3, <2>4
<1> QED
  BY <1>1, <1>2, <1>3, <1>4 DEF IInv

\* EXPIRE of a fill: the set of its kind has a TTL or is gone.
LEMMA SetTTLStep ==
  ASSUME IInv, NEW w \in Workers, SetTTL(w)
  PROVE  IInv'
<1> USE KindFacts DEF SetTTL, Goto, PCs
<1>1. TypeOK'
  BY DEF IInv, TypeOK, NoKey
<1>2. CallKnown' /\ NeverAddsNothing'
  BY DEF IInv, TypeOK, CallKnown, NeverAddsNothing
<1>3. FriendSetExpires'
  <2>1. CASE Kind(w) = "friend"
    BY <2>1 DEF IInv, TypeOK, FriendSetExpires
  <2>2. CASE Kind(w) # "friend"
    <3>1. key'["friend"] = key["friend"]
      BY <2>2 DEF IInv, TypeOK, Kinds
    <3>2. \A v \in Workers : pc[v] = "expire" /\ Kind(v) = "friend" =>
            pc'[v] = "expire" /\ Kind(v)' = "friend"
      BY <2>2 DEF IInv, TypeOK, Kind
    <3> QED
      BY <3>1, <3>2 DEF IInv, FriendSetExpires
  <2> QED
    BY <2>1, <2>2
<1>4. CalmInv'
  <2>1. \A v \in Workers \ {w} : pc'[v] = pc[v] /\ call'[v] = call[v] /\ snap'[v] = snap[v]
    BY DEF IInv, TypeOK
  <2>2. pc'[w] = "isMember"
    BY DEF IInv, TypeOK
  <2>3. key'["friend"].members = key["friend"].members
    BY DEF IInv, TypeOK, Kinds
  <2> QED
    BY <2>1, <2>2, <2>3, CalmStep, CalmFacts
<1> QED
  BY <1>1, <1>2, <1>3, <1>4 DEF IInv

-----------------------------------------------------------------------------
\* The commands after a commit.

\* SADD of BlockUser: the block set has a member.
LEMMA AddBlockStep ==
  ASSUME IInv, NEW w \in Workers, AddBlock(w)
  PROVE  IInv'
<1> USE DEF AddBlock, Goto, PCs, Kinds
<1>1. call[w].peer \in Peers
  BY CallFacts
<1>2. TypeOK'
  BY <1>1 DEF IInv, TypeOK, NoKey
<1>3. CallKnown' /\ NeverAddsNothing'
  BY DEF IInv, TypeOK, CallKnown, NeverAddsNothing
<1>4. FriendSetExpires'
  BY DEF IInv, TypeOK, FriendSetExpires, Kind
<1>5. CalmInv'
  <2>1. \A v \in Workers \ {w} : pc'[v] = pc[v] /\ call'[v] = call[v] /\ snap'[v] = snap[v]
    BY DEF IInv, TypeOK
  <2>2. pc'[w] = "invalidate"
    BY DEF IInv, TypeOK
  <2> QED
    BY <2>1, <2>2, CalmStep
<1> QED
  BY <1>2, <1>3, <1>4, <1>5 DEF IInv

\* SREM of UnblockUser: an empty block set is no set.
LEMMA RemoveBlockStep ==
  ASSUME IInv, NEW w \in Workers, RemoveBlock(w)
  PROVE  IInv'
<1> USE DEF RemoveBlock, Return, Leave, NoCall, PCs, Kinds
<1>1. TypeOK'
  BY DEF IInv, TypeOK, NoKey
<1>2. CallKnown' /\ NeverAddsNothing'
  BY DEF IInv, TypeOK, CallKnown, NeverAddsNothing
<1>3. FriendSetExpires'
  BY DEF IInv, TypeOK, FriendSetExpires, Kind
<1>4. CalmInv'
  <2>1. \A v \in Workers \ {w} : pc'[v] = pc[v] /\ call'[v] = call[v] /\ snap'[v] = snap[v]
    BY DEF IInv, TypeOK
  <2>2. pc'[w] = "idle" /\ key'["friend"] = key["friend"]
    BY DEF IInv, TypeOK
  <2> QED
    BY <2>1, <2>2, CalmStep, CalmFacts
<1> QED
  BY <1>1, <1>2, <1>3, <1>4 DEF IInv

\* DEL of InvalidateFriendCache.
LEMMA InvalidateStep ==
  ASSUME IInv, NEW w \in Workers, Invalidate(w)
  PROVE  IInv'
<1> USE DEF Invalidate, Return, Leave, NoCall, PCs, Kinds
<1>1. TypeOK'
  BY DEF IInv, TypeOK, NoKey
<1>2. CallKnown' /\ NeverAddsNothing'
  BY DEF IInv, TypeOK, CallKnown, NeverAddsNothing
<1>3. FriendSetExpires'
  BY DEF IInv, TypeOK, FriendSetExpires
<1>4. CalmInv'
  <2>1. \A v \in Workers \ {w} : pc'[v] = pc[v] /\ call'[v] = call[v] /\ snap'[v] = snap[v]
    BY DEF IInv, TypeOK
  <2>2. pc'[w] = "idle" /\ key'["friend"] = NoKey
    BY DEF IInv, TypeOK
  <2> QED
    BY <2>1, <2>2, CalmStep DEF NoKey
<1> QED
  BY <1>1, <1>2, <1>3, <1>4 DEF IInv

-----------------------------------------------------------------------------
\* Arrivals, queries and transactions.

\* A worker takes a call.
LEMMA ArriveStep ==
  ASSUME IInv, NEW w \in Workers, Arrive(w)
  PROVE  IInv'
<1> USE DEF Arrive, PCs
<1>1. PICK op \in Ops, p \in Peers :
        /\ call' = [call EXCEPT ![w] = [op |-> op, peer |-> p]]
        /\ pc' = [pc EXCEPT ![w] = IF op \in ReadOps THEN "exists" ELSE "commit"]
  OBVIOUS
<1>2. TypeOK'
  BY <1>1 DEF IInv, TypeOK
<1>3. CallKnown'
  <2>1. [op |-> op, peer |-> p] # NoCall
    BY DEF NoCall
  <2> QED
    BY <1>1, <2>1 DEF IInv, TypeOK, CallKnown
<1>4. NeverAddsNothing'
  BY <1>1 DEF IInv, TypeOK, NeverAddsNothing
<1>5. FriendSetExpires'
  BY <1>1 DEF IInv, TypeOK, FriendSetExpires, Kind
<1>6. CalmInv'
  <2>1. SUFFICES ASSUME calm' PROVE OneCall' /\ SetUnlessChanging' /\ LoadIsFresh'
    BY DEF CalmInv
  <2>2. (\A v \in Workers : pc[v] = "idle") /\ (calm \/ key["friend"] = NoKey)
    BY <2>1
  <2>3. key["friend"].members \in {{}, rows["friend"]}
    BY <2>2 DEF IInv, CalmInv, SetUnlessChanging, NoKey
  <2>4. /\ pc'[w] \in {"exists", "commit"}
        /\ \A v \in Workers \ {w} : pc'[v] = "idle"
    BY <1>1, <2>2 DEF IInv, TypeOK
  <2> QED
    BY <2>3, <2>4 DEF OneCall, SetUnlessChanging, LoadIsFresh
<1> QED
  BY <1>2, <1>3, <1>4, <1>5, <1>6 DEF IInv

\* A loader reads the rows.
LEMMA QueryStep ==
  ASSUME IInv, NEW w \in Workers, Query(w)
  PROVE  IInv'
<1> USE KindFacts DEF Query, Goto, PCs
<1>1. TypeOK'
  BY DEF IInv, TypeOK
<1>2. CallKnown' /\ NeverAddsNothing'
  BY DEF IInv, TypeOK, CallKnown, NeverAddsNothing
<1>3. FriendSetExpires'
  BY DEF IInv, TypeOK, FriendSetExpires, Kind
<1>4. CalmInv'
  <2>1. \A v \in Workers \ {w} : pc'[v] = pc[v] /\ call'[v] = call[v] /\ snap'[v] = snap[v]
    BY DEF IInv, TypeOK
  <2>2. pc'[w] = "del" /\ Kind(w)' = Kind(w) /\ snap'[w] = rows[Kind(w)]
    BY DEF IInv, TypeOK, Kind
  <2> QED
    BY <2>1, <2>2, CalmStep, CalmFacts
<1> QED
  BY <1>1, <1>2, <1>3, <1>4 DEF IInv

\* The four transactions change the rows and go on to their Redis command.
LEMMA CommitStep ==
  ASSUME IInv, NEW w \in Workers,
         Befriend(w) \/ Unfriend(w) \/ BlockUser(w) \/ UnblockUser(w)
  PROVE  IInv'
<1> USE DEF AtCommit
<1>1. pc[w] = "commit"
  BY DEF Befriend, Unfriend, BlockUser, UnblockUser
<1>2. call[w].peer \in Peers
  BY <1>1, CallFacts
<1>3. rows' \in [Kinds -> SUBSET Peers]
  BY <1>2 DEF Befriend, Unfriend, BlockUser, UnblockUser, IInv, TypeOK, Kinds
<1>4. UNCHANGED <<key, snap>>
  BY DEF Befriend, Unfriend, BlockUser, UnblockUser
<1>5. \/ \E l \in {"invalidate", "addBlock"} : Goto(w, l)
      \/ Goto(w, "removeBlock") /\ rows'["friend"] = rows["friend"]
  BY DEF Befriend, Unfriend, BlockUser, UnblockUser, IInv, TypeOK, Kinds
<1> QED
  BY <1>1, <1>3, <1>4, <1>5, GotoStep DEF PCs

\* EXISTS changes nothing but where the worker is.
LEMMA ExistsStep ==
  ASSUME IInv, NEW w \in Workers, Exists(w)
  PROVE  IInv'
<1>1. \E l \in {"query", "isMember"} : Goto(w, l)
  BY DEF Exists
<1>2. rows' \in [Kinds -> SUBSET Peers]
  BY DEF Exists, IInv, TypeOK
<1> QED
  BY <1>1, <1>2, GotoStep DEF Exists, PCs

\* A TTL runs out.
LEMMA ExpireStep ==
  ASSUME IInv, NEW k \in Kinds, Expire(k)
  PROVE  IInv'
<1>1. TypeOK'
  BY DEF Expire, IInv, TypeOK, NoKey
<1>2. CallKnown' /\ NeverAddsNothing'
  BY DEF Expire, IInv, CallKnown, NeverAddsNothing
<1>3. FriendSetExpires'
  BY DEF Expire, IInv, TypeOK, FriendSetExpires, Kind, Kinds
<1>4. CalmInv'
  <2>1. SUFFICES ASSUME calm' PROVE OneCall' /\ SetUnlessChanging' /\ LoadIsFresh'
    BY DEF CalmInv
  <2>2. OneCall /\ SetUnlessChanging /\ LoadIsFresh
    BY <2>1 DEF Expire, IInv, CalmInv
  <2>3. key'["friend"] \in {key["friend"], NoKey}
    BY DEF Expire, IInv, TypeOK, Kinds
  <2>4. OneCall' /\ SetUnlessChanging'
    BY <2>2, <2>3 DEF Expire, OneCall, SetUnlessChanging, NoKey
  <2>5. LoadIsFresh'
    BY <2>2, <2>3 DEF Expire, LoadIsFresh, Kind
  <2> QED
    BY <2>4, <2>5
<1> QED
  BY <1>1, <1>2, <1>3, <1>4 DEF IInv

-----------------------------------------------------------------------------
\* The invariant holds at the start.
LEMMA InitIInv == Init => IInv
<1> SUFFICES ASSUME Init PROVE IInv
  OBVIOUS
<1>1. TypeOK
  BY DEF Init, TypeOK, NoKey, PCs
<1>2. CallKnown /\ NeverAddsNothing /\ FriendSetExpires
  BY DEF Init, CallKnown, NeverAddsNothing, FriendSetExpires, Kinds
<1>3. CalmInv
  BY DEF Init, CalmInv, OneCall, SetUnlessChanging, LoadIsFresh, NoKey, Kinds
<1> QED
  BY <1>1, <1>2, <1>3 DEF IInv

\* Every step preserves the invariant.
LEMMA NextIInv == IInv /\ [Next]_vars => IInv'
<1> SUFFICES ASSUME IInv, [Next]_vars PROVE IInv'
  OBVIOUS
<1>1. ASSUME NEW w \in Workers, Arrive(w) PROVE IInv'
  BY <1>1, ArriveStep
<1>2. ASSUME NEW w \in Workers, Command(w) PROVE IInv'
  <2>1. CASE Exists(w)
    BY <2>1, ExistsStep
  <2>2. CASE Query(w)
    BY <2>2, QueryStep
  <2>3. CASE Del(w)
    BY <2>3, DelStep
  <2>4. CASE SAdd(w)
    BY <2>4, SAddStep
  <2>5. CASE SetTTL(w)
    BY <2>5, SetTTLStep
  <2>6. CASE IsMember(w) \/ Refuse(w)
    BY <2>6, LeaveStep DEF IsMember, Refuse, Return
  <2>7. CASE Befriend(w) \/ Unfriend(w) \/ BlockUser(w) \/ UnblockUser(w)
    BY <2>7, CommitStep
  <2>8. CASE AddBlock(w)
    BY <2>8, AddBlockStep
  <2>9. CASE RemoveBlock(w)
    BY <2>9, RemoveBlockStep
  <2>10. CASE Invalidate(w)
    BY <2>10, InvalidateStep
  <2> QED
    BY <1>2, <2>1, <2>2, <2>3, <2>4, <2>5, <2>6, <2>7, <2>8, <2>9, <2>10 DEF Command
<1>3. ASSUME NEW w \in Workers, Die(w) PROVE IInv'
  BY <1>3, LeaveStep DEF Die
<1>4. ASSUME NEW k \in Kinds, Expire(k) PROVE IInv'
  BY <1>4, ExpireStep
<1>5. CASE UNCHANGED vars
  BY <1>5 DEF vars, IInv, TypeOK, CallKnown, NeverAddsNothing, FriendSetExpires, Kind,
                CalmInv, OneCall, SetUnlessChanging, LoadIsFresh
<1> QED
  BY <1>1, <1>2, <1>3, <1>4, <1>5 DEF Next

\* The inductive invariant holds in every state of RelationCache.
THEOREM Invariance == Spec => []IInv
BY InitIInv, NextIInv, PTL DEF Spec

\* Type correctness; no set is ever empty.
THEOREM TypeCorrect == Spec => []TypeOK
<1>1. IInv => TypeOK
  BY DEF IInv
<1> QED
  BY <1>1, Invariance, PTL

\* Whatever loads, invalidations, lost commands and deaths come in what order, a
\* friend set (cache.go) has its TTL or is about to get it.
THEOREM NoImmortalFriendSet == Spec => []FriendSetExpires
<1>1. IInv => FriendSetExpires
  BY DEF IInv
<1> QED
  BY <1>1, Invariance, PTL

\* While calls come one at a time and none dies, the friend set is absent or exactly
\* the rows of user_relations between two calls.
THEOREM FriendSetIsExact == Spec => []FriendSetExact
<1>1. IInv => FriendSetExact
  BY DEF IInv, CalmInv, SetUnlessChanging, FriendSetExact
<1> QED
  BY <1>1, Invariance, PTL

\* The rows change as OwnerRows says, which Relations implements for every agent.
THEOREM RowsRefinement == Spec => RowsAsCommitted
<1>1. Init => Owner!RowsInit
  BY DEF Init, Kinds, Owner!RowsInit
<1>2. IInv /\ [Next]_vars => [Owner!RowsNext]_rows
  <2> SUFFICES ASSUME IInv, [Next]_vars, rows' # rows
               PROVE  \E q \in Peers : \/ Owner!Befriend(q) \/ Owner!Unfriend(q)
                                       \/ Owner!Block(q) \/ Owner!Unblock(q)
    BY DEF Owner!RowsNext
  <2>1. PICK w \in Workers : Befriend(w) \/ Unfriend(w) \/ BlockUser(w) \/ UnblockUser(w)
    BY DEF vars, Next, Arrive, Command, Die, Expire, Exists, Query, Del, SAdd, SetTTL,
           IsMember, Refuse, AddBlock, RemoveBlock, Invalidate
  <2>2. call[w].peer \in Peers
    BY <2>1, CallFacts DEF Befriend, Unfriend, BlockUser, UnblockUser, AtCommit
  <2>3. \/ Owner!Befriend(call[w].peer) \/ Owner!Unfriend(call[w].peer)
        \/ Owner!Block(call[w].peer) \/ Owner!Unblock(call[w].peer)
    BY <2>1 DEF Befriend, Unfriend, BlockUser, UnblockUser, Owner!Befriend, Owner!Unfriend,
                Owner!Block, Owner!Unblock
  <2> QED
    BY <2>2, <2>3
<1> QED
  BY <1>1, <1>2, Invariance, PTL DEF Spec, RowsAsCommitted, Owner!RowsSpec
=============================================================================
