----------------------------- MODULE FriendGraph -----------------------------
(***************************************************************************)
(* What the relation service (rpc/pm) promises about the tables            *)
(* user_relations and friend_requests: every operation a client can call   *)
(* is one atomic step on the two tables.  Relations.tla models the         *)
(* transactions, the row locks and the advisory locks the code uses, and   *)
(* is checked to implement this module.                                    *)
(***************************************************************************)
EXTENDS Integers, FiniteSets

CONSTANTS
  Users,        \* the agents (agents.agent_id)
  MaxRequests   \* bound on the request ids the id generator hands out

ASSUME MaxRequestsAssumption == MaxRequests \in Nat

VARIABLES
  friend,   \* rows of user_relations with rel_type = 1: {<<from_uid, to_uid>>}
  block,    \* rows of user_relations with rel_type = 2: {<<from_uid, to_uid>>}
  req,      \* friend_requests, UNIQUE(from_uid, to_uid): pair -> row or NoRow
  nextId    \* the next id of the snowflake generator reqIDGen

dbVars == <<friend, block, req, nextId>>

Pairs == {p \in Users \X Users : p[1] # p[2]}

Flip(p) == <<p[2], p[1]>>

Both(p) == {p, Flip(p)}

Statuses == {"pending", "accepted", "rejected", "cancelled", "unfriended"}

NoRow == [id |-> 0, status |-> "none"]

Rows == [id : 1..MaxRequests, status : Statuses]

Pending(p) == req[p].status = "pending"

\* UPDATE friend_requests SET status = s on the rows of the pairs in P.
SetStatus(P, s) ==
  [q \in Pairs |-> IF q \in P THEN [req[q] EXCEPT !.status = s] ELSE req[q]]

-----------------------------------------------------------------------------

GraphInit ==
  /\ friend = {}
  /\ block = {}
  /\ req = [p \in Pairs |-> NoRow]
  /\ nextId = 1

\* A request from p[1] to p[2]: a new row, or the old row under a fresh id.
Ask(p) ==
  /\ nextId <= MaxRequests
  /\ ~Pending(p)
  /\ ~Pending(Flip(p))
  /\ req' = [req EXCEPT ![p] = [id |-> nextId, status |-> "pending"]]
  /\ nextId' = nextId + 1
  /\ UNCHANGED <<friend, block>>

\* The requests of P (one or both directions of a pair) are accepted; the two
\* agents are friends afterwards.
Befriend(p, P) ==
  /\ P \subseteq Both(p)
  /\ \A q \in P : Pending(q)
  /\ req' = SetStatus(P, "accepted")
  /\ friend' = friend \cup Both(p)
  /\ UNCHANGED <<block, nextId>>

\* The recipient's explicit ACCEPT: never across a block.
Accept(p) ==
  /\ Both(p) \cap block = {}
  /\ Befriend(p, {p})

\* An ACCEPT that found the two agents friends already makes no friendship.  They
\* were friends when it looked; an Unfriend may have ended that since.
Confirm(p) ==
  /\ Both(p) \cap block = {}
  /\ Pending(p)
  /\ req' = SetStatus({p}, "accepted")
  /\ UNCHANGED <<friend, block, nextId>>

\* Two agents who asked for each other, or the official account's welcome.
Meet(p) == \E P \in SUBSET Both(p) : Befriend(p, P)

Decline(p, s) ==
  /\ s \in {"rejected", "cancelled"}
  /\ Pending(p)
  /\ req' = SetStatus({p}, s)
  /\ UNCHANGED <<friend, block, nextId>>

Unfriend(p) ==
  /\ Both(p) \subseteq friend
  /\ friend' = friend \ Both(p)
  /\ \E P \in SUBSET {q \in Both(p) : req[q].status = "accepted"} :
       req' = SetStatus(P, "unfriended")
  /\ UNCHANGED <<block, nextId>>

Block(p) ==
  /\ p \notin block
  /\ block' = block \cup {p}
  /\ friend' = friend \ Both(p)
  /\ req' = [q \in Pairs |->
               IF q \in Both(p) /\ req[q].status = "pending"
               THEN [req[q] EXCEPT !.status = "cancelled"]
               ELSE IF q \in Both(p) /\ req[q].status = "accepted"
               THEN [req[q] EXCEPT !.status = "unfriended"]
               ELSE req[q]]
  /\ UNCHANGED nextId

Unblock(p) ==
  /\ p \in block
  /\ block' = block \ {p}
  /\ \E P \in SUBSET {q \in {Flip(p)} : Pending(q)} :
       req' = SetStatus(P, "cancelled")
  /\ UNCHANGED <<friend, nextId>>

GraphNext ==
  \E p \in Pairs :
    \/ Ask(p)
    \/ Accept(p)
    \/ Confirm(p)
    \/ Meet(p)
    \/ \E s \in {"rejected", "cancelled"} : Decline(p, s)
    \/ Unfriend(p)
    \/ Block(p)
    \/ Unblock(p)

GraphSpec == GraphInit /\ [][GraphNext]_dbVars

-----------------------------------------------------------------------------
\* The rows of one agent, which its Redis sets cache.
RowsOf(o) == [friend |-> {q \in Users : <<o, q>> \in friend},
              block |-> {q \in Users : <<o, q>> \in block}]

View(o) == INSTANCE OwnerRows WITH Peers <- Users \ {o}, rows <- RowsOf(o)

\* What RelationCache takes the transactions to do to the rows of an agent is what
\* they do to the rows of every agent.
RowsAsCached == \A o \in Users : View(o)!RowsSpec
=============================================================================
