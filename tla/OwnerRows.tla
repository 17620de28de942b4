----------------------------- MODULE OwnerRows -----------------------------
(***************************************************************************)
(* The rows of user_relations in which one agent is from_uid, as the       *)
(* transactions of rpc/pm change them: the part of FriendGraph that the    *)
(* agent's Redis sets cache.  Relations.tla implements this module for     *)
(* every agent, and RelationCache.tla implements it for its owner, so that *)
(* the cache model changes the rows only as the transactions do.           *)
(***************************************************************************)
CONSTANT Peers   \* the other agents

VARIABLE rows    \* kind -> the peers with a row owner -> peer

RowsInit == rows = [k \in {"friend", "block"} |-> {}]

\* A friendship of the two agents commits; it may be there already.
Befriend(q) == rows' = [rows EXCEPT !["friend"] = @ \cup {q}]

\* The friendship ends: Unfriend by either agent, or BlockUser by the other one.
Unfriend(q) ==
  /\ q \in rows["friend"]
  /\ rows' = [rows EXCEPT !["friend"] = @ \ {q}]

\* The owner blocks the other agent, which ends their friendship.
Block(q) ==
  /\ q \notin rows["block"]
  /\ rows' = [friend |-> rows["friend"] \ {q}, block |-> rows["block"] \cup {q}]

Unblock(q) ==
  /\ q \in rows["block"]
  /\ rows' = [rows EXCEPT !["block"] = @ \ {q}]

RowsNext == \E q \in Peers : Befriend(q) \/ Unfriend(q) \/ Block(q) \/ Unblock(q)

RowsSpec == RowsInit /\ [][RowsNext]_rows
=============================================================================
