------------------------------ MODULE IdSource ------------------------------
(***************************************************************************)
(* What the callers of NextID (pkg/idgen) rely on: the generators of one   *)
(* service hand out positive ids, each generator in increasing order, and  *)
(* as long as leases and clocks behave never the same id twice.            *)
(***************************************************************************)
EXTENDS Naturals

CONSTANT Generators

VARIABLES
  issued,   \* the ids handed out: {[by, id]}
  sound     \* FALSE once a lease or a clock has misbehaved

Init == issued = {} /\ sound = TRUE

Issue(g) ==
  \E r \in issued' :
    /\ issued' = issued \cup {r}
    /\ r.by = g /\ r.id \in Nat \ {0}
    /\ \A s \in issued : s.by = g => s.id < r.id
    /\ sound' => \A s \in issued : s.id # r.id

Next ==
  /\ \/ \E g \in Generators : Issue(g)
     \/ UNCHANGED issued
  /\ sound' => sound

Spec == Init /\ [][Next]_<<issued, sound>>
=============================================================================
