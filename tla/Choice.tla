------------------------------- MODULE Choice -------------------------------
(***************************************************************************)
(* What an attention item promises the user (api/consolev2): a choice at a *)
(* time.  The item and the outcome of the last choice made for it, each    *)
(* operation one step, but for the end of an item whose time is over: what *)
(* is closed is an item that had no choice under way when the closing      *)
(* began.  Commands.tla, with its keys, retries, claims, fencing epochs    *)
(* and retention jobs, implements this module.                             *)
(***************************************************************************)
EXTENDS Integers

VARIABLES
  item,     \* the row of agent_attention_items
  choice,   \* what became of the last choice, or "none"
  closing   \* the item has been found without a choice under way, to be closed

choiceVars == <<item, choice, closing>>

\* Every change of the item's status but a dismissal takes a new revision.
Turn(s) == item' = [item EXCEPT !.status = s, !.revision = @ + 1]

ChoiceInit ==
  /\ item = [status |-> "open", revision |-> 1, inTime |-> TRUE]
  /\ choice = "none"
  /\ closing = FALSE

\* The user answers an item that is open and in time.
Choose ==
  /\ item.status = "open" /\ item.inTime
  /\ Turn("pending")
  /\ choice' = "live"
  /\ UNCHANGED closing

\* The agent has carried the choice out: nothing else is ever chosen.
Act ==
  /\ item.status = "pending" /\ choice = "live"
  /\ Turn("acted")
  /\ choice' = "completed"
  /\ UNCHANGED closing

\* The agent could not: the user may choose again.
FallThrough ==
  /\ item.status = "pending" /\ choice = "live"
  /\ Turn("open")
  /\ choice' = "failed"
  /\ UNCHANGED closing

\* The choice grows old before an agent has carried it out.
Lapse ==
  /\ item.status = "pending" /\ choice = "live"
  /\ choice' = "expired"
  /\ UNCHANGED <<item, closing>>

Reopen ==
  /\ item.status = "pending" /\ item.inTime /\ choice = "expired"
  /\ Turn("open")
  /\ UNCHANGED <<choice, closing>>

\* The closing of an item begins, never while a choice is being carried out.
BeginClosing ==
  /\ item.status \in {"open", "pending"} /\ choice # "live"
  /\ closing' = TRUE
  /\ UNCHANGED <<item, choice>>

\* An item whose time is over is closed.
Expire ==
  /\ closing /\ item.status \in {"open", "pending"} /\ ~item.inTime
  /\ Turn("expired")
  /\ closing' = FALSE
  /\ UNCHANGED choice

LeaveOpen ==
  /\ closing' = FALSE
  /\ UNCHANGED <<item, choice>>

\* A choice made after the closing had begun comes to its end, and the item stays closed.
EndUnseen ==
  /\ item.status = "expired" /\ choice = "live"
  /\ choice' \in {"completed", "failed", "expired"}
  /\ UNCHANGED <<item, closing>>

Dismiss ==
  /\ item.status = "open" /\ item.inTime
  /\ item' = [item EXCEPT !.status = "dismissed"]
  /\ UNCHANGED <<choice, closing>>

TimeRunsOut ==
  /\ item.inTime
  /\ item' = [item EXCEPT !.inTime = FALSE]
  /\ UNCHANGED <<choice, closing>>

ChoiceNext ==
  \/ Choose \/ Act \/ FallThrough \/ Lapse \/ Reopen \/ Dismiss \/ TimeRunsOut
  \/ BeginClosing \/ Expire \/ LeaveOpen \/ EndUnseen

ChoiceSpec == ChoiceInit /\ [][ChoiceNext]_choiceVars
=============================================================================
