------------------------------- MODULE Commands -------------------------------
(***************************************************************************)
(* The commands of one agent and one of its attention items                *)
(* (api/consolev2): the console answers the item or makes a command of its *)
(* own, both under an idempotency key; the agent's runtimes claim the      *)
(* commands under a lease with a fencing epoch and complete them; the      *)
(* retention jobs expire what stays behind (pkg/consolev2retention).       *)
(*                                                                         *)
(* A transaction is one step from its first row lock on; what a statement  *)
(* of the jobs has seen before it gets its lock is a step of its own where *)
(* that can have changed.  Time is what passes between two steps: claims   *)
(* lapse, commands grow old, the item's time runs out.  The jobs run one   *)
(* after the other and in one process, as the lock of their cron job sees  *)
(* to.  The agent is onboarded, its runtimes hold their leases and have    *)
(* applied the context their commands ask for; no command is deleted; the  *)
(* actions of the item are alike.                                          *)
(***************************************************************************)
EXTENDS Integers, Sequences

CONSTANTS
  Calls,         \* concurrent calls of the console
  Keys,          \* idempotency keys
  Runtimes,
  NoRuntime,
  MaxCommands,   \* bound on the rows of agent_commands
  MaxEpoch       \* bound on the claims of one command

ASSUME NoRuntimeAssumption == NoRuntime \notin Runtimes
ASSUME BoundAssumption == MaxCommands \in Nat /\ MaxEpoch \in Nat

VARIABLES
  item,     \* the row of agent_attention_items
  rows,     \* agent_commands, in the order of their ids
  claims,   \* runtime -> the claims it has got
  told,     \* history: the completions that were answered with success
  call,     \* call -> its request and how far it is
  looking,  \* attention_expiry has its snapshot, and the item is one to close there
  overtaken \* history: the item was closed over a response made after the snapshot

runtimeVars == <<claims, told>>
jobVars == <<looking, overtaken>>
vars == <<item, rows, runtimeVars, call, jobVars>>

Commands == 1..MaxCommands
Ids == 1..Len(rows)

\* A request names the revision of the item that the console saw (what the hash of its
\* payload covers), 0 for a command without an item.
IsResponse(c) == rows[c].request # 0
Live(c) == rows[c].status \in {"pending", "claimed"}
Responses == {c \in Ids : IsResponse(c)}

Idle == [step |-> "idle"]
Asking(step, k, q, c) == [step |-> step, key |-> k, request |-> q, command |-> c]

Init ==
  /\ item = [status |-> "open", revision |-> 1, inTime |-> TRUE]
  /\ rows = <<>>
  /\ claims = [r \in Runtimes |-> {}]
  /\ told = {}
  /\ call = [u \in Calls |-> Idle]
  /\ looking = FALSE /\ overtaken = FALSE

-----------------------------------------------------------------------------
\* respondAttentionItem and createAgentCommand.

Goto(u, l) == call' = [call EXCEPT ![u].step = l]
Answer(u, c) == call' = [call EXCEPT ![u].step = "answered", ![u].command = c]
Fail(u) == call' = [call EXCEPT ![u] = Idle]

Found(u) == {c \in Ids : rows[c].key = call[u].key}

\* A request, new or sent again because its answer got lost, about the item as the
\* console has ever seen it; and the first statement of the transaction, before any lock.
ReadPrior(u) ==
  /\ call[u] = Idle
  /\ \E k \in Keys, q \in 0..item.revision :
       \/ /\ \A c \in Ids : rows[c].key # k
          /\ call' = [call EXCEPT ![u] = Asking("write", k, q, 0)]
       \/ \E c \in Ids :
            /\ rows[c].key = k /\ rows[c].request = q
            /\ call' = [call EXCEPT ![u] = Asking("answered", k, q, c)]
  /\ UNCHANGED <<item, rows, runtimeVars, jobVars>>

\* The item as it is under its lock.
MayRespond(u) ==
  /\ item.status = "open" /\ item.inTime
  /\ item.revision = call[u].request

NewRow(u) ==
  [key |-> call[u].key, request |-> call[u].request,
   status |-> "pending", owner |-> NoRuntime, epoch |-> 0, running |-> FALSE]

Insert(u) ==
  /\ Len(rows) < MaxCommands
  /\ rows' = Append(rows, NewRow(u))
  /\ Answer(u, Len(rows) + 1)

\* The response takes the item's revision, and the item waits for the command.  A
\* response that is refused for another reason leaves nothing.
Respond(u) ==
  /\ call[u].step = "write" /\ call[u].request # 0
  /\ \/ /\ MayRespond(u) /\ Found(u) = {}
        /\ Insert(u)
        /\ item' = [item EXCEPT !.status = "pending", !.revision = @ + 1]
     \/ /\ ~(MayRespond(u) /\ Found(u) = {})
        /\ Goto(u, "recover")
        /\ UNCHANGED <<item, rows>>
     \/ Fail(u) /\ UNCHANGED <<item, rows>>
  /\ UNCHANGED <<runtimeVars, jobVars>>

Create(u) ==
  /\ call[u].step = "write" /\ call[u].request = 0
  /\ \/ Found(u) = {} /\ Insert(u)
     \/ Found(u) # {} /\ Goto(u, "recover") /\ UNCHANGED rows
     \/ Fail(u) /\ UNCHANGED rows
  /\ UNCHANGED <<item, runtimeVars, jobVars>>

\* Mutant: the command of the key is the answer, whatever was asked for.
RecoverAny(u) ==
  /\ call[u].step = "recover"
  /\ \/ Found(u) = {} /\ Fail(u)
     \/ \E c \in Found(u) : Answer(u, c)
  /\ UNCHANGED <<item, rows, runtimeVars, jobVars>>

\* After a conflict: another call with the key may have been faster.
Recover(u) ==
  /\ call[u].step = "recover"
  /\ \/ Found(u) = {} /\ Fail(u)
     \/ \E c \in Found(u) :
          IF rows[c].request = call[u].request THEN Answer(u, c) ELSE Fail(u)
  /\ UNCHANGED <<item, rows, runtimeVars, jobVars>>

\* The answer arrives, or is lost.
Return(u) ==
  /\ call[u].step = "answered"
  /\ Fail(u)
  /\ UNCHANGED <<item, rows, runtimeVars, jobVars>>

\* dismissAttentionItem
Dismiss ==
  /\ item.status = "open" /\ item.inTime
  /\ item' = [item EXCEPT !.status = "dismissed"]
  /\ UNCHANGED <<rows, runtimeVars, call, jobVars>>

-----------------------------------------------------------------------------
\* The runtimes.

\* Mutant: a claim is taken over while it runs.
TakenOver(c) == Live(c)

Claimable(c) == Live(c) /\ ~rows[c].running

\* A runtime without a lease, or that has not applied the command's context, is refused.
\* A claim that the runtime has and that runs is answered again; another one gets the
\* next epoch.  The answer may be lost.
Claim(r, c) ==
  /\ \/ /\ rows[c].status = "claimed" /\ rows[c].owner = r /\ rows[c].running
        /\ UNCHANGED rows
     \/ /\ Claimable(c) /\ rows[c].epoch < MaxEpoch
        /\ rows' = [rows EXCEPT ![c].status = "claimed", ![c].owner = r,
                                ![c].epoch = @ + 1, ![c].running = TRUE]
  /\ \/ claims' = [claims EXCEPT ![r] = @ \cup {[command |-> c, epoch |-> rows'[c].epoch]}]
     \/ UNCHANGED claims
  /\ UNCHANGED <<item, told, call, jobVars>>

\* Mutant: the epoch of the claim is not compared.
AnyEpoch(r, k) == rows[k.command].owner = r

Owns(r, k) == rows[k.command].owner = r /\ rows[k.command].epoch = k.epoch

\* Mutant: the item takes the verdict for its status.
SettleByVerdict(c, verdict) ==
  item' = IF IsResponse(c) /\ item.status = "pending"
          THEN [item EXCEPT !.status = verdict, !.revision = @ + 1] ELSE item

\* Mutant: a failed command leaves the item as it is.
SettleCompleted(c, verdict) ==
  item' = IF IsResponse(c) /\ item.status = "pending" /\ verdict = "completed"
          THEN [item EXCEPT !.status = "acted", !.revision = @ + 1] ELSE item

\* The item follows its command.
Settle(c, verdict) ==
  item' = IF IsResponse(c) /\ item.status = "pending"
          THEN [item EXCEPT !.status = IF verdict = "completed" THEN "acted" ELSE "open",
                            !.revision = @ + 1]
          ELSE item

\* The owner of the running claim decides; when it asks again with the same verdict it
\* is answered as before.  Everyone else is fenced, and that changes nothing.
Complete(r, k, verdict) ==
  /\ k.command \in Ids
  /\ Owns(r, k)
  /\ \/ /\ rows[k.command].status = "claimed" /\ rows[k.command].running
        /\ rows' = [rows EXCEPT ![k.command].status = verdict, ![k.command].running = FALSE]
        /\ Settle(k.command, verdict)
     \/ rows[k.command].status = verdict /\ UNCHANGED <<rows, item>>
  /\ told' = told \cup {[command |-> k.command, by |-> r, epoch |-> k.epoch, verdict |-> verdict]}
  /\ UNCHANGED <<claims, call, jobVars>>

-----------------------------------------------------------------------------
\* Time passes.

\* claim_until
ClaimLapses(c) ==
  /\ rows[c].running
  /\ rows' = [rows EXCEPT ![c].running = FALSE]
  /\ UNCHANGED <<item, runtimeVars, call, jobVars>>

ItemTimeRunsOut ==
  /\ item.inTime
  /\ item' = [item EXCEPT !.inTime = FALSE]
  /\ UNCHANGED <<rows, runtimeVars, call, jobVars>>

-----------------------------------------------------------------------------
\* The retention jobs.

\* command_expiry, when created_at is 30 days ago
ExpireCommand(c) ==
  /\ Claimable(c) /\ ~looking
  /\ rows' = [rows EXCEPT ![c].status = "expired", ![c].owner = NoRuntime]
  /\ UNCHANGED <<item, runtimeVars, call, jobVars>>

NoLiveResponse == \A c \in Responses : ~Live(c)

\* Mutant: a live command does not keep the item.
ReopenEarly ==
  /\ item.status = "pending" /\ item.inTime /\ ~looking
  /\ \E c \in Responses : rows[c].status = "expired"
  /\ item' = [item EXCEPT !.status = "open", !.revision = @ + 1]
  /\ UNCHANGED <<rows, runtimeVars, call, jobVars>>

\* attention_command_expiry_recovery.  A pending item without a live response is left
\* alone by everybody else, so its snapshot holds under its lock.
ReopenItem ==
  /\ item.status = "pending" /\ item.inTime /\ ~looking
  /\ NoLiveResponse
  /\ \E c \in Responses : rows[c].status = "expired"
  /\ item' = [item EXCEPT !.status = "open", !.revision = @ + 1]
  /\ UNCHANGED <<rows, runtimeVars, call, jobVars>>

\* attention_expiry takes its snapshot, and looks there for the commands of the item; the
\* clock is read later.
LookForExpired ==
  /\ ~looking
  /\ item.status \in {"open", "pending"} /\ NoLiveResponse
  /\ looking' = TRUE
  /\ UNCHANGED <<item, rows, runtimeVars, call, overtaken>>

\* Under the lock the row of the item is compared again, its commands are not: a response
\* committed since then is not seen.  A row that is locked is skipped.
ExpireItem ==
  /\ looking /\ looking' = FALSE
  /\ \/ /\ item.status \in {"open", "pending"} /\ ~item.inTime
        /\ item' = [item EXCEPT !.status = "expired", !.revision = @ + 1]
        /\ overtaken' = ~NoLiveResponse
     \/ UNCHANGED <<item, overtaken>>
  /\ UNCHANGED <<rows, runtimeVars, call>>

-----------------------------------------------------------------------------
Console(u) ==
  ReadPrior(u) \/ Respond(u) \/ Create(u) \/ Recover(u) \/ Return(u)

Runtime(r) ==
  \/ \E c \in Ids : Claim(r, c)
  \/ \E k \in claims[r], verdict \in {"completed", "failed"} : Complete(r, k, verdict)

Passing == ItemTimeRunsOut \/ \E c \in Ids : ClaimLapses(c)

Next ==
  \/ \E u \in Calls : Console(u)
  \/ \E r \in Runtimes : Runtime(r)
  \/ Dismiss
  \/ Passing
  \/ \E c \in Ids : ExpireCommand(c)
  \/ ReopenItem \/ LookForExpired \/ ExpireItem

Spec == Init /\ [][Next]_vars

-----------------------------------------------------------------------------
Statuses == {"pending", "claimed", "completed", "failed", "expired"}

Item == [status : {"open", "pending", "acted", "dismissed", "expired"},
         revision : Nat \ {0}, inTime : BOOLEAN]
Row == [key : Keys, request : Nat, status : Statuses, owner : Runtimes \cup {NoRuntime},
        epoch : 0..MaxEpoch, running : BOOLEAN]

TypeOK ==
  /\ item \in Item
  /\ rows \in Seq(Row)
  /\ claims \in [Runtimes -> SUBSET [command : Ids, epoch : 0..MaxEpoch]]
  /\ told \subseteq [command : Ids, by : Runtimes, epoch : 0..MaxEpoch,
                     verdict : {"completed", "failed"}]
  /\ call \in [Calls -> {Idle} \cup [step : {"write", "recover", "answered"},
                                     key : Keys, request : Nat, command : 0..Len(rows)]]
  /\ looking \in BOOLEAN /\ overtaken \in BOOLEAN

\* The item that attention_expiry has closed over a response it did not see.
ClosedOver == overtaken /\ item.status = "expired"

\* One choice at a time: the item waits for the last response, and for nothing else; an
\* item that is open, settled or expired has no command that could still be carried out,
\* but for the response that attention_expiry did not see.
PendingItem ==
  /\ \A c \in Responses : Live(c) =>
       (item.status = "pending" \/ ClosedOver) /\ \A d \in Responses : d <= c
  /\ item.status = "pending" =>
       \E c \in Responses :
         rows[c].status \in {"pending", "claimed", "expired"} /\ \A d \in Responses : d <= c

\* The item is acted upon when a response has been completed, and that is the last one:
\* no choice is carried out twice or after another one.  Only an item that
\* attention_expiry has closed over its response stays closed when that is completed.
ActedOnce ==
  /\ \A c \in Responses : rows[c].status = "completed" =>
       (item.status = "acted" \/ ClosedOver) /\ \A d \in Responses : d <= c
  /\ item.status = "acted" => \E c \in Responses : rows[c].status = "completed"

\* Each revision of the item gets one response.
OneResponsePerRevision ==
  \A c, d \in Responses :
    /\ rows[c].request < item.revision
    /\ c < d => rows[c].request < rows[d].request

\* A completion that was answered with success is the outcome of its command for good,
\* and so nobody else gets such an answer: late owners are fenced.
Fenced ==
  \A t \in told :
    /\ rows[t.command].status = t.verdict
    /\ rows[t.command].owner = t.by
    /\ rows[t.command].epoch = t.epoch

\* A request is answered with the command that was made for it, and a key makes one.
AnsweredByItsOwn ==
  /\ \A u \in Calls : call[u].step = "answered" =>
       /\ call[u].command \in Ids
       /\ rows[call[u].command].key = call[u].key
       /\ rows[call[u].command].request = call[u].request
  /\ \A c, d \in Ids : rows[c].key = rows[d].key => c = d

\* A claim that runs has an owner, the epoch of a claim handed out never comes again,
\* and so two runtimes never hold the same claim, even when answers get lost.
ClaimsAreCounted ==
  /\ \A c \in Ids : rows[c].running => rows[c].status = "claimed" /\ rows[c].owner \in Runtimes
  /\ \A r \in Runtimes : \A k \in claims[r] :
       /\ k.epoch <= rows[k.command].epoch
       /\ k.epoch = rows[k.command].epoch => rows[k.command].owner \in {r, NoRuntime}
  /\ \A r, s \in Runtimes : claims[r] \cap claims[s] # {} => r = s

-----------------------------------------------------------------------------
\* Keys, claims, epochs and retention aside, the item is what Choice says: its last
\* response is the choice, and no other can be carried out.
LastResponse == {c \in Responses : \A d \in Responses : d <= c}   \* one or none

Outcome ==
  IF LastResponse = {} THEN "none"
  ELSE LET c == CHOOSE c \in LastResponse : TRUE
       IN IF Live(c) THEN "live" ELSE rows[c].status

Abstract == INSTANCE Choice WITH choice <- Outcome, closing <- looking

ChoiceSpec == Abstract!ChoiceSpec

\* A command has one outcome that anybody was told of.
OneOutcomeTold == \A s, t \in told : s.command = t.command => s = t

IInv ==
  /\ TypeOK /\ PendingItem /\ ActedOnce /\ OneResponsePerRevision
  /\ Fenced /\ AnsweredByItsOwn /\ ClaimsAreCounted
=============================================================================
