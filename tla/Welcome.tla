------------------------------- MODULE Welcome -------------------------------
(***************************************************************************)
(* The official account's welcome of one new agent (pipeline/consumer): a  *)
(* profile update publishes an event on stream:profile:update, and the     *)
(* consumer group of the welcome hands it to a pool of workers             *)
(* (stream_consumer.go, retry-aware mode) whose handler                    *)
(* (official_welcome_consumer.go) sends its message behind a gate in       *)
(* Redis, one per agent.                                                   *)
(*                                                                         *)
(* The events are those of this one agent, numbered as the stream does;    *)
(* batches are never full.  One process runs the consumer: it crashes and  *)
(* starts again, what it has in memory is then gone.  A call of the        *)
(* database, of Redis or of the PM service fails at any time; of a call    *)
(* that fails, Redis and the PM service may have done the work.            *)
(***************************************************************************)
EXTENDS Integers, Sequences

CONSTANTS
  Workers,
  MaxEvents,    \* bound on the profile updates
  MaxRetries,   \* 3 in the code
  QueueSize     \* twice the workers in the code

ASSUME RetriesAssumption == MaxRetries \in Nat \ {0}
ASSUME EventsAssumption == MaxEvents \in Nat
ASSUME QueueAssumption == QueueSize \in Nat

VARIABLES
  complete,     \* agents.profile_completed_at is set
  announce,     \* an update is committed, its event is not published yet
  blocked,      \* the agent has blocked the official account
  published,    \* number of events in the stream
  read,         \* last-delivered-id of the group
  pending,      \* the group's pending entries: delivered, not acknowledged
  count,        \* event -> its delivery count, up to MaxRetries
  idle,         \* pending for RetryMinIdle or longer since the last delivery
  batch,        \* what the dispatcher has yet to hand to the workers
  preferFresh,  \* the next poll reads new events, whatever is pending
  chan,         \* msgChan
  work,         \* worker -> the event it handles and how far it is
  resolved,     \* the consumer has found the official account, and keeps its id
  gate,         \* official:welcomed:<agent> exists
  welcomed,     \* number of welcomes the PM service has stored
  unanswered,   \* history: how many of them the sender took for failed, their answer lost
  stuck,        \* history: the gate was left closed without a welcome
  forgotten     \* history: an event went without a retry (Announce, Reclaim, Lookup, Gate)

agentVars == <<complete, announce, blocked, published>>
groupVars == <<read, pending, count, idle>>
processVars == <<batch, preferFresh, chan, work, resolved>>
gateVars == <<gate, welcomed, unanswered, stuck>>
vars == <<agentVars, groupVars, processVars, gateVars, forgotten>>

Events == 1..MaxEvents
Free == [event |-> 0, step |-> "free"]
Holding == {"work", "send", "release"}   \* the steps between the gate and its release
Steps == {"lookup", "gate", "done", "retry", "released"} \cup Holding

Init ==
  /\ complete = FALSE /\ announce = FALSE /\ blocked = FALSE
  /\ published = 0
  /\ read = 0
  /\ pending = {} /\ idle = {}
  /\ count = [m \in Events |-> 0]
  /\ batch = {} /\ preferFresh = FALSE /\ chan = <<>>
  /\ work = [w \in Workers |-> Free]
  /\ resolved = FALSE
  /\ gate = FALSE
  /\ welcomed = 0 /\ unanswered = 0
  /\ stuck = FALSE /\ forgotten = FALSE

-----------------------------------------------------------------------------
\* The agent and the profile service.

\* The first update with a name and a bio completes the profile, for good.
UpdateProfile ==
  /\ ~announce
  /\ published < MaxEvents
  /\ announce' = TRUE
  /\ \E done \in BOOLEAN : complete' = (complete \/ done)
  /\ UNCHANGED <<blocked, published, groupVars, processVars, gateVars, forgotten>>

\* mq.Publish: nobody looks whether it fails.
Announce ==
  /\ announce
  /\ announce' = FALSE
  /\ \/ published' = published + 1 /\ UNCHANGED forgotten
     \/ UNCHANGED published /\ forgotten' = TRUE
  /\ UNCHANGED <<complete, blocked, groupVars, processVars, gateVars>>

Block ==
  /\ ~blocked
  /\ blocked' = TRUE
  /\ UNCHANGED <<complete, announce, published, groupVars, processVars, gateVars, forgotten>>

-----------------------------------------------------------------------------
\* The dispatcher: nextBatchWithRetry, and the loop that fills msgChan.

Age(m) ==
  /\ m \in pending \ idle
  /\ idle' = idle \cup {m}
  /\ UNCHANGED <<agentVars, read, pending, count, processVars, gateVars, forgotten>>

\* What is read or claimed counts as delivered once more.
Deliver(S) == count' = [m \in Events |->
  IF m \in S /\ count[m] < MaxRetries THEN count[m] + 1 ELSE count[m]]

Exhausted == {m \in idle : count[m] = MaxRetries}

\* ConsumePending: the list of pending entries, and the claim of those that still are.
\* An event that has been delivered often enough is acknowledged instead of handed
\* out, and it may be in the hands of a worker still.  When all are, the same poll
\* goes on to read new events.
Reclaim ==
  /\ batch = {} /\ ~preferFresh
  /\ idle # {}
  /\ Deliver(idle)
  /\ idle' = {}
  /\ forgotten' = (forgotten \/ Exhausted # {})
  /\ \/ \* the reply to the claim is lost
        UNCHANGED <<pending, batch, preferFresh>>
     \/ \* an acknowledgement fails: the others of the batch wait for their next turn
        /\ Exhausted # {}
        /\ \E S \in SUBSET Exhausted : pending' = pending \ S
        /\ UNCHANGED <<batch, preferFresh>>
     \/ /\ pending' = pending \ Exhausted
        /\ batch' = idle \ Exhausted
        /\ preferFresh' = TRUE
  /\ UNCHANGED <<agentVars, read, chan, work, resolved, gateVars>>

\* Mutant: after new events it is the turn of new events again.
ReadFreshAgain ==
  /\ batch = {}
  /\ preferFresh \/ (idle = {} /\ read < published)
  /\ read' = published
  /\ LET new == read + 1 .. published
     IN /\ pending' = pending \cup new
        /\ Deliver(new)
        /\ batch' \in {new, {}}
  /\ UNCHANGED <<agentVars, idle, preferFresh, chan, work, resolved, gateVars, forgotten>>

\* XREADGROUP; its reply may be lost.
ReadFresh ==
  /\ batch = {}
  /\ preferFresh \/ (idle = {} /\ read < published)
  /\ read' = published
  /\ LET new == read + 1 .. published
     IN /\ pending' = pending \cup new
        /\ Deliver(new)
        /\ batch' \in {new, {}}
  /\ preferFresh' = FALSE
  /\ UNCHANGED <<agentVars, idle, chan, work, resolved, gateVars, forgotten>>

\* Mutant: the dispatcher does not wait for a place in the channel.
DispatchAnyway ==
  /\ \E m \in batch :
       /\ \A n \in batch : m <= n
       /\ chan' = Append(chan, m)
       /\ batch' = batch \ {m}
  /\ UNCHANGED <<agentVars, groupVars, preferFresh, work, resolved, gateVars, forgotten>>

\* The batch is in the order of the stream.
Dispatch ==
  /\ Len(chan) < QueueSize
  /\ \E m \in batch :
       /\ \A n \in batch : m <= n
       /\ chan' = Append(chan, m)
       /\ batch' = batch \ {m}
  /\ UNCHANGED <<agentVars, groupVars, preferFresh, work, resolved, gateVars, forgotten>>

-----------------------------------------------------------------------------
\* A worker: its loop, and OfficialWelcomeConsumer.handle.

\* A sender has been told that its welcome is stored.
Confirmed == welcomed > unanswered

Goto(w, step) == work' = [work EXCEPT ![w].step = step]

Take(w) ==
  /\ work[w] = Free
  /\ chan # <<>>
  /\ work' = [work EXCEPT ![w] = [event |-> Head(chan), step |-> "lookup"]]
  /\ chan' = Tail(chan)
  /\ UNCHANGED <<agentVars, groupVars, batch, preferFresh, resolved, gateVars, forgotten>>

\* resolveOfficialID, once per process: while the official account is not found, or the
\* query fails, every event counts as handled.  Then the agent's profile.
Lookup(w) ==
  /\ work[w].step = "lookup"
  /\ \/ /\ ~resolved
        /\ Goto(w, "done")
        /\ forgotten' = (forgotten \/ (complete /\ ~Confirmed))
        /\ UNCHANGED resolved
     \/ /\ resolved' = TRUE
        /\ \/ Goto(w, "retry")
           \/ complete /\ Goto(w, "gate")
           \/ ~complete /\ Goto(w, "done")
        /\ UNCHANGED forgotten
  /\ UNCHANGED <<agentVars, groupVars, batch, preferFresh, chan, gateVars>>

\* SETNX without expiry.  A closed gate ends the event as welcomed already, whatever
\* becomes of the worker that holds it.
Gate(w) ==
  /\ work[w].step = "gate"
  /\ \/ \* the call fails, or only its reply is lost
        /\ Goto(w, "retry")
        /\ \/ UNCHANGED <<gate, stuck>>
           \/ ~gate /\ gate' = TRUE /\ stuck' = TRUE
        /\ UNCHANGED forgotten
     \/ /\ ~gate
        /\ gate' = TRUE
        /\ Goto(w, "work")
        /\ UNCHANGED <<stuck, forgotten>>
     \/ /\ gate
        /\ Goto(w, "done")
        /\ forgotten' = (forgotten \/ ~Confirmed)
        /\ UNCHANGED <<gate, stuck>>
  /\ UNCHANGED <<agentVars, groupVars, batch, preferFresh, chan, resolved, welcomed, unanswered>>

\* An agent that blocks the official account is skipped behind a closed gate; when that
\* cannot be read, it is not.  Then ensureFriendship.
Work(w) ==
  /\ work[w].step = "work"
  /\ \/ blocked /\ Goto(w, "done") /\ stuck' = TRUE
     \/ Goto(w, "send") /\ UNCHANGED stuck
     \/ Goto(w, "release") /\ UNCHANGED stuck
  /\ UNCHANGED <<agentVars, groupVars, batch, preferFresh, chan, resolved, gate, welcomed,
                unanswered, forgotten>>

\* Mutant: the gate is released whatever the result.
SendThenRelease(w) ==
  /\ work[w].step = "send"
  /\ Goto(w, "release")
  /\ welcomed' \in {welcomed, welcomed + 1}
  /\ UNCHANGED <<agentVars, groupVars, batch, preferFresh, chan, resolved, gate, unanswered,
                stuck, forgotten>>

\* Generate takes its time, then SendPM.  Its answer may be lost: the call has failed for
\* the handler although the message is stored.  To an agent that has blocked the official
\* account meanwhile, handleFriendPM says success and stores nothing, once its cached sets
\* know of the block.
Send(w) ==
  /\ work[w].step = "send"
  /\ \/ /\ welcomed' = welcomed + 1
        /\ \/ Goto(w, "done") /\ UNCHANGED unanswered
           \/ Goto(w, "release") /\ unanswered' = unanswered + 1
        /\ UNCHANGED stuck
     \/ /\ blocked
        /\ Goto(w, "done")
        /\ stuck' = TRUE
        /\ UNCHANGED <<welcomed, unanswered>>
     \/ /\ Goto(w, "release")
        /\ UNCHANGED <<welcomed, unanswered, stuck>>
  /\ UNCHANGED <<agentVars, groupVars, batch, preferFresh, chan, resolved, gate, forgotten>>

\* DEL; nobody looks whether it fails, and it does when the context is cancelled.
Release(w) ==
  /\ work[w].step = "release"
  /\ Goto(w, "released")
  /\ \/ gate' = FALSE /\ UNCHANGED stuck
     \/ UNCHANGED gate /\ stuck' = TRUE
  /\ UNCHANGED <<agentVars, groupVars, batch, preferFresh, chan, resolved, welcomed, unanswered,
                forgotten>>

\* Mutant: every handled event is acknowledged.
FinishAlways(w) ==
  /\ work[w].step \in {"done", "retry", "released"}
  /\ work' = [work EXCEPT ![w] = Free]
  /\ pending' = pending \ {work[w].event}
  /\ idle' = idle \ {work[w].event}
  /\ UNCHANGED <<agentVars, read, count, batch, preferFresh, chan, resolved, gateVars, forgotten>>

\* XACK unless the result is HandleRetry; when it fails the entry stays pending.
Finish(w) ==
  /\ work[w].step \in {"done", "retry", "released"}
  /\ work' = [work EXCEPT ![w] = Free]
  /\ \/ /\ work[w].step = "done"
        /\ pending' = pending \ {work[w].event}
        /\ idle' = idle \ {work[w].event}
     \/ UNCHANGED <<pending, idle>>
  /\ UNCHANGED <<agentVars, read, count, batch, preferFresh, chan, resolved, gateVars, forgotten>>

-----------------------------------------------------------------------------
\* A crash, or a shutdown, and the next start.
Crash ==
  /\ \/ <<batch, preferFresh, chan, resolved>> # <<{}, FALSE, <<>>, FALSE>>
     \/ \E w \in Workers : work[w] # Free
  /\ batch' = {} /\ preferFresh' = FALSE /\ chan' = <<>> /\ resolved' = FALSE
  /\ work' = [w \in Workers |-> Free]
  /\ stuck' = (stuck \/ \E w \in Workers : work[w].step \in Holding)
  /\ UNCHANGED <<agentVars, groupVars, gate, welcomed, unanswered, forgotten>>

Poll == Reclaim \/ ReadFresh

Handle(w) == Take(w) \/ Lookup(w) \/ Gate(w) \/ Work(w) \/ Send(w) \/ Release(w) \/ Finish(w)

Next ==
  \/ UpdateProfile \/ Announce \/ Block
  \/ \E m \in Events : Age(m)
  \/ Poll \/ Dispatch
  \/ \E w \in Workers : Handle(w)
  \/ Crash

Spec == Init /\ [][Next]_vars

\* Time passes, and the goroutines of a running process are scheduled.
FairSpec ==
  /\ Spec
  /\ WF_vars(Announce)
  /\ \A m \in Events : WF_vars(Age(m))
  /\ WF_vars(Poll) /\ WF_vars(Dispatch)
  /\ \A w \in Workers : WF_vars(Handle(w))

-----------------------------------------------------------------------------
TypeOK ==
  /\ complete \in BOOLEAN /\ announce \in BOOLEAN /\ blocked \in BOOLEAN
  /\ published \in 0..MaxEvents /\ (announce => published < MaxEvents)
  /\ read \in 0..published
  /\ pending \subseteq 1..read
  /\ idle \subseteq pending
  /\ count \in [Events -> 0..MaxRetries]
  /\ batch \subseteq 1..read
  /\ preferFresh \in BOOLEAN
  /\ chan \in Seq(1..read) /\ Len(chan) <= QueueSize
  /\ work \in [Workers -> [event : 1..read, step : Steps] \cup {Free}]
  /\ resolved \in BOOLEAN
  /\ gate \in BOOLEAN
  /\ welcomed \in Nat /\ unanswered \in 0..welcomed
  /\ stuck \in BOOLEAN /\ forgotten \in BOOLEAN

Holders == {w \in Workers : work[w].step \in Holding}

\* The gate lets one worker through at a time, and is closed behind it.
OneHolder ==
  /\ \A v, w \in Holders : v = w
  /\ Holders # {} => gate

\* "welcome each agent at most once" (official_welcome_consumer.go:115), whatever is
\* delivered twice, fails or crashes, but for answers of the PM service that are lost:
\* each message after the first follows one that was taken for failed.  Once a sender
\* knows of a welcome, nobody is behind the gate and it stays closed.
WelcomedOnce ==
  /\ welcomed <= unanswered + 1
  /\ Confirmed => gate /\ Holders = {}

\* A closed gate without a welcome its sender knows of has a worker behind it, or was
\* left closed by a failure, a block or a crash between the gate and its release.
GateIsHeld == gate /\ ~Confirmed => Holders # {} \/ stuck

\* The event of a completed profile is not lost before a sender knows of a welcome, while
\* no event is given up: it waits in the stream, or among the pending entries with no
\* worker about to acknowledge it.
EventIsKept ==
  complete /\ ~announce /\ ~Confirmed /\ ~stuck /\ ~forgotten =>
    /\ published > 0
    /\ published > read \/ published \in pending
    /\ \A w \in Workers : work[w].event = published => work[w].step # "done"

\* Only what the group has read is counted as delivered.
UnreadUncounted == \A m \in Events : m > read => count[m] = 0

\* An event is handed to the workers MaxRetries times at most: each time raises its
\* count, and nothing lowers that, be it lost replies, late handlers or crashes.
RetriesAreBounded ==
  [][/\ \A m \in Events : count[m] <= count'[m]
     /\ \A m \in batch' \ batch : count'[m] = count[m] + 1 /\ count[m] < MaxRetries]_vars

IInv == TypeOK /\ OneHolder /\ WelcomedOnce /\ GateIsHeld /\ EventIsKept

\* Who completes a profile is welcomed in the end, unless the gate is left closed (a call
\* to Redis or a process fails behind it, or the agent has blocked the official account)
\* or the event is given up (not published, delivered too often, acknowledged at a gate
\* whose holder fails, or while the official account cannot be found).
WelcomedInTheEnd == complete ~> welcomed > 0 \/ stuck \/ forgotten

\* "Released on transient failure below so the message can be retried"
\* (official_welcome_consumer.go:115): the event of a handler that has released the gate
\* is pending, unless its retries are used up.
ReleasedIsRetried == ~stuck =>
  \A w \in Workers : work[w].step = "released" =>
    work[w].event \in pending \/ count[work[w].event] = MaxRetries
=============================================================================
