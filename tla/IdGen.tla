-------------------------------- MODULE IdGen --------------------------------
(***************************************************************************)
(* The id generators of one service (pkg/idgen): every process claims a    *)
(* worker id in etcd under a lease (etcd_worker.go) and makes snowflake    *)
(* ids of its clock, its worker id and a sequence (snowflake.go).  A lease *)
(* may expire in etcd before its process learns of it, processes crash,    *)
(* and the clocks of their machines step back.                             *)
(*                                                                         *)
(* A process that starts again is another member of Procs.  Milliseconds   *)
(* count from the epoch, -1 is any time before it.  The 41 bits of the     *)
(* timestamp do not overflow here.                                         *)
(***************************************************************************)
EXTENDS Integers

CONSTANTS
  Procs,         \* processes with a generator, of the same ServiceName
  NoOne,
  MaxWorkerID,   \* 1023 in the code
  MaxSequence,   \* sequenceMask: 4095 in the code
  MaxMS          \* bound on the clocks

ASSUME NoOneAssumption == NoOne \notin Procs
ASSUME WorkerAssumption == MaxWorkerID \in Nat
ASSUME SequenceAssumption == MaxSequence \in Nat
ASSUME ClockAssumption == MaxMS \in Nat

VARIABLES
  clock,      \* process -> the clock of its machine
  lease,      \* process -> its lease in etcd
  owner,      \* worker id -> the process whose lease its key in etcd is under
  pc,         \* process -> how far NewManagedGenerator or Close is
  workerID,   \* process -> the worker id it tries or has
  alive,      \* process -> ManagedGenerator.alive
  inCall,     \* process -> a NextID has seen alive and not yet made its id
  lastMS,     \* process -> Snowflake.lastMS
  sequence,   \* process -> Snowflake.sequence
  issued,     \* history: the ids handed out, in their parts
  sound       \* history: no lease or clock has misbehaved (see Generate, Claim, StepBack)

etcdVars == <<lease, owner>>
genVars == <<inCall, lastMS, sequence, issued>>
vars == <<clock, etcdVars, pc, workerID, alive, genVars, sound>>

WorkerIDs == 0..MaxWorkerID
Times == -1..MaxMS

\* lastMS of a generator that has made no id: long before the epoch.
Never == -2

\* timestamp, worker and sequence bits, from the left.
Id(r) == (r.ms * (MaxWorkerID + 1) + r.worker) * (MaxSequence + 1) + r.seq

Init ==
  /\ clock \in [Procs -> Times]
  /\ lease = [p \in Procs |-> "none"]
  /\ owner = [w \in WorkerIDs |-> NoOne]
  /\ pc = [p \in Procs |-> "off"]
  /\ workerID = [p \in Procs |-> 0]
  /\ alive = [p \in Procs |-> FALSE]
  /\ inCall = [p \in Procs |-> FALSE]
  /\ lastMS = [p \in Procs |-> Never]
  /\ sequence = [p \in Procs |-> 0]
  /\ issued = {}
  /\ sound = TRUE

Goto(p, l) == pc' = [pc EXCEPT ![p] = l]

\* etcd drops a lease, and the key that is under it.
DropLease(p) ==
  /\ lease' = [lease EXCEPT ![p] = "gone"]
  /\ owner' = [w \in WorkerIDs |-> IF owner[w] = p THEN NoOne ELSE owner[w]]

-----------------------------------------------------------------------------
\* NewManagedGenerator.

Grant(p) ==
  /\ pc[p] = "off"
  /\ lease' = [lease EXCEPT ![p] = "held"]
  /\ Goto(p, "claim")
  /\ UNCHANGED <<clock, owner, workerID, alive, genVars, sound>>

\* Mutant: the transaction does not compare the key's CreateRevision.
ClaimTaken(p) ==
  /\ pc[p] = "claim" /\ lease[p] = "held"
  /\ owner' = [owner EXCEPT ![workerID[p]] = p]
  /\ Goto(p, "claimed")
  /\ sound' = (sound /\ \A r \in issued : r.worker = workerID[p] => r.ms < clock[p])
  /\ UNCHANGED <<clock, lease, workerID, alive, genVars>>

\* One transaction of claimWorkerID.  It is not sound to take over a worker id while
\* one's clock has not passed the last id made with it.
Claim(p) ==
  /\ pc[p] = "claim" /\ lease[p] = "held"
  /\ owner[workerID[p]] = NoOne
  /\ owner' = [owner EXCEPT ![workerID[p]] = p]
  /\ Goto(p, "claimed")
  /\ sound' = (sound /\ \A r \in issued : r.worker = workerID[p] => r.ms < clock[p])
  /\ UNCHANGED <<clock, lease, workerID, alive, genVars>>

TryNext(p) ==
  /\ pc[p] = "claim" /\ lease[p] = "held"
  /\ owner[workerID[p]] # NoOne
  /\ workerID[p] < MaxWorkerID
  /\ workerID' = [workerID EXCEPT ![p] = @ + 1]
  /\ UNCHANGED <<clock, etcdVars, pc, alive, genVars, sound>>

\* No worker id is free, the lease is gone before the claim, or the keep-alive does
\* not start: the lease is revoked and there is no generator.
NoGenerator(p) ==
  /\ \/ /\ pc[p] = "claim"
        /\ \/ lease[p] = "gone"
           \/ workerID[p] = MaxWorkerID /\ owner[workerID[p]] # NoOne
     \/ pc[p] = "claimed"
  /\ DropLease(p)
  /\ Goto(p, "stopped")
  /\ UNCHANGED <<clock, workerID, alive, genVars, sound>>

KeepAlive(p) ==
  /\ pc[p] = "claimed"
  /\ Goto(p, "serving")
  /\ alive' = [alive EXCEPT ![p] = TRUE]
  /\ UNCHANGED <<clock, etcdVars, workerID, genVars, sound>>

-----------------------------------------------------------------------------
\* NextID.

EnterNextID(p) ==
  /\ alive[p] /\ ~inCall[p]
  /\ inCall' = [inCall EXCEPT ![p] = TRUE]
  /\ UNCHANGED <<clock, etcdVars, pc, workerID, alive, lastMS, sequence, issued, sound>>

\* Mutant: a clock that went back is not waited for.
GoesAnyway(p) == clock[p] = lastMS[p] => sequence[p] < MaxSequence

\* waitUntil: the clock is back where the last id was made, and beyond it when the
\* sequence of that millisecond is used up.
MayGo(p) == clock[p] >= lastMS[p] /\ (clock[p] = lastMS[p] => sequence[p] < MaxSequence)

\* Mutant: the sequence does not start again in a new millisecond.
NeverResets(p) == sequence[p] + 1

NextSequence(p) ==
  IF clock[p] = lastMS[p] THEN (sequence[p] + 1) % (MaxSequence + 1) ELSE 0

\* Snowflake.NextID under its mutex, at the moment it reads the clock for the last
\* time.  Before the epoch, and for the id 0, it returns an error.  It is not sound to
\* make an id when the lease is gone.
Generate(p) ==
  /\ inCall[p]
  /\ MayGo(p)
  /\ inCall' = [inCall EXCEPT ![p] = FALSE]
  /\ sequence' = [sequence EXCEPT ![p] = NextSequence(p)]
  /\ LET r == [by |-> p, ms |-> clock[p], worker |-> workerID[p], seq |-> NextSequence(p)]
     IN IF clock[p] < 0
        THEN UNCHANGED <<lastMS, issued, sound>>
        ELSE /\ lastMS' = [lastMS EXCEPT ![p] = clock[p]]
             /\ issued' = IF Id(r) <= 0 THEN issued ELSE issued \cup {r}
             /\ sound' = (sound /\ lease[p] = "held")
  /\ UNCHANGED <<clock, etcdVars, pc, workerID, alive>>

-----------------------------------------------------------------------------
\* The keep-alive channel closes: the lease is gone, or the client thinks so.
KeepAliveEnds(p) ==
  /\ alive[p]
  /\ alive' = [alive EXCEPT ![p] = FALSE]
  /\ UNCHANGED <<clock, etcdVars, pc, workerID, genVars, sound>>

\* Close waits for the keep-alive goroutine, not for calls of NextID.
Close(p) ==
  /\ pc[p] = "serving"
  /\ Goto(p, "closing")
  /\ alive' = [alive EXCEPT ![p] = FALSE]
  /\ UNCHANGED <<clock, etcdVars, workerID, genVars, sound>>

\* Nobody looks whether the Revoke succeeds.
Revoke(p) ==
  /\ pc[p] = "closing"
  /\ Goto(p, "stopped")
  /\ DropLease(p) \/ UNCHANGED etcdVars
  /\ UNCHANGED <<clock, workerID, alive, genVars, sound>>

Crash(p) ==
  /\ pc[p] \notin {"off", "dead"}
  /\ Goto(p, "dead")
  /\ alive' = [alive EXCEPT ![p] = FALSE]
  /\ inCall' = [inCall EXCEPT ![p] = FALSE]
  /\ UNCHANGED <<clock, etcdVars, workerID, lastMS, sequence, issued, sound>>

\* etcd has heard nothing of the process for the TTL.
LeaseExpires(p) ==
  /\ lease[p] = "held"
  /\ DropLease(p)
  /\ UNCHANGED <<clock, pc, workerID, alive, genVars, sound>>

\* A clock is of interest while its process runs, and Init starts it anywhere.
Running(p) == pc[p] \notin {"off", "dead"} /\ (pc[p] = "stopped" => inCall[p])

Tick(p) ==
  /\ Running(p)
  /\ clock[p] < MaxMS
  /\ clock' = [clock EXCEPT ![p] = @ + 1]
  /\ UNCHANGED <<etcdVars, pc, workerID, alive, genVars, sound>>

\* It is not sound for a clock to step back between the claim and the first id: only
\* lastMS protects the generator.
StepBack(p) ==
  /\ Running(p)
  /\ \E t \in Times : t < clock[p] /\ clock' = [clock EXCEPT ![p] = t]
  /\ sound' = (sound /\ (pc[p] = "claim" \/ lastMS[p] # Never))
  /\ UNCHANGED <<etcdVars, pc, workerID, alive, genVars>>

Next == \E p \in Procs :
  \/ Grant(p) \/ Claim(p) \/ TryNext(p) \/ NoGenerator(p) \/ KeepAlive(p)
  \/ EnterNextID(p) \/ Generate(p)
  \/ KeepAliveEnds(p) \/ Close(p) \/ Revoke(p)
  \/ Crash(p) \/ LeaseExpires(p) \/ Tick(p) \/ StepBack(p)

Spec == Init /\ [][Next]_vars

-----------------------------------------------------------------------------
TypeOK ==
  /\ clock \in [Procs -> Times]
  /\ lease \in [Procs -> {"none", "held", "gone"}]
  /\ owner \in [WorkerIDs -> Procs \cup {NoOne}]
  /\ pc \in [Procs -> {"off", "claim", "claimed", "serving", "closing", "stopped", "dead"}]
  /\ workerID \in [Procs -> WorkerIDs]
  /\ alive \in [Procs -> BOOLEAN]
  /\ inCall \in [Procs -> BOOLEAN]
  /\ lastMS \in [Procs -> 0..MaxMS \cup {Never}]
  /\ sequence \in [Procs -> 0..MaxSequence]
  /\ issued \subseteq [by : Procs, ms : 0..MaxMS, worker : WorkerIDs, seq : 0..MaxSequence]
  /\ sound \in BOOLEAN

\* While leases and clocks behave, no two processes, one after the other or at once,
\* hand out the same id: the claim keeps two holders of a worker id apart.
UniqueIDs == sound => \A r, s \in issued : Id(r) = Id(s) => r = s

\* The generators implement IdSource: each one's ids increase whatever its clock does,
\* and are new while leases and clocks behave.
Source == INSTANCE IdSource
  WITH Generators <- Procs, issued <- {[by |-> r.by, id |-> Id(r)] : r \in issued}
SourceSpec == Source!Spec
=============================================================================
