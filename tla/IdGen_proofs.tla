----------------------------- MODULE IdGen_proofs -----------------------------
(***************************************************************************)
(* Theorems about IdGen, for any number of processes, worker ids and       *)
(* sequence bits: type correctness, unique ids, and that the generators    *)
(* implement IdSource.                                                     *)
(***************************************************************************)
EXTENDS IdGen, TLAPS

\* How far a process is, as its flags say.
PcFacts ==
  \A p \in Procs :
    /\ alive[p] => pc[p] = "serving"
    /\ pc[p] \in {"off", "claim"} => ~inCall[p] /\ lastMS[p] = Never
    /\ pc[p] = "off" => lease[p] = "none"
    /\ pc[p] = "dead" => ~inCall[p]

\* A generator's ids are behind its lastMS and sequence.
OwnIds ==
  \A r \in issued :
    /\ r.worker = workerID[r.by]
    /\ \/ r.ms < lastMS[r.by]
       \/ r.ms = lastMS[r.by] /\ r.seq <= sequence[r.by]

\* p may still make ids.
HasWorker(p) == inCall[p] \/ pc[p] \in {"claimed", "serving", "closing"}

\* A process that may still make ids under its lease has the key of its worker id.
HoldsKey == \A p \in Procs : HasWorker(p) /\ lease[p] = "held" => owner[workerID[p]] = p

\* What its next id is later than.
Reached(p) == IF lastMS[p] = Never THEN clock[p] ELSE lastMS[p]

\* The ids others have made with its worker id are behind it.
OthersBehind ==
  sound =>
    \A p \in Procs : HasWorker(p) /\ lease[p] = "held" =>
      \A r \in issued : r.worker = workerID[p] /\ r.by # p => r.ms < Reached(p)

\* No two ids have the same parts.
PartsDiffer ==
  sound =>
    \A r, s \in issued : r.worker = s.worker /\ r.ms = s.ms /\ r.seq = s.seq => r = s

IInv == TypeOK /\ PcFacts /\ OwnIds /\ HoldsKey /\ OthersBehind /\ PartsDiffer

-----------------------------------------------------------------------------
\* The encoding.

\* The parts of an id.
Parts == [by : Procs, ms : 0..MaxMS, worker : WorkerIDs, seq : 0..MaxSequence]

\* A product keeps a gap of one.
LEMMA ProductGap ==
  ASSUME NEW x \in Nat, NEW y \in Nat, NEW k \in Nat, x < y
  PROVE  x * k + k <= y * k
<1>1. PICK d \in Nat : y = x + 1 + d
  <2>1. y - x - 1 \in Nat /\ y = x + 1 + (y - x - 1)
    OBVIOUS
  <2> QED
    BY <2>1
<1>2. y * k = x * k + k + d * k
  BY <1>1
<1>3. d * k >= 0 /\ x * k \in Nat /\ d * k \in Nat
  OBVIOUS
<1> QED
  BY <1>2, <1>3

\* A digit below its base does not reach the next number.
LEMMA DigitOrder ==
  ASSUME NEW x \in Nat, NEW y \in Nat, NEW k \in Nat,
         NEW a \in 0..(k - 1), NEW b \in 0..(k - 1), x < y
  PROVE  x * k + a < y * k + b
<1>1. x * k + k <= y * k
  BY ProductGap
<1>2. x * k \in Nat /\ y * k \in Nat
  OBVIOUS
<1> QED
  BY <1>1, <1>2

\* A number is its digits.
LEMMA DigitsUnique ==
  ASSUME NEW x \in Nat, NEW y \in Nat, NEW k \in Nat,
         NEW a \in 0..(k - 1), NEW b \in 0..(k - 1), x * k + a = y * k + b
  PROVE  x = y /\ a = b
<1>1. CASE x < y
  BY <1>1, DigitOrder
<1>2. CASE y < x
  BY <1>2, DigitOrder
<1>3. CASE x = y
  <2>1. x * k \in Nat
    OBVIOUS
  <2> QED
    BY <1>3, <2>1
<1> QED
  BY <1>1, <1>2, <1>3

\* The timestamp and worker bits of an id.
High(r) == r.ms * (MaxWorkerID + 1) + r.worker

LEMMA HighType == ASSUME NEW r \in Parts PROVE High(r) \in Nat
<1>1. r.ms \in Nat /\ r.worker \in Nat /\ MaxWorkerID + 1 \in Nat
  BY WorkerAssumption, ClockAssumption DEF Parts, WorkerIDs
<1> QED
  BY <1>1 DEF High

LEMMA IdType == ASSUME NEW r \in Parts PROVE Id(r) \in Nat
<1>1. High(r) \in Nat /\ MaxSequence + 1 \in Nat /\ r.seq \in Nat
  BY HighType, SequenceAssumption DEF Parts
<1>2. Id(r) = High(r) * (MaxSequence + 1) + r.seq
  BY DEF Id, High
<1> QED
  BY <1>1, <1>2

\* Ids of one worker are ordered as their timestamps and sequences are.
LEMMA IdOrder ==
  ASSUME NEW r \in Parts, NEW s \in Parts, r.worker = s.worker,
         r.ms < s.ms \/ (r.ms = s.ms /\ r.seq < s.seq)
  PROVE  Id(r) < Id(s)
<1> USE WorkerAssumption, SequenceAssumption, ClockAssumption
<1>1. /\ r.ms \in Nat /\ s.ms \in Nat /\ r.worker \in 0..MaxWorkerID
      /\ r.seq \in 0..MaxSequence /\ s.seq \in 0..MaxSequence
  BY DEF Parts, WorkerIDs
<1>2. Id(r) = High(r) * (MaxSequence + 1) + r.seq /\ Id(s) = High(s) * (MaxSequence + 1) + s.seq
  BY DEF Id, High
<1>3. High(r) \in Nat /\ High(s) \in Nat
  BY HighType
<1>4. CASE r.ms < s.ms
  <2>1. High(r) < High(s)
    BY <1>1, <1>4, DigitOrder DEF High
  <2> QED
    BY <1>1, <1>2, <1>3, <2>1, DigitOrder
<1>5. CASE r.ms = s.ms /\ r.seq < s.seq
  <2>1. High(r) = High(s)
    BY <1>5 DEF High
  <2>2. High(r) * (MaxSequence + 1) \in Nat
    BY <1>3
  <2> QED
    BY <1>1, <1>2, <1>5, <2>1, <2>2
<1> QED
  BY <1>4, <1>5

\* An id determines its parts.
LEMMA IdParts ==
  ASSUME NEW r \in Parts, NEW s \in Parts, Id(r) = Id(s)
  PROVE  r.worker = s.worker /\ r.ms = s.ms /\ r.seq = s.seq
<1> USE WorkerAssumption, SequenceAssumption, ClockAssumption
<1>1. /\ r.ms \in Nat /\ s.ms \in Nat
      /\ r.worker \in 0..MaxWorkerID /\ s.worker \in 0..MaxWorkerID
      /\ r.seq \in 0..MaxSequence /\ s.seq \in 0..MaxSequence
  BY DEF Parts, WorkerIDs
<1>2. High(r) * (MaxSequence + 1) + r.seq = High(s) * (MaxSequence + 1) + s.seq
  BY DEF Id, High
<1>3. High(r) \in Nat /\ High(s) \in Nat
  BY HighType
<1> DEFINE W == MaxWorkerID + 1
           S == MaxSequence + 1
<1>4. W \in Nat /\ S \in Nat /\ 0..MaxWorkerID = 0..(W - 1) /\ 0..MaxSequence = 0..(S - 1)
  OBVIOUS
<1>5. High(r) = High(s) /\ r.seq = s.seq
  <2>1. High(r) * S + r.seq = High(s) * S + s.seq
    BY <1>2
  <2> HIDE DEF S
  <2> QED
    BY <1>1, <1>3, <1>4, <2>1, DigitsUnique
<1> HIDE DEF W, S
<1>6. r.ms = s.ms
  <2>1. CASE r.ms < s.ms
    <3>1. High(r) < High(s)
      BY <1>1, <2>1, DigitOrder DEF High
    <3> QED
      BY <1>3, <1>5, <3>1
  <2>2. CASE s.ms < r.ms
    <3>1. High(s) < High(r)
      BY <1>1, <2>2, DigitOrder DEF High
    <3> QED
      BY <1>3, <1>5, <3>1
  <2> QED
    BY <1>1, <2>1, <2>2
<1>7. r.worker = s.worker
  <2>1. r.ms * (MaxWorkerID + 1) + r.worker = r.ms * (MaxWorkerID + 1) + s.worker
    BY <1>5, <1>6 DEF High
  <2> DEFINE h == r.ms * (MaxWorkerID + 1)
  <2>2. h \in Nat
    BY <1>1
  <2>3. r.worker \in Nat /\ s.worker \in Nat
    BY <1>1
  <2>4. h + r.worker = h + s.worker
    BY <2>1
  <2> HIDE DEF h
  <2> QED
    BY <2>2, <2>3, <2>4
<1> QED
  BY <1>5, <1>6, <1>7

-----------------------------------------------------------------------------
\* The invariant holds at the start.
LEMMA InitIInv == Init => IInv
<1> SUFFICES ASSUME Init PROVE IInv
  OBVIOUS
<1>1. TypeOK
  <2>1. 0 \in WorkerIDs /\ 0 \in 0..MaxSequence
    BY WorkerAssumption, SequenceAssumption DEF WorkerIDs
  <2> QED
    BY <2>1 DEF Init, TypeOK
<1>2. PcFacts /\ OwnIds /\ HoldsKey /\ OthersBehind /\ PartsDiffer
  BY DEF Init, PcFacts, OwnIds, HoldsKey, HasWorker, OthersBehind, PartsDiffer
<1> QED
  BY <1>1, <1>2 DEF IInv

\* A step that makes no id and gives no worker id keeps the order of ids, if what is
\* ahead of the others' ids stays ahead.
LEMMA NoIdStep ==
  ASSUME IInv, TypeOK', PcFacts', HoldsKey',
         UNCHANGED <<lastMS, sequence, issued>>, sound' => sound,
         \A p \in Procs : workerID'[p] # workerID[p] =>
            \A r \in issued : r.by # p,
         sound' => \A p \in Procs : HasWorker(p)' /\ lease'[p] = "held" =>
            /\ HasWorker(p) /\ lease[p] = "held" /\ workerID'[p] = workerID[p]
            /\ Reached(p) <= Reached(p)'
  PROVE  IInv'
<1>1. OwnIds'
  BY DEF IInv, TypeOK, OwnIds
<1>2. PartsDiffer'
  BY DEF IInv, PartsDiffer
<1>3. OthersBehind'
  <2>1. SUFFICES ASSUME sound', NEW p \in Procs, HasWorker(p)', lease'[p] = "held",
                        NEW r \in issued, r.worker = workerID[p], r.by # p,
                        workerID'[p] = workerID[p], HasWorker(p), lease[p] = "held",
                        Reached(p) <= Reached(p)'
                 PROVE  r.ms < Reached(p)'
    BY DEF OthersBehind
  <2>2. r.ms < Reached(p)
    BY <2>1 DEF IInv, OthersBehind
  <2>3. r.ms \in Int /\ Reached(p) \in Int /\ Reached(p)' \in Int
    BY ClockAssumption DEF IInv, TypeOK, Reached, Times, Never
  <2> QED
    BY <2>1, <2>2, <2>3
<1> QED
  BY <1>1, <1>2, <1>3 DEF IInv

\* The lease of p is dropped.
LEMMA DropFacts ==
  ASSUME IInv, NEW p \in Procs, DropLease(p)
  PROVE  /\ lease' \in [Procs -> {"none", "held", "gone"}]
         /\ owner' \in [WorkerIDs -> Procs \cup {NoOne}]
         /\ lease'[p] = "gone"
         /\ \A q \in Procs \ {p} :
              /\ lease'[q] = lease[q]
              /\ \A w \in WorkerIDs : owner[w] = q => owner'[w] = q
BY DEF IInv, TypeOK, DropLease

-----------------------------------------------------------------------------
\* The steps that make no id.

\* A lease is granted to a process that has no worker id yet.
LEMMA GrantStep ==
  ASSUME IInv, NEW p \in Procs, Grant(p)
  PROVE  IInv'
<1> USE DEF Grant, Goto, genVars, etcdVars
<1>1. TypeOK'
  BY DEF IInv, TypeOK
<1>2. PcFacts'
  BY DEF IInv, TypeOK, PcFacts
<1>3. HoldsKey'
  BY DEF IInv, TypeOK, PcFacts, HoldsKey, HasWorker
<1>4. \A q \in Procs : HasWorker(q)' /\ lease'[q] = "held" =>
        HasWorker(q) /\ lease[q] = "held" /\ Reached(q) <= Reached(q)'
  BY ClockAssumption DEF IInv, TypeOK, PcFacts, HasWorker, Reached, Times, Never
<1> QED
  BY <1>1, <1>2, <1>3, <1>4, NoIdStep DEF IInv

\* The generator starts with the worker id it has claimed.
LEMMA KeepAliveStep ==
  ASSUME IInv, NEW p \in Procs, KeepAlive(p)
  PROVE  IInv'
<1> USE DEF KeepAlive, Goto, genVars, etcdVars
<1>1. TypeOK'
  BY DEF IInv, TypeOK
<1>2. PcFacts'
  BY DEF IInv, TypeOK, PcFacts
<1>3. HoldsKey'
  BY DEF IInv, TypeOK, PcFacts, HoldsKey, HasWorker
<1>4. \A q \in Procs : HasWorker(q)' /\ lease'[q] = "held" =>
        HasWorker(q) /\ lease[q] = "held" /\ Reached(q) <= Reached(q)'
  BY ClockAssumption DEF IInv, TypeOK, PcFacts, HasWorker, Reached, Times, Never
<1> QED
  BY <1>1, <1>2, <1>3, <1>4, NoIdStep DEF IInv

\* A call of NextID sees that the generator is alive.
LEMMA EnterStep ==
  ASSUME IInv, NEW p \in Procs, EnterNextID(p)
  PROVE  IInv'
<1> USE DEF EnterNextID, Goto, genVars, etcdVars
<1>1. TypeOK'
  BY DEF IInv, TypeOK
<1>2. PcFacts'
  BY DEF IInv, TypeOK, PcFacts
<1>3. HoldsKey'
  BY DEF IInv, TypeOK, PcFacts, HoldsKey, HasWorker
<1>4. \A q \in Procs : HasWorker(q)' /\ lease'[q] = "held" =>
        HasWorker(q) /\ lease[q] = "held" /\ Reached(q) <= Reached(q)'
  BY ClockAssumption DEF IInv, TypeOK, PcFacts, HasWorker, Reached, Times, Never
<1> QED
  BY <1>1, <1>2, <1>3, <1>4, NoIdStep DEF IInv

\* The keep-alive ends.
LEMMA KeepAliveEndsStep ==
  ASSUME IInv, NEW p \in Procs, KeepAliveEnds(p)
  PROVE  IInv'
<1> USE DEF KeepAliveEnds, Goto, genVars, etcdVars
<1>1. TypeOK'
  BY DEF IInv, TypeOK
<1>2. PcFacts'
  BY DEF IInv, TypeOK, PcFacts
<1>3. HoldsKey'
  BY DEF IInv, TypeOK, PcFacts, HoldsKey, HasWorker
<1>4. \A q \in Procs : HasWorker(q)' /\ lease'[q] = "held" =>
        HasWorker(q) /\ lease[q] = "held" /\ Reached(q) <= Reached(q)'
  BY ClockAssumption DEF IInv, TypeOK, PcFacts, HasWorker, Reached, Times, Never
<1> QED
  BY <1>1, <1>2, <1>3, <1>4, NoIdStep DEF IInv

\* Close stops the keep-alive.
LEMMA CloseStep ==
  ASSUME IInv, NEW p \in Procs, Close(p)
  PROVE  IInv'
<1> USE DEF Close, Goto, genVars, etcdVars
<1>1. TypeOK'
  BY DEF IInv, TypeOK
<1>2. PcFacts'
  BY DEF IInv, TypeOK, PcFacts
<1>3. HoldsKey'
  BY DEF IInv, TypeOK, PcFacts, HoldsKey, HasWorker
<1>4. \A q \in Procs : HasWorker(q)' /\ lease'[q] = "held" =>
        HasWorker(q) /\ lease[q] = "held" /\ Reached(q) <= Reached(q)'
  BY ClockAssumption DEF IInv, TypeOK, PcFacts, HasWorker, Reached, Times, Never
<1> QED
  BY <1>1, <1>2, <1>3, <1>4, NoIdStep DEF IInv

\* The process dies with its calls.
LEMMA CrashStep ==
  ASSUME IInv, NEW p \in Procs, Crash(p)
  PROVE  IInv'
<1> USE DEF Crash, Goto, genVars, etcdVars
<1>1. TypeOK'
  BY DEF IInv, TypeOK
<1>2. PcFacts'
  BY DEF IInv, TypeOK, PcFacts
<1>3. HoldsKey'
  BY DEF IInv, TypeOK, PcFacts, HoldsKey, HasWorker
<1>4. \A q \in Procs : HasWorker(q)' /\ lease'[q] = "held" =>
        HasWorker(q) /\ lease[q] = "held" /\ Reached(q) <= Reached(q)'
  BY ClockAssumption DEF IInv, TypeOK, PcFacts, HasWorker, Reached, Times, Never
<1> QED
  BY <1>1, <1>2, <1>3, <1>4, NoIdStep DEF IInv

\* A clock goes on, and what a generator has reached with it.
LEMMA TickStep ==
  ASSUME IInv, NEW p \in Procs, Tick(p)
  PROVE  IInv'
<1> USE DEF Tick, Goto, genVars, etcdVars
<1>1. TypeOK'
  BY ClockAssumption DEF IInv, TypeOK, Times
<1>2. PcFacts'
  BY DEF IInv, TypeOK, PcFacts
<1>3. HoldsKey'
  BY DEF IInv, TypeOK, PcFacts, HoldsKey, HasWorker
<1>4. \A q \in Procs : HasWorker(q)' /\ lease'[q] = "held" =>
        HasWorker(q) /\ lease[q] = "held" /\ Reached(q) <= Reached(q)'
  BY ClockAssumption DEF IInv, TypeOK, PcFacts, HasWorker, Reached, Times, Never
<1> QED
  BY <1>1, <1>2, <1>3, <1>4, NoIdStep DEF IInv

\* A clock steps back: before its first id what a generator has reached steps back with
\* it, and that is not sound.
LEMMA StepBackStep ==
  ASSUME IInv, NEW p \in Procs, StepBack(p)
  PROVE  IInv'
<1> USE DEF StepBack, Running, genVars, etcdVars
<1>1. TypeOK'
  BY Zenon DEF IInv, TypeOK
<1>2. PcFacts'
  BY DEF IInv, PcFacts
<1>3. HoldsKey'
  BY DEF IInv, HoldsKey, HasWorker
<1>4. sound' => \A q \in Procs : HasWorker(q)' /\ lease'[q] = "held" =>
        HasWorker(q) /\ lease[q] = "held" /\ Reached(q) <= Reached(q)'
  <2>1. SUFFICES ASSUME sound', NEW q \in Procs, HasWorker(q), lease[q] = "held"
                 PROVE  Reached(q) <= Reached(q)'
    BY DEF HasWorker
  <2>2. CASE q = p
    <3>1. lastMS[p] # Never
      BY <2>1, <2>2 DEF IInv, PcFacts, HasWorker
    <3> QED
      BY <2>2, <3>1, ClockAssumption DEF IInv, TypeOK, Reached, Times
  <2>3. CASE q # p
    BY <2>3, ClockAssumption DEF IInv, TypeOK, Reached, Times, Never
  <2> QED
    BY <2>2, <2>3
<1>5. sound' => sound
  OBVIOUS
<1> QED
  BY <1>1, <1>2, <1>3, <1>4, <1>5, NoIdStep DEF IInv

\* The next worker id is tried by a process that has made no id.
LEMMA TryNextStep ==
  ASSUME IInv, NEW p \in Procs, TryNext(p)
  PROVE  IInv'
<1> USE DEF TryNext, genVars, etcdVars
<1>1. TypeOK'
  <2>1. workerID[p] + 1 \in WorkerIDs
    BY WorkerAssumption DEF IInv, TypeOK, WorkerIDs
  <2> QED
    BY <2>1 DEF IInv, TypeOK
<1>2. PcFacts'
  BY DEF IInv, PcFacts
<1>3. \A q \in Procs : workerID'[q] # workerID[q] => q = p
  BY DEF IInv, TypeOK
<1>4. ~HasWorker(p)
  BY DEF IInv, PcFacts, HasWorker
<1>5. HoldsKey'
  BY <1>3, <1>4 DEF IInv, HoldsKey, HasWorker
<1>6. \A r \in issued : r.by # p
  <2> SUFFICES ASSUME NEW r \in issued, r.by = p PROVE FALSE
    OBVIOUS
  <2>1. r.ms \in 0..MaxMS /\ lastMS[p] = Never
    BY DEF IInv, TypeOK, PcFacts
  <2>2. r.ms <= lastMS[p]
    BY <2>1, ClockAssumption DEF IInv, OwnIds, Never
  <2> QED
    BY <2>1, <2>2, ClockAssumption DEF Never
<1>7. \A q \in Procs : HasWorker(q)' /\ lease'[q] = "held" =>
        HasWorker(q) /\ lease[q] = "held" /\ Reached(q) <= Reached(q)'
  BY ClockAssumption DEF IInv, TypeOK, HasWorker, Reached, Times, Never
<1>8. \A q \in Procs : HasWorker(q)' => workerID'[q] = workerID[q]
  BY <1>3, <1>4 DEF HasWorker
<1> QED
  BY <1>1, <1>2, <1>3, <1>5, <1>6, <1>7, <1>8, NoIdStep DEF IInv

\* A lease is dropped with its key, whoever drops it.
LEMMA DropStep ==
  ASSUME IInv, NEW p \in Procs, DropLease(p), NEW l \in {pc[p], "stopped"},
         pc' = [pc EXCEPT ![p] = l], l # "off", alive[p] => l = pc[p],
         UNCHANGED <<clock, workerID, alive, genVars, sound>>
  PROVE  IInv'
<1> USE DropFacts DEF genVars
<1>1. l \in {"off", "claim", "claimed", "serving", "closing", "stopped", "dead"}
  BY DEF IInv, TypeOK
<1>2. TypeOK'
  BY <1>1 DEF IInv, TypeOK
<1>3. PcFacts'
  BY DEF IInv, TypeOK, PcFacts
<1>4. \A q \in Procs : HasWorker(q)' /\ lease'[q] = "held" =>
        q # p /\ HasWorker(q) /\ lease[q] = "held"
  BY DEF IInv, TypeOK, HasWorker
<1>5. HoldsKey'
  BY <1>4 DEF IInv, TypeOK, HoldsKey
<1>6. \A q \in Procs : Reached(q)' = Reached(q) /\ Reached(q) \in Int
  BY ClockAssumption DEF IInv, TypeOK, Reached, Times, Never
<1> QED
  BY <1>2, <1>3, <1>4, <1>5, <1>6, NoIdStep DEF IInv

\* There is no generator.
LEMMA NoGeneratorStep ==
  ASSUME IInv, NEW p \in Procs, NoGenerator(p)
  PROVE  IInv'
<1>1. DropLease(p) /\ pc' = [pc EXCEPT ![p] = "stopped"] /\ ~alive[p]
  BY DEF NoGenerator, Goto, IInv, PcFacts
<1>2. UNCHANGED <<clock, workerID, alive, genVars, sound>>
  BY DEF NoGenerator
<1> QED
  BY <1>1, <1>2, DropStep

\* etcd drops the lease of a process that goes on, or is dead.
LEMMA LeaseExpiresStep ==
  ASSUME IInv, NEW p \in Procs, LeaseExpires(p)
  PROVE  IInv'
<1>1. pc[p] # "off"
  BY DEF LeaseExpires, IInv, PcFacts
<1>2. pc' = [pc EXCEPT ![p] = pc[p]]
  BY DEF LeaseExpires, IInv, TypeOK
<1> QED
  BY <1>1, <1>2, DropStep DEF LeaseExpires

\* Close revokes its lease, or fails to.
LEMMA RevokeStep ==
  ASSUME IInv, NEW p \in Procs, Revoke(p)
  PROVE  IInv'
<1>1. ~alive[p] /\ pc' = [pc EXCEPT ![p] = "stopped"]
  BY DEF Revoke, Goto, IInv, PcFacts
<1>2. CASE DropLease(p)
  BY <1>1, <1>2, DropStep DEF Revoke
<1>3. CASE UNCHANGED etcdVars
  <2> USE DEF Revoke, Goto, etcdVars, genVars
  <2>1. TypeOK'
    BY <1>3 DEF IInv, TypeOK
  <2>2. PcFacts'
    BY <1>3 DEF IInv, TypeOK, PcFacts
  <2>3. HoldsKey'
    BY <1>3 DEF IInv, TypeOK, HoldsKey, HasWorker
  <2>4. \A q \in Procs : HasWorker(q)' /\ lease'[q] = "held" =>
          HasWorker(q) /\ lease[q] = "held" /\ Reached(q) <= Reached(q)'
    BY <1>3, ClockAssumption DEF IInv, TypeOK, HasWorker, Reached, Times, Never
  <2> QED
    BY <1>3, <2>1, <2>2, <2>3, <2>4, NoIdStep DEF IInv
<1> QED
  BY <1>2, <1>3 DEF Revoke

-----------------------------------------------------------------------------
\* The claim of a worker id, and the making of an id.

\* A process that has made no id takes over a worker id: the ids made with it are
\* behind its clock, or the run is not sound.
LEMMA ClaimStep ==
  ASSUME IInv, NEW p \in Procs, Claim(p)
  PROVE  IInv'
<1> USE DEF Claim, Goto, genVars
<1>1. TypeOK'
  BY Zenon DEF IInv, TypeOK
<1>2. PcFacts'
  BY DEF IInv, TypeOK, PcFacts
<1>3. HoldsKey'
  BY NoOneAssumption DEF IInv, TypeOK, HoldsKey, HasWorker
<1>4. OwnIds' /\ PartsDiffer'
  BY DEF IInv, OwnIds, PartsDiffer
<1>5. OthersBehind'
  <2>1. SUFFICES ASSUME sound', NEW q \in Procs, HasWorker(q)', lease[q] = "held",
                        NEW r \in issued, r.worker = workerID[q], r.by # q
                 PROVE  r.ms < Reached(q)'
    BY DEF OthersBehind
  <2>2. CASE q = p
    BY <2>1, <2>2 DEF IInv, PcFacts, Reached
  <2>3. CASE q # p
    <3>1. HasWorker(q)
      BY <2>1, <2>3 DEF IInv, TypeOK, HasWorker
    <3> QED
      BY <2>1, <3>1 DEF IInv, OthersBehind, Reached
  <2> QED
    BY <2>2, <2>3
<1> QED
  BY <1>1, <1>2, <1>3, <1>4, <1>5 DEF IInv

\* The id a generator makes next, in its parts.
NewId(p) == [by |-> p, ms |-> clock[p], worker |-> workerID[p], seq |-> NextSequence(p)]

\* The sequence goes on within a millisecond, and its wait keeps it from wrapping.
LEMMA SequenceFacts ==
  ASSUME TypeOK, NEW p \in Procs, MayGo(p)
  PROVE  /\ NextSequence(p) \in 0..MaxSequence
         /\ clock[p] = lastMS[p] => NextSequence(p) = sequence[p] + 1
<1>1. CASE clock[p] = lastMS[p]
  <2>1. sequence[p] + 1 \in 0..MaxSequence /\ sequence[p] \in Nat
    BY <1>1, SequenceAssumption DEF TypeOK, MayGo
  <2>2. (sequence[p] + 1) % (MaxSequence + 1) = sequence[p] + 1
    BY <2>1, SequenceAssumption
  <2> QED
    BY <1>1, <2>1, <2>2 DEF NextSequence
<1>2. CASE clock[p] # lastMS[p]
  BY <1>2, SequenceAssumption DEF NextSequence
<1> QED
  BY <1>1, <1>2

\* The next id is after the generator's ids.
LEMMA NewIdAfterOwn ==
  ASSUME IInv, NEW p \in Procs, MayGo(p), NEW r \in issued, r.by = p
  PROVE  /\ r.worker = workerID[p]
         /\ r.ms < clock[p] \/ (r.ms = clock[p] /\ r.seq < NextSequence(p))
<1>1. r.ms \in 0..MaxMS /\ r.seq \in 0..MaxSequence /\ r.worker = workerID[p]
  BY DEF IInv, TypeOK, OwnIds
<1>2. lastMS[p] \in Int /\ clock[p] \in Int /\ sequence[p] \in 0..MaxSequence
  BY ClockAssumption DEF IInv, TypeOK, Times, Never
<1>3. clock[p] >= lastMS[p]
  BY DEF MayGo
<1>4. r.ms < lastMS[p] \/ (r.ms = lastMS[p] /\ r.seq <= sequence[p])
  BY DEF IInv, OwnIds
<1>5. clock[p] = lastMS[p] => NextSequence(p) = sequence[p] + 1
  BY SequenceFacts DEF IInv
<1> QED
  BY <1>1, <1>2, <1>3, <1>4, <1>5

\* What an id under a held lease finds: the ids made with its worker id are before it.
LEMMA NewIdAfterOthers ==
  ASSUME IInv, NEW p \in Procs, MayGo(p), inCall[p], sound, lease[p] = "held",
         NEW r \in issued, r.worker = workerID[p], r.by # p
  PROVE  r.ms < clock[p]
<1>1. r.ms < Reached(p)
  BY DEF IInv, OthersBehind, HasWorker
<1>2. r.ms \in Int /\ lastMS[p] \in Int /\ clock[p] \in Int
  BY ClockAssumption DEF IInv, TypeOK, Times, Never
<1> QED
  BY <1>1, <1>2 DEF Reached, MayGo

\* NextID.
LEMMA GenerateStep ==
  ASSUME IInv, NEW p \in Procs, Generate(p)
  PROVE  IInv'
<1> USE DEF Generate, etcdVars
<1>1. NextSequence(p) \in 0..MaxSequence
  BY SequenceFacts DEF IInv
<1>2. clock[p] >= 0 => NewId(p) \in Parts
  BY <1>1, ClockAssumption DEF IInv, TypeOK, Times, NewId, Parts
<1>3. /\ issued' = issued \/ (clock[p] >= 0 /\ issued' = issued \cup {NewId(p)})
      /\ lastMS' = lastMS \/ lastMS' = [lastMS EXCEPT ![p] = clock[p]]
      /\ clock[p] >= 0 => lastMS' = [lastMS EXCEPT ![p] = clock[p]]
      /\ sound' => sound
      /\ issued' # issued => (sound' => lease[p] = "held")
  <2>1. clock[p] \in Int
    BY ClockAssumption DEF IInv, TypeOK, Times
  <2>2. CASE clock[p] < 0
    BY <2>1, <2>2
  <2>3. CASE ~(clock[p] < 0)
    <3>1. clock[p] >= 0
      BY <2>1, <2>3
    <3>2. /\ lastMS' = [lastMS EXCEPT ![p] = clock[p]]
          /\ issued' = issued \/ issued' = issued \cup {NewId(p)}
          /\ sound' = (sound /\ lease[p] = "held")
      BY <2>3 DEF NewId
    <3> QED
      BY <3>1, <3>2
  <2> QED
    BY <2>2, <2>3
<1>4. TypeOK'
  <2>1. lastMS' \in [Procs -> 0..MaxMS \cup {Never}]
    BY ClockAssumption DEF IInv, TypeOK, Times
  <2>2. issued' \subseteq Parts
    BY <1>2, <1>3 DEF IInv, TypeOK, Parts
  <2>3. sequence' \in [Procs -> 0..MaxSequence]
    BY <1>1 DEF IInv, TypeOK
  <2>4. inCall' \in [Procs -> BOOLEAN]
    BY DEF IInv, TypeOK
  <2>5. sound' \in BOOLEAN
    BY DEF IInv, TypeOK
  <2> QED
    BY <2>1, <2>2, <2>3, <2>4, <2>5 DEF IInv, TypeOK, Parts
<1>5. PcFacts'
  BY DEF IInv, TypeOK, PcFacts
<1>6. HoldsKey'
  BY DEF IInv, TypeOK, HoldsKey, HasWorker
<1>7. OwnIds'
  <2>1. SUFFICES ASSUME NEW r \in issued'
                 PROVE  /\ r.worker = workerID[r.by]
                        /\ \/ r.ms < lastMS'[r.by]
                           \/ r.ms = lastMS'[r.by] /\ r.seq <= sequence'[r.by]
    BY DEF OwnIds
  <2>2. CASE r = NewId(p) /\ clock[p] >= 0
    <3>1. lastMS'[p] = clock[p] /\ sequence'[p] = NextSequence(p)
      BY <1>3, <2>2 DEF IInv, TypeOK
    <3> QED
      BY <1>1, <2>2, <3>1 DEF NewId
  <2>3. CASE r \in issued /\ r.by # p
    BY <2>3 DEF IInv, TypeOK, OwnIds
  <2>4. CASE r \in issued /\ r.by = p
    <3>1. /\ r.worker = workerID[p]
          /\ r.ms < clock[p] \/ (r.ms = clock[p] /\ r.seq < NextSequence(p))
      BY <2>4, NewIdAfterOwn
    <3>2. r.ms \in 0..MaxMS /\ clock[p] \in Int /\ r.seq \in 0..MaxSequence
      BY <2>4, ClockAssumption DEF IInv, TypeOK, Times
    <3>3. clock[p] >= 0
      BY <3>1, <3>2
    <3>4. lastMS'[p] = clock[p] /\ sequence'[p] = NextSequence(p)
      BY <1>3, <3>3 DEF IInv, TypeOK
    <3> QED
      BY <1>1, <2>4, <3>1, <3>2, <3>4
  <2> QED
    BY <1>3, <2>1, <2>2, <2>3, <2>4
<1>8. OthersBehind'
  <2>1. SUFFICES ASSUME sound', NEW q \in Procs, HasWorker(q)', lease[q] = "held",
                        NEW r \in issued', r.worker = workerID[q], r.by # q
                 PROVE  r.ms < Reached(q)'
    BY DEF OthersBehind
  <2>2. sound /\ HasWorker(q)
    BY <1>3, <2>1 DEF IInv, TypeOK, HasWorker
  <2>3. CASE r \in issued /\ q # p
    <3>1. Reached(q)' = Reached(q)
      BY <2>3 DEF IInv, TypeOK, Reached
    <3> QED
      BY <2>1, <2>2, <2>3, <3>1 DEF IInv, OthersBehind
  <2>4. CASE r \in issued /\ q = p
    <3>1. r.ms < clock[p] /\ r.ms < Reached(p)
      BY <2>1, <2>2, <2>4, NewIdAfterOthers DEF IInv, OthersBehind
    <3>2. lastMS'[p] \in {lastMS[p], clock[p]} /\ clock'[p] = clock[p]
      BY <1>3 DEF IInv, TypeOK
    <3> QED
      BY <2>4, <3>1, <3>2 DEF Reached
  <2>5. CASE r = NewId(p) /\ issued' # issued
    <3>1. lease[p] = "held" /\ workerID[p] = workerID[q] /\ q # p
      BY <1>3, <2>1, <2>5 DEF NewId
    <3>2. owner[workerID[p]] = p /\ owner[workerID[q]] = q
      BY <2>1, <2>2, <3>1 DEF IInv, HoldsKey, HasWorker
    <3> QED
      BY <3>1, <3>2
  <2> QED
    BY <1>3, <2>1, <2>3, <2>4, <2>5
<1>9. PartsDiffer'
  <2>1. CASE issued' = issued
    BY <1>3, <2>1 DEF IInv, PartsDiffer
  <2>2. CASE issued' # issued
    <3>1. SUFFICES ASSUME sound', NEW r \in issued, r.worker = workerID[p],
                          r.ms = clock[p], r.seq = NextSequence(p)
                   PROVE  FALSE
      BY <1>3, <2>2 DEF IInv, PartsDiffer, NewId
    <3>2. r.ms \in Int /\ r.seq \in Int
      BY DEF IInv, TypeOK
    <3>3. CASE r.by = p
      BY <3>1, <3>2, <3>3, NewIdAfterOwn
    <3>4. CASE r.by # p
      BY <1>3, <2>2, <3>1, <3>2, <3>4, NewIdAfterOthers
    <3> QED
      BY <3>3, <3>4
  <2> QED
    BY <2>1, <2>2
<1> QED
  BY <1>4, <1>5, <1>6, <1>7, <1>8, <1>9 DEF IInv

\* Every step preserves the invariant.
LEMMA NextIInv == IInv /\ [Next]_vars => IInv'
<1> SUFFICES ASSUME IInv, [Next]_vars PROVE IInv'
  OBVIOUS
<1>1. ASSUME NEW p \in Procs,
             Grant(p) \/ KeepAlive(p) \/ EnterNextID(p) \/ KeepAliveEnds(p) \/ Close(p)
      PROVE  IInv'
  BY <1>1, GrantStep, KeepAliveStep, EnterStep, KeepAliveEndsStep, CloseStep
<1>2. ASSUME NEW p \in Procs,
             Claim(p) \/ TryNext(p) \/ NoGenerator(p) \/ Revoke(p) \/ Crash(p)
      PROVE  IInv'
  BY <1>2, ClaimStep, TryNextStep, NoGeneratorStep, RevokeStep, CrashStep
<1>3. ASSUME NEW p \in Procs,
             LeaseExpires(p) \/ Tick(p) \/ StepBack(p) \/ Generate(p)
      PROVE  IInv'
  BY <1>3, LeaseExpiresStep, TickStep, StepBackStep, GenerateStep
<1>4. CASE UNCHANGED vars
  <2>1. TypeOK' /\ PcFacts'
    BY <1>4 DEF vars, genVars, etcdVars, IInv, TypeOK, PcFacts
  <2>2. OwnIds' /\ HoldsKey' /\ OthersBehind' /\ PartsDiffer'
    BY <1>4 DEF vars, genVars, etcdVars, IInv, OwnIds, HoldsKey, HasWorker, OthersBehind,
                Reached, PartsDiffer
  <2> QED
    BY <2>1, <2>2 DEF IInv
<1> QED
  BY <1>1, <1>2, <1>3, <1>4 DEF Next

\* The inductive invariant holds in every state of IdGen.
LEMMA Invariance == Spec => []IInv
BY InitIInv, NextIInv, PTL DEF Spec

-----------------------------------------------------------------------------
\* The theorems.

\* Type correctness: worker ids and sequences keep within their bits.
THEOREM TypeCorrect == Spec => []TypeOK
<1>1. IInv => TypeOK
  BY DEF IInv
<1> QED
  BY <1>1, Invariance, PTL

\* While leases and clocks behave no id is handed out twice, for any number of
\* processes that start, stop, crash and take over worker ids.
THEOREM IDsAreUnique == Spec => []UniqueIDs
<1>1. IInv => UniqueIDs
  <2>1. ASSUME IInv PROVE issued \subseteq Parts
    BY <2>1 DEF IInv, TypeOK, Parts
  <2> QED
    BY <2>1, IdParts DEF IInv, UniqueIDs, PartsDiffer
<1> QED
  BY <1>1, Invariance, PTL

\* The ids of IdSource.
Handed == {[by |-> r.by, id |-> Id(r)] : r \in issued}

\* A step of a generator is a step of IdSource.
LEMMA StepIsIssue ==
  ASSUME IInv, IInv', NEW p \in Procs, Generate(p), issued' # issued
  PROVE  Source!Issue(p)
<1> DEFINE n == NewId(p)
           i == [by |-> p, id |-> Id(n)]
<1>1. issued' = issued \cup {n} /\ n \in Parts /\ Id(n) > 0 /\ n \notin issued
  <2>1. issued' = issued \cup {n} /\ ~(Id(n) <= 0)
    BY DEF Generate, NewId
  <2>2. n \in Parts
    BY <2>1 DEF IInv, TypeOK, Parts
  <2> QED
    BY <2>1, <2>2, IdType
<1>2. issued \subseteq Parts
  BY DEF IInv, TypeOK, Parts
<1>3. n.by = p /\ n.worker = workerID[p] /\ n.ms = clock[p] /\ n.seq = NextSequence(p)
  BY DEF NewId
<1> HIDE DEF n
<1>4. i \in Handed' /\ Handed' = Handed \cup {i}
  BY <1>1, <1>3 DEF Handed
<1>5. i.by = p /\ i.id \in Nat \ {0}
  BY <1>1, IdType
<1>6. \A s \in Handed : s.by = p => s.id < i.id
  <2>1. SUFFICES ASSUME NEW r \in issued, r.by = p PROVE Id(r) < Id(n)
    BY DEF Handed
  <2> QED
    BY <1>1, <1>2, <1>3, <2>1, NewIdAfterOwn, IdOrder DEF Generate
<1>7. sound' => \A s \in Handed : s.id # i.id
  <2>1. SUFFICES ASSUME sound', NEW r \in issued, Id(r) = Id(n) PROVE FALSE
    BY DEF Handed
  <2>2. r.worker = n.worker /\ r.ms = n.ms /\ r.seq = n.seq
    BY <1>1, <1>2, <2>1, IdParts
  <2> QED
    BY <1>1, <2>1, <2>2 DEF IInv, PartsDiffer
<1> QED
  BY <1>4, <1>5, <1>6, <1>7 DEF Source!Issue, Handed

\* The generators implement IdSource: each one's ids increase whatever its clock does,
\* and no id comes twice while leases and clocks behave.
THEOREM Refinement == Spec => SourceSpec
<1>1. Init => Source!Init
  BY DEF Init, Source!Init
<1>2. IInv /\ IInv' /\ [Next]_vars => [Source!Next]_<<Handed, sound>>
  <2>1. SUFFICES ASSUME IInv, IInv', [Next]_vars
                 PROVE  [Source!Next]_<<Handed, sound>>
    OBVIOUS
  <2>2. sound' => sound
    BY <2>1 DEF Next, vars, Grant, Claim, TryNext, NoGenerator, KeepAlive, EnterNextID,
                Generate, KeepAliveEnds, Close, Revoke, Crash, LeaseExpires, Tick, StepBack
  <2>3. CASE issued' = issued
    BY <2>2, <2>3 DEF Source!Next, Handed
  <2>4. CASE issued' # issued
    <3>1. PICK p \in Procs : Generate(p)
      BY <2>1, <2>4 DEF Next, vars, genVars, Grant, Claim, TryNext, NoGenerator, KeepAlive,
                        EnterNextID, KeepAliveEnds, Close, Revoke, Crash, LeaseExpires,
                        Tick, StepBack
    <3>2. Source!Issue(p)
      BY <2>1, <2>4, <3>1, StepIsIssue
    <3> QED
      BY <2>2, <3>2 DEF Source!Next
  <2> QED
    BY <2>3, <2>4
<1> QED
  BY <1>1, <1>2, Invariance, PTL DEF Spec, SourceSpec, Source!Spec, Handed
=============================================================================
