-------------------- MODULE DistributedExecution_proofs ---------------------
(***************************************************************************)
(* Proofs about MemoryQueue and DistributedExecution, for any jobs,        *)
(* workers, faults and number of faults. A job is in one place of the      *)
(* queue whatever the callers do, and the queue implements JobQueue; the   *)
(* lemmas about each method are used again for the executor.               *)
(***************************************************************************)
EXTENDS DistributedExecution, SequenceFacts

-----------------------------------------------------------------------------
(* The methods. Each lemma says where the method leaves the jobs, and that  *)
(* they stay in one place.                                                 *)

QueueInv == QueueTypeOK /\ QueueExclusive

(* An empty queue satisfies the invariant.                                  *)
LEMMA QueueInitInv ==
    ASSUME QueueInit
    PROVE  QueueInv /\ Queued = {}
  <1>1. pending = <<>> /\ Queued = {}
    BY DEF QueueInit, Queued, ToSet
  <1>2. pending \in Seq(Jobs) /\ IsInjective(pending)
    BY <1>1 DEF IsInjective
  <1> QED
    BY <1>1, <1>2, MemoryQueueAssumption
       DEF QueueInit, QueueInv, QueueTypeOK, QueueExclusive

(* The queue of a restarted scheduler (MemoryQueue.__init__) is empty, so   *)
(* it satisfies the invariant.                                              *)
LEMMA NewQueueInv ==
    ASSUME NewQueue
    PROVE  QueueInv' /\ Queued' = {}
  <1>1. pending' = <<>> /\ Queued' = {}
    BY DEF NewQueue, Queued, ToSet
  <1>2. pending' \in Seq(Jobs) /\ IsInjective(pending')
    BY <1>1 DEF IsInjective
  <1> QED
    BY <1>1, <1>2, MemoryQueueAssumption
       DEF NewQueue, QueueInv, QueueTypeOK, QueueExclusive

(* enqueue keeps the invariant when the job is new to the queue (memory.py, *)
(* enqueue).                                                                *)
LEMMA EnqueueInv ==
    ASSUME QueueInv, NEW j \in Jobs, j \notin Known, Enqueue(j)
    PROVE  QueueInv' /\ Queued' = Queued \cup {j} /\ inFlight' = inFlight
  <1>1. /\ pending' \in Seq(Jobs)
        /\ Queued' = Queued \cup {j}
        /\ IsInjective(pending')
    BY AppendElement DEF QueueInv, QueueTypeOK, QueueExclusive, Enqueue, Known, Queued
  <1> QED
    BY <1>1 DEF QueueInv, QueueTypeOK, QueueExclusive, Enqueue, Known

(* claim moves the head of _pending to the table of claims and keeps the    *)
(* invariant.                                                               *)
LEMMA ClaimInv ==
    ASSUME QueueInv, NEW w \in Workers, NEW j \in Jobs, Claim(w, j)
    PROVE  /\ QueueInv'
           /\ j \in Queued
           /\ Queued' = Queued \ {j}
           /\ inFlight' = inFlight \cup {j}
  <1>1. /\ pending' \in Seq(Jobs)
        /\ j \in Queued
        /\ Queued = Queued' \cup {j}
        /\ IsInjective(pending')
        /\ j \notin Queued'
    BY TailElements DEF QueueInv, QueueTypeOK, QueueExclusive, Claim, Queued
  <1> QED
    BY <1>1, MemoryQueueAssumption
       DEF QueueInv, QueueTypeOK, QueueExclusive, Claim

(* A heartbeat touches no place of a job, whatever worker sends it.         *)
LEMMA HeartbeatInv ==
    ASSUME QueueInv, NEW w \in Workers, NEW j \in Jobs, Heartbeat(w, j)
    PROVE  QueueInv' /\ Queued' = Queued /\ inFlight' = inFlight
  BY DEF QueueInv, QueueTypeOK, QueueExclusive, Heartbeat, Queued

(* Time that passes touches no place of a job.                              *)
LEMMA WindowElapsesInv ==
    ASSUME QueueInv, NEW j \in Jobs, WindowElapses(j)
    PROVE  QueueInv' /\ Queued' = Queued /\ inFlight' = inFlight
  BY DEF QueueInv, QueueTypeOK, QueueExclusive, WindowElapses, Queued

(* complete settles a job in flight and takes it out of the table of        *)
(* claims.                                                                  *)
LEMMA CompleteInv ==
    ASSUME QueueInv, NEW j \in Jobs, Complete(j)
    PROVE  QueueInv' /\ Queued' = Queued /\ inFlight' = inFlight \ {j}
  BY DEF QueueInv, QueueTypeOK, QueueExclusive, Complete, Queued

(* fail settles a job in flight, whoever claimed it, and puts it nowhere    *)
(* else.                                                                    *)
LEMMA FailInv ==
    ASSUME QueueInv, NEW j \in Jobs, Fail(j)
    PROVE  /\ QueueInv'
           /\ j \in inFlight
           /\ Queued' = Queued
           /\ inFlight' = inFlight \ {j}
  BY DEF QueueInv, QueueTypeOK, QueueExclusive, Fail, Queued

(* The sweep moves the jobs of silent workers from the table of claims to   *)
(* the back of _pending.                                                    *)
LEMMA RequeueStaleInv ==
    ASSUME QueueInv, RequeueStale
    PROVE  /\ QueueInv'
           /\ Queued' = Queued \cup Stale
           /\ inFlight' = inFlight \ Stale
  <1>1. Stale \subseteq inFlight /\ Stale \subseteq Jobs
    BY DEF Stale, QueueInv, QueueTypeOK
  <1>2. Cardinality(Stale) \in Nat
    BY <1>1, MemoryQueueAssumption, FS_Subset, FS_CardinalityType
  <1>3. PICK order \in Bijection(1..Cardinality(Stale), Stale) :
           pending' = pending \o order
    BY DEF RequeueStale
  <1>4. /\ pending \in Seq(Jobs)
        /\ IsInjective(pending)
        /\ ToSet(pending) \cap Stale = {}
    BY <1>1 DEF QueueInv, QueueTypeOK, QueueExclusive, Queued
  <1>5. /\ pending' \in Seq(Jobs)
        /\ Queued' = Queued \cup Stale
        /\ IsInjective(pending')
    <2>1. /\ pending \o order \in Seq(Jobs)
          /\ ToSet(pending \o order) = ToSet(pending) \cup Stale
          /\ IsInjective(pending \o order)
      BY <1>1, <1>2, <1>4, ConcatOrder
    <2> QED
      BY <1>3, <2>1 DEF Queued
  <1> QED
    BY <1>1, <1>5 DEF QueueInv, QueueTypeOK, QueueExclusive, RequeueStale

-----------------------------------------------------------------------------
(* Under any caller that draws fresh job ids, every reachable state of the  *)
(* queue is well typed and has each job in one place (memory.py:20-84).    *)
THEOREM QueueSafety == QueueSpec => [](QueueTypeOK /\ QueueExclusive)
  <1>1. QueueInit => QueueInv
    BY QueueInitInv
  <1>2. QueueInv /\ [QueueNext]_queueVars => QueueInv'
    <2> SUFFICES ASSUME QueueInv, [QueueNext]_queueVars
                 PROVE  QueueInv'
      OBVIOUS
    <2>1. ASSUME NEW j \in Jobs, j \notin Known, Enqueue(j)
          PROVE  QueueInv'
      BY <2>1, EnqueueInv
    <2>2. ASSUME NEW j \in Jobs, Complete(j) \/ Fail(j) \/ WindowElapses(j)
          PROVE  QueueInv'
      BY <2>2, CompleteInv, FailInv, WindowElapsesInv
    <2>3. ASSUME NEW w \in Workers, NEW j \in Jobs, Claim(w, j) \/ Heartbeat(w, j)
          PROVE  QueueInv'
      BY <2>3, ClaimInv, HeartbeatInv
    <2>4. CASE RequeueStale
      BY <2>4, RequeueStaleInv
    <2>5. CASE UNCHANGED queueVars
      BY <2>5 DEF QueueInv, QueueTypeOK, QueueExclusive, queueVars, Queued
    <2> QED
      BY <2>1, <2>2, <2>3, <2>4, <2>5 DEF QueueNext
  <1> QED
    BY <1>1, <1>2, PTL DEF QueueSpec, QueueInv

(* First in, first out: what leaves the queue is its first job (memory.py:36) *)
(* and what enters it, by enqueue or by the sweep, comes behind the others.  *)
THEOREM NobodyOvertakes == QueueSpec => NoOvertaking
  <1> DEFINE InOrder == \A i, k \in DOMAIN pending :
                           i < k /\ pending[k] \notin ToSet(pending') =>
                               pending[i] \notin ToSet(pending')
  <1>1. QueueInv /\ [QueueNext]_queueVars => [InOrder]_queueVars
    <2> SUFFICES ASSUME QueueInv, QueueNext,
                        NEW i \in DOMAIN pending, NEW k \in DOMAIN pending, i < k
                 PROVE  pending[k] \in ToSet(pending')
      OBVIOUS
    <2>1. /\ pending \in Seq(Jobs) /\ DOMAIN pending = 1..Len(pending)
          /\ i \in Nat /\ k \in Nat /\ i >= 1
      BY DEF QueueInv, QueueTypeOK
    <2>2. pending[k] \in Queued /\ Queued = ToSet(pending)
      BY DEF Queued, ToSet
    <2>3. CASE \E j \in Jobs : Enqueue(j)
      BY <2>1, <2>2, <2>3, AppendElement DEF Enqueue
    <2>4. CASE \E w \in Workers, j \in Jobs : Claim(w, j)
      <3>1. pending' = Tail(pending) /\ k - 1 \in DOMAIN Tail(pending)
        BY <2>1, <2>4 DEF Claim
      <3>2. Tail(pending)[k - 1] = pending[k]
        BY <2>1, <3>1
      <3> QED
        BY <3>1, <3>2 DEF ToSet
    <2>5. CASE RequeueStale
      <3>1. PICK order \in Bijection(1..Cardinality(Stale), Stale) :
               pending' = pending \o order
        BY <2>5 DEF RequeueStale
      <3>2. Stale \in SUBSET Jobs /\ Cardinality(Stale) \in Nat
        <4>1. Stale \in SUBSET Jobs
          BY DEF Stale, QueueInv, QueueTypeOK
        <4>2. IsFiniteSet(Stale)
          BY <4>1, MemoryQueueAssumption, FS_Subset
        <4> QED
          BY <4>1, <4>2, FS_CardinalityType
      <3>3. ToSet(pending \o order) = ToSet(pending) \cup Stale
        BY <2>1, <3>2, ConcatOrder
      <3> QED
        BY <2>2, <3>1, <3>3
    <2>6. CASE UNCHANGED pending
      BY <2>2, <2>6
    <2> QED
      BY <2>3, <2>4, <2>5, <2>6
         DEF QueueNext, Complete, Fail, WindowElapses, Heartbeat
  <1>2. [][InOrder]_queueVars <=> NoOvertaking
    BY DEF NoOvertaking
  <1>3. QueueInv <=> QueueTypeOK /\ QueueExclusive
    BY DEF QueueInv
  <1> HIDE DEF InOrder
  <1> QED
    BY <1>1, <1>2, <1>3, QueueSafety, PTL DEF QueueSpec

-----------------------------------------------------------------------------
(* MemoryQueue implements JobQueue: a heartbeat and the passing of time are *)
(* stutters, every other method is the contract's operation of its kind.   *)

StatusMap == [j \in Jobs |-> AbstractStatus(j)]

(* enqueue is the contract's enqueue.                                       *)
LEMMA EnqueueRefines ==
    ASSUME QueueInv, NEW j \in Jobs, j \notin Known, Enqueue(j)
    PROVE  Contract!AddJob(j)
  <1>1. Queued' = Queued \cup {j} /\ inFlight' = inFlight
    BY EnqueueInv
  <1>2. StatusMap' = [StatusMap EXCEPT ![j] = "pending"] /\ StatusMap[j] = "unknown"
    BY <1>1 DEF StatusMap, AbstractStatus, Known, Enqueue
  <1>3. claimedBy' = claimedBy
    BY DEF Enqueue
  <1> QED
    BY <1>2, <1>3 DEF Contract!AddJob, StatusMap

(* claim is the contract's claim of some pending job.                       *)
LEMMA ClaimRefines ==
    ASSUME QueueInv, NEW w \in Workers, NEW j \in Jobs, Claim(w, j)
    PROVE  Contract!HandOut(w, j)
  <1>1. /\ j \in Queued
        /\ Queued' = Queued \ {j}
        /\ inFlight' = inFlight \cup {j}
    BY ClaimInv
  <1>2. j \notin inFlight /\ j \notin results \cup failures
    BY <1>1 DEF QueueInv, QueueExclusive
  <1>3. StatusMap' = [StatusMap EXCEPT ![j] = "claimed"] /\ StatusMap[j] = "pending"
    BY <1>1, <1>2 DEF StatusMap, AbstractStatus, Claim
  <1>4. claimedBy' = [claimedBy EXCEPT ![j] = w]
    BY DEF Claim
  <1> QED
    BY <1>3, <1>4 DEF Contract!HandOut, StatusMap

(* complete and fail are the contract's settling of a claimed job.          *)
LEMMA SettleRefines ==
    ASSUME QueueInv, NEW j \in Jobs, Complete(j) \/ Fail(j)
    PROVE  Contract!Settle(j)
  <1>1. Queued' = Queued /\ inFlight' = inFlight \ {j} /\ j \in inFlight
    BY CompleteInv, FailInv DEF Complete
  <1>2. j \notin Queued /\ j \notin results \cup failures
    BY <1>1 DEF QueueInv, QueueExclusive
  <1>3. results' \cup failures' = results \cup failures \cup {j}
    BY DEF Complete, Fail
  <1>4. StatusMap' = [StatusMap EXCEPT ![j] = "settled"] /\ StatusMap[j] = "claimed"
    BY <1>1, <1>2, <1>3 DEF StatusMap, AbstractStatus
  <1>5. claimedBy' = [claimedBy EXCEPT ![j] = NoWorker]
    BY DEF Complete, Fail
  <1> QED
    BY <1>4, <1>5 DEF Contract!Settle, StatusMap

(* The sweep is the contract's taking back of a set of claimed jobs.        *)
LEMMA RequeueRefines ==
    ASSUME QueueInv, RequeueStale
    PROVE  Contract!TakeBack(Stale)
  <1>1. Queued' = Queued \cup Stale /\ inFlight' = inFlight \ Stale
    BY RequeueStaleInv
  <1>2. Stale \subseteq inFlight /\ Stale \subseteq Jobs
    BY DEF Stale, QueueInv, QueueTypeOK
  <1>3. \A j \in Stale : j \notin results \cup failures
    BY <1>2 DEF QueueInv, QueueExclusive
  <1>4. results' = results /\ failures' = failures
    BY DEF RequeueStale
  <1>5. StatusMap' = [j \in Jobs |-> IF j \in Stale THEN "pending" ELSE StatusMap[j]]
    BY <1>1, <1>2, <1>3, <1>4 DEF StatusMap, AbstractStatus
  <1>6. \A j \in Stale : StatusMap[j] = "claimed"
    BY <1>2, <1>3 DEF StatusMap, AbstractStatus
  <1>7. claimedBy' = [j \in Jobs |-> IF j \in Stale THEN NoWorker ELSE claimedBy[j]]
    BY DEF RequeueStale
  <1> QED
    BY <1>5, <1>6, <1>7 DEF Contract!TakeBack, StatusMap

(* A step that leaves the places of all jobs and their owners alone is no   *)
(* step of the contract.                                                    *)
LEMMA QueueStutters ==
    ASSUME Queued' = Queued, inFlight' = inFlight, results' = results,
           failures' = failures, claimedBy' = claimedBy
    PROVE  UNCHANGED Contract!jobQueueVars
  BY DEF Contract!jobQueueVars, AbstractStatus

(* The in-process queue keeps the contract of QueueBackend (queue/base.py). *)
THEOREM QueueImplementsContract == QueueSpec => ImplementsJobQueue
  <1>1. QueueInit => Contract!JobQueueInit
    <2> SUFFICES ASSUME QueueInit PROVE Contract!JobQueueInit
      OBVIOUS
    <2>1. Queued = {}
      BY QueueInitInv
    <2> QED
      BY <2>1 DEF QueueInit, Contract!JobQueueInit, AbstractStatus
  <1>2. QueueInv /\ [QueueNext]_queueVars
            => [Contract!JobQueueNext]_Contract!jobQueueVars
    <2> SUFFICES ASSUME QueueInv, [QueueNext]_queueVars
                 PROVE  Contract!JobQueueNext \/ UNCHANGED Contract!jobQueueVars
      OBVIOUS
    <2>1. ASSUME NEW j \in Jobs, j \notin Known, Enqueue(j)
          PROVE  Contract!JobQueueNext
      BY <2>1, EnqueueRefines DEF Contract!JobQueueNext
    <2>2. ASSUME NEW j \in Jobs, Complete(j) \/ Fail(j)
          PROVE  Contract!JobQueueNext
      BY <2>2, SettleRefines DEF Contract!JobQueueNext
    <2>3. ASSUME NEW j \in Jobs, WindowElapses(j)
          PROVE  UNCHANGED Contract!jobQueueVars
      <3>1. Queued' = Queued
        BY <2>3, WindowElapsesInv
      <3> QED
        BY <3>1, <2>3, QueueStutters DEF WindowElapses
    <2>4. ASSUME NEW w \in Workers, NEW j \in Jobs, Claim(w, j)
          PROVE  Contract!JobQueueNext
      BY <2>4, ClaimRefines DEF Contract!JobQueueNext
    <2>5. ASSUME NEW w \in Workers, NEW j \in Jobs, Heartbeat(w, j)
          PROVE  UNCHANGED Contract!jobQueueVars
      <3>1. Queued' = Queued
        BY <2>5, HeartbeatInv
      <3> QED
        BY <3>1, <2>5, QueueStutters DEF Heartbeat
    <2>6. CASE RequeueStale
      <3>1. Stale \in SUBSET Jobs
        BY DEF Stale, QueueInv, QueueTypeOK
      <3>2. Contract!TakeBack(Stale)
        BY <2>6, RequeueRefines
      <3> QED
        BY <3>1, <3>2 DEF Contract!JobQueueNext
    <2>7. CASE UNCHANGED queueVars
      BY <2>7, QueueStutters DEF queueVars, Queued
    <2> QED
      BY <2>1, <2>2, <2>3, <2>4, <2>5, <2>6, <2>7 DEF QueueNext
  <1>3. QueueSpec => []QueueInv
    BY QueueSafety, PTL DEF QueueInv
  <1> QED
    BY <1>1, <1>2, <1>3, PTL
       DEF QueueSpec, ImplementsJobQueue, Contract!JobQueueSpec

-----------------------------------------------------------------------------
(***************************************************************************)
(* DistributedExecution. The inductive invariant IInv ties together what   *)
(* three threads keep separately: where the tick is, what the executor's   *)
(* table and the futures say, and where the queue has the job.             *)
(***************************************************************************)

Unsettled == ready \cup waiting \cup done \cup ({submitting} \ {NoJob})

\* The program counter of the tick and its local sets.
TickInv ==
    /\ phase \in {"idle", "levels"} => waiting = {}
    /\ phase \in {"idle", "levels", "wait", "commit"} => ready = {}
    /\ phase \in {"idle", "levels", "submit", "wait", "commit"} => submitting = NoJob
    /\ phase \in {"idle", "levels", "submit", "enqueue", "wait"} => done = {}
    /\ phase = "enqueue" => submitting \in Jobs
    /\ ready \cap waiting = {} /\ ready \cap done = {} /\ waiting \cap done = {}
    /\ submitting \notin ready \cup waiting \cup done
    /\ Unsettled \subseteq used
    /\ \A j \in Jobs : runLog[j] # "none" => j \in used \ Unsettled

\* A job the tick has not handed to the executor, or not yet to the queue.
FreshInv ==
    /\ \A j \in Jobs : j \notin used \/ j \in ready => future[j] = "none"
    /\ \A j \in Jobs : j \notin used \/ j \in ready \/ j = submitting => j \notin Known

\* The futures, against the executor's table, the server's threads and the tick.
FutureInv ==
    /\ \A j \in Jobs : future[j] = "waiting" <=> j \in registered \/ Resolving(j)
    /\ \A j \in registered : ~Resolving(j)
    /\ \A g, h \in handlers :
          g.job = h.job /\ g.step # "resolve_failed" /\ h.step # "resolve_failed"
              => g = h
    /\ \A j \in done : future[j] \in Outcomes
    /\ \A j \in Jobs : future[j] = "waiting" => j \in waiting \/ j = submitting
    /\ \A j \in Jobs :
          future[j] # "none" => j \in Unsettled \/ runLog[j] # "none"
    /\ phase # "stopped" =>
          \A j \in Jobs : j \in waiting \/ j = submitting =>
              future[j] \in {"waiting"} \cup Outcomes
    /\ phase = "stopped" => registered = {}

IInv ==
    /\ TypeOK
    /\ QueueExclusive
    /\ TickInv
    /\ FreshInv
    /\ FutureInv
    /\ NoLostJob
    /\ ActiveCountExact

-----------------------------------------------------------------------------
(* The queue's methods as the actions below see them.                      *)

(* The part of the invariant about the queue is the invariant of            *)
(* MemoryQueue.                                                             *)
LEMMA QueueInvOfIInv ==
    ASSUME IInv
    PROVE  QueueInv
  BY DEF IInv, TypeOK, QueueInv

\* A method that moves jobs inside the queue neither finds nor forgets one.
LEMMA KnownKept ==
    ASSUME QueueInv,
           \/ RequeueStale
           \/ \E w \in Workers, j \in Jobs : Claim(w, j) \/ Heartbeat(w, j)
           \/ \E j \in Jobs : Fail(j) \/ WindowElapses(j)
           \/ UNCHANGED queueVars
    PROVE  Known' = Known
  <1>1. CASE RequeueStale
    <2>1. Stale \subseteq inFlight
      BY DEF Stale
    <2> QED
      BY <1>1, <2>1, RequeueStaleInv DEF Known, RequeueStale
  <1>2. ASSUME NEW w \in Workers, NEW j \in Jobs, Claim(w, j)
        PROVE  Known' = Known
    BY <1>2, ClaimInv DEF Known, Claim
  <1>3. ASSUME NEW w \in Workers, NEW j \in Jobs, Heartbeat(w, j)
        PROVE  Known' = Known
    BY <1>3, HeartbeatInv DEF Known, Heartbeat
  <1>4. ASSUME NEW j \in Jobs, Fail(j)
        PROVE  Known' = Known
    BY <1>4, FailInv DEF Known, Fail
  <1>5. ASSUME NEW j \in Jobs, WindowElapses(j)
        PROVE  Known' = Known
    BY <1>5, WindowElapsesInv DEF Known, WindowElapses
  <1>6. CASE UNCHANGED queueVars
    BY <1>6 DEF Known, Queued, queueVars
  <1> QED
    BY <1>1, <1>2, <1>3, <1>4, <1>5, <1>6

(* A step that leaves the queue alone keeps what the invariant says of it.  *)
LEMMA QueueUnchanged ==
    ASSUME QueueInv, UNCHANGED queueVars
    PROVE  QueueInv' /\ Queued' = Queued /\ inFlight' = inFlight /\ Known' = Known
  BY DEF QueueInv, QueueTypeOK, QueueExclusive, queueVars, Queued, Known

-----------------------------------------------------------------------------
(* Every action preserves IInv.                                            *)

(* The sweep at the start of a tick keeps the invariant: nothing is awaited *)
(* then.                                                                    *)
LEMMA StartTickInv ==
    ASSUME IInv, StartTick
    PROVE  IInv'
  <1>1. QueueInv' /\ Known' = Known /\ Queued' \cup inFlight' = Queued \cup inFlight
    <2>1. Stale \subseteq inFlight
      BY DEF Stale
    <2> QED
      BY <2>1, QueueInvOfIInv, RequeueStaleInv, KnownKept DEF StartTick
  <1>2. TypeOK'
    BY <1>1 DEF IInv, TypeOK, StartTick, executorVars, workerVars, Phases, QueueInv
  <1>3. TickInv'
    BY DEF IInv, TickInv, StartTick, Unsettled
  <1>4. FreshInv'
    BY <1>1 DEF IInv, FreshInv, StartTick, executorVars
  <1>5. FutureInv'
    BY DEF IInv, FutureInv, StartTick, executorVars, Resolving, Unsettled
  <1>6. NoLostJob' /\ ActiveCountExact'
    BY <1>1 DEF IInv, NoLostJob, ActiveCountExact, StartTick, executorVars
  <1> QED
    BY <1>1, <1>2, <1>3, <1>4, <1>5, <1>6 DEF IInv, QueueInv

(* Choosing the steps of a level keeps the invariant: none of their jobs    *)
(* was known before.                                                        *)
LEMMA StartLevelInv ==
    ASSUME IInv, StartLevel
    PROVE  IInv'
  <1>1. QueueInv' /\ Known' = Known /\ Queued' = Queued /\ inFlight' = inFlight
    BY QueueInvOfIInv, QueueUnchanged DEF StartLevel
  <1>2. PICK batch \in (SUBSET (Jobs \ used)) \ {{}} :
           ready' = batch /\ used' = used \cup batch
    BY DEF StartLevel
  <1>3. TypeOK'
    BY <1>1, <1>2 DEF IInv, TypeOK, StartLevel, executorVars, workerVars, Phases, QueueInv
  <1>4. TickInv'
    BY <1>2, DistributedAssumption DEF IInv, TickInv, TypeOK, StartLevel, Unsettled
  <1>5. FreshInv'
    BY <1>1, <1>2 DEF IInv, FreshInv, TickInv, StartLevel, executorVars
  <1>6. FutureInv'
    BY <1>2 DEF IInv, FutureInv, TickInv, StartLevel, executorVars, Resolving, Unsettled
  <1>7. NoLostJob' /\ ActiveCountExact'
    BY <1>1 DEF IInv, NoLostJob, ActiveCountExact, StartLevel, executorVars
  <1> QED
    BY <1>1, <1>3, <1>4, <1>5, <1>6, <1>7 DEF IInv, QueueInv

(* A tick that ends leaves no future behind that somebody waits for.        *)
LEMMA EndTickInv ==
    ASSUME IInv, EndTick
    PROVE  IInv'
  <1>1. QueueInv' /\ Known' = Known /\ Queued' = Queued /\ inFlight' = inFlight
    BY QueueInvOfIInv, QueueUnchanged DEF EndTick
  <1>2. TypeOK'
    BY <1>1 DEF IInv, TypeOK, EndTick, executorVars, workerVars, Phases, QueueInv
  <1>3. TickInv' /\ FutureInv'
    BY DEF IInv, TickInv, FutureInv, EndTick, executorVars, Resolving, Unsettled
  <1>4. FreshInv' /\ NoLostJob' /\ ActiveCountExact'
    BY <1>1 DEF IInv, FreshInv, NoLostJob, ActiveCountExact, EndTick, executorVars
  <1> QED
    BY <1>1, <1>2, <1>3, <1>4 DEF IInv, QueueInv

(* submit registers the future before the job is in the queue; the tick is  *)
(* still submitting, so the job is not lost.                                *)
LEMMA RegisterInv ==
    ASSUME IInv, NEW j \in Jobs, Register(j)
    PROVE  IInv'
  <1>1. QueueInv' /\ Known' = Known /\ Queued' = Queued /\ inFlight' = inFlight
    BY QueueInvOfIInv, QueueUnchanged DEF Register
  <1>2. /\ future[j] = "none" /\ j \notin registered /\ ~Resolving(j)
        /\ j \notin waiting /\ j \notin done /\ submitting = NoJob
    BY DEF IInv, FreshInv, FutureInv, TickInv, Register
  <1>3. TypeOK'
    BY <1>1 DEF IInv, TypeOK, Register, workerVars, Phases, QueueInv
  <1>4. TickInv'
    BY <1>2, DistributedAssumption DEF IInv, TickInv, TypeOK, Register, Unsettled
  <1>5. FreshInv'
    BY <1>1, <1>2 DEF IInv, FreshInv, TypeOK, TickInv, Unsettled, Register
  <1>6. FutureInv'
    BY <1>2, DistributedAssumption
       DEF IInv, FutureInv, TypeOK, TickInv, Register, Resolving, Unsettled
  <1>7. NoLostJob'
    BY <1>1, <1>2, DistributedAssumption DEF IInv, NoLostJob, TypeOK, Register
  <1>8. ActiveCountExact'
    <2>1. IsFiniteSet(registered)
      BY MemoryQueueAssumption, FS_Subset DEF IInv, TypeOK
    <2>2. Cardinality(registered \cup {j}) = Cardinality(registered) + 1
      BY <2>1, <1>2, FS_AddElement
    <2> QED
      BY <2>2 DEF IInv, ActiveCountExact, Register
  <1> QED
    BY <1>1, <1>3, <1>4, <1>5, <1>6, <1>7, <1>8 DEF IInv, QueueInv

(* The second half of submit puts the registered job in the queue.          *)
LEMMA EnqueueSubmittedInv ==
    ASSUME IInv, EnqueueSubmitted
    PROVE  IInv'
  <1>1. submitting \in Jobs /\ submitting \notin Known
    BY DEF IInv, TickInv, FreshInv, EnqueueSubmitted
  <1>2. /\ QueueInv'
        /\ Queued' = Queued \cup {submitting}
        /\ inFlight' = inFlight
        /\ Known' = Known \cup {submitting}
    BY <1>1, QueueInvOfIInv, EnqueueInv DEF EnqueueSubmitted, Known, Enqueue
  <1>3. TypeOK'
    BY <1>1, <1>2 DEF IInv, TypeOK, EnqueueSubmitted, executorVars, workerVars, Phases, QueueInv
  <1>4. TickInv'
    BY <1>1, DistributedAssumption DEF IInv, TickInv, TypeOK, EnqueueSubmitted, Unsettled
  <1>5. FreshInv'
    BY <1>1, <1>2, DistributedAssumption
       DEF IInv, FreshInv, TypeOK, TickInv, Unsettled, EnqueueSubmitted, executorVars
  <1>6. FutureInv'
    BY <1>1, DistributedAssumption
       DEF IInv, FutureInv, TypeOK, TickInv, EnqueueSubmitted, executorVars, Resolving, Unsettled
  <1>7. NoLostJob' /\ ActiveCountExact'
    BY <1>1, <1>2 DEF IInv, NoLostJob, ActiveCountExact, EnqueueSubmitted, executorVars
  <1> QED
    BY <1>2, <1>3, <1>4, <1>5, <1>6, <1>7 DEF IInv, QueueInv

(* futures_wait returns the futures that are resolved, and the tick waits   *)
(* for the others.                                                          *)
LEMMA WaitReturnsInv ==
    ASSUME IInv, WaitReturns
    PROVE  IInv'
  <1>1. QueueInv' /\ Known' = Known /\ Queued' = Queued /\ inFlight' = inFlight
    BY QueueInvOfIInv, QueueUnchanged DEF WaitReturns
  <1>2. TypeOK'
    BY <1>1 DEF IInv, TypeOK, WaitReturns, executorVars, workerVars, Phases, QueueInv
  <1>3. waiting' = waiting \ done' /\ done' \subseteq waiting
    BY DEF WaitReturns
  <1>4. TickInv'
    BY <1>3 DEF IInv, TickInv, WaitReturns, Unsettled
  <1>5. FreshInv'
    BY <1>1 DEF IInv, FreshInv, WaitReturns, executorVars
  <1>6. FutureInv'
    BY <1>3 DEF IInv, FutureInv, TickInv, WaitReturns, executorVars, Resolving, Unsettled, Outcomes
  <1>7. NoLostJob' /\ ActiveCountExact'
    BY <1>1 DEF IInv, NoLostJob, ActiveCountExact, WaitReturns, executorVars
  <1> QED
    BY <1>1, <1>2, <1>4, <1>5, <1>6, <1>7 DEF IInv, QueueInv

(* Committing a result writes the record of a job that had none.            *)
LEMMA CommitResultInv ==
    ASSUME IInv, NEW j \in Jobs, CommitResult(j)
    PROVE  IInv'
  <1>1. QueueInv' /\ Known' = Known /\ Queued' = Queued /\ inFlight' = inFlight
    BY QueueInvOfIInv, QueueUnchanged DEF CommitResult
  <1>2. PICK status \in {"success", "failed"} : runLog' = [runLog EXCEPT ![j] = status]
    BY DEF CommitResult
  <1>3. TypeOK'
    BY <1>1, <1>2 DEF IInv, TypeOK, CommitResult, executorVars, workerVars, Phases, QueueInv
  <1>4. /\ phase' \in {"commit", "wait", "levels"}
        /\ phase' = "levels" => waiting = {} /\ done' = {}
        /\ phase' = "wait" => done' = {}
    BY DEF CommitResult
  <1>5. TickInv'
    BY <1>2, <1>4 DEF IInv, TickInv, TypeOK, CommitResult, Unsettled
  <1>6. FreshInv'
    BY <1>1 DEF IInv, FreshInv, CommitResult, executorVars
  <1>7. FutureInv'
    BY <1>2 DEF IInv, FutureInv, TypeOK, CommitResult, executorVars, Resolving, Unsettled
  <1>8. NoLostJob' /\ ActiveCountExact'
    BY <1>1, <1>4 DEF IInv, NoLostJob, ActiveCountExact, CommitResult, executorVars
  <1> QED
    BY <1>1, <1>3, <1>5, <1>6, <1>7, <1>8 DEF IInv, QueueInv

(* shutdown cancels the futures of the table and empties it.                *)
LEMMA InterruptInv ==
    ASSUME IInv, Interrupt
    PROVE  IInv'
  <1>1. QueueInv' /\ Known' = Known /\ Queued' = Queued /\ inFlight' = inFlight
    BY QueueInvOfIInv, QueueUnchanged DEF Interrupt
  <1>2. TypeOK'
    BY <1>1, DistributedAssumption
       DEF IInv, TypeOK, Interrupt, Fault, workerVars, Phases, QueueInv
  <1>3. TickInv'
    BY DEF IInv, TickInv, Interrupt, Unsettled
  <1>4. FreshInv'
    BY <1>1 DEF IInv, FreshInv, FutureInv, TypeOK, Interrupt
  <1>5. FutureInv'
    BY DEF IInv, FutureInv, TypeOK, Interrupt, Resolving, Unsettled, Outcomes
  <1>6. NoLostJob' /\ ActiveCountExact'
    BY DEF NoLostJob, ActiveCountExact, Interrupt
  <1> QED
    BY <1>1, <1>2, <1>3, <1>4, <1>5, <1>6 DEF IInv, QueueInv

(* A restart empties the tables of the executor and the queue, both in      *)
(* memory.                                                                  *)
LEMMA RestartSchedulerInv ==
    ASSUME IInv, RestartScheduler
    PROVE  IInv'
  <1>1. QueueInv' /\ Queued' = {} /\ Known' = {}
    BY NewQueueInv DEF RestartScheduler, NewQueue, Known
  <1>2. TypeOK'
    BY <1>1, DistributedAssumption
       DEF IInv, TypeOK, RestartScheduler, Fault, workerVars, Phases, QueueInv
  <1>3. TickInv'
    BY DEF IInv, TickInv, TypeOK, RestartScheduler, Unsettled
  <1>4. FreshInv'
    BY <1>1 DEF FreshInv, RestartScheduler
  <1>5. FutureInv'
    BY DistributedAssumption
       DEF FutureInv, RestartScheduler, Resolving, Unsettled, Outcomes
  <1>6. NoLostJob'
    BY DEF NoLostJob, RestartScheduler
  <1>7. ActiveCountExact'
    BY FS_EmptySet DEF ActiveCountExact, RestartScheduler
  <1> QED
    BY <1>1, <1>2, <1>3, <1>4, <1>5, <1>6, <1>7 DEF IInv, QueueInv

\* The steps that only move jobs inside the queue, or change no more than the
\* workers and the network.
LEMMA QueueOrWorkerInv ==
    ASSUME IInv, TypeOK', QueueInv', Known' = Known,
           Queued' \cup inFlight' = Queued \cup inFlight,
           UNCHANGED <<executorVars, tickVars, handlers>>
    PROVE  IInv'
  <1>1. TickInv' /\ FutureInv'
    BY DEF IInv, TickInv, FutureInv, executorVars, tickVars, Resolving, Unsettled
  <1>2. FreshInv' /\ NoLostJob' /\ ActiveCountExact'
    BY DEF IInv, FreshInv, NoLostJob, ActiveCountExact, executorVars, tickVars
  <1> QED
    BY <1>1, <1>2 DEF IInv, QueueInv

(* GET /next hands a job of the queue to a worker.                          *)
LEMMA ClaimingInv ==
    ASSUME IInv, NEW w \in Workers, Poll(w) \/ PollAnswerLost(w)
    PROVE  IInv'
  <1>1. PICK j \in Jobs : Claim(w, j)
    BY DEF Poll, PollAnswerLost
  <1>2. /\ QueueInv'
        /\ Known' = Known
        /\ Queued' \cup inFlight' = Queued \cup inFlight
    BY <1>1, QueueInvOfIInv, ClaimInv, KnownKept
  <1>3. TypeOK'
    <2>1. CASE Poll(w)
      BY <2>1, <1>2 DEF IInv, TypeOK, Poll, executorVars, tickVars, QueueInv
    <2>2. CASE PollAnswerLost(w)
      BY <2>2, <1>2, DistributedAssumption
         DEF IInv, TypeOK, PollAnswerLost, Fault, executorVars, tickVars, workerVars, QueueInv
    <2> QED
      BY <2>1, <2>2
  <1>4. UNCHANGED <<executorVars, tickVars, handlers>>
    BY DEF Poll, PollAnswerLost
  <1> QED
    BY <1>2, <1>3, <1>4, QueueOrWorkerInv

(* A heartbeat changes no place of a job.                                   *)
LEMMA SendHeartbeatInv ==
    ASSUME IInv, NEW w \in Workers, SendHeartbeat(w)
    PROVE  IInv'
  <1>1. current[w] \in Jobs
    BY DEF SendHeartbeat, Heartbeat, IInv, TypeOK, QueueTypeOK
  <1>2. QueueInv' /\ Known' = Known /\ Queued' = Queued /\ inFlight' = inFlight
    BY <1>1, QueueInvOfIInv, HeartbeatInv, KnownKept DEF SendHeartbeat
  <1>3. TypeOK'
    BY <1>2 DEF IInv, TypeOK, SendHeartbeat, executorVars, tickVars, workerVars, QueueInv
  <1> QED
    BY <1>2, <1>3, QueueOrWorkerInv DEF SendHeartbeat

(* A heartbeat window that elapses changes no place of a job.               *)
LEMMA SilenceGrowsInv ==
    ASSUME IInv, NEW j \in Jobs, SilenceGrows(j)
    PROVE  IInv'
  <1>1. QueueInv' /\ Known' = Known /\ Queued' = Queued /\ inFlight' = inFlight
    BY QueueInvOfIInv, WindowElapsesInv, KnownKept DEF SilenceGrows
  <1>2. TypeOK'
    BY <1>1 DEF IInv, TypeOK, SilenceGrows, executorVars, tickVars, workerVars, QueueInv
  <1> QED
    BY <1>1, <1>2, QueueOrWorkerInv DEF SilenceGrows

(* What a worker does on its own leaves the scheduler alone.                *)
LEMMA WorkerStepInv ==
    ASSUME IInv, NEW w \in Workers,
           FinishStep(w) \/ ReportTimesOut(w) \/ CrashWorker(w)
    PROVE  IInv'
  <1>1. UNCHANGED <<queueVars, executorVars, tickVars, handlers>>
    BY DEF FinishStep, ReportTimesOut, CrashWorker
  <1>2. QueueInv' /\ Known' = Known /\ Queued' = Queued /\ inFlight' = inFlight
    BY <1>1, QueueInvOfIInv, QueueUnchanged
  <1>3. TypeOK'
    <2>1. CASE FinishStep(w)
      BY <2>1, <1>2 DEF IInv, TypeOK, FinishStep, Request, RequestKinds,
                        executorVars, tickVars, QueueInv
    <2>2. CASE ReportTimesOut(w)
      BY <2>2, <1>2, DistributedAssumption
         DEF IInv, TypeOK, ReportTimesOut, Answer, Fault, executorVars, tickVars,
             workerVars, QueueInv
    <2>3. CASE CrashWorker(w)
      BY <2>3, <1>2, DistributedAssumption
         DEF IInv, TypeOK, CrashWorker, Fault, executorVars, tickVars, QueueInv
    <2> QED
      BY <2>1, <2>2, <2>3
  <1> QED
    BY <1>1, <1>2, <1>3, QueueOrWorkerInv

(* A lost request leaves the scheduler alone.                               *)
LEMMA LoseRequestInv ==
    ASSUME IInv, NEW r \in requests, LoseRequest(r)
    PROVE  IInv'
  <1>1. UNCHANGED <<queueVars, executorVars, tickVars, handlers>>
    BY DEF LoseRequest
  <1>2. QueueInv' /\ Known' = Known /\ Queued' = Queued /\ inFlight' = inFlight
    BY <1>1, QueueInvOfIInv, QueueUnchanged
  <1>3. TypeOK'
    BY <1>2, DistributedAssumption
       DEF IInv, TypeOK, LoseRequest, Answer, Fault, Request, executorVars, tickVars,
           workerVars, QueueInv
  <1> QED
    BY <1>1, <1>2, <1>3, QueueOrWorkerInv

-----------------------------------------------------------------------------
(* The threads of the server.                                              *)

\* What both resolve methods do to the executor's table and the threads; H is
\* the set of the other threads.
LEMMA PopFutureInv ==
    ASSUME IInv, NEW w \in Workers, NEW j \in Jobs, NEW H \in SUBSET handlers,
           NEW next \in {"set_result", "set_exception"},
           PopFuture(w, j, next, H),
           handlers \ H \subseteq {[step |-> "resolve_failed", worker |-> w, job |-> j]},
           UNCHANGED <<queueVars, future, tickVars, faults>>,
           requests' \subseteq requests
    PROVE  IInv'
  <1>1. QueueInv' /\ Known' = Known /\ Queued' = Queued /\ inFlight' = inFlight
    BY QueueInvOfIInv, QueueUnchanged
  <1> DEFINE h == [step |-> next, worker |-> w, job |-> j]
  <1>2. h \in Handler /\ h.job = j /\ h.step = next /\ next # "resolve_failed"
    BY DEF Handler, HandlerSteps
  <1>3. \A g \in handlers \ H : g.step = "resolve_failed" /\ g.job = j
    OBVIOUS
  <1>4. CASE j \in registered
    <2>1. /\ registered' = registered \ {j}
          /\ active' = active - 1
          /\ handlers' = H \cup {h}
          /\ UNCHANGED workerVars
      BY <1>4 DEF PopFuture
    <2>2. TypeOK'
      <3>1. IsFiniteSet(registered) /\ phase # "stopped"
        BY <1>4, MemoryQueueAssumption, FS_Subset DEF IInv, TypeOK, FutureInv
      <3>2. active \in Nat \ {0}
        BY <3>1, <1>4, FS_EmptySet DEF IInv, TypeOK, ActiveCountExact
      <3> QED
        BY <3>2, <2>1, <1>1, <1>2 DEF IInv, TypeOK, QueueInv, tickVars, workerVars
    <2>3. \A i \in Jobs : Resolving(i)' <=> Resolving(i) \/ i = j
      BY <2>1, <1>2, <1>3 DEF Resolving
    <2>4. TickInv'
      BY DEF IInv, TickInv, tickVars, Unsettled
    <2>5. FreshInv'
      BY <1>1 DEF IInv, FreshInv, tickVars
    <2>6. FutureInv'
      <3>1. \A i \in Jobs : future'[i] = "waiting" <=> i \in registered' \/ Resolving(i)'
        BY <2>1, <2>3, <1>4 DEF IInv, FutureInv
      <3>2. \A i \in registered' : ~Resolving(i)'
        BY <2>1, <2>3 DEF IInv, FutureInv, TypeOK
      <3>3. \A f, g \in handlers' :
               f.job = g.job /\ f.step # "resolve_failed" /\ g.step # "resolve_failed"
                   => f = g
        <4>1. ~Resolving(j)
          BY <1>4 DEF IInv, FutureInv
        <4>2. \A f \in H : f.job = j => f.step = "resolve_failed"
          BY <4>1 DEF Resolving, IInv, TypeOK, Handler, HandlerSteps
        <4> QED
          BY <2>1, <4>2, <1>2 DEF IInv, FutureInv
      <3> QED
        BY <3>1, <3>2, <3>3, <2>1 DEF IInv, FutureInv, tickVars, Unsettled
    <2>7. NoLostJob'
      BY <2>1, <1>1, <1>3 DEF IInv, NoLostJob, tickVars
    <2>8. ActiveCountExact'
      <3>1. IsFiniteSet(registered)
        BY MemoryQueueAssumption, FS_Subset DEF IInv, TypeOK
      <3>2. Cardinality(registered \ {j}) = Cardinality(registered) - 1
        BY <3>1, <1>4, FS_RemoveElement
      <3> QED
        BY <3>2, <2>1 DEF IInv, ActiveCountExact, tickVars
    <2> QED
      BY <1>1, <2>2, <2>4, <2>5, <2>6, <2>7, <2>8 DEF IInv, QueueInv
  <1>5. CASE j \notin registered
    <2>1. /\ registered' = registered
          /\ active' = active
          /\ handlers' = H
          /\ Answer(w, j)
      BY <1>5 DEF PopFuture
    <2>2. TypeOK'
      BY <2>1, <1>1 DEF IInv, TypeOK, QueueInv, tickVars, Answer, workerVars
    <2>3. \A i \in Jobs : Resolving(i)' <=> Resolving(i)
      BY <2>1, <1>3 DEF Resolving
    <2>4. TickInv' /\ FutureInv'
      BY <2>1, <2>3 DEF IInv, TickInv, FutureInv, TypeOK, tickVars, Unsettled
    <2>5. FreshInv' /\ ActiveCountExact'
      BY <2>1, <1>1 DEF IInv, FreshInv, ActiveCountExact, tickVars
    <2>6. NoLostJob'
      BY <2>1, <1>1, <1>3, <1>5 DEF IInv, NoLostJob, tickVars
    <2> QED
      BY <1>1, <2>2, <2>4, <2>5, <2>6 DEF IInv, QueueInv
  <1> QED
    BY <1>4, <1>5

(* POST /done takes the job out of the table of the executor, and its       *)
(* future will be resolved by the rest of the handler.                      *)
LEMMA HandleDoneInv ==
    ASSUME IInv, NEW r \in requests, HandleDone(r)
    PROVE  IInv'
  <1>1. r.worker \in Workers /\ r.job \in Jobs
    BY DEF IInv, TypeOK, Request
  <1> QED
    BY <1>1, PopFutureInv DEF HandleDone

(* resolve_failed, the second half of handle_failed, does the same for POST *)
(* /failed.                                                                 *)
LEMMA ResolveFailedInv ==
    ASSUME IInv, NEW h \in handlers, ResolveFailed(h)
    PROVE  IInv'
  <1>1. h.worker \in Workers /\ h.job \in Jobs
    BY DEF IInv, TypeOK, Handler
  <1>2. h = [step |-> "resolve_failed", worker |-> h.worker, job |-> h.job]
    BY DEF IInv, TypeOK, Handler, ResolveFailed
  <1>3. handlers \ (handlers \ {h}) \subseteq
           {[step |-> "resolve_failed", worker |-> h.worker, job |-> h.job]}
    BY <1>2
  <1>4. requests' \subseteq requests
    BY DEF ResolveFailed
  <1> QED
    BY <1>1, <1>3, <1>4, PopFutureInv DEF ResolveFailed

(* POST /failed first settles the job in the queue; its handler goes on to  *)
(* resolve_failed, so the awaited job is not lost.                          *)
LEMMA HandleFailedInv ==
    ASSUME IInv, NEW r \in requests, HandleFailed(r)
    PROVE  IInv'
  <1>1. r.worker \in Workers /\ r.job \in Jobs
    BY DEF IInv, TypeOK, Request
  <1> DEFINE h == [step |-> "resolve_failed", worker |-> r.worker, job |-> r.job]
  <1>2. h \in Handler /\ h.job = r.job /\ h.step = "resolve_failed"
    BY <1>1 DEF Handler, HandlerSteps
  <1>3. CASE Fail(r.job) /\ handlers' = handlers \cup {h} /\ UNCHANGED workerVars
    <2>1. /\ QueueInv'
          /\ Known' = Known
          /\ Queued' = Queued
          /\ inFlight' = inFlight \ {r.job}
      BY <1>1, <1>3, QueueInvOfIInv, FailInv, KnownKept
    <2>2. TypeOK'
      BY <2>1, <1>2, <1>3 DEF IInv, TypeOK, QueueInv, HandleFailed, executorVars,
                              tickVars, workerVars
    <2>3. \A i \in Jobs : Resolving(i)' <=> Resolving(i)
      BY <1>2, <1>3 DEF Resolving
    <2>4. TickInv'
      BY DEF IInv, TickInv, HandleFailed, tickVars, Unsettled
    <2>5. FreshInv' /\ ActiveCountExact'
      BY <2>1 DEF IInv, FreshInv, ActiveCountExact, HandleFailed, executorVars, tickVars
    <2>6. FutureInv'
      BY <2>3, <1>2, <1>3 DEF IInv, FutureInv, TypeOK, HandleFailed, executorVars,
                              tickVars, Unsettled
    <2>7. NoLostJob'
      BY <2>1, <1>2, <1>3 DEF IInv, NoLostJob, HandleFailed, executorVars, tickVars
    <2> QED
      BY <2>1, <2>2, <2>4, <2>5, <2>6, <2>7 DEF IInv, QueueInv
  <1>4. CASE Answer(r.worker, r.job) /\ UNCHANGED <<queueVars, handlers>>
    <2>1. QueueInv' /\ Known' = Known /\ Queued' = Queued /\ inFlight' = inFlight
      BY <1>4, QueueInvOfIInv, QueueUnchanged
    <2>2. TypeOK'
      BY <2>1, <1>4 DEF IInv, TypeOK, QueueInv, HandleFailed, Answer, executorVars,
                        tickVars, workerVars
    <2> QED
      BY <2>1, <2>2, <1>4, QueueOrWorkerInv DEF HandleFailed
  <1> QED
    BY <1>3, <1>4 DEF HandleFailed

(* set_result and set_exception resolve a future that was taken out of the  *)
(* table, and no other.                                                     *)
LEMMA SetOutcomeInv ==
    ASSUME IInv, NEW h \in handlers, SetOutcome(h)
    PROVE  IInv'
  <1>1. h.worker \in Workers /\ h.job \in Jobs /\ h.step # "resolve_failed"
    BY DEF IInv, TypeOK, Handler, SetOutcome
  <1>2. PICK outcome \in Outcomes : future' = [future EXCEPT ![h.job] = outcome]
    BY DEF SetOutcome, Outcomes
  <1>3. QueueInv' /\ Known' = Known /\ Queued' = Queued /\ inFlight' = inFlight
    BY QueueInvOfIInv, QueueUnchanged DEF SetOutcome
  <1>4. TypeOK'
    BY <1>1, <1>2, <1>3 DEF IInv, TypeOK, QueueInv, SetOutcome, Answer, tickVars,
                            workerVars, Outcomes
  <1>5. \A i \in Jobs : Resolving(i)' <=> Resolving(i) /\ i # h.job
    BY <1>1 DEF IInv, FutureInv, TypeOK, Handler, HandlerSteps, Resolving, SetOutcome
  <1>6. Resolving(h.job) /\ h.job \notin registered /\ future[h.job] = "waiting"
    BY <1>1 DEF IInv, FutureInv, TypeOK, Resolving, SetOutcome
  <1>7. TickInv'
    BY DEF IInv, TickInv, SetOutcome, tickVars, Unsettled
  <1>8. FreshInv'
    BY <1>1, <1>2, <1>3, <1>6 DEF IInv, FreshInv, TypeOK, SetOutcome, tickVars
  <1>9. FutureInv'
    <2>1. \A i \in Jobs : future'[i] = "waiting" <=> i \in registered' \/ Resolving(i)'
      BY <1>1, <1>2, <1>5, <1>6 DEF IInv, FutureInv, TypeOK, SetOutcome, Outcomes
    <2>2. \A i \in registered' : ~Resolving(i)'
      BY <1>5 DEF IInv, FutureInv, TypeOK, SetOutcome
    <2>3. \A f, g \in handlers' :
             f.job = g.job /\ f.step # "resolve_failed" /\ g.step # "resolve_failed"
                 => f = g
      BY DEF IInv, FutureInv, SetOutcome
    <2>4. \A j \in done' : future'[j] \in Outcomes
      BY <1>1, <1>2 DEF IInv, FutureInv, TypeOK, SetOutcome, tickVars
    <2>5. \A j \in Jobs : future'[j] = "waiting" => j \in waiting' \/ j = submitting'
      BY <1>1, <1>2 DEF IInv, FutureInv, TypeOK, SetOutcome, tickVars, Outcomes
    <2>6. \A j \in Jobs : future'[j] # "none" => j \in Unsettled' \/ runLog'[j] # "none"
      BY <1>1, <1>2, <1>6 DEF IInv, FutureInv, TypeOK, SetOutcome, tickVars, Unsettled
    <2>7. phase' # "stopped" =>
             \A j \in Jobs : j \in waiting' \/ j = submitting' =>
                 future'[j] \in {"waiting"} \cup Outcomes
      BY <1>1, <1>2 DEF IInv, FutureInv, TypeOK, SetOutcome, tickVars
    <2>8. phase' = "stopped" => registered' = {}
      BY DEF IInv, FutureInv, SetOutcome, tickVars
    <2> QED
      BY <2>1, <2>2, <2>3, <2>4, <2>5, <2>6, <2>7, <2>8 DEF FutureInv
  <1>10. NoLostJob' /\ ActiveCountExact'
    BY <1>1, <1>3 DEF IInv, NoLostJob, ActiveCountExact, SetOutcome, tickVars
  <1> QED
    BY <1>3, <1>4, <1>7, <1>8, <1>9, <1>10 DEF IInv, QueueInv

-----------------------------------------------------------------------------
(* The invariant holds before the first tick.                               *)
LEMMA InitInv ==
    ASSUME Init
    PROVE  IInv
  <1>1. QueueInv /\ Queued = {} /\ Known = {}
    BY QueueInitInv DEF Init, QueueInit, Known
  <1>2. TypeOK
    BY <1>1, DistributedAssumption DEF Init, TypeOK, QueueInv, Phases
  <1>3. TickInv /\ FreshInv
    BY <1>1 DEF Init, TickInv, FreshInv, Unsettled
  <1>4. FutureInv
    BY DistributedAssumption DEF Init, FutureInv, Resolving, Unsettled
  <1>5. NoLostJob /\ ActiveCountExact
    BY FS_EmptySet DEF Init, NoLostJob, ActiveCountExact
  <1> QED
    BY <1>1, <1>2, <1>3, <1>4, <1>5 DEF IInv, QueueInv

(* Every step of scheduler, server, workers and faults keeps the invariant. *)
LEMMA NextInv ==
    ASSUME IInv, [Next]_vars
    PROVE  IInv'
  <1>1. CASE SchedulerStep
    BY <1>1, StartTickInv, StartLevelInv, EndTickInv, RegisterInv,
       EnqueueSubmittedInv, WaitReturnsInv, CommitResultInv DEF SchedulerStep
  <1>2. ASSUME NEW r \in requests, Serve(r)
        PROVE  IInv'
    BY <1>2, HandleDoneInv, HandleFailedInv DEF Serve
  <1>3. ASSUME NEW h \in handlers, Proceed(h)
        PROVE  IInv'
    BY <1>3, ResolveFailedInv, SetOutcomeInv DEF Proceed
  <1>4. ASSUME NEW w \in Workers, WorkerStep(w)
        PROVE  IInv'
    BY <1>4, ClaimingInv, WorkerStepInv DEF WorkerStep
  <1>5. CASE Environment
    BY <1>5, InterruptInv, RestartSchedulerInv, SendHeartbeatInv, ClaimingInv,
       WorkerStepInv, LoseRequestInv, SilenceGrowsInv DEF Environment
  <1>6. CASE UNCHANGED vars
    <2>1. QueueInv' /\ Known' = Known /\ Queued' = Queued /\ inFlight' = inFlight
      BY <1>6, QueueInvOfIInv, QueueUnchanged DEF vars
    <2>2. TypeOK'
      BY <1>6, <2>1 DEF IInv, TypeOK, QueueInv, vars, executorVars, tickVars, workerVars
    <2> QED
      BY <1>6, <2>1, <2>2, QueueOrWorkerInv DEF vars
  <1> QED
    BY <1>1, <1>2, <1>3, <1>4, <1>5, <1>6 DEF Next

(* The inductive invariant holds in every reachable state: it holds at the  *)
(* start and every handler, worker step and fault keeps it.                *)
THEOREM Invariance == Spec => []IInv
  BY InitInv, NextInv, PTL DEF Spec

-----------------------------------------------------------------------------
(* The state of the scheduler, its server and its workers is well typed,    *)
(* and a job is in one place of the queue, whatever faults occur.          *)
THEOREM TypeCorrect == Spec => [](TypeOK /\ QueueExclusive)
  <1>1. IInv => TypeOK /\ QueueExclusive
    BY DEF IInv
  <1> QED
    BY <1>1, Invariance, PTL

(* A job whose future waits for a report is never lost between the          *)
(* executor's table and the queue (distributed.py:50, server.py:221).      *)
THEOREM JobsAreNotLost == Spec => []NoLostJob
  <1>1. IInv => NoLostJob
    BY DEF IInv
  <1> QED
    BY <1>1, Invariance, PTL

(* The tick never waits for a future that nothing can resolve any more      *)
(* (runtime.py:117, distributed.py:56-72).                                 *)
THEOREM FuturesAreNotLost == Spec => []NoLostFuture
  <1>1. IInv => NoLostFuture
    BY DEF IInv, TypeOK, FutureInv, NoLostFuture
  <1> QED
    BY <1>1, Invariance, PTL

(* A level starts only when every job of the levels before it is recorded   *)
(* (runtime.py:95-173).                                                    *)
THEOREM LevelsAreSequential == Spec => []LevelBarrier
  <1>1. ASSUME IInv, phase \in {"idle", "levels"}
        PROVE  /\ registered = {}
               /\ \A j \in Jobs :
                     ~Resolving(j) /\ (future[j] # "none" => runLog[j] # "none")
    <2>1. Unsettled = {} /\ waiting = {} /\ submitting = NoJob
      BY <1>1 DEF IInv, TickInv, Unsettled
    <2>2. \A j \in Jobs : future[j] # "waiting"
      BY <1>1, <2>1, DistributedAssumption DEF IInv, FutureInv
    <2>3. registered = {}
      BY <1>1, <2>2 DEF IInv, FutureInv, TypeOK
    <2> QED
      BY <1>1, <2>1, <2>2, <2>3 DEF IInv, FutureInv
  <1>2. IInv => LevelBarrier
    BY <1>1 DEF LevelBarrier
  <1> QED
    BY <1>2, Invariance, PTL

(* active_count counts the open futures exactly until shutdown              *)
(* (distributed.py:87).                                                    *)
THEOREM ActiveCountIsExact == Spec => []ActiveCountExact
  <1>1. IInv => ActiveCountExact
    BY DEF IInv
  <1> QED
    BY <1>1, Invariance, PTL

-----------------------------------------------------------------------------
(* A resolved future keeps its outcome: the pop under the executor's lock   *)
(* lets one report through (distributed.py:58-63).                         *)
THEOREM OutcomesAreFinal == Spec => OutcomeFinal
  <1>1. ASSUME IInv, [Next]_vars, NEW j \in Jobs, future[j] \in Outcomes
        PROVE  future'[j] \in {future[j], "none"}
    <2>1. j \notin registered /\ ~Resolving(j)
      BY <1>1 DEF IInv, FutureInv, Outcomes
    <2>2. CASE future' = future
      BY <2>2
    <2>3. ASSUME NEW i \in Jobs, Register(i)
          PROVE  future'[j] = future[j]
      <3>1. future[i] = "none"
        BY <2>3, <1>1 DEF IInv, FreshInv, Register
      <3> QED
        BY <2>3, <3>1, <1>1 DEF Register, Outcomes, IInv, TypeOK
    <2>4. ASSUME NEW h \in handlers, SetOutcome(h)
          PROVE  future'[j] = future[j]
      BY <2>4, <2>1, <1>1 DEF SetOutcome, Resolving, IInv, TypeOK
    <2>5. CASE Interrupt
      BY <2>5, <2>1 DEF Interrupt
    <2>6. CASE RestartScheduler
      BY <2>6 DEF RestartScheduler
    <2> QED
      BY <1>1, <2>2, <2>3, <2>4, <2>5, <2>6
         DEF Next, SchedulerStep, Serve, Proceed, WorkerStep, Environment, vars,
             executorVars, StartTick, StartLevel, EndTick, EnqueueSubmitted,
             WaitReturns, CommitResult, HandleDone, HandleFailed, ResolveFailed,
             Poll, FinishStep, SendHeartbeat, PollAnswerLost, ReportTimesOut,
             CrashWorker, LoseRequest, SilenceGrows
  <1>2. IInv /\ [Next]_vars =>
           [\A j \in Jobs : future[j] \in Outcomes =>
               future'[j] \in {future[j], "none"}]_vars
    BY <1>1
  <1> QED
    BY <1>2, Invariance, PTL DEF Spec, OutcomeFinal

(* No job somebody waits for is handed out a second time: when the sweep    *)
(* runs, at the start of a tick, nothing is awaited (runtime.py:83).       *)
THEOREM AwaitedJobsStayClaimed == Spec => AwaitedJobNotRequeued
  <1>1. ASSUME IInv, [Next]_vars, NEW j \in inFlight, future[j] = "waiting"
        PROVE  j \notin ToSet(pending')
    <2>1. j \in Jobs /\ j \notin Queued /\ QueueInv
      BY <1>1, QueueInvOfIInv DEF IInv, TypeOK, QueueTypeOK, QueueExclusive
    <2>2. CASE pending' = pending
      BY <2>1, <2>2 DEF Queued
    <2>3. CASE StartTick
      <3>1. FALSE
        BY <1>1, <2>1, <2>3, DistributedAssumption
           DEF IInv, TickInv, FutureInv, StartTick
      <3> QED
        BY <3>1
    <2>4. CASE EnqueueSubmitted
      <3>1. submitting \in Jobs /\ submitting \notin Known
        BY <1>1, <2>4 DEF IInv, TickInv, FreshInv, EnqueueSubmitted
      <3>2. Queued' = Queued \cup {submitting}
        BY <3>1, <2>1, <2>4, EnqueueInv DEF EnqueueSubmitted
      <3> QED
        BY <3>1, <3>2, <2>1 DEF Queued, Known
    <2>5. ASSUME NEW w \in Workers, NEW i \in Jobs, Claim(w, i)
          PROVE  j \notin ToSet(pending')
      BY <2>1, <2>5, ClaimInv DEF Queued
    <2>6. CASE RestartScheduler
      BY <2>6 DEF RestartScheduler, NewQueue, ToSet
    <2> QED
      BY <1>1, <2>2, <2>3, <2>4, <2>5, <2>6
         DEF Next, SchedulerStep, Serve, Proceed, WorkerStep, Environment, vars,
             queueVars, StartLevel, EndTick, Register, WaitReturns, CommitResult,
             HandleDone, HandleFailed, Fail, ResolveFailed, SetOutcome, Poll,
             FinishStep, SendHeartbeat, Heartbeat, PollAnswerLost, ReportTimesOut,
             CrashWorker, LoseRequest, SilenceGrows, WindowElapses, Interrupt
  <1>2. IInv /\ [Next]_vars =>
           [\A j \in inFlight :
               future[j] = "waiting" => j \notin ToSet(pending')]_vars
    BY <1>1
  <1> QED
    BY <1>2, Invariance, PTL DEF Spec, AwaitedJobNotRequeued

-----------------------------------------------------------------------------
(* The refinement of TickContract: StartLevel launches a level, CommitResult *)
(* records a job, a restart abandons the level, and all else is a stutter.  *)

(* A step that leaves the tick's phase, futures and records alone is no     *)
(* step of its contract.                                                    *)
LEMMA TickStutters ==
    ASSUME Unsettled' = Unsettled, used' = used, runLog' = runLog
    PROVE  UNCHANGED TickView!contractVars
  BY DEF TickView!contractVars, Unsettled

(* Every step of the tick is a step of its contract or none.                *)
LEMMA TickStepRefines ==
    ASSUME IInv, [Next]_vars
    PROVE  TickView!ContractNext \/ UNCHANGED TickView!contractVars
  <1>1. CASE StartLevel
    <2>1. Unsettled = {} /\ Unsettled' = ready'
      BY <1>1 DEF IInv, TickInv, StartLevel, Unsettled
    <2>2. TickView!LaunchLevel
      BY <1>1, <2>1 DEF TickView!LaunchLevel, StartLevel, Unsettled
    <2> QED
      BY <2>2 DEF TickView!ContractNext
  <1>2. ASSUME NEW j \in Jobs, CommitResult(j)
        PROVE  TickView!ContractNext
    <2>1. Unsettled' = Unsettled \ {j} /\ j \in Unsettled /\ runLog[j] = "none"
      BY <1>2 DEF IInv, TickInv, CommitResult, Unsettled
    <2>2. used' = used
          /\ \E status \in {"success", "failed"} :
                runLog' = [runLog EXCEPT ![j] = status]
      BY <1>2 DEF CommitResult
    <2>3. TickView!RecordJob(j)
      BY <2>1, <2>2 DEF TickView!RecordJob, Unsettled
    <2> QED
      BY <2>3 DEF TickView!ContractNext
  <1>3. CASE RestartScheduler
    <2>1. Unsettled' = {}
      BY <1>3 DEF RestartScheduler, Unsettled
    <2>2. TickView!AbandonLevel
      BY <1>3, <2>1 DEF TickView!AbandonLevel, RestartScheduler, Unsettled
    <2> QED
      BY <2>2 DEF TickView!ContractNext
  <1>4. ASSUME NEW j \in Jobs, Register(j)
        PROVE  UNCHANGED TickView!contractVars
    <2>1. Unsettled' = Unsettled
      BY <1>4, DistributedAssumption DEF IInv, TickInv, Register, Unsettled
    <2> QED
      BY <1>4, <2>1, TickStutters DEF Register
  <1>5. CASE EnqueueSubmitted
    <2>1. Unsettled' = Unsettled
      BY <1>5, DistributedAssumption DEF IInv, TickInv, EnqueueSubmitted, Unsettled
    <2> QED
      BY <1>5, <2>1, TickStutters DEF EnqueueSubmitted
  <1>6. CASE WaitReturns
    <2>1. Unsettled' = Unsettled
      BY <1>6 DEF IInv, TickInv, WaitReturns, Unsettled
    <2> QED
      BY <1>6, <2>1, TickStutters DEF WaitReturns
  <1>7. CASE UNCHANGED <<ready, submitting, waiting, done, used, runLog>>
    BY <1>7, TickStutters DEF Unsettled
  <1> QED
    BY <1>1, <1>2, <1>3, <1>4, <1>5, <1>6, <1>7
       DEF Next, SchedulerStep, Serve, Proceed, WorkerStep, Environment, vars,
           tickVars, StartTick, EndTick, HandleDone, HandleFailed, ResolveFailed,
           SetOutcome, Poll, FinishStep, SendHeartbeat, PollAnswerLost,
           ReportTimesOut, CrashWorker, LoseRequest, SilenceGrows, Interrupt

(* The distributed tick keeps the contract of Runtime.tick: levels one      *)
(* after the other, one record per job.                                    *)
THEOREM TickImplementsContract == Spec => ImplementsTickContract
  <1>1. Init => TickView!ContractInit
    BY DEF Init, TickView!ContractInit
  <1>2. IInv /\ [Next]_vars => [TickView!ContractNext]_TickView!contractVars
    BY TickStepRefines
  <1> QED
    BY <1>1, <1>2, Invariance, PTL
       DEF Spec, ImplementsTickContract, TickView!ContractSpec

(* A run record is written once per job (runtime.py:161).                   *)
THEOREM RecordsAreFinal == Spec => RecordFinal
  <1>1. ASSUME IInv, [Next]_vars, NEW j \in Jobs, runLog[j] # "none"
        PROVE  runLog'[j] = runLog[j]
    <2>1. CASE runLog' = runLog
      BY <2>1
    <2>2. ASSUME NEW i \in Jobs, CommitResult(i)
          PROVE  runLog'[j] = runLog[j]
      <3>1. runLog[i] = "none"
        BY <2>2, <1>1 DEF IInv, TickInv, CommitResult, Unsettled
      <3> QED
        BY <2>2, <3>1, <1>1 DEF CommitResult
    <2> QED
      BY <1>1, <2>1, <2>2
         DEF Next, SchedulerStep, Serve, Proceed, WorkerStep, Environment, vars,
             tickVars, StartTick, StartLevel, EndTick, Register, EnqueueSubmitted,
             WaitReturns, HandleDone, HandleFailed, ResolveFailed, SetOutcome,
             Poll, FinishStep, SendHeartbeat, PollAnswerLost, ReportTimesOut,
             CrashWorker, LoseRequest, SilenceGrows, Interrupt, RestartScheduler
  <1>2. IInv /\ [Next]_vars =>
           [\A j \in Jobs : runLog[j] # "none" => runLog'[j] = runLog[j]]_vars
    BY <1>1
  <1> QED
    BY <1>2, Invariance, PTL DEF Spec, RecordFinal
=============================================================================
