-------------------------- MODULE SqlQueue_proofs ---------------------------
(***************************************************************************)
(* Proofs about the table of jobs in SQL: SqlQueue, PostgresQueue and      *)
(* SchedulerFleet. The columns of the table agree, and it implements       *)
(* JobQueue, under any callers in any order of calls. In contrast to       *)
(* MemoryQueue nothing is assumed of the ids that are enqueued or          *)
(* reported: INSERT OR IGNORE and the UPDATEs take any.                    *)
(***************************************************************************)
EXTENDS PostgresQueue, SchedulerFleet, SequenceFacts

RowInv == SqlTypeOK /\ RowsConsistent

-----------------------------------------------------------------------------
(* The methods keep the columns consistent.                                *)

(* A new row is pending, without owner and heartbeat, and last in order.    *)
LEMMA EnqueueInv ==
    ASSUME RowInv, NEW j \in Jobs, Enqueue(j)
    PROVE  RowInv'
  <1>1. CASE status[j] = "absent"
    <2>1. /\ created \in Seq(Jobs)
          /\ IsInjective(created)
          /\ j \notin ToSet(created)
      BY <1>1 DEF RowInv, SqlTypeOK, RowsConsistent
    <2>2. /\ Append(created, j) \in Seq(Jobs)
          /\ ToSet(Append(created, j)) = ToSet(created) \cup {j}
          /\ IsInjective(Append(created, j))
      BY <2>1, AppendElement
    <2>3. /\ created' = Append(created, j)
          /\ status' = [status EXCEPT ![j] = "pending"]
          /\ UNCHANGED <<claimedBy, beat>>
      BY <1>1 DEF Enqueue
    <2>4. ToSet(created') = ToSet(created) \cup {j} /\ IsInjective(created')
      BY <2>2, <2>3
    <2> QED
      BY <1>1, <2>2, <2>3, <2>4 DEF RowInv, SqlTypeOK, RowsConsistent
  <1>2. CASE status[j] # "absent"
    BY <1>2 DEF RowInv, SqlTypeOK, RowsConsistent, Enqueue, sqlVars
  <1> QED
    BY <1>1, <1>2

(* The UPDATE of claim gives a pending row its owner and a heartbeat.       *)
LEMMA ClaimInv ==
    ASSUME RowInv, NEW w \in Workers, NEW j \in Jobs, Claim(w, j)
    PROVE  RowInv' /\ status[j] = "pending"
  <1>1. status[j] = "pending"
    BY DEF Claim, Oldest, Pending
  <1> QED
    BY <1>1, SqlAssumption
       DEF RowInv, SqlTypeOK, RowsConsistent, Claim, TakeRow

(* A heartbeat writes the heartbeat of a claimed row only.                  *)
LEMMA HeartbeatInv ==
    ASSUME RowInv, NEW w \in Workers, NEW j \in Jobs, Heartbeat(w, j)
    PROVE  RowInv'
  BY DEF RowInv, SqlTypeOK, RowsConsistent, Heartbeat

(* complete and fail take a row of any status out of the reach of claim and *)
(* of the sweep, and make no row of a job that has none.                    *)
LEMMA SetStatusInv ==
    ASSUME RowInv, NEW j \in Jobs, NEW s \in {"done", "failed"}, SetStatus(j, s)
    PROVE  RowInv'
  BY DEF RowInv, SqlTypeOK, RowsConsistent, SetStatus

(* The sweep resets status, owner and heartbeat of the same rows.           *)
LEMMA RequeueStaleInv ==
    ASSUME RowInv, RequeueStale
    PROVE  RowInv'
  BY DEF RowInv, SqlTypeOK, RowsConsistent, RequeueStale

(* Time only makes a heartbeat old.                                         *)
LEMMA WindowElapsesInv ==
    ASSUME RowInv, NEW j \in Jobs, WindowElapses(j)
    PROVE  RowInv'
  BY DEF RowInv, SqlTypeOK, RowsConsistent, WindowElapses

(* Every step of the table keeps its columns consistent.                    *)
LEMMA SqlNextInv ==
    ASSUME RowInv, [SqlNext]_sqlVars
    PROVE  RowInv'
  <1>1. ASSUME NEW j \in Jobs, Enqueue(j) \/ WindowElapses(j)
        PROVE  RowInv'
    BY <1>1, EnqueueInv, WindowElapsesInv
  <1>2. ASSUME NEW j \in Jobs, Complete(j) \/ Fail(j)
        PROVE  RowInv'
    BY <1>2, SetStatusInv DEF Complete, Fail
  <1>3. ASSUME NEW w \in Workers, NEW j \in Jobs, Claim(w, j) \/ Heartbeat(w, j)
        PROVE  RowInv'
    BY <1>3, ClaimInv, HeartbeatInv
  <1>4. CASE RequeueStale
    BY <1>4, RequeueStaleInv
  <1>5. CASE UNCHANGED sqlVars
    BY <1>5 DEF RowInv, SqlTypeOK, RowsConsistent, sqlVars
  <1> QED
    BY <1>1, <1>2, <1>3, <1>4, <1>5 DEF SqlNext

(* The columns of the table of jobs agree in every reachable state, whoever *)
(* enqueues, claims and reports what (queue/sqlite.py:82-159).              *)
THEOREM RowsStayConsistent == SqlSpec => [](SqlTypeOK /\ RowsConsistent)
  <1>1. SqlInit => RowInv
    <2> SUFFICES ASSUME SqlInit PROVE RowInv
      OBVIOUS
    <2>1. created \in Seq(Jobs) /\ ToSet(created) = {} /\ IsInjective(created)
      BY DEF SqlInit, ToSet, IsInjective
    <2> QED
      BY <2>1 DEF SqlInit, RowInv, SqlTypeOK, RowsConsistent
  <1>2. RowInv /\ [SqlNext]_sqlVars => RowInv'
    BY SqlNextInv
  <1> QED
    BY <1>1, <1>2, PTL DEF SqlSpec, RowInv

-----------------------------------------------------------------------------
(* The table implements JobQueue.                                          *)

StatusMap == [j \in Jobs |-> AbstractStatus(j)]

OwnerMap == [j \in Jobs |-> IF status[j] = "claimed" THEN claimedBy[j]
                            ELSE NoWorker]

(* enqueue is the contract's enqueue, or does nothing for a known id.       *)
LEMMA EnqueueRefines ==
    ASSUME RowInv, NEW j \in Jobs, Enqueue(j)
    PROVE  Contract!AddJob(j) \/ UNCHANGED Contract!jobQueueVars
  <1>1. CASE status[j] = "absent"
    <2>1. /\ status' = [status EXCEPT ![j] = "pending"]
          /\ claimedBy' = claimedBy
      BY <1>1 DEF Enqueue
    <2>2. /\ StatusMap[j] = "unknown"
          /\ StatusMap' = [StatusMap EXCEPT ![j] = "pending"]
      BY <1>1, <2>1 DEF StatusMap, AbstractStatus, RowInv, SqlTypeOK
    <2>3. OwnerMap' = OwnerMap
      BY <1>1, <2>1 DEF OwnerMap, RowInv, SqlTypeOK
    <2> QED
      BY <2>2, <2>3 DEF Contract!AddJob, StatusMap, OwnerMap
  <1>2. CASE status[j] # "absent"
    BY <1>2 DEF Enqueue, sqlVars, Contract!jobQueueVars, AbstractStatus
  <1> QED
    BY <1>1, <1>2

(* claim hands out a pending job.                                           *)
LEMMA ClaimRefines ==
    ASSUME RowInv, NEW w \in Workers, NEW j \in Jobs, Claim(w, j)
    PROVE  Contract!HandOut(w, j)
  <1>1. /\ status[j] = "pending"
        /\ status' = [status EXCEPT ![j] = "claimed"]
        /\ claimedBy' = [claimedBy EXCEPT ![j] = w]
    BY ClaimInv DEF Claim, TakeRow
  <1>2. /\ StatusMap[j] = "pending"
        /\ StatusMap' = [StatusMap EXCEPT ![j] = "claimed"]
    BY <1>1 DEF StatusMap, AbstractStatus, RowInv, SqlTypeOK
  <1>3. OwnerMap' = [OwnerMap EXCEPT ![j] = w]
    BY <1>1 DEF OwnerMap, RowInv, SqlTypeOK
  <1> QED
    BY <1>2, <1>3 DEF Contract!HandOut, StatusMap, OwnerMap

(* complete and fail settle a job, claimed or not, whoever reports it; of a *)
(* settled or an unknown one they change nothing the contract sees.         *)
LEMMA SettleRefines ==
    ASSUME RowInv, NEW j \in Jobs, NEW s \in {"done", "failed"}, SetStatus(j, s)
    PROVE  Contract!Settle(j) \/ UNCHANGED Contract!jobQueueVars
  <1>1. CASE status[j] = "absent"
    BY <1>1 DEF SetStatus, Contract!jobQueueVars, AbstractStatus
  <1>2. CASE status[j] # "absent"
    <2>1. status' = [status EXCEPT ![j] = s] /\ claimedBy' = claimedBy
      BY <1>2 DEF SetStatus
    <2>2. StatusMap' = [StatusMap EXCEPT ![j] = "settled"]
      BY <2>1 DEF StatusMap, AbstractStatus, RowInv, SqlTypeOK
    <2>3. OwnerMap' = [OwnerMap EXCEPT ![j] = NoWorker]
      BY <2>1 DEF OwnerMap, RowInv, SqlTypeOK
    <2>4. CASE status[j] \in {"pending", "claimed"}
      <3>1. StatusMap[j] \in {"pending", "claimed"}
        BY <2>4 DEF StatusMap, AbstractStatus
      <3> QED
        BY <3>1, <2>2, <2>3 DEF Contract!Settle, StatusMap, OwnerMap
    <2>5. CASE status[j] \in {"done", "failed"}
      <3>1. StatusMap' = StatusMap
        BY <2>5, <2>2 DEF StatusMap, AbstractStatus
      <3>2. OwnerMap' = OwnerMap
        BY <2>5, <2>3 DEF OwnerMap
      <3> QED
        BY <3>1, <3>2 DEF Contract!jobQueueVars, StatusMap, OwnerMap
    <2> QED
      BY <1>2, <2>4, <2>5 DEF RowInv, SqlTypeOK
  <1> QED
    BY <1>1, <1>2

(* The sweep takes back the claimed jobs whose heartbeat is old.            *)
LEMMA RequeueRefines ==
    ASSUME RowInv, RequeueStale
    PROVE  \E S \in SUBSET Jobs : Contract!TakeBack(S)
  <1>1. PICK S \in SUBSET Jobs :
           S = {j \in Jobs : status[j] = "claimed" /\ beat[j] = "stale"}
    OBVIOUS
  <1>2. /\ status' = [j \in Jobs |-> IF j \in S THEN "pending" ELSE status[j]]
        /\ claimedBy' =
              [j \in Jobs |-> IF j \in S THEN NoWorker ELSE claimedBy[j]]
    BY <1>1 DEF RequeueStale
  <1>3. StatusMap' = [j \in Jobs |-> IF j \in S THEN "pending" ELSE StatusMap[j]]
    BY <1>2 DEF StatusMap, AbstractStatus
  <1>4. OwnerMap' = [j \in Jobs |-> IF j \in S THEN NoWorker ELSE OwnerMap[j]]
    BY <1>2 DEF OwnerMap
  <1>5. \A j \in S : StatusMap[j] = "claimed"
    BY <1>1 DEF StatusMap, AbstractStatus
  <1>6. Contract!TakeBack(S)
    BY <1>3, <1>4, <1>5 DEF Contract!TakeBack, StatusMap, OwnerMap
  <1> QED
    BY <1>6

(* A step that leaves status and owner of every row alone is a stutter.     *)
LEMMA RowStutters ==
    ASSUME status' = status, claimedBy' = claimedBy
    PROVE  UNCHANGED Contract!jobQueueVars
  BY DEF Contract!jobQueueVars, AbstractStatus

(* The durable queue keeps the contract of QueueBackend, although complete  *)
(* and fail test neither the status nor the owner of the row they update    *)
(* (queue/sqlite.py:129-148).                                               *)
THEOREM TableImplementsContract == SqlSpec => ImplementsJobQueue
  <1>1. SqlInit => Contract!JobQueueInit
    BY DEF SqlInit, Contract!JobQueueInit, AbstractStatus
  <1>2. RowInv /\ [SqlNext]_sqlVars
            => [Contract!JobQueueNext]_Contract!jobQueueVars
    <2> SUFFICES ASSUME RowInv, [SqlNext]_sqlVars
                 PROVE  Contract!JobQueueNext \/ UNCHANGED Contract!jobQueueVars
      OBVIOUS
    <2>1. ASSUME NEW j \in Jobs, Enqueue(j)
          PROVE  Contract!JobQueueNext \/ UNCHANGED Contract!jobQueueVars
      BY <2>1, EnqueueRefines DEF Contract!JobQueueNext
    <2>2. ASSUME NEW j \in Jobs, Complete(j) \/ Fail(j)
          PROVE  Contract!JobQueueNext \/ UNCHANGED Contract!jobQueueVars
      <3>1. PICK s \in {"done", "failed"} : SetStatus(j, s)
        BY <2>2 DEF Complete, Fail
      <3> QED
        BY <3>1, SettleRefines DEF Contract!JobQueueNext
    <2>3. ASSUME NEW j \in Jobs, WindowElapses(j)
          PROVE  UNCHANGED Contract!jobQueueVars
      BY <2>3, RowStutters DEF WindowElapses
    <2>4. ASSUME NEW w \in Workers, NEW j \in Jobs, Claim(w, j)
          PROVE  Contract!JobQueueNext
      BY <2>4, ClaimRefines DEF Contract!JobQueueNext
    <2>5. ASSUME NEW w \in Workers, NEW j \in Jobs, Heartbeat(w, j)
          PROVE  UNCHANGED Contract!jobQueueVars
      BY <2>5, RowStutters DEF Heartbeat
    <2>6. CASE RequeueStale
      BY <2>6, RequeueRefines DEF Contract!JobQueueNext
    <2>7. CASE UNCHANGED sqlVars
      BY <2>7, RowStutters DEF sqlVars
    <2> QED
      BY <2>1, <2>2, <2>3, <2>4, <2>5, <2>6, <2>7 DEF SqlNext
  <1>3. SqlSpec => []RowInv
    BY RowsStayConsistent, PTL DEF RowInv
  <1> QED
    BY <1>1, <1>2, <1>3, PTL DEF SqlSpec, ImplementsJobQueue, Contract!JobQueueSpec

-----------------------------------------------------------------------------
(***************************************************************************)
(* PostgresQueue. What a claim has selected is still pending when its      *)
(* UPDATE comes, and so the table in PostgreSQL implements JobQueue like   *)
(* the one in SQLite, although a claim is two statements and the rows are  *)
(* inserted in any order of created_at. The lemmas about the single        *)
(* statements are those above.                                             *)
(***************************************************************************)

PgInv == RowInv /\ PgTypeOK /\ SelectedRowIsStillPending

-----------------------------------------------------------------------------
(* The statements under row locks.                                         *)

(* An INSERT makes a pending row at its place in the order of created_at.   *)
LEMMA PgEnqueueInv ==
    ASSUME PgInv, NEW j \in Jobs, PgEnqueue(j)
    PROVE  /\ PgInv'
           /\ Contract!AddJob(j) \/ UNCHANGED Contract!jobQueueVars
  <1>1. CASE status[j] = "absent"
    <2>1. PICK i \in 1..(Len(created) + 1) : created' = InsertAt(created, i, j)
      BY <1>1 DEF PgEnqueue
    <2>2. /\ status' = [status EXCEPT ![j] = "pending"]
          /\ UNCHANGED <<claimedBy, beat, rowLock>>
      BY <1>1 DEF PgEnqueue
    <2>3. created \in Seq(Jobs) /\ IsInjective(created) /\ j \notin ToSet(created)
      BY <1>1 DEF PgInv, RowInv, SqlTypeOK, RowsConsistent
    <2>4. /\ created' \in Seq(Jobs)
          /\ ToSet(created') = ToSet(created) \cup {j}
          /\ IsInjective(created')
      BY <2>1, <2>3, InsertElement
    <2>5. RowInv'
      BY <1>1, <2>2, <2>4 DEF PgInv, RowInv, SqlTypeOK, RowsConsistent
    <2>6. PgTypeOK' /\ SelectedRowIsStillPending'
      BY <2>2, <2>5
         DEF PgInv, PgTypeOK, RowInv, SqlTypeOK,
             SelectedRowIsStillPending, Unlocked, Pending
    <2>7. /\ StatusMap[j] = "unknown"
          /\ StatusMap' = [StatusMap EXCEPT ![j] = "pending"]
      BY <1>1, <2>2 DEF StatusMap, AbstractStatus, PgInv, RowInv, SqlTypeOK
    <2>8. OwnerMap' = OwnerMap
      BY <1>1, <2>2 DEF OwnerMap, PgInv, RowInv, SqlTypeOK
    <2>9. Contract!AddJob(j)
      BY <2>7, <2>8 DEF Contract!AddJob, StatusMap, OwnerMap
    <2> QED
      BY <2>5, <2>6, <2>9 DEF PgInv
  <1>2. CASE status[j] # "absent"
    <2>1. UNCHANGED <<created, status, claimedBy, beat, rowLock>>
      BY <1>2 DEF PgEnqueue, sqlVars
    <2>2. PgInv'
      BY <2>1 DEF PgInv, RowInv, SqlTypeOK, RowsConsistent, PgTypeOK,
                  SelectedRowIsStillPending, Unlocked, Pending
    <2> QED
      BY <2>1, <2>2, RowStutters
  <1> QED
    BY <1>1, <1>2

(* A step that changes no row, and locks none but a pending one.            *)
LEMMA LocksOnlyPending ==
    ASSUME PgInv, UNCHANGED sqlVars, rowLock' \in [Jobs -> Workers \cup {NoWorker}],
           \A i \in Jobs : rowLock'[i] \in {rowLock[i], NoWorker} \/ Pending(i)
    PROVE  PgInv' /\ UNCHANGED Contract!jobQueueVars
  <1>1. UNCHANGED <<created, status, claimedBy, beat>>
    BY DEF sqlVars
  <1>2. RowInv' /\ PgTypeOK'
    BY <1>1 DEF PgInv, RowInv, SqlTypeOK, RowsConsistent, PgTypeOK
  <1>3. SelectedRowIsStillPending'
    BY <1>1 DEF PgInv, SelectedRowIsStillPending, Unlocked, Pending
  <1> QED
    BY <1>1, <1>2, <1>3, RowStutters DEF PgInv

(* SELECT ... FOR UPDATE SKIP LOCKED locks a row that is pending.           *)
LEMMA ClaimSelectInv ==
    ASSUME PgInv, NEW w \in Workers, NEW j \in Jobs, ClaimSelect(w, j)
    PROVE  PgInv' /\ UNCHANGED Contract!jobQueueVars
  <1>1. Pending(j) /\ rowLock' = [rowLock EXCEPT ![j] = w] /\ UNCHANGED sqlVars
    BY DEF ClaimSelect, Oldest
  <1> QED
    BY <1>1, LocksOnlyPending DEF PgInv, PgTypeOK

(* A transaction that ends without its UPDATE gives the lock back.          *)
LEMMA ClaimAbortedInv ==
    ASSUME PgInv, NEW w \in Workers, NEW j \in Jobs, ClaimAborted(w, j)
    PROVE  PgInv' /\ UNCHANGED Contract!jobQueueVars
  <1>1. rowLock' = [rowLock EXCEPT ![j] = NoWorker] /\ UNCHANGED sqlVars
    BY DEF ClaimAborted
  <1> QED
    BY <1>1, LocksOnlyPending DEF PgInv, PgTypeOK

(* The UPDATE of a claim finds its row pending, untested though it is, and  *)
(* hands out a pending job.                                                 *)
LEMMA ClaimUpdateInv ==
    ASSUME PgInv, NEW w \in Workers, NEW j \in Jobs, ClaimUpdate(w, j)
    PROVE  PgInv' /\ Contract!HandOut(w, j)
  <1>1. /\ rowLock[j] = w
        /\ status' = [status EXCEPT ![j] = "claimed"]
        /\ claimedBy' = [claimedBy EXCEPT ![j] = w]
        /\ beat' = [beat EXCEPT ![j] = "fresh"]
        /\ created' = created
        /\ rowLock' = [rowLock EXCEPT ![j] = NoWorker]
    BY DEF ClaimUpdate, TakeRow
  <1>2. status[j] = "pending"
    BY <1>1, SqlAssumption
       DEF PgInv, SelectedRowIsStillPending, Unlocked, Pending
  <1>3. RowInv'
    BY <1>1, <1>2, SqlAssumption DEF PgInv, RowInv, SqlTypeOK, RowsConsistent
  <1>4. PgTypeOK'
    BY <1>1, <1>3 DEF PgInv, PgTypeOK, RowInv
  <1>5. SelectedRowIsStillPending'
    BY <1>1 DEF PgInv, PgTypeOK, RowInv, SqlTypeOK,
                SelectedRowIsStillPending, Unlocked, Pending
  <1>6. /\ StatusMap[j] = "pending"
        /\ StatusMap' = [StatusMap EXCEPT ![j] = "claimed"]
    BY <1>1, <1>2 DEF StatusMap, AbstractStatus, PgInv, RowInv, SqlTypeOK
  <1>7. OwnerMap' = [OwnerMap EXCEPT ![j] = w]
    BY <1>1, <1>2 DEF OwnerMap, PgInv, RowInv, SqlTypeOK
  <1> QED
    BY <1>3, <1>4, <1>5, <1>6, <1>7
       DEF PgInv, Contract!HandOut, StatusMap, OwnerMap

(* complete and fail wait for the lock of the row they update.              *)
LEMMA PgReportInv ==
    ASSUME PgInv, NEW j \in Jobs, PgComplete(j) \/ PgFail(j)
    PROVE  /\ PgInv'
           /\ Contract!Settle(j) \/ UNCHANGED Contract!jobQueueVars
  <1>1. PICK s \in {"done", "failed"} : SetStatus(j, s)
    BY DEF PgComplete, PgFail, Complete, Fail
  <1>2. Unlocked(j) /\ UNCHANGED rowLock
    BY DEF PgComplete, PgFail
  <1>3. RowInv' /\ (Contract!Settle(j) \/ UNCHANGED Contract!jobQueueVars)
    BY <1>1, SetStatusInv, SettleRefines DEF PgInv
  <1>4. \A i \in Jobs : i # j => status'[i] = status[i]
    BY <1>1 DEF SetStatus
  <1>5. PgTypeOK' /\ SelectedRowIsStillPending'
    BY <1>2, <1>3, <1>4 DEF PgInv, PgTypeOK, RowInv,
                            SelectedRowIsStillPending, Unlocked, Pending
  <1> QED
    BY <1>3, <1>5 DEF PgInv

(* A heartbeat and the clock change no status and no owner.                 *)
LEMMA PgBeatInv ==
    ASSUME PgInv, NEW j \in Jobs, UNCHANGED rowLock,
           WindowElapses(j) \/ \E w \in Workers : Heartbeat(w, j)
    PROVE  PgInv' /\ UNCHANGED Contract!jobQueueVars
  <1>1. status' = status /\ claimedBy' = claimedBy
    BY DEF WindowElapses, Heartbeat
  <1>2. RowInv'
    BY HeartbeatInv, WindowElapsesInv DEF PgInv
  <1>3. PgTypeOK' /\ SelectedRowIsStillPending'
    BY <1>1, <1>2 DEF PgInv, PgTypeOK, RowInv,
                      SelectedRowIsStillPending, Unlocked, Pending
  <1> QED
    BY <1>1, <1>2, <1>3, RowStutters DEF PgInv

(* The sweep updates claimed rows, and no claim has selected one of those.  *)
LEMMA PgRequeueInv ==
    ASSUME PgInv, PgRequeueStale
    PROVE  PgInv' /\ \E S \in SUBSET Jobs : Contract!TakeBack(S)
  <1>1. RequeueStale /\ UNCHANGED rowLock
    BY DEF PgRequeueStale
  <1>2. RowInv' /\ \E S \in SUBSET Jobs : Contract!TakeBack(S)
    BY <1>1, RequeueStaleInv, RequeueRefines DEF PgInv
  <1>3. \A j \in Jobs : Pending(j) => Pending(j)'
    BY <1>1 DEF RequeueStale, Pending
  <1>4. PgTypeOK' /\ SelectedRowIsStillPending'
    BY <1>1, <1>2, <1>3 DEF PgInv, PgTypeOK, RowInv,
                            SelectedRowIsStillPending, Unlocked
  <1> QED
    BY <1>2, <1>4 DEF PgInv

(* Every step keeps the invariant and is a step of the contract or none.    *)
LEMMA PgStep ==
    ASSUME PgInv, [PgNext]_pgVars
    PROVE  PgInv' /\ [Contract!JobQueueNext]_Contract!jobQueueVars
  <1>1. ASSUME NEW j \in Jobs, PgEnqueue(j)
        PROVE  PgInv' /\ [Contract!JobQueueNext]_Contract!jobQueueVars
    BY <1>1, PgEnqueueInv DEF Contract!JobQueueNext
  <1>2. ASSUME NEW j \in Jobs, PgComplete(j) \/ PgFail(j)
        PROVE  PgInv' /\ [Contract!JobQueueNext]_Contract!jobQueueVars
    BY <1>2, PgReportInv DEF Contract!JobQueueNext
  <1>3. ASSUME NEW j \in Jobs, WindowElapses(j), UNCHANGED rowLock
        PROVE  PgInv' /\ [Contract!JobQueueNext]_Contract!jobQueueVars
    BY <1>3, PgBeatInv
  <1>4. ASSUME NEW w \in Workers, NEW j \in Jobs,
               ClaimSelect(w, j) \/ ClaimAborted(w, j)
        PROVE  PgInv' /\ [Contract!JobQueueNext]_Contract!jobQueueVars
    BY <1>4, ClaimSelectInv, ClaimAbortedInv
  <1>5. ASSUME NEW w \in Workers, NEW j \in Jobs, ClaimUpdate(w, j)
        PROVE  PgInv' /\ [Contract!JobQueueNext]_Contract!jobQueueVars
    BY <1>5, ClaimUpdateInv DEF Contract!JobQueueNext
  <1>6. ASSUME NEW w \in Workers, NEW j \in Jobs, PgHeartbeat(w, j)
        PROVE  PgInv' /\ [Contract!JobQueueNext]_Contract!jobQueueVars
    BY <1>6, PgBeatInv DEF PgHeartbeat
  <1>7. CASE PgRequeueStale
    BY <1>7, PgRequeueInv DEF Contract!JobQueueNext
  <1>8. CASE UNCHANGED pgVars
    BY <1>8, LocksOnlyPending DEF pgVars, PgInv, PgTypeOK
  <1> QED
    BY <1>1, <1>2, <1>3, <1>4, <1>5, <1>6, <1>7, <1>8 DEF PgNext

-----------------------------------------------------------------------------
(* The theorems.                                                           *)

(* The table starts empty, unlocked and as the contract starts.             *)
LEMMA PgStart ==
    ASSUME PgInit
    PROVE  PgInv /\ Contract!JobQueueInit
  <1>1. created \in Seq(Jobs) /\ ToSet(created) = {} /\ IsInjective(created)
    BY DEF PgInit, SqlInit, ToSet, IsInjective
  <1>2. PgInv
    BY <1>1 DEF PgInit, SqlInit, PgInv, RowInv, SqlTypeOK, RowsConsistent,
                PgTypeOK, SelectedRowIsStillPending, Unlocked
  <1> QED
    BY <1>2 DEF PgInit, SqlInit, Contract!JobQueueInit, AbstractStatus

(* Between the SELECT and the UPDATE of a claim nobody else takes, settles  *)
(* or sweeps the row that the SELECT locked (queue/postgres.py:94-109).     *)
THEOREM SelectedRowStaysPending == PgSpec => []SelectedRowIsStillPending
  <1>1. PgInit => PgInv
    BY PgStart
  <1>2. PgInv /\ [PgNext]_pgVars => PgInv'
    BY PgStep
  <1>3. PgInv => SelectedRowIsStillPending
    BY DEF PgInv
  <1> QED
    BY <1>1, <1>2, <1>3, PTL DEF PgSpec

(* The columns agree and each job has one place in the order of claims,     *)
(* with any number of schedulers on the table (queue/postgres.py:84-153).   *)
THEOREM PgRowsStayConsistent == PgSpec => []RowsConsistent
  <1>1. PgInit => PgInv
    BY PgStart
  <1>2. PgInv /\ [PgNext]_pgVars => PgInv'
    BY PgStep
  <1>3. PgInv => RowsConsistent
    BY DEF PgInv, RowInv
  <1> QED
    BY <1>1, <1>2, <1>3, PTL DEF PgSpec

(* The queue in PostgreSQL keeps the contract of QueueBackend: a claim of   *)
(* two statements hands out a job like the one step of the contract         *)
(* (queue/postgres.py:94-109).                                              *)
THEOREM PgTableImplementsContract == PgSpec => ImplementsJobQueue
  <1>1. PgInit => PgInv /\ Contract!JobQueueInit
    BY PgStart
  <1>2. PgInv /\ [PgNext]_pgVars
            => PgInv' /\ [Contract!JobQueueNext]_Contract!jobQueueVars
    BY PgStep
  <1> QED
    BY <1>1, <1>2, PTL DEF PgSpec, ImplementsJobQueue, Contract!JobQueueSpec

-----------------------------------------------------------------------------
(***************************************************************************)
(* SchedulerFleet. The table of jobs is durable and shared, hands jobs out *)
(* again and forgets no id; the tables of futures are the schedulers' own  *)
(* and die with them. The invariant says what the ones know of the other:  *)
(* a job has a future in one scheduler at most, that future is of a job    *)
(* with a row, and no job with a future has a record.                      *)
(***************************************************************************)

\* What holds of the futures, with any number of schedulers.
FutureInv ==
    /\ \A s \in Schedulers : \A j \in table[s] :
          status[j] # "absent" /\ record[j] = "none"
    /\ \A s, t \in Schedulers : s = t \/ table[s] \cap table[t] = {}
    /\ \A j \in Jobs : status[j] = "absent" => record[j] = "none"
    /\ \A w \in Workers : worker[w] = "running" => current[w] \in Jobs

FleetInv == RowInv /\ TypeOK /\ FutureInv

\* SQLiteQueue, or PostgresQueue with the one instance of "conduit serve".
OneScheduler == \A s, t \in Schedulers : s = t

\* A row keeps its id: only an enqueue makes one, and nothing deletes one.
RowsRemain == \A j \in Jobs : status[j] # "absent" => status'[j] # "absent"

\* No record is overwritten.
RecordsKept == \A j \in Jobs : record[j] # "none" => record'[j] = record[j]

-----------------------------------------------------------------------------
(* The steps of a scheduler.                                               *)

(* A step that touches no future and no record, and takes no row away.      *)
LEMMA FuturesUntouched ==
    ASSUME TypeOK, FutureInv, RowsRemain, UNCHANGED <<table, record>>,
           \A w \in Workers : worker'[w] = "running" => current'[w] \in Jobs
    PROVE  FutureInv' /\ RecordsKept
  <1>1. \A s \in Schedulers : \A j \in table[s] :
           j \in Jobs /\ status'[j] # "absent" /\ record[j] = "none"
    BY DEF TypeOK, FutureInv, RowsRemain
  <1>2. \A j \in Jobs : status'[j] = "absent" => record[j] = "none"
    BY DEF FutureInv, RowsRemain
  <1>3. RecordsKept
    BY DEF RecordsKept
  <1> QED
    BY <1>1, <1>2, <1>3 DEF FutureInv

(* requeue_stale gives rows back, and the tick begins.                      *)
LEMMA StartTickInv ==
    ASSUME FleetInv, NEW s \in Schedulers, StartTick(s)
    PROVE  FleetInv' /\ RecordsKept
  <1>1. RequeueStale /\ UNCHANGED <<table, record, worker, current>>
    BY DEF StartTick
  <1>2. RowInv' /\ RowsRemain
    BY <1>1, RequeueStaleInv DEF FleetInv, RequeueStale, RowsRemain
  <1>3. TypeOK'
    BY <1>2 DEF FleetInv, StartTick, TypeOK, RowInv
  <1>4. FutureInv' /\ RecordsKept
    BY <1>1, <1>2, FuturesUntouched DEF FleetInv, FutureInv
  <1> QED
    BY <1>2, <1>3, <1>4 DEF FleetInv

(* The future of a job that no row knows is the job's only one.             *)
LEMMA SubmitInv ==
    ASSUME FleetInv, NEW s \in Schedulers, NEW j \in Jobs, Submit(s, j)
    PROVE  FleetInv' /\ RecordsKept
  <1>1. /\ status[j] = "absent"
        /\ status' = [status EXCEPT ![j] = "pending"]
        /\ table' = [table EXCEPT ![s] = @ \cup {j}]
        /\ UNCHANGED <<record, worker, current>>
    BY DEF Submit, Enqueue
  <1>2. RowInv'
    BY EnqueueInv DEF FleetInv, Submit
  <1>3. TypeOK'
    BY <1>2 DEF FleetInv, Submit, TypeOK, RowInv
  <1>4. /\ record[j] = "none"
        /\ \A t \in Schedulers : j \notin table[t]
    BY <1>1 DEF FleetInv, FutureInv
  <1>5. \A i \in Jobs : i # j => status'[i] = status[i]
    BY <1>1 DEF FleetInv, TypeOK, SqlTypeOK
  <1>6. status'[j] = "pending"
    BY <1>1 DEF FleetInv, TypeOK, SqlTypeOK
  <1>7. \A t \in Schedulers :
           table'[t] = IF t = s THEN table[t] \cup {j} ELSE table[t]
    BY <1>1 DEF FleetInv, TypeOK
  <1>8. \A t \in Schedulers : \A i \in table'[t] :
           status'[i] # "absent" /\ record'[i] = "none"
    BY <1>1, <1>4, <1>5, <1>6, <1>7 DEF FleetInv, FutureInv, TypeOK
  <1>9. \A t, u \in Schedulers : t = u \/ table'[t] \cap table'[u] = {}
    <2>1. \A t, u \in Schedulers : t = u \/ table[t] \cap table[u] = {}
      BY DEF FleetInv, FutureInv
    <2> QED
      <3> SUFFICES ASSUME NEW t \in Schedulers, NEW u \in Schedulers, t # u
                   PROVE  table'[t] \cap table'[u] = {}
        OBVIOUS
      <3>1. table[t] \cap table[u] = {} /\ j \notin table[t] /\ j \notin table[u]
        BY <1>4, <2>1
      <3>2. /\ table'[t] = table[t] \/ (t = s /\ table'[t] = table[t] \cup {j})
            /\ table'[u] = table[u] \/ (u = s /\ table'[u] = table[u] \cup {j})
        BY <1>7
      <3> QED
        BY <3>1, <3>2
  <1>10. \A i \in Jobs : status'[i] = "absent" => record'[i] = "none"
    BY <1>1, <1>5, <1>6 DEF FleetInv, FutureInv
  <1>11. \A w \in Workers : worker'[w] = "running" => current'[w] \in Jobs
    BY <1>1 DEF FleetInv, FutureInv
  <1>12. FutureInv'
    BY <1>8, <1>9, <1>10, <1>11 DEF FutureInv
  <1> QED
    BY <1>1, <1>2, <1>3, <1>12 DEF FleetInv, RecordsKept

(* A restarted scheduler has no futures.                                    *)
LEMMA RestartInv ==
    ASSUME FleetInv, NEW s \in Schedulers, Restart(s)
    PROVE  FleetInv' /\ RecordsKept
  <1>1. /\ table' = [table EXCEPT ![s] = {}]
        /\ UNCHANGED <<created, status, claimedBy, beat, record, worker, current>>
    BY DEF Restart, sqlVars
  <1>2. RowInv'
    BY <1>1 DEF FleetInv, RowInv, SqlTypeOK, RowsConsistent
  <1>3. TypeOK'
    BY <1>2, FleetAssumption DEF FleetInv, Restart, TypeOK, RowInv
  <1>4. \A t \in Schedulers : table'[t] \subseteq table[t]
    BY <1>1 DEF FleetInv, TypeOK
  <1>5. \A t \in Schedulers : \A i \in table'[t] :
           status'[i] # "absent" /\ record'[i] = "none"
    BY <1>1, <1>4 DEF FleetInv, FutureInv
  <1>6. \A t, u \in Schedulers : t = u \/ table'[t] \cap table'[u] = {}
    BY <1>4 DEF FleetInv, FutureInv
  <1>7. FutureInv'
    BY <1>1, <1>5, <1>6 DEF FleetInv, FutureInv
  <1> QED
    BY <1>1, <1>2, <1>3, <1>7 DEF FleetInv, RecordsKept

-----------------------------------------------------------------------------
(* The steps of a worker, and the handlers it calls.                       *)

(* A job that is handed out has a row.                                      *)
LEMMA PollInv ==
    ASSUME FleetInv, NEW w \in Workers, Poll(w)
    PROVE  FleetInv' /\ RecordsKept
  <1>1. PICK j \in Jobs : Claim(w, j) /\ current' = [current EXCEPT ![w] = j]
    BY DEF Poll
  <1>2. /\ worker' = [worker EXCEPT ![w] = "running"]
        /\ UNCHANGED <<phase, table, awaiting, record, unheard, faults>>
    BY DEF Poll
  <1>3. RowInv' /\ RowsRemain
    <2>1. status' = [status EXCEPT ![j] = "claimed"]
      BY <1>1 DEF Claim, TakeRow
    <2> QED
      BY <1>1, <2>1, ClaimInv DEF FleetInv, RowsRemain, TypeOK, SqlTypeOK
  <1>4. TypeOK'
    BY <1>1, <1>2, <1>3 DEF FleetInv, TypeOK, RowInv
  <1>5. \A v \in Workers : worker'[v] = "running" => current'[v] \in Jobs
    BY <1>1, <1>2 DEF FleetInv, FutureInv, TypeOK
  <1>6. FutureInv' /\ RecordsKept
    BY <1>2, <1>3, <1>5, FuturesUntouched DEF FleetInv
  <1> QED
    BY <1>3, <1>4, <1>6 DEF FleetInv

(* resolve_done and resolve_failed record a job whose future they take      *)
(* away, and touch no other.                                                *)
LEMMA ResolveInv ==
    ASSUME TypeOK, FutureInv, RowsRemain, NEW s \in Schedulers, NEW j \in Jobs,
           NEW outcome \in Outcomes, Resolve(s, j, outcome),
           \A w \in Workers : worker'[w] = "running" => current'[w] \in Jobs
    PROVE  /\ FutureInv' /\ RecordsKept
           /\ table' \in [Schedulers -> SUBSET Jobs]
           /\ record' \in [Jobs -> {"none"} \cup Outcomes]
           /\ \A t \in Schedulers : table'[t] \subseteq table[t]
           /\ j \notin table'[s]
  <1>1. /\ table' = [table EXCEPT ![s] = @ \ {j}]
        /\ record' = IF j \in table[s] THEN [record EXCEPT ![j] = outcome]
                     ELSE record
    BY DEF Resolve
  <1>2. /\ table' \in [Schedulers -> SUBSET Jobs]
        /\ record' \in [Jobs -> {"none"} \cup Outcomes]
        /\ \A t \in Schedulers : table'[t] \subseteq table[t]
        /\ j \notin table'[s]
    BY <1>1 DEF TypeOK
  <1>3. \A t \in Schedulers :
           table'[t] = IF t = s THEN table[t] \ {j} ELSE table[t]
    BY <1>1 DEF TypeOK
  <1>4. \A i \in Jobs : record'[i] = record[i] \/ (i = j /\ j \in table[s])
    BY <1>1 DEF TypeOK
  <1>5. RecordsKept
    BY <1>4 DEF FutureInv, RecordsKept
  <1>6. \A t \in Schedulers : \A i \in table'[t] :
           /\ i \in Jobs
           /\ i \in table[t]
           /\ i = j => j \notin table[s]
    <2>1. table \in [Schedulers -> SUBSET Jobs]
      BY DEF TypeOK
    <2>2. \A t \in Schedulers : t # s => table[t] \cap table[s] = {}
      BY DEF FutureInv
    <2> QED
      BY <1>3, <2>1, <2>2
  <1>7. \A t \in Schedulers : \A i \in table'[t] :
           status'[i] # "absent" /\ record'[i] = "none"
    BY <1>4, <1>6 DEF FutureInv, RowsRemain
  <1>8. \A t, u \in Schedulers : t = u \/ table'[t] \cap table'[u] = {}
    BY <1>2 DEF FutureInv
  <1>9. \A i \in Jobs : status'[i] = "absent" => record'[i] = "none"
    BY <1>4 DEF FutureInv, RowsRemain
  <1>10. FutureInv'
    BY <1>7, <1>8, <1>9 DEF FutureInv
  <1> QED
    BY <1>2, <1>5, <1>10

(* After its report a worker polls again.                                   *)
LEMMA BackInv ==
    ASSUME TypeOK, FutureInv, NEW w \in Workers, BackToPolling(w)
    PROVE  /\ worker' \in [Workers -> {"idle", "running", "crashed"}]
           /\ current' \in [Workers -> Jobs \cup {NoJob}]
           /\ \A v \in Workers : worker'[v] = "running" => current'[v] \in Jobs
  BY DEF TypeOK, FutureInv, BackToPolling

(* handle_done leaves the queue alone.                                      *)
LEMMA ReportDoneInv ==
    ASSUME FleetInv, NEW w \in Workers, ReportDone(w)
    PROVE  FleetInv' /\ RecordsKept
  <1>1. PICK outcome \in Outcomes : Resolve(Url[w], current[w], outcome)
    BY DEF ReportDone
  <1>2. /\ worker[w] = "running" /\ BackToPolling(w)
        /\ UNCHANGED <<created, status, claimedBy, beat>>
        /\ UNCHANGED <<phase, awaiting, unheard, faults>>
    BY DEF ReportDone, sqlVars
  <1>3. RowInv' /\ RowsRemain
    BY <1>2 DEF FleetInv, RowInv, SqlTypeOK, RowsConsistent, RowsRemain
  <1>4. current[w] \in Jobs /\ Url[w] \in Schedulers
    BY <1>2, FleetAssumption DEF FleetInv, FutureInv
  <1>5. /\ worker' \in [Workers -> {"idle", "running", "crashed"}]
        /\ current' \in [Workers -> Jobs \cup {NoJob}]
        /\ \A v \in Workers : worker'[v] = "running" => current'[v] \in Jobs
    BY <1>2, BackInv DEF FleetInv
  <1>6. /\ FutureInv' /\ RecordsKept
        /\ table' \in [Schedulers -> SUBSET Jobs]
        /\ record' \in [Jobs -> {"none"} \cup Outcomes]
    BY <1>1, <1>3, <1>4, <1>5, ResolveInv DEF FleetInv
  <1>7. TypeOK'
    BY <1>2, <1>3, <1>5, <1>6 DEF FleetInv, TypeOK, RowInv
  <1> QED
    BY <1>3, <1>6, <1>7 DEF FleetInv

(* handle_failed settles the row and then the future.                       *)
LEMMA ReportFailedInv ==
    ASSUME FleetInv, NEW w \in Workers, ReportFailed(w)
    PROVE  /\ FleetInv' /\ RecordsKept
           /\ \A t \in Schedulers : table'[t] \subseteq table[t]
           /\ current[w] \notin table'[Url[w]]
  <1>1. /\ worker[w] = "running" /\ BackToPolling(w)
        /\ Fail(current[w])
        /\ Resolve(Url[w], current[w], "failed")
        /\ UNCHANGED <<phase, awaiting, unheard, faults>>
    BY DEF ReportFailed
  <1>2. current[w] \in Jobs /\ Url[w] \in Schedulers /\ "failed" \in Outcomes
    BY <1>1, FleetAssumption DEF FleetInv, FutureInv, Outcomes
  <1>3. SetStatus(current[w], "failed")
    BY <1>1 DEF Fail
  <1>4. RowInv'
    BY <1>2, <1>3, SetStatusInv DEF FleetInv
  <1>5. RowsRemain
    BY <1>2, <1>3 DEF SetStatus, RowsRemain, FleetInv, TypeOK, SqlTypeOK
  <1>6. /\ worker' \in [Workers -> {"idle", "running", "crashed"}]
        /\ current' \in [Workers -> Jobs \cup {NoJob}]
        /\ \A v \in Workers : worker'[v] = "running" => current'[v] \in Jobs
    BY <1>1, BackInv DEF FleetInv
  <1>7. /\ FutureInv' /\ RecordsKept
        /\ table' \in [Schedulers -> SUBSET Jobs]
        /\ record' \in [Jobs -> {"none"} \cup Outcomes]
        /\ \A t \in Schedulers : table'[t] \subseteq table[t]
        /\ current[w] \notin table'[Url[w]]
    BY <1>1, <1>2, <1>5, <1>6, ResolveInv DEF FleetInv
  <1>8. TypeOK'
    BY <1>1, <1>4, <1>6, <1>7 DEF FleetInv, TypeOK, RowInv
  <1> QED
    BY <1>4, <1>7, <1>8 DEF FleetInv

(* What touches neither row nor future: the two ends of a tick, a dropped   *)
(* report, a crash.                                                         *)
LEMMA QuietInv ==
    ASSUME FleetInv, TypeOK', UNCHANGED <<sqlVars, table, record>>,
           \A w \in Workers : worker'[w] = "running" => current'[w] \in Jobs
    PROVE  FleetInv' /\ RecordsKept
  <1>1. UNCHANGED <<created, status, claimedBy, beat>>
    BY DEF sqlVars
  <1>2. RowInv' /\ RowsRemain
    BY <1>1 DEF FleetInv, RowInv, SqlTypeOK, RowsConsistent, RowsRemain
  <1>3. FutureInv' /\ RecordsKept
    BY <1>2, FuturesUntouched DEF FleetInv
  <1> QED
    BY <1>2, <1>3 DEF FleetInv

(* A heartbeat, and the clock.                                              *)
LEMMA BeatInv ==
    ASSUME FleetInv, UNCHANGED fleetVars, NEW j \in Jobs,
           WindowElapses(j) \/ \E w \in Workers : Heartbeat(w, j)
    PROVE  FleetInv' /\ RecordsKept
  <1>1. RowInv'
    BY HeartbeatInv, WindowElapsesInv DEF FleetInv
  <1>2. status' = status /\ RowsRemain
    BY DEF WindowElapses, Heartbeat, RowsRemain
  <1>3. TypeOK' /\ UNCHANGED <<table, record, worker, current>>
    BY <1>1 DEF FleetInv, TypeOK, RowInv, fleetVars
  <1>4. FutureInv' /\ RecordsKept
    BY <1>2, <1>3, FuturesUntouched DEF FleetInv, FutureInv
  <1> QED
    BY <1>1, <1>3, <1>4 DEF FleetInv

(* Each of the steps that QuietInv is about.                                *)
LEMMA QuietStepInv ==
    ASSUME FleetInv,
           \/ \E s \in Schedulers : StartWaiting(s) \/ EndTick(s)
           \/ \E w \in Workers : ReportDropped(w) \/ CrashWorker(w)
           \/ UNCHANGED vars
    PROVE  /\ FleetInv' /\ RecordsKept
           /\ UNCHANGED <<sqlVars, table>>
  <1>1. ASSUME NEW s \in Schedulers, StartWaiting(s) \/ EndTick(s)
        PROVE  /\ FleetInv' /\ RecordsKept
               /\ UNCHANGED <<sqlVars, table>>
    <2>1. UNCHANGED <<sqlVars, table, record, worker, current>>
      BY <1>1 DEF StartWaiting, EndTick
    <2>2. SqlTypeOK'
      BY <2>1 DEF sqlVars, FleetInv, TypeOK, SqlTypeOK
    <2>3. TypeOK'
      BY <1>1, <2>2 DEF FleetInv, TypeOK, StartWaiting, EndTick
    <2> QED
      BY <2>1, <2>3, QuietInv DEF FleetInv, FutureInv
  <1>2. ASSUME NEW w \in Workers, ReportDropped(w)
        PROVE  /\ FleetInv' /\ RecordsKept
               /\ UNCHANGED <<sqlVars, table>>
    <2>1. BackToPolling(w) /\ UNCHANGED <<sqlVars, table, record>>
      BY <1>2 DEF ReportDropped
    <2>2. SqlTypeOK'
      BY <2>1 DEF sqlVars, FleetInv, TypeOK, SqlTypeOK
    <2>3. /\ worker' \in [Workers -> {"idle", "running", "crashed"}]
          /\ current' \in [Workers -> Jobs \cup {NoJob}]
          /\ \A v \in Workers : worker'[v] = "running" => current'[v] \in Jobs
      BY <2>1, BackInv DEF FleetInv
    <2>4. TypeOK'
      BY <1>2, <2>2, <2>3, FleetAssumption DEF FleetInv, TypeOK, ReportDropped
    <2> QED
      BY <2>1, <2>3, <2>4, QuietInv
  <1>3. ASSUME NEW w \in Workers, CrashWorker(w)
        PROVE  /\ FleetInv' /\ RecordsKept
               /\ UNCHANGED <<sqlVars, table>>
    <2>1. UNCHANGED <<sqlVars, table, record, current>>
      BY <1>3 DEF CrashWorker
    <2>2. SqlTypeOK'
      BY <2>1 DEF sqlVars, FleetInv, TypeOK, SqlTypeOK
    <2>3. TypeOK'
      BY <1>3, <2>2, FleetAssumption DEF FleetInv, TypeOK, CrashWorker
    <2>4. \A v \in Workers : worker'[v] = "running" => current'[v] \in Jobs
      BY <1>3 DEF CrashWorker, FleetInv, FutureInv, TypeOK
    <2> QED
      BY <2>1, <2>3, <2>4, QuietInv
  <1>4. CASE UNCHANGED vars
    <2>1. UNCHANGED <<sqlVars, table, record, worker, current>>
      BY <1>4 DEF vars, fleetVars
    <2>2. SqlTypeOK'
      BY <2>1 DEF sqlVars, FleetInv, TypeOK, SqlTypeOK
    <2>3. TypeOK'
      BY <1>4, <2>2 DEF FleetInv, TypeOK, vars, fleetVars
    <2> QED
      BY <2>1, <2>3, QuietInv DEF FleetInv, FutureInv
  <1> QED
    BY <1>1, <1>2, <1>3, <1>4

-----------------------------------------------------------------------------
(* The theorems.                                                           *)

(* Every step keeps the invariant and overwrites no record.                 *)
LEMMA FleetStep ==
    ASSUME FleetInv, [Next]_vars
    PROVE  FleetInv' /\ RecordsKept
  <1>1. ASSUME NEW s \in Schedulers, StartTick(s) \/ Restart(s)
        PROVE  FleetInv' /\ RecordsKept
    BY <1>1, StartTickInv, RestartInv
  <1>2. ASSUME NEW s \in Schedulers, NEW j \in Jobs, Submit(s, j)
        PROVE  FleetInv' /\ RecordsKept
    BY <1>2, SubmitInv
  <1>3. ASSUME NEW w \in Workers, WorkerStep(w)
        PROVE  FleetInv' /\ RecordsKept
    BY <1>3, PollInv, ReportDoneInv, ReportFailedInv DEF WorkerStep
  <1>4. ASSUME NEW w \in Workers, SendHeartbeat(w)
        PROVE  FleetInv' /\ RecordsKept
    <2>1. current[w] \in Jobs /\ Heartbeat(w, current[w]) /\ UNCHANGED fleetVars
      BY <1>4 DEF SendHeartbeat, FleetInv, FutureInv
    <2> QED
      BY <2>1, BeatInv
  <1>5. ASSUME NEW j \in Jobs, Silence(j)
        PROVE  FleetInv' /\ RecordsKept
    BY <1>5, BeatInv DEF Silence
  <1>6. ASSUME \/ \E s \in Schedulers : StartWaiting(s) \/ EndTick(s)
               \/ \E w \in Workers : ReportDropped(w) \/ CrashWorker(w)
               \/ UNCHANGED vars
        PROVE  FleetInv' /\ RecordsKept
    BY <1>6, QuietStepInv
  <1> QED
    BY <1>1, <1>2, <1>3, <1>4, <1>5, <1>6 DEF Next, TickStep

(* Nothing is submitted, recorded or claimed at first.                      *)
LEMMA FleetStart ==
    ASSUME Init
    PROVE  FleetInv /\ AwaitedJobInQueue
  <1>1. created \in Seq(Jobs) /\ ToSet(created) = {} /\ IsInjective(created)
    BY DEF Init, SqlInit, ToSet, IsInjective
  <1>2. RowInv
    BY <1>1 DEF Init, SqlInit, RowInv, SqlTypeOK, RowsConsistent
  <1>3. TypeOK
    <2>1. faults \in 0..MaxFaults /\ unheard \in BOOLEAN
      <3>1. 0 \in 0..MaxFaults
        BY FleetAssumption
      <3>2. faults = 0 /\ unheard = FALSE
        BY DEF Init
      <3> QED
        BY <3>1, <3>2
    <2>2. /\ phase \in [Schedulers -> {"idle", "submit", "wait"}]
          /\ table \in [Schedulers -> SUBSET Jobs]
          /\ awaiting \in [Schedulers -> SUBSET Jobs]
      BY DEF Init
    <2>3. /\ record \in [Jobs -> {"none"} \cup Outcomes]
          /\ worker \in [Workers -> {"idle", "running", "crashed"}]
          /\ current \in [Workers -> Jobs \cup {NoJob}]
      BY DEF Init
    <2> QED
      BY <1>2, <2>1, <2>2, <2>3 DEF TypeOK, RowInv
  <1>4. FutureInv /\ AwaitedJobInQueue
    BY DEF Init, FutureInv, AwaitedJobInQueue
  <1> QED
    BY <1>2, <1>3, <1>4 DEF FleetInv

(* No job is recorded twice, with any number of schedulers on the table and *)
(* although the table hands out again jobs that have long been recorded     *)
(* (server.py:198-202 does not tell the queue that a job is done).          *)
THEOREM RecordsAreFinal == Spec => RecordFinal
  <1>1. Init => FleetInv
    BY FleetStart
  <1>2. FleetInv /\ [Next]_vars => FleetInv'
    BY FleetStep
  <1>3. FleetInv /\ [Next]_vars
            => [\A j \in Jobs : record[j] # "none" => record'[j] = record[j]]_vars
    BY FleetStep DEF RecordsKept
  <1> QED
    BY <1>1, <1>2, <1>3, PTL DEF Spec, RecordFinal

(* What the schedulers, the handlers and the workers do to the table is a   *)
(* call of the queue or nothing.                                            *)
LEMMA StepsAreCalls ==
    ASSUME FleetInv, [Next]_vars
    PROVE  [SqlNext]_sqlVars
  <1>1. ASSUME NEW s \in Schedulers, StartTick(s)
        PROVE  [SqlNext]_sqlVars
    BY <1>1 DEF StartTick, SqlNext
  <1>2. ASSUME NEW s \in Schedulers, NEW j \in Jobs, Submit(s, j)
        PROVE  [SqlNext]_sqlVars
    BY <1>2 DEF Submit, SqlNext
  <1>3. ASSUME NEW w \in Workers, Poll(w)
        PROVE  [SqlNext]_sqlVars
    BY <1>3 DEF Poll, SqlNext
  <1>4. ASSUME NEW w \in Workers, ReportFailed(w) \/ SendHeartbeat(w)
        PROVE  [SqlNext]_sqlVars
    <2>1. current[w] \in Jobs
      BY <1>4 DEF ReportFailed, SendHeartbeat, FleetInv, FutureInv
    <2> QED
      BY <2>1, <1>4 DEF ReportFailed, SendHeartbeat, SqlNext
  <1>5. ASSUME NEW j \in Jobs, Silence(j)
        PROVE  [SqlNext]_sqlVars
    BY <1>5 DEF Silence, SqlNext
  <1>6. ASSUME \/ \E s \in Schedulers : Restart(s)
               \/ \E w \in Workers : ReportDone(w)
        PROVE  [SqlNext]_sqlVars
    BY <1>6 DEF Restart, ReportDone
  <1>7. ASSUME \/ \E s \in Schedulers : StartWaiting(s) \/ EndTick(s)
               \/ \E w \in Workers : ReportDropped(w) \/ CrashWorker(w)
               \/ UNCHANGED vars
        PROVE  [SqlNext]_sqlVars
    BY <1>7, QuietStepInv
  <1> QED
    BY <1>1, <1>2, <1>3, <1>4, <1>5, <1>6, <1>7 DEF Next, TickStep, WorkerStep

(* The table that schedulers share and outlive keeps the queue's contract,  *)
(* with late and repeated reports and reports that were dropped             *)
(* (worker/server.py:198-224, queue/sqlite.py:82-159).                      *)
THEOREM FleetImplementsContract == Spec => ImplementsJobQueue
  <1>1. Init => FleetInv /\ SqlInit
    BY FleetStart DEF Init
  <1>2. FleetInv /\ [Next]_vars => FleetInv' /\ [SqlNext]_sqlVars
    BY FleetStep, StepsAreCalls
  <1>3. SqlInit /\ [][SqlNext]_sqlVars => ImplementsJobQueue
    BY TableImplementsContract, PTL DEF SqlSpec
  <1> QED
    BY <1>1, <1>2, <1>3, PTL DEF Spec

(* A step of the one scheduler, or of a worker that talks to it, leaves the *)
(* jobs it waits for where a worker can get them.                           *)
LEMMA AwaitedStep ==
    ASSUME OneScheduler, FleetInv, AwaitedJobInQueue, [Next]_vars
    PROVE  AwaitedJobInQueue'
  <1> DEFINE InQueue == {"pending", "claimed"}
  <1>1. \A s \in Schedulers : \A j \in table[s] :
           j \in Jobs /\ status[j] \in InQueue
    BY DEF FleetInv, TypeOK, AwaitedJobInQueue
  <1>2. ASSUME \A j \in Jobs : status[j] \in InQueue => status'[j] \in InQueue,
               \A s \in Schedulers : table'[s] \subseteq table[s]
        PROVE  AwaitedJobInQueue'
    BY <1>1, <1>2 DEF AwaitedJobInQueue
  <1>3. ASSUME NEW s \in Schedulers, StartTick(s)
        PROVE  AwaitedJobInQueue'
    BY <1>2, <1>3 DEF StartTick, RequeueStale
  <1>4. ASSUME NEW s \in Schedulers, Restart(s)
        PROVE  AwaitedJobInQueue'
    <2>1. status' = status /\ table' = [table EXCEPT ![s] = {}]
      BY <1>4 DEF Restart, sqlVars
    <2>2. \A t \in Schedulers : table'[t] \subseteq table[t]
      BY <2>1 DEF FleetInv, TypeOK
    <2> QED
      BY <1>2, <2>1, <2>2
  <1>5. ASSUME NEW s \in Schedulers, NEW j \in Jobs, Submit(s, j)
        PROVE  AwaitedJobInQueue'
    <2>1. /\ status' = [status EXCEPT ![j] = "pending"]
          /\ table' = [table EXCEPT ![s] = @ \cup {j}]
      BY <1>5 DEF Submit, Enqueue
    <2>2. \A i \in Jobs : status'[i] = IF i = j THEN "pending" ELSE status[i]
      BY <2>1 DEF FleetInv, TypeOK, SqlTypeOK
    <2>3. \A t \in Schedulers : table'[t] \subseteq table[t] \cup {j}
      BY <2>1 DEF FleetInv, TypeOK
    <2> QED
      BY <1>1, <2>2, <2>3 DEF AwaitedJobInQueue
  <1>6. ASSUME NEW w \in Workers, Poll(w)
        PROVE  AwaitedJobInQueue'
    <2>1. PICK j \in Jobs : status' = [status EXCEPT ![j] = "claimed"]
      BY <1>6 DEF Poll, Claim, TakeRow
    <2>2. table' = table
      BY <1>6 DEF Poll
    <2> QED
      BY <1>2, <2>1, <2>2 DEF FleetInv, TypeOK, SqlTypeOK
  <1>7. ASSUME NEW w \in Workers, ReportDone(w)
        PROVE  AwaitedJobInQueue'
    <2>1. table' = [table EXCEPT ![Url[w]] = @ \ {current[w]}]
      BY <1>7 DEF ReportDone, Resolve
    <2>2. status' = status
      BY <1>7 DEF ReportDone, sqlVars
    <2>3. \A t \in Schedulers : table'[t] \subseteq table[t]
      BY <2>1 DEF FleetInv, TypeOK
    <2> QED
      BY <1>2, <2>2, <2>3
  <1>8. ASSUME NEW w \in Workers, ReportFailed(w)
        PROVE  AwaitedJobInQueue'
    <2>1. /\ \A t \in Schedulers : table'[t] \subseteq table[t]
          /\ current[w] \notin table'[Url[w]]
      BY <1>8, ReportFailedInv
    <2>2. Url[w] \in Schedulers
      BY FleetAssumption
    <2>3. \A t \in Schedulers : current[w] \notin table'[t]
      BY <2>1, <2>2 DEF OneScheduler
    <2>4. \A i \in Jobs : i # current[w] => status'[i] = status[i]
      BY <1>8 DEF ReportFailed, Fail, SetStatus, FleetInv, TypeOK, SqlTypeOK
    <2> QED
      BY <1>1, <2>1, <2>3, <2>4 DEF AwaitedJobInQueue
  <1>9. ASSUME \/ \E w \in Workers : SendHeartbeat(w)
               \/ \E j \in Jobs : Silence(j)
        PROVE  AwaitedJobInQueue'
    <2>1. status' = status /\ table' = table
      BY <1>9 DEF SendHeartbeat, Silence, Heartbeat, WindowElapses, fleetVars
    <2> QED
      BY <1>2, <2>1
  <1>10. ASSUME \/ \E s \in Schedulers : StartWaiting(s) \/ EndTick(s)
                \/ \E w \in Workers : ReportDropped(w) \/ CrashWorker(w)
                \/ UNCHANGED vars
         PROVE  AwaitedJobInQueue'
    <2>1. status' = status /\ table' = table
      BY <1>10, QuietStepInv DEF sqlVars
    <2> QED
      BY <1>2, <2>1
  <1> QED
    BY <1>3, <1>4, <1>5, <1>6, <1>7, <1>8, <1>9, <1>10
       DEF Next, TickStep, WorkerStep

(* With one scheduler, restarted any number of times, what its tick waits   *)
(* for can be claimed or is claimed, so that a worker can still answer      *)
(* (executor/distributed.py:56-73, worker/server.py:198-232).               *)
THEOREM AwaitedJobsStayInQueue ==
    ASSUME OneScheduler
    PROVE  Spec => []AwaitedJobInQueue
  <1>1. Init => FleetInv /\ AwaitedJobInQueue
    BY FleetStart
  <1>2. FleetInv /\ AwaitedJobInQueue /\ [Next]_vars
            => FleetInv' /\ AwaitedJobInQueue'
    BY FleetStep, AwaitedStep
  <1> QED
    BY <1>1, <1>2, PTL DEF Spec
=============================================================================
