------------------------------ MODULE JobQueue ------------------------------
(***************************************************************************)
(* What a QueueBackend promises the scheduler and its workers              *)
(* (conduit_etl/queue/base.py): each job is handed to one worker at a      *)
(* time, goes back to the queue only from that worker's hands, and is      *)
(* never handed out again once its result or its error has been stored.    *)
(*                                                                         *)
(* The backends differ in what they let settle a job: MemoryQueue insists  *)
(* that it is in flight, the SQL backends do not look. Settle allows both. *)
(***************************************************************************)
CONSTANTS Jobs,      \* job ids (uuid4 in DistributedExecutor.submit)
          Workers,   \* worker ids
          NoWorker   \* claimed_by = None

VARIABLES status,    \* Jobs -> where the job stands in the queue
          owner      \* Jobs -> the worker that holds its claim

jobQueueVars == <<status, owner>>

JobQueueInit ==
    /\ status = [j \in Jobs |-> "unknown"]
    /\ owner = [j \in Jobs |-> NoWorker]

\* enqueue: a job the queue has never seen becomes claimable.
AddJob(j) ==
    /\ status[j] = "unknown"
    /\ status' = [status EXCEPT ![j] = "pending"]
    /\ UNCHANGED owner

\* claim: "Atomically claim and return one job".
HandOut(w, j) ==
    /\ status[j] = "pending"
    /\ status' = [status EXCEPT ![j] = "claimed"]
    /\ owner' = [owner EXCEPT ![j] = w]

\* complete and fail: the job has its result or its error.
Settle(j) ==
    /\ status[j] \in {"pending", "claimed"}
    /\ status' = [status EXCEPT ![j] = "settled"]
    /\ owner' = [owner EXCEPT ![j] = NoWorker]

\* requeue_stale: jobs are taken from silent workers and become claimable.
TakeBack(S) ==
    /\ \A j \in S : status[j] = "claimed"
    /\ status' = [j \in Jobs |-> IF j \in S THEN "pending" ELSE status[j]]
    /\ owner' = [j \in Jobs |-> IF j \in S THEN NoWorker ELSE owner[j]]

JobQueueNext ==
    \/ \E j \in Jobs : AddJob(j) \/ Settle(j)
    \/ \E w \in Workers, j \in Jobs : HandOut(w, j)
    \/ \E S \in SUBSET Jobs : TakeBack(S)

JobQueueSpec == JobQueueInit /\ [][JobQueueNext]_jobQueueVars
=============================================================================
