------------------------------ MODULE SqlQueue ------------------------------
(***************************************************************************)
(* conduit_etl/queue/sqlite.py: the table jobs of the durable queue.       *)
(*                                                                         *)
(* Each method is one transaction, and so one action; it changes rows of   *)
(* the table and nothing else, and the table outlives the process. Time is *)
(* abstracted as in MemoryQueue: last_heartbeat is "none" (NULL), "fresh", *)
(* or "stale" once it is older than any cutoff requeue_stale may compute.  *)
(***************************************************************************)
EXTENDS SequencesExt, Integers

CONSTANTS Jobs, Workers, NoWorker

ASSUME SqlAssumption == NoWorker \notin Workers

VARIABLES created,    \* ids in the order of created_at; level is 0 throughout
          status,     \* jobs.status, "absent" when there is no row
          claimedBy,  \* jobs.claimed_by, NoWorker for NULL
          beat        \* jobs.last_heartbeat

sqlVars == <<created, status, claimedBy, beat>>

SqlTypeOK ==
    /\ created \in Seq(Jobs)
    /\ status \in [Jobs -> {"absent", "pending", "claimed", "done", "failed"}]
    /\ claimedBy \in [Jobs -> Workers \cup {NoWorker}]
    /\ beat \in [Jobs -> {"none", "fresh", "stale"}]

SqlInit ==
    /\ created = <<>>
    /\ status = [j \in Jobs |-> "absent"]
    /\ claimedBy = [j \in Jobs |-> NoWorker]
    /\ beat = [j \in Jobs |-> "none"]

Pending(j) == status[j] = "pending"

\* ORDER BY level, created_at LIMIT 1 among the rows in S.
Oldest(j, S) ==
    /\ j \in S
    /\ \A i, k \in DOMAIN created :
          created[k] = j /\ created[i] \in S => k <= i

\* INSERT OR IGNORE.
Enqueue(j) ==
    IF status[j] = "absent"
    THEN /\ created' = Append(created, j)
         /\ status' = [status EXCEPT ![j] = "pending"]
         /\ UNCHANGED <<claimedBy, beat>>
    ELSE UNCHANGED sqlVars

\* The UPDATE of claim.
TakeRow(w, j) ==
    /\ status' = [status EXCEPT ![j] = "claimed"]
    /\ claimedBy' = [claimedBy EXCEPT ![j] = w]
    /\ beat' = [beat EXCEPT ![j] = "fresh"]
    /\ UNCHANGED created

\* BEGIN IMMEDIATE ... COMMIT: the SELECT and the UPDATE are one step.
Claim(w, j) ==
    /\ Oldest(j, {i \in Jobs : Pending(i)})
    /\ TakeRow(w, j)

\* No row updated: QueueError, and no change.
Heartbeat(w, j) ==
    /\ status[j] = "claimed"
    /\ claimedBy[j] = w
    /\ beat' = [beat EXCEPT ![j] = "fresh"]
    /\ UNCHANGED <<created, status, claimedBy>>

\* UPDATE ... WHERE id = ?, whatever the status of the row and whoever asks.
SetStatus(j, s) ==
    /\ status' = IF status[j] = "absent" THEN status
                 ELSE [status EXCEPT ![j] = s]
    /\ UNCHANGED <<created, claimedBy, beat>>

Complete(j) == SetStatus(j, "done")

Fail(j) == SetStatus(j, "failed")

\* Mutant of RequeueStale: no status='claimed' in the WHERE.
RequeueAnyStatus ==
    LET stale == {j \in Jobs : beat[j] = "stale"} IN
    /\ status' = [j \in Jobs |-> IF j \in stale THEN "pending" ELSE status[j]]
    /\ claimedBy' =
          [j \in Jobs |-> IF j \in stale THEN NoWorker ELSE claimedBy[j]]
    /\ beat' = [j \in Jobs |-> IF j \in stale THEN "none" ELSE beat[j]]
    /\ UNCHANGED created

\* Mutant of RequeueStale: last_heartbeat is not reset.
RequeueKeepsBeat ==
    LET stale == {j \in Jobs : status[j] = "claimed" /\ beat[j] = "stale"} IN
    /\ status' = [j \in Jobs |-> IF j \in stale THEN "pending" ELSE status[j]]
    /\ claimedBy' =
          [j \in Jobs |-> IF j \in stale THEN NoWorker ELSE claimedBy[j]]
    /\ UNCHANGED <<created, beat>>

\* A job goes back to its place in the order of created_at.
RequeueStale ==
    LET stale == {j \in Jobs : status[j] = "claimed" /\ beat[j] = "stale"} IN
    /\ status' = [j \in Jobs |-> IF j \in stale THEN "pending" ELSE status[j]]
    /\ claimedBy' =
          [j \in Jobs |-> IF j \in stale THEN NoWorker ELSE claimedBy[j]]
    /\ beat' = [j \in Jobs |-> IF j \in stale THEN "none" ELSE beat[j]]
    /\ UNCHANGED created

\* The clock passes the row's last_heartbeat by the heartbeat window.
WindowElapses(j) ==
    /\ beat[j] = "fresh"
    /\ beat' = [beat EXCEPT ![j] = "stale"]
    /\ UNCHANGED <<created, status, claimedBy>>

SqlNext ==
    \/ \E j \in Jobs : Enqueue(j) \/ Complete(j) \/ Fail(j) \/ WindowElapses(j)
    \/ \E w \in Workers, j \in Jobs : Claim(w, j) \/ Heartbeat(w, j)
    \/ RequeueStale

SqlSpec == SqlInit /\ [][SqlNext]_sqlVars

-----------------------------------------------------------------------------
(* The columns that claim, requeue_stale and the reports write one by one  *)
(* agree: a row has an owner and a heartbeat while it is claimed and has   *)
(* neither while it is pending, so that the WHERE of requeue_stale finds   *)
(* every claimed row; and a row has one place in the order of claims.      *)
RowsConsistent ==
    /\ IsInjective(created)
    /\ ToSet(created) = {j \in Jobs : status[j] # "absent"}
    /\ \A j \in Jobs :
          /\ status[j] = "claimed" => claimedBy[j] # NoWorker /\ beat[j] # "none"
          /\ status[j] \in {"absent", "pending"} =>
                claimedBy[j] = NoWorker /\ beat[j] = "none"

AbstractStatus(j) ==
    CASE status[j] = "absent" -> "unknown"
      [] status[j] \in {"done", "failed"} -> "settled"
      [] OTHER -> status[j]

Contract == INSTANCE JobQueue WITH
    status <- [j \in Jobs |-> AbstractStatus(j)],
    owner <- [j \in Jobs |->
                 IF status[j] = "claimed" THEN claimedBy[j] ELSE NoWorker]

(* The table implements the contract of queue/base.py, although complete   *)
(* and fail look neither at the row's status nor at its owner: a report    *)
(* that comes late can settle a job, it cannot bring one back.             *)
ImplementsJobQueue == Contract!JobQueueSpec
=============================================================================
