--------------------------- MODULE SchedulerFleet ---------------------------
(***************************************************************************)
(* Schedulers that share one table of jobs: several at once on             *)
(* PostgresQueue ("Supports multiple concurrent scheduler instances",      *)
(* queue/postgres.py), or one on SQLiteQueue that is restarted ("Survives  *)
(* scheduler restarts", queue/sqlite.py).                                  *)
(*                                                                         *)
(* DistributedExecution has the threads of one scheduler in detail; a tick *)
(* has one level here, and a submit, an HTTP request with its handler, and *)
(* the handling of a level's results are one step each. What is new is     *)
(* that the queue is shared and durable while each scheduler's table of    *)
(* futures is its own and dies with it.                                    *)
(***************************************************************************)
EXTENDS SqlQueue

CONSTANTS Schedulers,   \* scheduler processes
          Url,          \* worker -> the scheduler its --scheduler-url names
          NoJob,        \* "no job" for a worker
          MaxFaults     \* bound on crashes and restarts

ASSUME FleetAssumption ==
    /\ Url \in [Workers -> Schedulers]
    /\ NoJob \notin Jobs
    /\ MaxFaults \in Nat

VARIABLES phase,     \* Runtime.tick of each scheduler
          table,     \* DistributedExecutor._pending of each scheduler
          awaiting,  \* the futures each tick waits for
          record,    \* the catalog's run record of a job
          worker,    \* what each worker does
          current,   \* the job it does it for
          unheard,   \* a report was dropped, since the queue raised
          faults

fleetVars == <<phase, table, awaiting, record, worker, current, unheard, faults>>
vars == <<sqlVars, fleetVars>>

Outcomes == {"success", "failed"}

TypeOK ==
    /\ SqlTypeOK
    /\ phase \in [Schedulers -> {"idle", "submit", "wait"}]
    /\ table \in [Schedulers -> SUBSET Jobs]
    /\ awaiting \in [Schedulers -> SUBSET Jobs]
    /\ record \in [Jobs -> {"none"} \cup Outcomes]
    /\ worker \in [Workers -> {"idle", "running", "crashed"}]
    /\ current \in [Workers -> Jobs \cup {NoJob}]
    /\ unheard \in BOOLEAN
    /\ faults \in 0..MaxFaults

Init ==
    /\ SqlInit
    /\ phase = [s \in Schedulers |-> "idle"]
    /\ table = [s \in Schedulers |-> {}]
    /\ awaiting = [s \in Schedulers |-> {}]
    /\ record = [j \in Jobs |-> "none"]
    /\ worker = [w \in Workers |-> "idle"]
    /\ current = [w \in Workers |-> NoJob]
    /\ unheard = FALSE
    /\ faults = 0

-----------------------------------------------------------------------------
(* Runtime.tick and DistributedExecutor.submit, of scheduler s             *)

StartTick(s) ==
    /\ phase[s] = "idle"
    /\ RequeueStale
    /\ phase' = [phase EXCEPT ![s] = "submit"]
    /\ UNCHANGED <<table, awaiting, record, worker, current, unheard, faults>>

\* A job id is a uuid4: no scheduler has drawn it before.
Submit(s, j) ==
    /\ phase[s] = "submit"
    /\ status[j] = "absent"
    /\ Enqueue(j)
    /\ table' = [table EXCEPT ![s] = @ \cup {j}]
    /\ awaiting' = [awaiting EXCEPT ![s] = @ \cup {j}]
    /\ UNCHANGED <<phase, record, worker, current, unheard, faults>>

StartWaiting(s) ==
    /\ phase[s] = "submit"
    /\ phase' = [phase EXCEPT ![s] = "wait"]
    /\ UNCHANGED <<sqlVars, table, awaiting, record, worker, current, unheard, faults>>

\* futures_wait returns until nothing is left to wait for.
EndTick(s) ==
    /\ phase[s] = "wait"
    /\ awaiting[s] \cap table[s] = {}
    /\ phase' = [phase EXCEPT ![s] = "idle"]
    /\ awaiting' = [awaiting EXCEPT ![s] = {}]
    /\ UNCHANGED <<sqlVars, table, record, worker, current, unheard, faults>>

\* The scheduler dies at any point and is started again: its futures are
\* gone, the table of jobs is not. That is also what becomes of an enqueue that
\* raises: nothing catches it, and run_forever shuts the executor down.
Restart(s) ==
    /\ faults < MaxFaults
    /\ faults' = faults + 1
    /\ phase' = [phase EXCEPT ![s] = "idle"]
    /\ table' = [table EXCEPT ![s] = {}]
    /\ awaiting' = [awaiting EXCEPT ![s] = {}]
    /\ UNCHANGED <<sqlVars, record, worker, current, unheard>>

-----------------------------------------------------------------------------
(* The workers and the handlers of the scheduler each of them talks to     *)

Poll(w) ==
    /\ worker[w] = "idle"
    /\ \E j \in Jobs :
          /\ Claim(w, j)
          /\ current' = [current EXCEPT ![w] = j]
    /\ worker' = [worker EXCEPT ![w] = "running"]
    /\ UNCHANGED <<phase, table, awaiting, record, unheard, faults>>

SendHeartbeat(w) ==
    /\ worker[w] = "running"
    /\ Heartbeat(w, current[w])
    /\ UNCHANGED fleetVars

BackToPolling(w) ==
    /\ worker' = [worker EXCEPT ![w] = "idle"]
    /\ current' = [current EXCEPT ![w] = NoJob]

\* Mutant of Resolve: a report on a job without a future is recorded as well.
ResolveUnknown(s, j, outcome) ==
    /\ table' = [table EXCEPT ![s] = @ \ {j}]
    /\ record' = [record EXCEPT ![j] = outcome]

\* resolve_done or resolve_failed in scheduler s, and the record its tick
\* writes on it; a scheduler without the future has nothing to do.
Resolve(s, j, outcome) ==
    /\ table' = [table EXCEPT ![s] = @ \ {j}]
    /\ record' = IF j \in table[s] THEN [record EXCEPT ![j] = outcome]
                 ELSE record

\* Mutant of ReportDone: the executor is not told either.
DoneOnlyAcknowledged(w) ==
    /\ worker[w] = "running"
    /\ BackToPolling(w)
    /\ UNCHANGED <<sqlVars, phase, table, awaiting, record, unheard, faults>>

\* handle_done: the queue is not told. The result may still fail to commit.
ReportDone(w) ==
    /\ worker[w] = "running"
    /\ \E outcome \in Outcomes : Resolve(Url[w], current[w], outcome)
    /\ BackToPolling(w)
    /\ UNCHANGED <<sqlVars, phase, awaiting, unheard, faults>>

\* Mutant of ReportFailed: only the queue is told.
FailureNotResolved(w) ==
    /\ worker[w] = "running"
    /\ Fail(current[w])
    /\ BackToPolling(w)
    /\ UNCHANGED <<phase, table, awaiting, record, unheard, faults>>

\* handle_failed: queue.fail, then resolve_failed.
ReportFailed(w) ==
    /\ worker[w] = "running"
    /\ Fail(current[w])
    /\ Resolve(Url[w], current[w], "failed")
    /\ BackToPolling(w)
    /\ UNCHANGED <<phase, awaiting, unheard, faults>>

\* handle_failed when queue.fail raises (a locked database, a lost connection):
\* the executor is not told, and the worker logs the error and polls again.
ReportDropped(w) ==
    /\ worker[w] = "running"
    /\ faults < MaxFaults
    /\ faults' = faults + 1
    /\ unheard' = TRUE
    /\ BackToPolling(w)
    /\ UNCHANGED <<sqlVars, phase, table, awaiting, record>>

CrashWorker(w) ==
    /\ faults < MaxFaults
    /\ faults' = faults + 1
    /\ worker[w] # "crashed"
    /\ worker' = [worker EXCEPT ![w] = "crashed"]
    /\ UNCHANGED <<sqlVars, phase, table, awaiting, record, current, unheard>>

Silence(j) == WindowElapses(j) /\ UNCHANGED fleetVars

TickStep(s) == StartTick(s) \/ StartWaiting(s) \/ EndTick(s)

WorkerStep(w) == Poll(w) \/ ReportDone(w) \/ ReportFailed(w)

Next ==
    \/ \E s \in Schedulers :
          \/ TickStep(s) \/ Restart(s)
          \/ \E j \in Jobs : Submit(s, j)
    \/ \E w \in Workers : WorkerStep(w) \/ SendHeartbeat(w) \/ CrashWorker(w)
          \/ ReportDropped(w)
    \/ \E j \in Jobs : Silence(j)

Spec == Init /\ [][Next]_vars

(* The schedulers' threads and the workers keep running.                   *)
FairSpec ==
    /\ Spec
    /\ \A s \in Schedulers : WF_vars(TickStep(s))
    /\ \A w \in Workers : WF_vars(WorkerStep(w))

-----------------------------------------------------------------------------
(* While a scheduler waits for a job, the job can still be claimed, or is   *)
(* claimed. It takes that every report reaches that very scheduler, which  *)
(* holds with one scheduler, restarts and zombies included.                *)
AwaitedJobInQueue ==
    \A s \in Schedulers : \A j \in table[s] : status[j] \in {"pending", "claimed"}

(* A job is recorded once, though the durable table hands jobs out again    *)
(* that have been recorded, and jobs of a scheduler that is gone.          *)
RecordFinal ==
    [][\A j \in Jobs : record[j] # "none" => record'[j] = record[j]]_vars

(* No tick waits for ever: a scheduler that waits for a job hears of it, or  *)
(* a worker crashed or its report was dropped (the sweep, which would hand *)
(* the job out again, runs between ticks only), whether the scheduler was  *)
(* restarted before and its workers are busy with orphans and jobs long    *)
(* done. With several schedulers it does not hold: a worker claims any job *)
(* of the table and reports to the scheduler of its URL, which ignores the *)
(* jobs of others.                                                         *)
EveryFutureResolved ==
    \A s \in Schedulers, j \in Jobs :
        j \in table[s] ~> \/ j \notin table[s]
                          \/ unheard
                          \/ \E w \in Workers : worker[w] = "crashed"

(* What FleetDropped.cfg shows to be false: it takes no crash for a tick to *)
(* wait for ever, one failure of the queue while a worker reports is enough. *)
EveryFutureHeard ==
    \A s \in Schedulers, j \in Jobs :
        j \in table[s] ~> \/ j \notin table[s]
                          \/ \E w \in Workers : worker[w] = "crashed"
=============================================================================
