------------------------ MODULE DistributedExecution ------------------------
(***************************************************************************)
(* One scheduler process and its HTTP workers:                             *)
(*   - the scheduler thread in Runtime.tick (core/runtime.py): sweep the   *)
(*     queue, submit the ready steps of a level, wait for their futures,   *)
(*     commit and record each result, go on with the next level;           *)
(*   - DistributedExecutor (executor/distributed.py): a table of futures   *)
(*     resolved by hand when a worker reports;                             *)
(*   - the threads of SchedulerServer (worker/server.py), one per request; *)
(*   - WorkerProcess and its heartbeat thread (worker/process.py);         *)
(*   - MemoryQueue between them.                                           *)
(* Which steps are ready is PipelineRuntime's subject: a level is any set  *)
(* of fresh jobs here, and so is the number of levels of a tick.           *)
(***************************************************************************)
EXTENDS MemoryQueue

CONSTANTS Faults,       \* the kinds of fault the environment may show
          MaxFaults,    \* bound on the number of faults in a behaviour
          NoJob         \* "no job" for a worker or the scheduler

FaultKinds == {"crash", "loss", "timeout", "restart", "interrupt"}

ASSUME DistributedAssumption ==
    /\ Faults \subseteq FaultKinds
    /\ MaxFaults \in Nat
    /\ NoJob \notin Jobs

VARIABLES
    \* DistributedExecutor
    registered,  \* keys of _pending: jobs whose future waits for a report
    active,      \* _active
    future,      \* the Future returned by submit, per job
    \* Runtime.tick
    phase,       \* where the scheduler thread is
    ready,       \* jobs of the level that are still to be submitted
    submitting,  \* the job submit has registered and not yet enqueued
    waiting,     \* the set pending of the loop on futures_wait
    done,        \* the set done it returned, less the jobs already handled
    used,        \* job ids drawn so far
    runLog,      \* the catalog's record of a job, durable
    \* SchedulerServer and the network
    requests,    \* reports on their way to the scheduler
    handlers,    \* threads between two critical sections of a handler
    \* WorkerProcess
    worker,      \* what a worker process is doing
    current,     \* the job it is doing it for
    \* the environment
    faults       \* number of faults so far

executorVars == <<registered, active, future>>
tickVars == <<phase, ready, submitting, waiting, done, used, runLog>>
workerVars == <<worker, current>>
vars == <<queueVars, executorVars, tickVars, requests, handlers, workerVars,
          faults>>

Outcomes == {"ok", "error"}
Phases == {"idle", "levels", "submit", "enqueue", "wait", "commit", "stopped"}
RequestKinds == {"done", "failed"}
HandlerSteps == {"resolve_failed", "set_result", "set_exception"}

Request == [kind : RequestKinds, worker : Workers, job : Jobs]
Handler == [step : HandlerSteps, worker : Workers, job : Jobs]

TypeOK ==
    /\ QueueTypeOK
    /\ registered \subseteq Jobs
    /\ active \in Nat
    /\ future \in [Jobs -> {"none", "waiting", "cancelled"} \cup Outcomes]
    /\ phase \in Phases
    /\ ready \subseteq Jobs
    /\ submitting \in Jobs \cup {NoJob}
    /\ waiting \subseteq Jobs
    /\ done \subseteq Jobs
    /\ used \subseteq Jobs
    /\ runLog \in [Jobs -> {"none", "success", "failed"}]
    /\ requests \subseteq Request
    /\ handlers \subseteq Handler
    /\ worker \in [Workers -> {"idle", "running", "reporting", "crashed"}]
    /\ current \in [Workers -> Jobs \cup {NoJob}]
    /\ \A w \in Workers :
          worker[w] \in {"running", "reporting"} => current[w] \in Jobs
    /\ faults \in 0..MaxFaults

Init ==
    /\ QueueInit
    /\ registered = {}
    /\ active = 0
    /\ future = [j \in Jobs |-> "none"]
    /\ phase = "idle"
    /\ ready = {}
    /\ submitting = NoJob
    /\ waiting = {}
    /\ done = {}
    /\ used = {}
    /\ runLog = [j \in Jobs |-> "none"]
    /\ requests = {}
    /\ handlers = {}
    /\ worker = [w \in Workers |-> "idle"]
    /\ current = [w \in Workers |-> NoJob]
    /\ faults = 0

\* A fault of one of the kinds the instance admits, within the bound.
Fault(kind) ==
    /\ kind \in Faults
    /\ faults < MaxFaults
    /\ faults' = faults + 1

-----------------------------------------------------------------------------
(* Runtime.tick                                                            *)

\* The sweep, once, before the levels.
StartTick ==
    /\ phase = "idle"
    /\ RequeueStale
    /\ phase' = "levels"
    /\ UNCHANGED <<executorVars, ready, submitting, waiting, done, used,
                   runLog, requests, handlers, workerVars, faults>>

\* _ready_steps of the next level that has any.
StartLevel ==
    /\ phase = "levels"
    /\ \E batch \in (SUBSET (Jobs \ used)) \ {{}} :
          /\ ready' = batch
          /\ used' = used \cup batch
    /\ phase' = "submit"
    /\ UNCHANGED <<queueVars, executorVars, submitting, waiting, done, runLog,
                   requests, handlers, workerVars, faults>>

\* No level is left: tick returns and run_forever sleeps.
EndTick ==
    /\ phase = "levels"
    /\ phase' = "idle"
    /\ UNCHANGED <<queueVars, executorVars, ready, submitting, waiting, done,
                   used, runLog, requests, handlers, workerVars, faults>>

\* DistributedExecutor.submit, the part under the executor's lock.
Register(j) ==
    /\ phase = "submit"
    /\ j \in ready
    /\ ready' = ready \ {j}
    /\ submitting' = j
    /\ registered' = registered \cup {j}
    /\ active' = active + 1
    /\ future' = [future EXCEPT ![j] = "waiting"]
    /\ phase' = "enqueue"
    /\ UNCHANGED <<queueVars, waiting, done, used, runLog, requests, handlers,
                   workerVars, faults>>

\* Mutant of EnqueueSubmitted: the level's futures are overwritten, not updated.
EnqueueForgetsFutures ==
    /\ phase = "enqueue"
    /\ Enqueue(submitting)
    /\ submitting' = NoJob
    /\ waiting' = {submitting}
    /\ phase' = IF ready = {} THEN "wait" ELSE "submit"
    /\ UNCHANGED <<executorVars, ready, done, used, runLog, requests, handlers,
                   workerVars, faults>>

\* The rest of submit, after the lock is released.
EnqueueSubmitted ==
    /\ phase = "enqueue"
    /\ Enqueue(submitting)
    /\ submitting' = NoJob
    /\ waiting' = waiting \cup {submitting}
    /\ phase' = IF ready = {} THEN "wait" ELSE "submit"
    /\ UNCHANGED <<executorVars, ready, done, used, runLog, requests, handlers,
                   workerVars, faults>>

\* Mutant of WaitReturns: the futures returned stay in the set waited for.
WaitKeepsPending ==
    /\ phase = "wait"
    /\ done' = {j \in waiting : future[j] \in Outcomes}
    /\ done' # {}
    /\ phase' = "commit"
    /\ UNCHANGED <<queueVars, executorVars, ready, submitting, waiting, used, runLog,
                   requests, handlers, workerVars, faults>>

\* futures_wait(pending, return_when=FIRST_COMPLETED), no timeout.
WaitReturns ==
    /\ phase = "wait"
    /\ done' = {j \in waiting : future[j] \in Outcomes}
    /\ done' # {}
    /\ waiting' = waiting \ done'
    /\ phase' = "commit"
    /\ UNCHANGED <<queueVars, executorVars, ready, submitting, used, runLog,
                   requests, handlers, workerVars, faults>>

\* Mutant of CommitResult: the loop on futures_wait runs once.
CommitWithoutBarrier(j) ==
    /\ phase = "commit"
    /\ j \in done
    /\ done' = done \ {j}
    /\ \E status \in {"success", "failed"} :
          /\ status = "success" => future[j] = "ok"
          /\ runLog' = [runLog EXCEPT ![j] = status]
    /\ phase' = IF done' # {} THEN "commit" ELSE "levels"
    /\ UNCHANGED <<queueVars, executorVars, ready, submitting, waiting, used,
                   requests, handlers, workerVars, faults>>

\* Commit and record one result. The commit of a success may itself fail.
CommitResult(j) ==
    /\ phase = "commit"
    /\ j \in done
    /\ done' = done \ {j}
    /\ \E status \in {"success", "failed"} :
          /\ status = "success" => future[j] = "ok"
          /\ runLog' = [runLog EXCEPT ![j] = status]
    /\ phase' = IF done' # {} THEN "commit"
                ELSE IF waiting # {} THEN "wait"
                ELSE "levels"
    /\ UNCHANGED <<queueVars, executorVars, ready, submitting, waiting, used,
                   requests, handlers, workerVars, faults>>

\* KeyboardInterrupt in run_forever: executor.shutdown(wait=True) cancels and
\* forgets the futures; _active stays as it is.
Interrupt ==
    /\ Fault("interrupt")
    /\ phase # "stopped"
    /\ phase' = "stopped"
    /\ future' = [j \in Jobs |->
                     IF j \in registered THEN "cancelled" ELSE future[j]]
    /\ registered' = {}
    /\ UNCHANGED <<queueVars, active, ready, submitting, waiting, done, used,
                   runLog, requests, handlers, workerVars>>

\* The scheduler process ends, by a crash or after Interrupt, and another one
\* starts: what was in memory, the queue included, and every open connection
\* is gone; the catalog and the workers are not. Whoever was reporting logs the
\* error and polls again.
RestartScheduler ==
    /\ Fault("restart")
    /\ NewQueue
    /\ registered' = {}
    /\ active' = 0
    /\ future' = [j \in Jobs |-> "none"]
    /\ phase' = "idle"
    /\ ready' = {}
    /\ submitting' = NoJob
    /\ waiting' = {}
    /\ done' = {}
    /\ requests' = {}
    /\ handlers' = {}
    /\ worker' = [w \in Workers |->
                     IF worker[w] = "reporting" THEN "idle" ELSE worker[w]]
    /\ current' = [w \in Workers |->
                      IF worker[w] = "reporting" THEN NoJob ELSE current[w]]
    /\ UNCHANGED <<used, runLog>>

-----------------------------------------------------------------------------
(* SchedulerServer: a thread per request, and DistributedExecutor's resolve *)
(* methods, which run in it.                                               *)

\* The worker's POST returns or raises, which makes no difference to what it
\* does next; a worker that gave up on this POST is not affected.
Answer(w, j) ==
    IF worker[w] = "reporting" /\ current[w] = j
    THEN /\ worker' = [worker EXCEPT ![w] = "idle"]
         /\ current' = [current EXCEPT ![w] = NoJob]
    ELSE UNCHANGED workerVars

\* Mutant of PopFuture: _active is decremented before the future is tested.
PopAlwaysCounts(w, j, next, others) ==
    /\ registered' = registered \ {j}
    /\ active' = active - 1
    /\ IF j \in registered
       THEN /\ handlers' = others \cup {[step |-> next, worker |-> w, job |-> j]}
            /\ UNCHANGED workerVars
       ELSE /\ handlers' = others
            /\ Answer(w, j)

\* Mutant of PopFuture: _active is not decremented.
PopNeverCounts(w, j, next, others) ==
    /\ registered' = registered \ {j}
    /\ IF j \in registered
       THEN /\ handlers' = others \cup {[step |-> next, worker |-> w, job |-> j]}
            /\ UNCHANGED workerVars
       ELSE /\ handlers' = others
            /\ Answer(w, j)
    /\ UNCHANGED active

\* Mutant of PopFuture: get instead of pop, the future stays in the table.
PopKeepsFuture(w, j, next, others) ==
    /\ IF j \in registered
       THEN /\ handlers' = others \cup {[step |-> next, worker |-> w, job |-> j]}
            /\ UNCHANGED workerVars
       ELSE /\ handlers' = others
            /\ Answer(w, j)
    /\ UNCHANGED <<registered, active>>

\* Mutant of PopFuture: the future is taken out and not resolved.
PopDropsFuture(w, j, next, others) ==
    /\ registered' = registered \ {j}
    /\ active' = IF j \in registered THEN active - 1 ELSE active
    /\ handlers' = others
    /\ Answer(w, j)

\* resolve_done and resolve_failed under the executor's lock: take the future
\* out of the table and go on to step next with it. Without one, return.
PopFuture(w, j, next, others) ==
    IF j \in registered
    THEN /\ registered' = registered \ {j}
         /\ active' = active - 1
         /\ handlers' = others \cup {[step |-> next, worker |-> w, job |-> j]}
         /\ UNCHANGED workerVars
    ELSE /\ handlers' = others
         /\ Answer(w, j)
         /\ UNCHANGED <<registered, active>>

\* Mutant of HandleDone: the executor is not told.
DoneNotResolved(r) ==
    /\ r \in requests
    /\ r.kind = "done"
    /\ requests' = requests \ {r}
    /\ Answer(r.worker, r.job)
    /\ UNCHANGED <<queueVars, executorVars, tickVars, handlers, faults>>

\* handle_done calls resolve_done, and nothing of the queue.
HandleDone(r) ==
    /\ r \in requests
    /\ r.kind = "done"
    /\ requests' = requests \ {r}
    /\ PopFuture(r.worker, r.job, "set_result", handlers)
    /\ UNCHANGED <<queueVars, future, tickVars, faults>>

\* Mutant of HandleFailed: the queue is told, the executor is not.
FailedNotResolved(r) ==
    /\ r \in requests
    /\ r.kind = "failed"
    /\ requests' = requests \ {r}
    /\ Fail(r.job) \/ (r.job \notin inFlight /\ UNCHANGED queueVars)
    /\ Answer(r.worker, r.job)
    /\ UNCHANGED <<executorVars, tickVars, handlers, faults>>

\* handle_failed, first queue.fail. When that raises, the thread ends there.
HandleFailed(r) ==
    /\ r \in requests
    /\ r.kind = "failed"
    /\ requests' = requests \ {r}
    /\ \/ /\ Fail(r.job)
          /\ handlers' = handlers \cup
                {[step |-> "resolve_failed", worker |-> r.worker, job |-> r.job]}
          /\ UNCHANGED workerVars
       \/ /\ r.job \notin inFlight
          /\ Answer(r.worker, r.job)
          /\ UNCHANGED <<queueVars, handlers>>
    /\ UNCHANGED <<executorVars, tickVars, faults>>

\* handle_failed, then resolve_failed.
ResolveFailed(h) ==
    /\ h \in handlers
    /\ h.step = "resolve_failed"
    /\ PopFuture(h.worker, h.job, "set_exception", handlers \ {h})
    /\ UNCHANGED <<queueVars, future, tickVars, requests, faults>>

\* fut.set_result and fut.set_exception, after the executor's lock is released.
SetOutcome(h) ==
    /\ h \in handlers
    /\ h.step \in {"set_result", "set_exception"}
    /\ handlers' = handlers \ {h}
    /\ future' = [future EXCEPT ![h.job] =
                     IF h.step = "set_result" THEN "ok" ELSE "error"]
    /\ Answer(h.worker, h.job)
    /\ UNCHANGED <<queueVars, registered, active, tickVars, requests, faults>>

-----------------------------------------------------------------------------
(* WorkerProcess. Each process draws a worker id of its own, so a worker    *)
(* that crashed never comes back: its restart is one that has yet to poll. *)

\* _poll and handle_job_next. A 204 changes nothing.
Poll(w) ==
    /\ worker[w] = "idle"
    /\ \E j \in Jobs :
          /\ Claim(w, j)
          /\ current' = [current EXCEPT ![w] = j]
    /\ worker' = [worker EXCEPT ![w] = "running"]
    /\ UNCHANGED <<executorVars, tickVars, requests, handlers, faults>>

\* The job is claimed and the answer that names it does not arrive.
PollAnswerLost(w) ==
    /\ Fault("loss")
    /\ worker[w] = "idle"
    /\ \E j \in Jobs : Claim(w, j)
    /\ UNCHANGED <<executorVars, tickVars, requests, handlers, workerVars>>

\* _HeartbeatThread.run and handle_heartbeat in one action: what a heartbeat
\* that arrives late does, it could have done earlier. A lost one does nothing,
\* nor does the 400 for a job that is not this worker's any more.
SendHeartbeat(w) ==
    /\ worker[w] = "running"
    /\ Heartbeat(w, current[w])
    /\ UNCHANGED <<executorVars, tickVars, requests, handlers, workerVars,
                   faults>>

\* _execute: the step returns a relation or raises (an unknown step, inputs
\* that cannot be read and a result of None included); the worker reports it.
FinishStep(w) ==
    /\ worker[w] = "running"
    /\ \E kind \in {"done", "failed"} :
          requests' = requests \cup
                {[kind |-> kind, worker |-> w, job |-> current[w]]}
    /\ worker' = [worker EXCEPT ![w] = "reporting"]
    /\ UNCHANGED <<queueVars, executorVars, tickVars, handlers, current,
                   faults>>

\* _http_post gives up after its timeout of 10 s; the request goes on.
ReportTimesOut(w) ==
    /\ Fault("timeout")
    /\ worker[w] = "reporting"
    /\ Answer(w, current[w])
    /\ UNCHANGED <<queueVars, executorVars, tickVars, requests, handlers>>

\* The report never reaches the scheduler: run logs the ConnectionError of a
\* done and polls again, _report_failed logs its own. Neither is sent twice.
LoseRequest(r) ==
    /\ Fault("loss")
    /\ r \in requests
    /\ requests' = requests \ {r}
    /\ Answer(r.worker, r.job)
    /\ UNCHANGED <<queueVars, executorVars, tickVars, handlers>>

CrashWorker(w) ==
    /\ Fault("crash")
    /\ worker[w] \in {"idle", "running", "reporting"}
    /\ worker' = [worker EXCEPT ![w] = "crashed"]
    /\ UNCHANGED <<queueVars, executorVars, tickVars, requests, handlers,
                   current>>

-----------------------------------------------------------------------------
SilenceGrows(j) ==
    /\ WindowElapses(j)
    /\ UNCHANGED <<executorVars, tickVars, requests, handlers, workerVars,
                   faults>>

SchedulerStep ==
    \/ StartTick \/ StartLevel \/ EndTick
    \/ EnqueueSubmitted \/ WaitReturns
    \/ \E j \in Jobs : Register(j) \/ CommitResult(j)

Serve(r) == HandleDone(r) \/ HandleFailed(r)

Proceed(h) == ResolveFailed(h) \/ SetOutcome(h)

WorkerStep(w) == Poll(w) \/ FinishStep(w)

Environment ==
    \/ Interrupt \/ RestartScheduler
    \/ \E w \in Workers :
          \/ SendHeartbeat(w) \/ PollAnswerLost(w)
          \/ ReportTimesOut(w) \/ CrashWorker(w)
    \/ \E r \in requests : LoseRequest(r)
    \/ \E j \in Jobs : SilenceGrows(j)

Next ==
    \/ SchedulerStep
    \/ \E r \in requests : Serve(r)
    \/ \E h \in handlers : Proceed(h)
    \/ \E w \in Workers : WorkerStep(w)
    \/ Environment

Spec == Init /\ [][Next]_vars

(* What the operating system and the code's own loops guarantee: the       *)
(* scheduler thread, the threads of the server and the workers keep        *)
(* running, and a step function ends (nothing enforces Step.timeout).      *)
Fairness ==
    /\ WF_vars(SchedulerStep)
    /\ \A r \in Request : WF_vars(Serve(r))
    /\ \A h \in Handler : WF_vars(Proceed(h))
    /\ \A w \in Workers : WF_vars(WorkerStep(w))

FairSpec == Spec /\ Fairness

-----------------------------------------------------------------------------
(* The properties                                                          *)

Resolving(j) ==
    \E h \in handlers : h.job = j /\ h.step \in {"set_result", "set_exception"}

(* No job is lost between the executor's table and the queue. The two have  *)
(* locks of their own, and submit and handle_failed update one after the   *)
(* other; still a job whose future waits for a report is in the queue, or  *)
(* in the hands of a worker, or one of those two is on its way to repair   *)
(* the gap.                                                                *)
NoLostJob ==
    \A j \in registered :
        \/ j \in Queued \cup inFlight
        \/ j = submitting
        \/ \E h \in handlers : h.job = j /\ h.step = "resolve_failed"

(* No wake-up is lost: a future the tick still waits for has its outcome,   *)
(* or can be resolved by a report to come, or by a server thread that has  *)
(* taken it out of the table. Otherwise futures_wait would never return.   *)
NoLostFuture ==
    phase # "stopped" =>
        \A j \in waiting :
            future[j] \in Outcomes \/ j \in registered \/ Resolving(j)

(* The barrier between levels: when the tick is about to choose the next   *)
(* level, no future is open, no server thread is about to resolve one, and *)
(* every job this scheduler has submitted has its run record. So a step    *)
(* never starts before its producers are committed.                       *)
LevelBarrier ==
    phase \in {"idle", "levels"} =>
        /\ registered = {}
        /\ \A j \in Jobs :
              /\ ~Resolving(j)
              /\ future[j] # "none" => runLog[j] # "none"

(* active_count is the number of open futures until shutdown, whatever the *)
(* order in which reports, duplicates and failures come in.                *)
ActiveCountExact == phase # "stopped" => active = Cardinality(registered)

(* A future is resolved once: while the process lives, the late report of  *)
(* a second execution never changes what the first one delivered.          *)
OutcomeFinal ==
    [][\A j \in Jobs :
          future[j] \in Outcomes =>
              future'[j] \in {future[j], "none"}]_vars

(* A job somebody waits for is never handed to a second worker: the sweep  *)
(* runs between ticks, when nothing is awaited. The sweep can therefore    *)
(* not rescue the job of a crashed worker either: see Reclaimed.           *)
AwaitedJobNotRequeued ==
    [][\A j \in inFlight :
          future[j] = "waiting" => j \notin ToSet(pending')]_vars

(* A run record is final: no later report or tick rewrites it.             *)
RecordFinal ==
    [][\A j \in Jobs : runLog[j] # "none" => runLog'[j] = runLog[j]]_vars

TickView == INSTANCE TickContract WITH
    outstanding <- ready \cup waiting \cup done \cup ({submitting} \ {NoJob}),
    launched <- used,
    recorded <- runLog

(* The distributed tick implements TickContract.                           *)
ImplementsTickContract == TickView!ContractSpec

(* Unless there is a fault, every job that is submitted gets its record,    *)
(* though the queue hands finished jobs out again (see DoneJobNotRequeued). *)
EveryJobRecorded ==
    \A j \in Jobs :
        (future[j] = "waiting") ~> (runLog[j] # "none" \/ faults > 0)

(* README.md:220 and worker/process.py:3: the job of a worker that went    *)
(* silent goes back to the queue. The code does it only at the next tick,  *)
(* and there is no next tick while this one waits for that very job.       *)
Reclaimed ==
    \A w \in Workers, j \in Jobs :
        (worker[w] = "crashed" /\ j \in inFlight /\ claimedBy[j] = w
            /\ future[j] = "waiting")
        ~> ~(j \in inFlight /\ claimedBy[j] = w)

(* queue/base.py:34: only "jobs whose worker has gone silent" are requeued, *)
(* not those whose worker has reported done and been answered.             *)
DoneJobNotRequeued ==
    [][\A j \in inFlight :
          future[j] = "ok" /\ worker[claimedBy[j]] # "crashed" =>
              j \notin ToSet(pending')]_vars
=============================================================================
