---------------------------- MODULE MemoryQueue -----------------------------
(***************************************************************************)
(* conduit_etl/queue/memory.py: the in-process, thread-safe queue.         *)
(*                                                                         *)
(* Every method body runs under self._lock, so each is one action. Time is *)
(* abstracted to what requeue_stale asks of it: a job's last heartbeat is  *)
(* "fresh" until the heartbeat window elapses without another, "stale"     *)
(* from then on, and "none" when _heartbeats has no entry for the job.     *)
(***************************************************************************)
EXTENDS SequencesExt, Integers

CONSTANTS Jobs, Workers, NoWorker

ASSUME MemoryQueueAssumption ==
    /\ NoWorker \notin Workers
    /\ IsFiniteSet(Jobs)

VARIABLES pending,     \* _pending: deque of claimable jobs, oldest first
          inFlight,    \* keys of _in_flight
          claimedBy,   \* claimed_by of the Jobs in _in_flight
          heartbeats,  \* _heartbeats, as "none", "fresh" or "stale"
          results,     \* keys of _results
          failures     \* keys of _failures

queueVars == <<pending, inFlight, claimedBy, heartbeats, results, failures>>

Queued == ToSet(pending)

QueueTypeOK ==
    /\ pending \in Seq(Jobs)
    /\ inFlight \subseteq Jobs
    /\ claimedBy \in [Jobs -> Workers \cup {NoWorker}]
    /\ heartbeats \in [Jobs -> {"none", "fresh", "stale"}]
    /\ results \subseteq Jobs
    /\ failures \subseteq Jobs

QueueInit ==
    /\ pending = <<>>
    /\ inFlight = {}
    /\ claimedBy = [j \in Jobs |-> NoWorker]
    /\ heartbeats = [j \in Jobs |-> "none"]
    /\ results = {}
    /\ failures = {}

-----------------------------------------------------------------------------
(* The methods. A call that returns None or raises QueueError changes no   *)
(* state; callers that go on after it test its condition themselves.       *)

Enqueue(j) ==
    /\ pending' = Append(pending, j)
    /\ UNCHANGED <<inFlight, claimedBy, heartbeats, results, failures>>

\* Mutant of Claim: pop() instead of popleft().
ClaimNewest(w, j) ==
    /\ pending # <<>>
    /\ j = Last(pending)
    /\ pending' = Front(pending)
    /\ claimedBy' = [claimedBy EXCEPT ![j] = w]
    /\ inFlight' = inFlight \cup {j}
    /\ heartbeats' = [heartbeats EXCEPT ![j] = "fresh"]
    /\ UNCHANGED <<results, failures>>

Claim(w, j) ==
    /\ pending # <<>>
    /\ j = Head(pending)
    /\ pending' = Tail(pending)
    /\ claimedBy' = [claimedBy EXCEPT ![j] = w]
    /\ inFlight' = inFlight \cup {j}
    /\ heartbeats' = [heartbeats EXCEPT ![j] = "fresh"]
    /\ UNCHANGED <<results, failures>>

\* Raises for a job that is not in flight and for a worker that lost it.
Heartbeat(w, j) ==
    /\ j \in inFlight
    /\ claimedBy[j] = w
    /\ heartbeats' = [heartbeats EXCEPT ![j] = "fresh"]
    /\ UNCHANGED <<pending, inFlight, claimedBy, results, failures>>

Complete(j) ==
    /\ j \in inFlight
    /\ inFlight' = inFlight \ {j}
    /\ heartbeats' = [heartbeats EXCEPT ![j] = "none"]
    /\ claimedBy' = [claimedBy EXCEPT ![j] = NoWorker]
    /\ results' = results \cup {j}
    /\ UNCHANGED <<pending, failures>>

\* Mutant of Fail: the job's entry stays in _heartbeats.
FailKeepsHeartbeat(j) ==
    /\ j \in inFlight
    /\ inFlight' = inFlight \ {j}
    /\ claimedBy' = [claimedBy EXCEPT ![j] = NoWorker]
    /\ failures' = failures \cup {j}
    /\ UNCHANGED <<pending, heartbeats, results>>

\* Whoever reports the failure: the claim's owner is not compared.
Fail(j) ==
    /\ j \in inFlight
    /\ inFlight' = inFlight \ {j}
    /\ heartbeats' = [heartbeats EXCEPT ![j] = "none"]
    /\ claimedBy' = [claimedBy EXCEPT ![j] = NoWorker]
    /\ failures' = failures \cup {j}
    /\ UNCHANGED <<pending, results>>

Stale == {j \in inFlight : heartbeats[j] = "stale"}

\* Mutant of RequeueStale: claimed_by is not reset.
RequeueKeepsOwner ==
    /\ \E order \in Bijection(1..Cardinality(Stale), Stale) :
          pending' = pending \o order
    /\ inFlight' = inFlight \ Stale
    /\ heartbeats' = [j \in Jobs |-> IF j \in Stale THEN "none" ELSE heartbeats[j]]
    /\ UNCHANGED <<claimedBy, results, failures>>

\* The stale jobs go to the back of the queue in the order of the dict
\* _heartbeats, which is left open here: any order of the stale jobs.
RequeueStale ==
    /\ \E order \in Bijection(1..Cardinality(Stale), Stale) :
          pending' = pending \o order
    /\ inFlight' = inFlight \ Stale
    /\ claimedBy' = [j \in Jobs |-> IF j \in Stale THEN NoWorker ELSE claimedBy[j]]
    /\ heartbeats' = [j \in Jobs |-> IF j \in Stale THEN "none" ELSE heartbeats[j]]
    /\ UNCHANGED <<results, failures>>

\* The clock: no heartbeat for job j arrived within the window.
WindowElapses(j) ==
    /\ heartbeats[j] = "fresh"
    /\ heartbeats' = [heartbeats EXCEPT ![j] = "stale"]
    /\ UNCHANGED <<pending, inFlight, claimedBy, results, failures>>

\* __init__ in the process that replaces this one: nothing was persisted.
NewQueue ==
    /\ pending' = <<>>
    /\ inFlight' = {}
    /\ claimedBy' = [j \in Jobs |-> NoWorker]
    /\ heartbeats' = [j \in Jobs |-> "none"]
    /\ results' = {}
    /\ failures' = {}

-----------------------------------------------------------------------------
(* The queue under any caller that enqueues each job id once (uuid4).      *)

Known == Queued \cup inFlight \cup results \cup failures

QueueNext ==
    \/ \E j \in Jobs :
          \/ j \notin Known /\ Enqueue(j)
          \/ Complete(j)
          \/ Fail(j)
          \/ WindowElapses(j)
    \/ \E w \in Workers, j \in Jobs : Claim(w, j) \/ Heartbeat(w, j)
    \/ RequeueStale

QueueSpec == QueueInit /\ [][QueueNext]_queueVars

-----------------------------------------------------------------------------
(* A job is in one place: at most once in _pending, and then neither in    *)
(* flight nor settled. _heartbeats and _in_flight have the same keys, so   *)
(* that the sweep of requeue_stale, which walks the first, misses no job   *)
(* of the second; and the jobs in flight are those that have an owner.     *)
QueueExclusive ==
    /\ IsInjective(pending)
    /\ Queued \cap inFlight = {}
    /\ (Queued \cup inFlight) \cap (results \cup failures) = {}
    /\ \A j \in Jobs : j \in inFlight <=> heartbeats[j] # "none"
    /\ \A j \in Jobs : j \in inFlight <=> claimedBy[j] # NoWorker

(* First in, first out across claims and sweeps: a job leaves _pending     *)
(* only after every job that was ahead of it.                              *)
NoOvertaking ==
    [][\A i, k \in DOMAIN pending :
          i < k /\ pending[k] \notin ToSet(pending') =>
              pending[i] \notin ToSet(pending')]_queueVars

-----------------------------------------------------------------------------
(* MemoryQueue implements the contract of QueueBackend.                    *)
AbstractStatus(j) ==
    IF j \in results \cup failures THEN "settled"
    ELSE IF j \in inFlight THEN "claimed"
    ELSE IF j \in Queued THEN "pending"
    ELSE "unknown"

Contract == INSTANCE JobQueue WITH
    status <- [j \in Jobs |-> AbstractStatus(j)],
    owner <- claimedBy

(* The contract of queue/base.py, step by step: see JobQueue.              *)
ImplementsJobQueue == Contract!JobQueueSpec
=============================================================================
