------------------------------ MODULE S3RunLog ------------------------------
(***************************************************************************)
(* The run log of S3Catalog (conduit_etl/catalog/s3.py): a table in the    *)
(* memory of each process, read from the objects under runs/ when the      *)
(* process opens the catalog, to which every process adds an object for    *)
(* each run it records. The processes are the scheduler, its workers, which*)
(* look up the current snapshot of an input (worker/process.py), and the   *)
(* commands of cli.py. The table src is refreshed by the scheduler, and a  *)
(* job of step out, which reads it, is executed by a worker; a command may *)
(* run either of them itself.                                              *)
(***************************************************************************)
EXTENDS RunLog

CONSTANTS Workers, Commands,
          MaxRuns,      \* bounds: records,
          MaxOpens,     \* starts of a process,
          MaxFailures     \* and requests to S3 that fail

ASSUME S3Assumption ==
    /\ {"scheduler"} \cap (Workers \cup Commands) = {}
    /\ Workers \cap Commands = {}
    /\ {MaxRuns, MaxOpens, MaxFailures} \subseteq Nat

Processes == {"scheduler"} \cup Workers \cup Commands

VARIABLES objects,  \* the records under runs/
          open,     \* the processes that have the catalog open
          memory,   \* Processes -> the table run_records of the process
          unsaved,  \* Processes -> records not yet copied to S3
          job,      \* {} or {the job of out}: src as submitted and as read
          history,  \* every record made; no part of the program, nor are
          missed,   \* those of commands that a scheduler did not load,
          invalid,  \* steps a command invalidated, not run since
          deleted,  \* records that gc reported as deleted
          killed,   \* a process ended before it had saved its record
          opens, failures

s3Vars == <<objects, open, memory, unsaved, job, history, missed, invalid,
          deleted, killed, opens, failures>>

S3Init ==
    /\ objects = {}
    /\ open = {}
    /\ memory = [p \in Processes |-> {}]
    /\ unsaved = [p \in Processes |-> {}]
    /\ job = {}
    /\ history = {} /\ missed = {}
    /\ invalid = {}
    /\ deleted = {}
    /\ killed = FALSE
    /\ opens = 0 /\ failures = 0

\* __init__: _load_existing_runs, which goes on with no records if it fails.
Open(p) ==
    /\ p \notin open /\ opens < MaxOpens
    /\ open' = open \cup {p}
    /\ opens' = opens + 1
    /\ \/ /\ memory' = [memory EXCEPT ![p] = objects]
          /\ UNCHANGED failures
       \/ /\ objects # {} /\ failures < MaxFailures
          /\ memory' = [memory EXCEPT ![p] = {}]
          /\ failures' = failures + 1
    /\ missed' = IF p = "scheduler" THEN UNION {unsaved[c] : c \in Commands}
                 ELSE missed
    /\ UNCHANGED <<objects, unsaved, job, history, invalid, deleted, killed>>

\* close(), or the process ends. Jobs of the scheduler end with it.
Close(p) ==
    /\ p \in open
    /\ open' = open \ {p}
    /\ memory' = [memory EXCEPT ![p] = {}]
    /\ unsaved' = [unsaved EXCEPT ![p] = {}]
    /\ killed' = (killed \/ unsaved[p] # {})
    /\ job' = IF p = "scheduler" THEN {} ELSE job
    /\ UNCHANGED <<objects, history, missed, invalid, deleted, opens, failures>>

\* record_run, up to _persist_run, in process p.
RecordInMemory(p, s, status, in, read) ==
    LET n == Cardinality(history) + 1
        r == [at |-> n, step |-> s, table |-> s, status |-> status,
              snapshot |-> IF status = "success" THEN n ELSE NoSnapshot,
              in |-> in, read |-> read]
    IN  /\ n <= MaxRuns
        /\ p \in open
        /\ unsaved[p] = {}
        /\ memory' = [memory EXCEPT ![p] = @ \cup {r}]
        /\ unsaved' = [unsaved EXCEPT ![p] = {r}]
        /\ history' = history \cup {r}
        /\ missed' = IF p = "scheduler" THEN missed ELSE missed \cup {r}
        /\ invalid' = IF status = "success" THEN invalid \ {s} ELSE invalid
        /\ UNCHANGED <<objects, open, deleted, killed, opens, failures>>

RunSource ==
    /\ job = {}
    /\ \E status \in {"success", "failed"} :
          RecordInMemory("scheduler", "src", status, NoSnapshot, NoSnapshot)
    /\ UNCHANGED job

\* conduit backfill: it runs the step in its own process, on the inputs that
\* this process knows of, and records the run if it succeeds.
Backfill(c, s) ==
    /\ LET in == IF s = "src" THEN NoSnapshot ELSE LatestSnapshot(memory[c], "src")
       IN  /\ s = "out" => in # NoSnapshot
           /\ RecordInMemory(c, s, "success", in, in)
    /\ UNCHANGED job

\* Mutant of Persist: the COPY comes before the INSERT and finds no row.
PersistBeforeInsert(p) ==
    \E r \in unsaved[p] :
        /\ unsaved' = [unsaved EXCEPT ![p] = {}]
        /\ \/ objects' = objects /\ UNCHANGED failures
           \/ failures < MaxFailures /\ failures' = failures + 1 /\ UNCHANGED objects
        /\ UNCHANGED <<open, memory, job, history, missed, invalid, deleted, killed,
                       opens>>

\* _persist_run: a failure is logged and forgotten.
Persist(p) ==
    \E r \in unsaved[p] :
        /\ unsaved' = [unsaved EXCEPT ![p] = {}]
        /\ \/ objects' = objects \cup {r} /\ UNCHANGED failures
           \/ failures < MaxFailures /\ failures' = failures + 1 /\ UNCHANGED objects
        /\ UNCHANGED <<open, memory, job, history, missed, invalid, deleted, killed,
                       opens>>

\* Runtime.tick submits out with the snapshot of its fingerprint.
Submit ==
    /\ "scheduler" \in open /\ job = {} /\ unsaved["scheduler"] = {}
    /\ LatestSnapshot(memory["scheduler"], "src") # NoSnapshot
    /\ LET in == LatestSnapshot(memory["scheduler"], "src")
       IN  /\ \A r \in LastRun(memory["scheduler"], "out") : r.in # in
           /\ job' = {[in |-> in, read |-> NoSnapshot]}
    /\ UNCHANGED <<objects, open, memory, unsaved, history, missed, invalid,
                   deleted, killed, opens, failures>>

\* WorkerProcess._resolve_inputs: both branches read the latest snapshot that
\* the worker knows of. With none there is no argument for the step.
Execute(w) ==
    /\ w \in open
    /\ \E j \in job :
          /\ j.read = NoSnapshot
          /\ LatestSnapshot(memory[w], "src") # NoSnapshot
          /\ job' = {[j EXCEPT !.read = LatestSnapshot(memory[w], "src")]}
    /\ UNCHANGED <<objects, open, memory, unsaved, history, missed, invalid,
                   deleted, killed, opens, failures>>

JobDone ==
    /\ \E j \in job :
          /\ j.read # NoSnapshot
          /\ RecordInMemory("scheduler", "out", "success", j.in, j.read)
    /\ job' = {}

JobFails ==
    /\ \E j \in job : RecordInMemory("scheduler", "out", "failed", j.in, j.read)
    /\ job' = {}

\* conduit invalidate, in a process of its own.
Invalidate(c, s) ==
    /\ c \in open
    /\ LastRun(memory[c], s) # {}
    /\ memory' = [memory EXCEPT ![c] = InvalidateRuns(@, {s})]
    /\ invalid' = invalid \cup {s}
    /\ UNCHANGED <<objects, open, unsaved, job, history, missed, deleted, killed,
                   opens, failures>>

\* conduit gc, in a process of its own: the stale records that it knows of.
Gc(c, cutoff) ==
    LET kept == DeleteOldRuns(memory[c], cutoff)
    IN  /\ c \in open
        /\ kept # memory[c]
        /\ memory' = [memory EXCEPT ![c] = kept]
        /\ deleted' = deleted \cup (memory[c] \ kept)
        /\ UNCHANGED <<objects, open, unsaved, job, history, missed, invalid,
                       killed, opens, failures>>

S3Next ==
    \/ RunSource \/ Submit \/ JobDone \/ JobFails
    \/ \E p \in Processes : Open(p) \/ Close(p) \/ Persist(p)
    \/ \E w \in Workers : Execute(w)
    \/ \E c \in Commands :
          \/ \E s \in {"src", "out"} : Invalidate(c, s) \/ Backfill(c, s)
          \/ \E cutoff \in 1..MaxRuns : Gc(c, cutoff)

S3Spec == S3Init /\ [][S3Next]_s3Vars

-----------------------------------------------------------------------------
(* Properties                                                              *)

\* While no request to S3 failed and no process ended before it had saved its
\* record, an open scheduler has the whole history, restarted or not, but for the
\* runs that a command recorded itself (cli.py:684) and had not saved when the
\* scheduler loaded the objects; a scheduler started later has these as well.
SchedulerSeesHistory ==
    "scheduler" \in open /\ failures = 0 /\ ~killed
    => memory["scheduler"] = history \ missed

\* cli.py:631: backfill commits a new snapshot. An open scheduler finds the record
\* of it, as soon as it is saved.
BackfillIsSeen ==
    "scheduler" \in open /\ failures = 0 => objects \subseteq memory["scheduler"]

\* s3.py: the catalog survives restarts with full run history intact. (A
\* process that ended before it had saved its record is left out.)
HistorySurvives ==
    "scheduler" \in open /\ ~killed => memory["scheduler"] = history \ missed

\* worker/process.py: a worker falls back to the right snapshot by its id. What
\* a record names as input is what the run read.
RecordedInputIsRead ==
    \A r \in history : Succeeded(r) => r.in = r.read

\* cli.py: invalidate forces a step to run on the next tick. A scheduler that
\* opens the catalog after the command finds no success of the step.
InvalidatedIsForgotten ==
    [][\A s \in invalid :
          "scheduler" \in open' \ open => LastRun(memory'["scheduler"], s) = {}]_s3Vars

\* cli.py: gc reports the records that it deleted. A scheduler that opens the
\* catalog after the command does not find them.
DeletedIsGone ==
    [][ "scheduler" \in open' \ open =>
          memory'["scheduler"] \cap deleted = {} ]_s3Vars
=============================================================================
