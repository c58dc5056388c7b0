-------------------------- MODULE PipelineRuntime ---------------------------
(***************************************************************************)
(* Which steps a tick runs, on what data, and what it leaves behind:       *)
(* conduit_etl/core/runtime.py over LocalCatalog and LocalExecutor, with   *)
(* the commands of cli.py that write to the catalog. One process has the   *)
(* catalog open at a time (DuckDB locks its files), so commands run while  *)
(* no tick does. The process may end at any point; what survives is the    *)
(* lake (the versions of the tables) and the run log, and a commit to the  *)
(* one and the record of it in the other are two steps.                    *)
(*                                                                         *)
(* A row is a token <<n, p>>: pulled from outside in tick n, with value p  *)
(* in the partition column. A relation is a bag of rows. A step function   *)
(* hands its input rows on, all of them: what tells two executions apart   *)
(* is the rows they were given. A step writes the table of its own name.   *)
(***************************************************************************)
EXTENDS RunLog

CONSTANTS Pipelines,      \* the pipelines considered, see IsPipeline
          Parts,          \* values of the partition column
          MaxPartitions,  \* Step.max_partitions
          Distributed,    \* the executor is the DistributedExecutor
          MaxTicks,       \* bounds: ticks,
          MaxFaults,      \* failures of a step or commit, ends of the process,
          MaxOps          \* and commands or code changes

\* The fields of models.Step, of a step that reads some of the tables in T;
\* level is its place in execution_order, which Dag is about.
StepDef(T) == [kind : {"source", "step", "sink"},
               inputs : SUBSET T,
               level : Nat \ {0},
               schedule : {"always", "interval", "cron"},
               incremental : BOOLEAN,
               merge : {"replace", "append", "upsert"},
               partitioned : BOOLEAN,
               returns : {"relation", "none"}]

\* A level follows those of the inputs at once, as Dag!LevelsAreTight has it. The
\* decorators of sources and sinks lack some of the options of a step.
IsPipeline(def) ==
    /\ IsFiniteSet(DOMAIN def)
    /\ \A s \in DOMAIN def :
        /\ def[s] \in StepDef(DOMAIN def)
        /\ \A t \in def[s].inputs : def[t].level < def[s].level
        /\ def[s].level > 1 =>
              \E t \in def[s].inputs : def[t].level = def[s].level - 1
        /\ def[s].kind = "source" <=> def[s].inputs = {}
        /\ def[s].kind # "step" =>
              /\ ~def[s].incremental /\ ~def[s].partitioned
              /\ def[s].merge = "replace"

NoPart == 0             \* __partition__ is not in the fingerprint

ASSUME RuntimeAssumption ==
    /\ IsFiniteSet(Parts) /\ NoPart \notin Parts
    /\ \A def \in Pipelines : IsPipeline(def)
    /\ Distributed \in BOOLEAN
    /\ {MaxPartitions, MaxTicks, MaxFaults, MaxOps} \subseteq Nat

VARIABLES Def,      \* the registered steps; no action changes them
          phase,    \* where the process is; "idle" between ticks, or not alive
          level,    \* level of the tick
          due,      \* timed steps whose time has come in this tick
          jobs,     \* futures of the level that are not handled yet
          open,     \* the record of what is committed and not yet recorded
          log,      \* the run log
          lake,     \* Steps -> the writes to the table, oldest first
          version,  \* the latest version of the lake
          code,     \* Steps -> number of times its source was changed
          ticks, faults, ops,
          clean     \* no fault in the last tick, no command or edit since it

vars == <<Def, phase, level, due, jobs, open, log, lake, version, code, ticks,
          faults, ops, clean>>

Steps == DOMAIN Def
Levels == {Def[s].level : s \in Steps}
Rows == (1..MaxTicks) \X Parts
Relation == [Rows -> Nat]

\* The sum of a function to Nat, by counting; and of a function to relations.
Total(f) == Cardinality(UNION {{x} \X (1..f[x]) : x \in DOMAIN f})
SumOf(rels) == [r \in Rows |-> Total([x \in DOMAIN rels |-> rels[x][r]])]

NoRows == [r \in Rows |-> 0]
Partition(rel, p) == [r \in Rows |-> IF r[2] = p THEN rel[r] ELSE 0]
Values(rel) == {r[2] : r \in {r \in Rows : rel[r] > 0}}

-----------------------------------------------------------------------------
(* The lake                                                                *)

\* write_relation_to_lake: replace, append, or delete by key and insert. Does
\* the write w take away what was there of row r?
TakesAway(w, r) ==
    \/ w.merge = "replace"
    \/ w.merge = "upsert" /\ w.rows[r] > 0

\* A table after the writes to it up to version v.
AsOf(writes, v) ==
    [r \in Rows |->
        LET seen == {i \in DOMAIN writes : writes[i].version <= v}
            left == {i \in seen : \A k \in seen :
                        TakesAway(writes[k], r) => k <= i}
        IN  Total([i \in left |-> writes[i].rows[r]])]

\* as_relation(snapshot): AT (VERSION => v).
At(t, v) == AsOf(lake[t], v)

\* new_rows_since(t, v): the inserts after version v, up to the latest version
\* of the lake, since the table was last created.
InsertsSince(t, v) ==
    LET new == {i \in DOMAIN lake[t] :
                   /\ lake[t][i].version > v
                   /\ \A k \in DOMAIN lake[t] :
                         lake[t][k].merge = "replace" => k <= i}
    IN  SumOf([i \in new |-> lake[t][i].rows])

-----------------------------------------------------------------------------
(* Fingerprints and readiness                                              *)

\* compute_fingerprint
Fingerprint(s) ==
    [fn |-> code[s],
     in |-> [t \in Def[s].inputs |-> LatestSnapshot(log, t)],
     part |-> NoPart,
     backfill |-> FALSE]

HasRun(s) == LastRun(log, s) # {}

\* Mutant of IsDue: a step that never succeeded waits for its time, too.
IsDueInTime(s) ==
    \/ Def[s].schedule = "always"
    \/ s \in due

\* Schedule.is_due; the clock decides whether the time of a timed step has come.
IsDue(s) ==
    \/ Def[s].schedule = "always"
    \/ Def[s].schedule = "interval" /\ ~HasRun(s)
    \/ s \in due

FingerprintChanged(s) ==
    \A r \in LastRun(log, s) : r.fp # Fingerprint(s)

\* _ready_steps, for one step of the level.
Ready(s) ==
    /\ IsDue(s)
    /\ \A t \in Def[s].inputs : LatestSnapshot(log, t) # NoSnapshot
    /\ Def[s].kind = "source" \/ FingerprintChanged(s)

\* The snapshot of t that the last success of s has seen.
LastSeen(s, t) == Max({NoSnapshot} \cup {r.fp.in[t] : r \in LastRun(log, s)})

\* Mutant of ResolveInput: the table as it is, not at the recorded snapshot.
ResolveLatestVersion(s, t) ==
    IF Def[s].incremental /\ LastSeen(s, t) # NoSnapshot
    THEN InsertsSince(t, LastSeen(s, t))
    ELSE At(t, version)

\* Mutant of ResolveInput: an incremental step reads everything every time.
ResolveFully(s, t) == At(t, LatestSnapshot(log, t))

\* _resolve_inputs, for one input. new_rows_since is assumed not to raise, as its
\* arguments are a table and a snapshot that exist; the code would go on with the
\* whole snapshot.
ResolveInput(s, t) ==
    IF Def[s].incremental /\ LastSeen(s, t) # NoSnapshot
    THEN InsertsSince(t, LastSeen(s, t))
    ELSE At(t, LatestSnapshot(log, t))

Pulled == [r \in Rows |-> IF r[1] = ticks THEN 1 ELSE 0]

\* What the step function returns: a source pulls, a step hands on its inputs.
Result(s) ==
    IF Def[s].kind = "source" THEN Pulled
    ELSE SumOf([t \in Def[s].inputs |-> ResolveInput(s, t)])

\* The tables a step reads, whole, at their latest snapshots.
WholeInputs(s) == SumOf([t \in Def[s].inputs |-> At(t, LatestSnapshot(log, t))])

\* What the function of a sub-job is given, and returns. DistributedExecutor
\* drops the input relations; the worker reads the latest snapshots, whole. They
\* are the scheduler's here: a worker whose run log is older reads those that it
\* knows of (S3RunLog!Execute).
JobRows(s, p) ==
    IF Distributed /\ Def[s].kind # "source"
    THEN WholeInputs(s)
    ELSE IF p = NoPart THEN Result(s) ELSE Partition(Result(s), p)

Job(s, p) ==
    [step |-> s,
     fp |-> [Fingerprint(s) EXCEPT !.part = p],
     rows |-> JobRows(s, p)]

\* _submit_partitioned takes the values of its first input relation.
PartitionValues(s) ==
    Values(ResolveInput(s, CHOOSE t \in Def[s].inputs : TRUE))

\* Mutant of Fanouts: the slice ends one value early.
FanoutsTruncated(s) ==
    IF Def[s].partitioned
    THEN {P \in SUBSET PartitionValues(s) :
             Cardinality(P) = Min({MaxPartitions - 1,
                                   Cardinality(PartitionValues(s))})}
    ELSE {{NoPart}}

\* The sub-jobs of step s: one, or one for each value, up to max_partitions of
\* them. SELECT DISTINCT has no order, so any of the values may be dropped. A
\* step whose first input lacks the column goes on as one that has none.
Fanouts(s) ==
    IF Def[s].partitioned
    THEN {P \in SUBSET PartitionValues(s) :
             Cardinality(P) = Min({MaxPartitions,
                                   Cardinality(PartitionValues(s))})}
    ELSE {{NoPart}}

-----------------------------------------------------------------------------
(* Runtime.tick                                                            *)

Init ==
    /\ Def \in Pipelines
    /\ phase = "idle"
    /\ level = 0
    /\ due = {}
    /\ jobs = {}
    /\ open = {}
    /\ log = {}
    /\ lake = [s \in Steps |-> <<>>]
    /\ version = 0
    /\ code = [s \in Steps |-> 0]
    /\ ticks = 0 /\ faults = 0 /\ ops = 0
    /\ clean = FALSE

StartTick ==
    /\ phase = "idle"
    /\ ticks < MaxTicks
    /\ ticks' = ticks + 1
    /\ phase' = "level"
    /\ level' = 1
    /\ due' \in SUBSET {s \in Steps : Def[s].schedule # "always"}
    /\ clean' = TRUE
    /\ UNCHANGED <<Def, jobs, open, log, lake, version, code, faults, ops>>

ReadySteps == {s \in Steps : Def[s].level = level /\ Ready(s)}

\* Find the ready steps of the level and submit them all.
RunLevel ==
    /\ phase = "level"
    /\ level \in Levels
    /\ \E fanout \in [ReadySteps -> SUBSET (Parts \cup {NoPart})] :
          /\ \A s \in ReadySteps : fanout[s] \in Fanouts(s)
          /\ jobs' = UNION {{Job(s, p) : p \in fanout[s]} : s \in ReadySteps}
    /\ IF jobs' = {} THEN level' = level + 1 /\ UNCHANGED phase
                     ELSE phase' = "commit" /\ UNCHANGED level
    /\ UNCHANGED <<Def, due, open, log, lake, version, code, ticks, faults, ops,
                   clean>>

EndTick ==
    /\ phase = "level"
    /\ level \notin Levels
    /\ phase' = "idle"
    /\ UNCHANGED <<Def, level, due, jobs, open, log, lake, version, code, ticks,
                   faults, ops, clean>>

\* _record: the record of a job, later than every record of the log (the clock is
\* assumed to have moved on since the last one).
Record(j, status, snapshot, error) ==
    [at |-> 1 + Max({0} \cup {r.at : r \in log}),
     step |-> j.step, table |-> j.step, status |-> status,
     snapshot |-> snapshot, fp |-> j.fp, error |-> error]

\* The loop over the futures goes on, or it is over and the next level's turn.
NextFuture(left) ==
    IF left = {} THEN phase' = "level" /\ level' = level + 1
                 ELSE phase' = "commit" /\ UNCHANGED level

Handled(j) == jobs' = jobs \ {j} /\ NextFuture(jobs')

\* fut.result() raised, or staged_relation or txn.write did: a failed record.
JobFailed(j, error) ==
    /\ phase = "commit"
    /\ log' = log \cup {Record(j, "failed", NoSnapshot, error)}
    /\ Handled(j)
    /\ UNCHANGED <<Def, due, open, lake, version, code, ticks, ops>>

StepRaises(j) ==
    /\ faults < MaxFaults
    /\ faults' = faults + 1
    /\ clean' = FALSE
    /\ JobFailed(j, "raised")

WriteFails(j) ==
    /\ faults < MaxFaults
    /\ faults' = faults + 1
    /\ Def[j.step].returns = "relation"
    /\ clean' = FALSE
    /\ JobFailed(j, "write")

\* LocalExecutor._execute: `step returned None' is an ExecutionError.
ReturnedNone(j) ==
    /\ Def[j.step].returns = "none"
    /\ JobFailed(j, "returned None")
    /\ UNCHANGED <<faults, clean>>

\* The new state of the lake. DuckLake makes a version of each commit; of one
\* that changes nothing it need not.
Commit(s, rows) ==
    LET merge == IF lake[s] = <<>> THEN "replace" ELSE Def[s].merge
    IN  /\ \/ version' = version + 1
           \/ merge # "replace" /\ rows = NoRows /\ version' = version
        /\ lake' = [lake EXCEPT ![s] = Append(@,
                       [version |-> version', merge |-> merge, rows |-> rows])]

\* txn.write and txn.commit. The record of it is the next step.
CommitResult(j) ==
    /\ phase = "commit"
    /\ Def[j.step].returns = "relation"
    /\ Commit(j.step, j.rows)
    /\ open' = {Record(j, "success", version', "")}
    /\ jobs' = jobs \ {j}
    /\ phase' = "record"
    /\ UNCHANGED <<Def, level, due, log, code, ticks, faults, ops, clean>>

\* _record of the committed job, in a tick or in the command backfill.
RecordRun ==
    /\ phase \in {"record", "backfill"}
    /\ log' = log \cup open
    /\ open' = {}
    /\ \/ phase = "backfill" /\ phase' = "idle" /\ UNCHANGED level
       \/ phase = "record" /\ NextFuture(jobs)
    /\ UNCHANGED <<Def, due, jobs, lake, version, code, ticks, faults, ops, clean>>

\* The process ends. So does an error that no handler of tick catches.
Crash ==
    /\ phase # "idle"
    /\ faults < MaxFaults
    /\ faults' = faults + 1
    /\ phase' = "idle"
    /\ jobs' = {}
    /\ open' = {}
    /\ clean' = FALSE
    /\ UNCHANGED <<Def, level, due, log, lake, version, code, ticks, ops>>

-----------------------------------------------------------------------------
(* Commands and code changes, between ticks                                *)

Operation ==
    /\ phase = "idle"
    /\ ops < MaxOps
    /\ ops' = ops + 1
    /\ clean' = FALSE
    /\ UNCHANGED <<Def, level, due, jobs, ticks, faults>>

\* _do_invalidate: the step, with --cascade also all that depend on it.
Dependents(s) ==
    LET After[n \in Nat] ==
            IF n = 0 THEN {s}
            ELSE After[n - 1] \cup
                 {t \in Steps : Def[t].inputs \cap After[n - 1] # {}}
    IN  After[Cardinality(Steps)]

Invalidate(S) ==
    /\ Operation
    /\ log' = InvalidateRuns(log, S)
    /\ UNCHANGED <<phase, open, lake, version, code>>

\* catalog gc: the lake keeps every version.
Gc(cutoff) ==
    /\ Operation
    /\ log' = DeleteOldRuns(log, cutoff)
    /\ UNCHANGED <<phase, open, lake, version, code>>

\* backfill: the step on the current inputs, or on one partition of them.
Backfill(s, p) ==
    LET rows == CASE Def[s].kind = "source" -> Pulled
                  [] Def[s].partitioned -> Partition(WholeInputs(s), p)
                  [] OTHER -> WholeInputs(s)
        job == [step |-> s, fp |-> [Fingerprint(s) EXCEPT !.backfill = TRUE]]
    IN  /\ Operation
        /\ Def[s].returns = "relation"
        /\ \A t \in Def[s].inputs : LatestSnapshot(log, t) # NoSnapshot
        /\ Commit(s, rows)
        /\ open' = {Record(job, "success", version', "")}
        /\ phase' = "backfill"
        /\ UNCHANGED <<log, code>>

\* The source of a step function is another one when the process starts.
EditCode(s) ==
    /\ Operation
    /\ code' = [code EXCEPT ![s] = @ + 1]
    /\ UNCHANGED <<phase, open, log, lake, version>>

TickNext ==
    \/ StartTick \/ RunLevel \/ EndTick \/ RecordRun \/ Crash
    \/ \E j \in jobs : \/ StepRaises(j) \/ WriteFails(j)
                       \/ ReturnedNone(j) \/ CommitResult(j)

Next ==
    \/ TickNext
    \/ \E s \in Steps : \/ Invalidate({s}) \/ Invalidate(Dependents(s))
                        \/ EditCode(s)
                        \/ \E p \in Parts : Backfill(s, p)
    \/ \E cutoff \in {r.at : r \in log} : Gc(cutoff)

Spec == Init /\ [][Next]_vars

-----------------------------------------------------------------------------
(* Properties                                                              *)

Current(t) == At(t, LatestSnapshot(log, t))
Available(s) == \A t \in Def[s].inputs : LatestSnapshot(log, t) # NoSnapshot
Between == phase = "idle" /\ clean

\* When a tick has ended and nothing failed in it, the table of each step that
\* runs whenever its inputs change and replaces its table is what its function
\* makes of the tables it reads, as a reader of the catalog sees both (skip logic over the levels of
\* tick, failures and ends of the process in earlier ticks included).
FreshAfterTick ==
    Between => \A s \in Steps :
        /\ Def[s].kind # "source" /\ Def[s].schedule = "always"
        /\ ~Def[s].incremental /\ ~Def[s].partitioned
        /\ Def[s].merge = "replace" /\ Def[s].returns = "relation"
        /\ Available(s)
        => /\ HasRun(s)
           /\ \A r \in LastRun(log, s) : r.fp.fn = code[s]
           /\ Current(s) = WholeInputs(s)

\* What a recorded run of a step that reads its inputs whole and in one job
\* wrote is what the step makes of the snapshots named in its fingerprint,
\* whatever was committed since: replay (cli.py) and the skip logic rely on it.
WrittenIn(writes, v) ==
    SumOf([i \in {i \in DOMAIN writes : writes[i].version = v} |-> writes[i].rows])

Reproducible(r) ==
    WrittenIn(lake[r.table], r.snapshot)
        = SumOf([t \in Def[r.step].inputs |-> At(t, r.fp.in[t])])

ReplayReproduces ==
    \A r \in log :
        /\ Succeeded(r) /\ Def[r.step].kind # "source"
        /\ ~Def[r.step].incremental /\ ~Def[r.step].partitioned
        => Reproducible(r)

\* A step that has written its table and lost the record of it (its process
\* ended before _record, or invalidate deleted it) has run again when the next
\* tick has ended with no failure. A step with a cron schedule waits for its
\* minute; a partitioned one with no value to fan out over submits nothing.
LostRunsAreRedone ==
    Between => \A s \in Steps :
        lake[s] # <<>> /\ Available(s) /\ Def[s].schedule # "cron"
        /\ {} \notin Fanouts(s)
        => HasRun(s)

\* gc never takes away what a later tick reads: the last success of a step and
\* the latest snapshot of a table.
GcKeepsWhatIsRead ==
    [][(\E cutoff \in {r.at : r \in log} : Gc(cutoff))
        => \A s \in Steps :
              /\ LastRun(log', s) = LastRun(log, s)
              /\ LatestSnapshot(log', s) = LatestSnapshot(log, s)]_vars

\* gc --dry-run shows the records that gc deletes, although each of the two looks
\* for them in its own way (cli.py:817, local.py:319).
DryRunTellsTruth ==
    phase = "idle" => \A cutoff \in {r.at + 1 : r \in log} :
        DeleteOldRuns(log, cutoff) = log \ WouldDelete(log, cutoff)

\* While every commit is in the run log and none is of a backfill, an
\* incremental step that appends has seen no row of the outside twice, whichever
\* runs failed in between and however its inputs are written.
Logged(t) ==
    \A i \in DOMAIN lake[t] :
        \E r \in log \cup open :
            r.table = t /\ r.snapshot = lake[t][i].version

NoRowTwice ==
    /\ \A t \in Steps : Logged(t)
    /\ \A r \in log \cup open : ~r.fp.backfill
    =>
        \A s \in Steps, r \in Rows :
            Def[s].incremental /\ Def[s].merge = "append"
            => At(s, version)[r] <= 1

\* A partitioned step that reads one table and appends has all the rows of it in
\* its own after a tick with no failure, even if only some of its partitions
\* failed in the tick before, as long as max_partitions is not exceeded.
Appends(s) ==
    /\ Def[s].partitioned /\ Def[s].merge = "append"
    /\ Def[s].schedule = "always" /\ Def[s].returns = "relation"
    /\ Cardinality(Def[s].inputs) = 1
    /\ Cardinality(PartitionValues(s)) <= MaxPartitions

AllIn(s) == \A r \in Rows : WholeInputs(s)[r] > 0 => Current(s)[r] > 0

PartitionsComplete ==
    Between => \A s \in Steps : Appends(s) /\ ~Def[s].incremental => AllIn(s)

-----------------------------------------------------------------------------
(* What the docs and comments say and the code does not do: each of these  *)
(* is violated (see the README).                                           *)

\* README:117: a partitioned step fans out over the values of the column; after
\* a tick with no failure its table has all the rows of its input.
AllPartitionsKept ==
    Between => \A s \in Steps :
        Def[s].partitioned /\ HasRun(s) /\ ~Def[s].incremental
        => Current(s) = WholeInputs(s)

\* README:114: an incremental step gets the new rows; those of a partition that
\* failed come with the next tick.
NewPartitionsComplete == Between => \A s \in Steps : Appends(s) => AllIn(s)

\* cli.py:591: replay is deterministic, of incremental steps as well.
ReplayIsDeterministic ==
    \A r \in log :
        /\ Succeeded(r) /\ Def[r.step].kind # "source"
        /\ ~Def[r.step].partitioned
        => Reproducible(r)

\* README: a step whose fingerprint matches the last successful run is skipped.
UnchangedIsSkipped ==
    [][\A j \in jobs' \ jobs :
          Def[j.step].kind # "source" /\ HasRun(j.step)
          => \A r \in LastRun(log, j.step) :
                r.fp.in # j.fp.in \/ r.fp.fn # j.fp.fn]_vars

\* README: the return value of a sink is ignored, so a sink is recorded as
\* failed only when its function raised or its write did.
ReturnIgnored ==
    \A r \in log : r.error # "returned None"
=============================================================================
