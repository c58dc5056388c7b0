------------------------------ MODULE Delivery ------------------------------
(***************************************************************************)
(* A pipeline from one outside system to another: a source, the table that *)
(* it replaces, and a sink that hands the table on (sinks/kafka.py,        *)
(* sinks/postgres.py, sinks/parquet.py), driven by the ticks of            *)
(* core/runtime.py. The source is kafka_batch (sources/kafka.py), or a     *)
(* step function that returns a query of an outside table. A tick runs the *)
(* source, if it is due, and then, if the table is not the one of the      *)
(* sink's last recorded success, the sink. A sink that failed is called    *)
(* again in the next tick. (It returns a relation; one that returns None   *)
(* is in module PipelineRuntime.) With the distributed executor the calls  *)
(* of the sink are made by workers, which survive the scheduler, and a job *)
(* is handed out again after its worker was silent or had finished it.     *)
(*                                                                         *)
(* What the brokers, the outside table and PostgreSQL do is external: each *)
(* message handed to a producer is delivered or reported as failed, and    *)
(* each statement is a transaction of its own.                             *)
(***************************************************************************)
EXTENDS Integers, FiniteSets, FiniteSetsExt, Functions

CONSTANTS Rows,           \* of the outside table, or messages of the topic
          Feeds,          \* the kinds of source considered,
          Kinds,          \* and of sink
          Answers,        \* what the query may return at one time or another
          Keys, KeyOf,    \* what merge_key takes from a row
          Executions,     \* calls of the sink under way at one time
          MaxFaults       \* bound of the faults

ASSUME DeliveryAssumption ==
    /\ MaxFaults \in Nat
    /\ Feeds \subseteq {"kafka", "query"}
    /\ Kinds \subseteq {"kafka", "append", "upsert", "replace", "parquet"}
    /\ Answers \subseteq SUBSET Rows
    /\ KeyOf \in [Rows -> Keys]

MaxCopies == 2            \* a row that is in the target twice or more

VARIABLES Feed, Kind,   \* the source and the sink; no action changes them
          topic,        \* the messages in the topic
          table,        \* the rows of the table of the source
          stale,        \* the table is not that of the sink's last success
          phase,        \* of the tick; "idle" between ticks
          exec,         \* Executions -> where the call of the sink is
          submitted,    \* the sink has been called before
          target,       \* Rows -> copies outside, at most MaxCopies
          recorded,     \* rows of the recorded successes of the sink
          unconfirmed,  \* rows without a report when a flush timed out
          doubled,      \* another call began during the one that the tick
                        \* called last, or after it, or was under way then
          faults

vars == <<Feed, Kind, topic, table, stale, phase, exec, submitted, target,
          recorded, unconfirmed, doubled, faults>>

Idle == [pc |-> "idle", current |-> FALSE, rows |-> {}, pending |-> {},
         errors |-> FALSE]

Init ==
    /\ Feed \in Feeds /\ Kind \in Kinds
    /\ topic = {} /\ table = {}
    /\ stale = FALSE
    /\ phase = "idle"
    /\ exec = [e \in Executions |-> Idle]
    /\ submitted = FALSE
    /\ target = [r \in Rows |-> 0]
    /\ recorded = {} /\ unconfirmed = {}
    /\ doubled = FALSE
    /\ faults = 0

Fault == faults < MaxFaults /\ faults' = faults + 1

\* The producers of the topic.
Arrive(r) ==
    /\ Feed = "kafka"
    /\ r \notin topic
    /\ topic' = topic \cup {r}
    /\ UNCHANGED <<Feed, Kind, table, stale, phase, exec, submitted, target,
                   recorded, unconfirmed, doubled, faults>>

-----------------------------------------------------------------------------
(* The tick and the source                                                 *)

StartTick ==
    /\ phase = "idle"
    /\ phase' = "source"
    /\ UNCHANGED <<Feed, Kind, topic, table, stale, exec, submitted, target,
                   recorded, unconfirmed, doubled, faults>>

\* The tick leaves the source; the table is then `rows'.
SourceStep(rows) ==
    /\ phase = "source"
    /\ phase' = "sink"
    /\ table' = rows
    /\ UNCHANGED <<Feed, Kind, topic, exec, submitted, target, recorded,
                   unconfirmed, doubled>>

SourceNotDue == SourceStep(table) /\ UNCHANGED <<stale, faults>>

\* A step function that returns a query: the rows there are at that time.
Query(rows) ==
    /\ Feed = "query"
    /\ SourceStep(rows)
    /\ stale' = TRUE
    /\ UNCHANGED faults

\* kafka_batch whose first poll returns None, which is a fault when there is a
\* message (the group assigns the partitions later, or to another consumer). Its
\* relation has no rows, and not the columns of the messages.
EmptyBatch ==
    /\ Feed = "kafka"
    /\ IF topic = {} THEN UNCHANGED faults ELSE Fault
    /\ SourceStep({})
    /\ stale' = TRUE

\* kafka_batch with messages deletes the file of its lazy relation before the
\* executor writes that relation to its staging file: the run fails.
MessageBatch ==
    /\ Feed = "kafka"
    /\ topic # {}
    /\ SourceStep(table)
    /\ UNCHANGED <<stale, faults>>

\* The query, or a poll, raises.
SourceFails ==
    /\ Fault
    /\ SourceStep(table)
    /\ UNCHANGED stale

-----------------------------------------------------------------------------
(* The sink                                                                *)

SkipSink ==
    /\ phase = "sink"
    /\ ~stale
    /\ phase' = "idle"
    /\ UNCHANGED <<Feed, Kind, topic, table, stale, exec, submitted, target,
                   recorded, unconfirmed, doubled, faults>>

FirstStep == [kafka |-> "produce", append |-> "insert", upsert |-> "delete",
              replace |-> "replace", parquet |-> "parquet"][Kind]

\* A call of the sink begins; `current' if the tick waits for its result.
Called(e, current) ==
    /\ exec[e] = Idle
    /\ exec' = [exec EXCEPT ![e] = [Idle EXCEPT !.pc = FirstStep,
                                                !.current = current,
                                                !.rows = table]]
    /\ UNCHANGED <<Feed, Kind, topic, table, stale, target, recorded, unconfirmed>>

StartSink(e) ==
    /\ phase = "sink"
    /\ stale
    /\ Called(e, TRUE)
    /\ phase' = "wait"
    /\ submitted' = TRUE
    /\ doubled' = (\E f \in Executions \ {e} : exec[f] # Idle)
    /\ UNCHANGED faults

\* A sweep returns a job to the queue, and a worker claims it again: that of a
\* former tick, which stays claimed when it is finished (worker/server.py:213)
\* or its scheduler has ended, or the one waited for (the sweep is of another
\* scheduler). Counted among the faults to bound it.
Reclaim(e, current) ==
    /\ submitted
    /\ current => phase = "wait"
    /\ Fault
    /\ Called(e, current)
    /\ doubled' = TRUE
    /\ UNCHANGED <<phase, submitted>>

\* A step of call e from pc `from', whose fields are then those of `next'.
Step(e, from, next) ==
    /\ exec[e].pc = from
    /\ exec' = [exec EXCEPT ![e] = next]
    /\ UNCHANGED <<Feed, Kind, topic, table, stale, phase, submitted, recorded,
                   doubled>>

Goto(e, pc) == [exec[e] EXCEPT !.pc = pc]

Copies(n) == Min({n, MaxCopies})

\* write_kafka: all rows are handed to the producer ...
Produce(e) ==
    /\ Step(e, "produce", [Goto(e, "flush") EXCEPT !.pending = exec[e].rows])
    /\ UNCHANGED <<target, unconfirmed, faults>>

\* ... unless a serializer or a full buffer stops the loop; then some of the rows
\* may have been handed over, and be delivered ...
ProduceRaises(e, sent) ==
    /\ Fault
    /\ sent \subseteq exec[e].rows
    /\ Step(e, "produce", Goto(e, "failed"))
    /\ target' = [r \in Rows |-> IF r \in sent THEN Copies(target[r] + 1)
                                 ELSE target[r]]
    /\ UNCHANGED unconfirmed

\* ... and whose thread delivers each of them, or reports that it could not, ...
Deliver(e, r) ==
    /\ r \in exec[e].pending
    /\ Step(e, "flush", [exec[e] EXCEPT !.pending = @ \ {r}])
    /\ target' = [target EXCEPT ![r] = Copies(@ + 1)]
    /\ UNCHANGED <<unconfirmed, faults>>

ReportError(e, r) ==
    /\ r \in exec[e].pending
    /\ Fault
    /\ Step(e, "flush", [exec[e] EXCEPT !.pending = @ \ {r}, !.errors = TRUE])
    /\ UNCHANGED <<target, unconfirmed>>

\* Mutant of Flush: the errors of the delivery reports are not raised.
FlushIgnoresErrors(e) ==
    /\ IF exec[e].pending = {} THEN UNCHANGED faults ELSE Fault
    /\ Step(e, "flush", Goto(e, "done"))
    /\ unconfirmed' = unconfirmed \cup exec[e].pending
    /\ UNCHANGED target

\* ... and flush waits for the reports, at most flush_timeout; what it returns
\* is not looked at.
Flush(e) ==
    /\ IF exec[e].pending = {} THEN UNCHANGED faults ELSE Fault
    /\ Step(e, "flush", Goto(e, IF exec[e].errors THEN "failed" ELSE "done"))
    /\ unconfirmed' = unconfirmed \cup exec[e].pending
    /\ UNCHANGED target

\* The empty batch of Kafka has not the columns of the messages.
OtherColumns == Feed = "kafka"

\* Mutant of Delete: rows that are equal are deleted, not rows of one key.
DeleteEqual(e) ==
    /\ Step(e, "delete", Goto(e, "insert"))
    /\ ~OtherColumns
    /\ target' = [r \in Rows |-> IF r \in exec[e].rows THEN 0 ELSE target[r]]
    /\ UNCHANGED <<unconfirmed, faults>>

\* write_postgres, upsert: DELETE USING the staged rows, then INSERT.
Delete(e) ==
    /\ Step(e, "delete", Goto(e, "insert"))
    /\ ~OtherColumns
    /\ target' = [r \in Rows |->
                     IF \E s \in exec[e].rows : KeyOf[s] = KeyOf[r]
                     THEN 0 ELSE target[r]]
    /\ UNCHANGED <<unconfirmed, faults>>

Insert(e) ==
    /\ Step(e, "insert", Goto(e, "done"))
    /\ ~OtherColumns
    /\ target' = [r \in Rows |-> IF r \in exec[e].rows
                                 THEN Copies(target[r] + 1) ELSE target[r]]
    /\ UNCHANGED <<unconfirmed, faults>>

\* DELETE and INSERT raise.
ColumnsDiffer(e) ==
    /\ OtherColumns
    /\ \E pc \in {"delete", "insert"} : Step(e, pc, Goto(e, "failed"))
    /\ UNCHANGED <<target, unconfirmed, faults>>

Contents(rows) == [r \in Rows |-> IF r \in rows THEN 1 ELSE 0]

\* CREATE OR REPLACE TABLE ... AS SELECT
Replace(e) ==
    /\ Step(e, "replace", Goto(e, "done"))
    /\ target' = Contents(exec[e].rows)
    /\ UNCHANGED <<unconfirmed, faults>>

\* write_parquet, with overwrite
WriteParquet(e) ==
    /\ Step(e, "parquet", Goto(e, "done"))
    /\ target' = Contents(exec[e].rows)
    /\ UNCHANGED <<unconfirmed, faults>>

\* A statement or the file system raises; or what comes after them: the
\* count of the rows, or the staging of what the step function returns.
Raise(e) ==
    /\ Fault
    /\ \E pc \in {"delete", "insert", "replace", "parquet", "done"} :
          Step(e, pc, Goto(e, "failed"))
    /\ UNCHANGED <<target, unconfirmed>>

\* The first result of a job is recorded, and a late one is not looked at; `last'
\* if the run is now the one that the sink's next fingerprint is compared with.
Recorded(e, last) ==
    /\ exec[e].pc \in {"done", "failed"}
    /\ IF exec[e].current
       THEN /\ phase' = "idle"
            /\ exec' = [f \in Executions |->
                           IF f = e THEN Idle
                           ELSE [exec[f] EXCEPT !.current = FALSE]]
            /\ stale' = ~last
            /\ recorded' = IF exec[e].pc = "done"
                           THEN recorded \cup exec[e].rows ELSE recorded
       ELSE /\ exec' = [exec EXCEPT ![e] = Idle]
            /\ UNCHANGED <<phase, stale, recorded>>
    /\ UNCHANGED <<Feed, Kind, topic, table, submitted, target, unconfirmed,
                   doubled, faults>>


\* It is compared with the last success.
Report(e) == Recorded(e, exec[e].pc = "done")

\* The scheduler ends; with it those calls that are not made by other processes,
\* and nobody waits for the result of the rest.
Crash(alive) ==
    /\ phase # "idle"
    /\ Fault
    /\ phase' = "idle"
    /\ exec' = [e \in Executions |->
                   IF e \in alive THEN [exec[e] EXCEPT !.current = FALSE]
                   ELSE Idle]
    /\ UNCHANGED <<Feed, Kind, topic, table, stale, submitted, target, recorded,
                   unconfirmed, doubled>>

SinkStep(e) ==
    \/ StartSink(e) \/ Produce(e) \/ Flush(e) \/ Delete(e) \/ Insert(e)
    \/ ColumnsDiffer(e) \/ Replace(e) \/ WriteParquet(e) \/ Report(e)
    \/ \E r \in Rows : Deliver(e, r) \/ ReportError(e, r)

SourceRuns == EmptyBatch \/ MessageBatch \/ \E rows \in Answers : Query(rows)

Tick ==
    \/ StartTick \/ SourceRuns \/ SourceNotDue \/ SkipSink
    \/ \E e \in Executions : SinkStep(e)

Next ==
    \/ Tick
    \/ \E r \in Rows : Arrive(r)
    \/ SourceFails
    \/ \E alive \in SUBSET Executions : Crash(alive)
    \/ \E e \in Executions :
          \/ \E current \in BOOLEAN : Reclaim(e, current)
          \/ Raise(e)
          \/ \E sent \in SUBSET Rows : ProduceRaises(e, sent)

\* The scheduler runs on, ticks forever, and is started again when it ended; a
\* producer delivers or reports each message.
Spec == Init /\ [][Next]_vars /\ WF_vars(Tick)

\* The source comes due again and again, too.
FairSpec == Spec /\ SF_vars(SourceRuns)

-----------------------------------------------------------------------------
(* Properties                                                              *)

\* A row of a recorded run of a sink that only adds is outside, whichever calls
\* failed, were repeated or ended in the middle; but for rows that had no report
\* when a flush timed out (sinks/kafka.py:81-84).
RecordedMeansPublished ==
    Kind \in {"kafka", "append"} =>
        \A r \in recorded \ unconfirmed : target[r] >= 1

\* After a recorded upsert the rows outside, of the keys of its input, are the
\* rows of its input, each once, although DELETE and INSERT are two transactions
\* and earlier runs ended between them (sinks/postgres.py:66-74); as long as no
\* other call overlapped the recorded one or came after it.
UpsertConverges ==
    Kind = "upsert" /\ ~doubled /\ ~stale =>
        \A r \in Rows :
            KeyOf[r] \in {KeyOf[s] : s \in table}
            => target[r] = IF r \in table THEN 1 ELSE 0


-----------------------------------------------------------------------------
(* What the docs and comments say and the code does not do: each of these  *)
(* is violated (see the README).                                           *)

\* sources/kafka.py:46: consume up to max_messages and return them as a relation:
\* a message gets outside, if the source comes due again and again. No batch with
\* a message does, as its file is deleted before it is read (kafka.py:97-102).
EveryMessageDelivered ==
    \A r \in Rows : r \in topic ~> target[r] >= 1

\* sinks/kafka.py:48: publish all rows; a recorded success means published.
AllRowsPublished ==
    Kind = "kafka" => \A r \in recorded : target[r] >= 1

\* sources/kafka.py:50: an empty relation if no messages are available.
EmptyMeansNoneAvailable == [][EmptyBatch => topic = {}]_vars

\* sinks/postgres.py:1: upsert; when no call is under way a key has the rows of
\* the last recorded run only, also if a job was executed twice.
UpsertIsExact ==
    /\ Kind = "upsert" /\ ~stale
    /\ \A e \in Executions : exec[e] = Idle
    => \A r \in Rows :
           KeyOf[r] \in {KeyOf[s] : s \in table}
           => target[r] = IF r \in table THEN 1 ELSE 0

\* sinks/postgres.py:1: a key that an upsert has put into the target is still
\* there after every later recorded run.
UpsertLosesNothing ==
    Kind = "upsert" /\ ~stale =>
        \A r \in recorded : \E s \in Rows :
            KeyOf[s] = KeyOf[r] /\ target[s] >= 1
=============================================================================
