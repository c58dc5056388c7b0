------------------------------- MODULE RunLog -------------------------------
(***************************************************************************)
(* The run log of a catalog (conduit_etl/catalog/local.py, the methods on  *)
(* runs.run_records), as operators on the table: a set of records. It      *)
(* answers both of the runtime's questions: when a step last succeeded,    *)
(* and which version of a table is the current one.                        *)
(*                                                                         *)
(* A record has at least the fields at (finished_at), step, table, status  *)
(* and snapshot, a version of the lake.                                    *)
(***************************************************************************)
EXTENDS Integers, Sequences, FiniteSets, FiniteSetsExt

NoSnapshot == 0     \* snapshot_id = None; versions start at 1

Succeeded(r) == r.status = "success"

\* ORDER BY finished_at DESC LIMIT 1: the set of one record, or of none.
Newest(S) == {r \in S : \A q \in S : q.at <= r.at}

\* Mutant of LastRun: only_success is left at its default.
LastRunAny(log, s) == Newest({r \in log : r.step = s})

\* last_run(step, only_success=True); the empty set for None.
LastRun(log, s) == Newest({r \in log : r.step = s /\ Succeeded(r)})

\* The records that are snapshots of table t.
Snapshots(log, t) ==
    {r \in log : r.table = t /\ Succeeded(r) /\ r.snapshot # NoSnapshot}

\* latest_snapshot(table).id
LatestSnapshot(log, t) ==
    IF Snapshots(log, t) = {} THEN NoSnapshot
    ELSE (CHOOSE r \in Newest(Snapshots(log, t)) : TRUE).snapshot

\* invalidate_runs: every success of these steps, not only the last one.
InvalidateRuns(log, S) == {r \in log : ~(r.step \in S /\ Succeeded(r))}

\* Mutant of DeleteOldRuns: the order of the inner SELECT is ASC.
DeleteKeepingOldest(log, cutoff) ==
    {r \in log : ~( /\ r \in Snapshots(log, r.table)
                    /\ r.at < cutoff
                    /\ \E q \in Snapshots(log, r.table) :
                          q.at < r.at /\ q.snapshot # r.snapshot)}

\* delete_old_runs(cutoff), keep_latest_per_table=True as every caller has it.
DeleteOldRuns(log, cutoff) ==
    {r \in log : ~( /\ r \in Snapshots(log, r.table)
                    /\ r.at < cutoff
                    /\ r.snapshot # LatestSnapshot(log, r.table))}

\* The rows before r in run_log(): ORDER BY finished_at DESC.
RowsBefore(log, r) == Cardinality({q \in log : q.at > r.at})

\* Mutant of WouldDelete: the latest snapshot of a table counts as stale, too.
WouldDeleteLatest(log, cutoff) ==
    {r \in log : r \in Snapshots(log, r.table) /\ r.at < cutoff}

\* gc --dry-run: cli.py looks for the stale records itself, in the rows of
\* run_log(); the first row of a table that it meets has the latest snapshot.
WouldDelete(log, cutoff) ==
    LET FirstRow(t) == Min({RowsBefore(log, r) : r \in Snapshots(log, t)})
    IN  {r \in log :
            /\ r \in Snapshots(log, r.table)
            /\ r.at < cutoff
            /\ \E q \in Snapshots(log, r.table) :
                  /\ RowsBefore(log, q) = FirstRow(r.table)
                  /\ q.snapshot # r.snapshot}
=============================================================================
