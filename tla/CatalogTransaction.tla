------------------------- MODULE CatalogTransaction -------------------------
(***************************************************************************)
(* The transactions of a catalog (conduit_etl/catalog/base.py and local.py;*)
(* s3.py has the same code): one DuckDB connection, shared by the threads  *)
(* of the process, and one lock. A transaction holds the lock from begin   *)
(* to the end of the `with' block, in which it writes one relation into    *)
(* the table (module LakeWrite); record_run takes it for one INSERT on the *)
(* same connection. Every call into DuckDB may raise.                      *)
(*                                                                         *)
(* What DuckDB does is external: a commit that raises has ended the        *)
(* transaction, and rollback raises when there is none. The methods that   *)
(* read take no lock, and change nothing; they are left out.               *)
(***************************************************************************)
EXTENDS LakeWrite

CONSTANTS Threads,
          None,
          Relations,    \* the relations that may be written
          MaxCalls,     \* bounds: calls of transaction and record_run,
          MaxFaults     \* and calls into DuckDB that raise

ASSUME CatalogAssumption ==
    /\ None \notin Threads
    /\ \A rel \in Relations : IsRelation(rel)
    /\ MaxCalls \in Nat /\ MaxFaults \in Nat

VARIABLES pc,           \* Threads -> where it is; "out" of any block
          lock,         \* the thread that holds _lock
          active,       \* the connection has a transaction
          rel,          \* Threads -> the relation its last call writes
          table,        \* the table, as committed,
          work,         \* and as the open transaction sees it
          version,      \* the latest version of the lake
          made,         \* Threads -> the version its last commit made
          ids,          \* Threads -> the id its last Snapshot was given
          log,          \* number of rows in run_records,
          txLog,        \* of rows the open transaction inserted there,
          inserted,     \* and of INSERTs that returned
          calls, faults

vars == <<pc, lock, active, rel, table, work, version, made, ids, log, txLog,
          inserted, calls, faults>>

Init ==
    /\ pc = [t \in Threads |-> "out"]
    /\ lock = None
    /\ active = FALSE
    /\ rel = [t \in Threads |-> None]
    /\ table = NoTable /\ work = NoTable
    /\ version = 0
    /\ made = [t \in Threads |-> 0]
    /\ ids = [t \in Threads |-> 0]
    /\ log = 0 /\ txLog = 0 /\ inserted = 0
    /\ calls = 0 /\ faults = 0

At(t, here, next) == pc[t] = here /\ pc' = [pc EXCEPT ![t] = next]

Call(t, next) ==
    /\ At(t, "out", next)
    /\ calls < MaxCalls
    /\ calls' = calls + 1

Raise == faults < MaxFaults /\ faults' = faults + 1

\* transaction(): the lock, then con.begin(), which raises inside another one.
Transaction(t, r) ==
    /\ Call(t, "begin")
    /\ lock = None
    /\ lock' = t
    /\ rel' = [rel EXCEPT ![t] = [merge |-> r.merge, cols |-> r.cols,
                                 keys |-> r.keys, by |-> calls']]
    /\ UNCHANGED <<active, table, work, version, made, ids, log, txLog, inserted,
                   faults>>

Begin(t) ==
    /\ At(t, "begin", "write")
    /\ ~active
    /\ active' = TRUE
    /\ work' = table
    /\ UNCHANGED <<lock, rel, table, version, made, ids, log, txLog, inserted,
                   calls, faults>>

BeginRaises(t) ==
    /\ At(t, "begin", "out")
    /\ IF active THEN UNCHANGED faults ELSE Raise
    /\ lock' = None
    /\ UNCHANGED <<active, rel, table, work, version, made, ids, log, txLog,
                   inserted, calls>>

\* write(): the relation is staged, then one statement, or the two of an upsert.
Write(t) ==
    /\ At(t, "write", "commit")
    /\ ~Upserts(work, rel[t])
    /\ work' = Written(work, rel[t])
    /\ UNCHANGED <<lock, active, rel, table, version, made, ids, log, txLog,
                   inserted, calls, faults>>

UpsertDelete(t) ==
    /\ At(t, "write", "insert")
    /\ Upserts(work, rel[t]) /\ DeleteBinds(work, rel[t])
    /\ work' = DeleteMatching(work, rel[t])
    /\ UNCHANGED <<lock, active, rel, table, version, made, ids, log, txLog,
                   inserted, calls, faults>>

UpsertInsert(t) ==
    /\ At(t, "insert", "commit")
    /\ InsertBinds(work, rel[t])
    /\ work' = InsertByPosition(work, rel[t])
    /\ UNCHANGED <<lock, active, rel, table, version, made, ids, log, txLog,
                   inserted, calls, faults>>

ColumnsDoNotBind(t) ==
    /\ \/ /\ At(t, "write", "exit")
          /\ Upserts(work, rel[t]) /\ ~DeleteBinds(work, rel[t])
       \/ At(t, "insert", "exit") /\ ~InsertBinds(work, rel[t])
    /\ UNCHANGED <<lock, active, rel, table, work, version, made, ids, log, txLog,
                   inserted, calls, faults>>

\* Mutant of WriteRaises: what the statements raise does not leave write().
WriteSwallows(t) ==
    /\ \/ At(t, "write", "commit") \/ At(t, "insert", "commit")
       \/ At(t, "commit", "commit")
    /\ Raise
    /\ UNCHANGED <<lock, active, rel, table, work, version, made, ids, log, txLog,
                   inserted, calls>>

\* A statement raises, or what write() does before and after them.
WriteRaises(t) ==
    /\ \/ At(t, "write", "exit") \/ At(t, "insert", "exit")
       \/ At(t, "commit", "exit")
    /\ Raise
    /\ UNCHANGED <<lock, active, rel, table, work, version, made, ids, log, txLog,
                   inserted, calls>>

\* Mutant of ConCommit: the lock is released before the version is asked for.
CommitReleases(t) ==
    /\ At(t, "commit", "assign")
    /\ active' = FALSE
    /\ table' = work
    /\ version' = version + 1
    /\ made' = [made EXCEPT ![t] = version']
    /\ log' = log + txLog
    /\ txLog' = 0
    /\ lock' = None
    /\ UNCHANGED <<rel, work, ids, inserted, calls, faults>>

\* commit(): con.commit(), then SELECT max(snapshot_id) and the lock.
ConCommit(t) ==
    /\ At(t, "commit", "assign")
    /\ active' = FALSE
    /\ table' = work
    /\ version' = version + 1
    /\ made' = [made EXCEPT ![t] = version']
    /\ log' = log + txLog
    /\ txLog' = 0
    /\ UNCHANGED <<lock, rel, work, ids, inserted, calls, faults>>

ConCommitRaises(t) ==
    /\ At(t, "commit", "exit")
    /\ Raise
    /\ active' = FALSE
    /\ txLog' = 0
    /\ UNCHANGED <<lock, rel, table, work, version, made, ids, log, inserted,
                   calls>>

AssignIds(t) ==
    /\ At(t, "assign", "out")
    /\ ids' = [ids EXCEPT ![t] = version]
    /\ lock' = None
    /\ UNCHANGED <<active, rel, table, work, version, made, log, txLog, inserted,
                   calls, faults>>

AssignRaises(t) ==
    /\ At(t, "assign", "exit")
    /\ Raise
    /\ UNCHANGED <<lock, active, rel, table, work, version, made, ids, log, txLog,
                   inserted, calls>>

\* __exit__ of a transaction that is not closed: rollback(), which releases the
\* lock after con.rollback() has returned.
Exit(t) ==
    /\ At(t, "exit", "out")
    /\ active' = FALSE
    /\ work' = table
    /\ txLog' = 0
    /\ lock' = IF active THEN None ELSE lock
    /\ UNCHANGED <<rel, table, version, made, ids, log, inserted, calls, faults>>

\* Mutant of RecordRun: it does not wait for the lock.
RecordUnlocked(t) ==
    /\ Call(t, "out")
    /\ inserted' = inserted + 1
    /\ IF active THEN txLog' = txLog + 1 /\ UNCHANGED log
                 ELSE log' = log + 1 /\ UNCHANGED txLog
    /\ UNCHANGED <<lock, active, rel, table, work, version, made, ids, faults>>

\* record_run(), record_dead_letter(): the INSERT is part of a transaction of
\* the connection if there is one. Nothing else is done under the lock.
RecordRun(t) ==
    /\ Call(t, "out")
    /\ lock = None
    /\ inserted' = inserted + 1
    /\ IF active THEN txLog' = txLog + 1 /\ UNCHANGED log
                 ELSE log' = log + 1 /\ UNCHANGED txLog
    /\ UNCHANGED <<lock, active, rel, table, work, version, made, ids, faults>>

Next ==
    \E t \in Threads :
        \/ \E r \in Relations : Transaction(t, r)
        \/ Begin(t) \/ BeginRaises(t) \/ Write(t) \/ UpsertDelete(t)
        \/ UpsertInsert(t) \/ ColumnsDoNotBind(t) \/ WriteRaises(t)
        \/ ConCommit(t) \/ ConCommitRaises(t) \/ AssignIds(t)
        \/ AssignRaises(t) \/ Exit(t) \/ RecordRun(t)

Spec == Init /\ [][Next]_vars

-----------------------------------------------------------------------------
(* Properties                                                              *)

\* The id of a snapshot, which is the latest version of the whole lake at some
\* time after the commit, is the version that this commit made.
SnapshotIdIsOwn ==
    \A t \in Threads :
        pc[t] = "out" /\ ids[t] >= made[t] => ids[t] = made[t]

\* No INSERT of a run record that returned is undone by the rollback of another
\* thread's transaction on the shared connection.
RecordsAreDurable == log = inserted

\* base.py: a unit of atomic writes. The table goes from what it was to what the
\* whole of one relation makes of it (an upsert is two statements), whichever
\* statement, count or commit raises in this transaction or an earlier one, and
\* whatever the other threads do on the connection.
FailedWriteLeavesTable ==
    [][table' # table =>
          \E t \in Threads :
              /\ pc[t] = "commit"
              /\ table' = Written(table, rel[t])]_vars

\* base.py: leaving the block without committing rolls back. A thread outside
\* of every block holds nothing.
LeavingRollsBack == \A t \in Threads : pc[t] = "out" => lock # t /\ ~(active /\ lock = None)

\* An append adds to the table, so it keeps the rows that are there (one whose
\* columns are all new replaces the table: base.py:55).
AppendKeepsRows ==
    [][\A t \in Threads :
          ConCommit(t) /\ rel[t].merge = "append" => table.rows \subseteq table'.rows]_vars

\* Each value of a row is in the column that it had in the relation (INSERT goes
\* by position, and append compares the columns as sets: base.py:48-60).
ValuesKeepTheirColumn ==
    \A row \in table.rows :
        \A c \in DOMAIN row.cells : row.cells[c] \in {c, Null}
=============================================================================
