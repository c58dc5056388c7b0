--------------------------- MODULE PostgresQueue ----------------------------
(***************************************************************************)
(* conduit_etl/queue/postgres.py: the same table in PostgreSQL. A claim is *)
(* a SELECT ... FOR UPDATE SKIP LOCKED and then an UPDATE, and between the *)
(* two its transaction holds a lock on the row: another claim passes the   *)
(* row over, an UPDATE of the row waits for the transaction to end.        *)
(* Transactions are READ COMMITTED, psycopg's default.                     *)
(***************************************************************************)
EXTENDS SqlQueue

VARIABLE rowLock    \* Jobs -> the worker whose claim has locked the row

pgVars == <<sqlVars, rowLock>>

Unlocked(j) == rowLock[j] = NoWorker

PgTypeOK == SqlTypeOK /\ rowLock \in [Jobs -> Workers \cup {NoWorker}]

PgInit == SqlInit /\ rowLock = [j \in Jobs |-> NoWorker]

\* ON CONFLICT DO NOTHING. created_at is the clock of the scheduler that
\* submits, and with several schedulers not the order of the INSERTs.
PgEnqueue(j) ==
    /\ IF status[j] = "absent"
       THEN /\ \E i \in 1..(Len(created) + 1) :
                  created' = InsertAt(created, i, j)
            /\ status' = [status EXCEPT ![j] = "pending"]
            /\ UNCHANGED <<claimedBy, beat>>
       ELSE UNCHANGED sqlVars
    /\ UNCHANGED rowLock

\* claim: the SELECT. A worker has one request for a job at a time.
ClaimSelect(w, j) ==
    /\ \A i \in Jobs : rowLock[i] # w
    /\ Oldest(j, {i \in Jobs : Pending(i) /\ Unlocked(i)})
    /\ rowLock' = [rowLock EXCEPT ![j] = w]
    /\ UNCHANGED sqlVars

\* Mutant of ClaimUpdate: no commit, the row lock is kept.
UpdateAfterCommit(w, j) ==
    /\ rowLock[j] = w
    /\ TakeRow(w, j)
    /\ UNCHANGED rowLock

\* claim: the UPDATE and conn.commit().
ClaimUpdate(w, j) ==
    /\ rowLock[j] = w
    /\ TakeRow(w, j)
    /\ rowLock' = [rowLock EXCEPT ![j] = NoWorker]

\* The scheduler dies or loses its connection between the two.
ClaimAborted(w, j) ==
    /\ rowLock[j] = w
    /\ rowLock' = [rowLock EXCEPT ![j] = NoWorker]
    /\ UNCHANGED sqlVars

PgHeartbeat(w, j) == Unlocked(j) /\ Heartbeat(w, j) /\ UNCHANGED rowLock

PgComplete(j) == Unlocked(j) /\ Complete(j) /\ UNCHANGED rowLock

\* Mutant of PgFail: the UPDATE does not wait for the claim's transaction.
FailIgnoresLock(j) == Fail(j) /\ UNCHANGED rowLock

PgFail(j) == Unlocked(j) /\ Fail(j) /\ UNCHANGED rowLock

\* Only claimed rows are updated, and a locked one is pending.
PgRequeueStale == RequeueStale /\ UNCHANGED rowLock

PgNext ==
    \/ \E j \in Jobs :
          \/ PgEnqueue(j) \/ PgComplete(j) \/ PgFail(j)
          \/ WindowElapses(j) /\ UNCHANGED rowLock
    \/ \E w \in Workers, j \in Jobs :
          \/ ClaimSelect(w, j) \/ ClaimUpdate(w, j) \/ ClaimAborted(w, j)
          \/ PgHeartbeat(w, j)
    \/ PgRequeueStale

PgSpec == PgInit /\ [][PgNext]_pgVars

-----------------------------------------------------------------------------
(* What FOR UPDATE SKIP LOCKED buys: the row a claim has selected is still *)
(* pending when its UPDATE comes, and no other claim has selected it. The  *)
(* UPDATE itself tests neither (postgres.py:104-108).                      *)
SelectedRowIsStillPending ==
    \A j \in Jobs : ~Unlocked(j) => Pending(j)
=============================================================================
