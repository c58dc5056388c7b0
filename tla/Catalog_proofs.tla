--------------------------- MODULE Catalog_proofs ---------------------------
(***************************************************************************)
(* Proofs about the catalogs: CatalogTransaction, for any threads,         *)
(* relations, calls and faults, and S3RunLog, for any workers, commands    *)
(* and bounds.                                                             *)
(*                                                                         *)
(* One lock around one connection is enough for the transactions, though   *)
(* the lock may never be released (a commit that raises, see the README):  *)
(* whoever is inside a block holds it, and so nobody else writes, commits, *)
(* or inserts on the connection.                                           *)
(***************************************************************************)
EXTENDS CatalogTransaction, S3RunLog, FiniteSetTheorems, TLAPS

Places == {"out", "begin", "write", "insert", "commit", "assign", "exit"}

TxTypeOK ==
    /\ pc \in [Threads -> Places]
    /\ lock \in Threads \cup {None}
    /\ active \in BOOLEAN
    /\ rel = [t \in Threads |-> rel[t]]
    /\ version \in Nat
    /\ made \in [Threads -> Nat]
    /\ ids \in [Threads -> Nat]
    /\ log \in Nat /\ txLog \in Nat /\ inserted \in Nat

\* A thread in a block holds the lock, and the connection has a transaction only
\* while a thread is in a block.
LockInv ==
    /\ \A t \in Threads : pc[t] # "out" => lock = t
    /\ \A t \in Threads : pc[t] \in {"write", "insert", "commit"} => active
    /\ active => \E t \in Threads : pc[t] \in {"write", "insert", "commit", "exit"}

\* Run records are inserted outside of every transaction.
LogInv == txLog = 0 /\ log = inserted

\* No version is made between a commit and the question for the latest one.
IdInv ==
    \A t \in Threads :
        /\ ids[t] <= made[t]
        /\ made[t] <= version
        /\ pc[t] = "assign" => ids[t] < made[t] /\ made[t] = version

\* How far the statements of write() have got.
WorkInv ==
    \A t \in Threads :
        /\ pc[t] = "write" => work = table
        /\ pc[t] = "insert" =>
              Upserts(table, rel[t]) /\ work = DeleteMatching(table, rel[t])
        /\ pc[t] = "commit" => work = Written(table, rel[t])

TxInv == TxTypeOK /\ LockInv /\ LogInv /\ IdInv /\ WorkInv

(* A delete and then an insert are what an upsert makes of the table.       *)
LEMMA UpsertIsWritten ==
    ASSUME NEW tab, NEW r, Upserts(tab, r)
    PROVE  Written(tab, r) = InsertByPosition(DeleteMatching(tab, r), r)
  BY DEF Written, Upserts

(* No thread is in a block.                                                 *)
LEMMA InitInv == Init => TxInv
  <1> SUFFICES ASSUME Init PROVE TxInv
    OBVIOUS
  <1>1. TxTypeOK
    BY DEF Init, TxTypeOK, Places
  <1>2. LockInv /\ LogInv /\ IdInv /\ WorkInv
    BY DEF Init, LockInv, LogInv, IdInv, WorkInv
  <1> QED
    BY <1>1, <1>2 DEF TxInv

(* A thread that is in a block is the only one.                             *)
LEMMA OneInside ==
    ASSUME TxInv, NEW t \in Threads, pc[t] # "out"
    PROVE  /\ lock = t
           /\ \A u \in Threads : pc[u] # "out" => u = t
           /\ active => pc[t] \in {"write", "insert", "commit", "exit"}
  BY DEF TxInv, LockInv

(* Outside of every block the connection has no transaction.                *)
LEMMA NobodyInside ==
    ASSUME TxInv, lock = None
    PROVE  ~active /\ \A u \in Threads : pc[u] = "out"
  BY CatalogAssumption DEF TxInv, LockInv

(* A call that waits for the lock.                                          *)
LEMMA TransactionInv ==
    ASSUME TxInv, NEW t \in Threads, NEW r \in Relations, Transaction(t, r)
    PROVE  TxInv'
  <1>1. ~active /\ \A u \in Threads : pc[u] = "out"
    BY NobodyInside DEF Transaction
  <1>2. /\ pc' = [pc EXCEPT ![t] = "begin"]
        /\ lock' = t
        /\ \E x : rel' = [rel EXCEPT ![t] = x]
        /\ UNCHANGED <<active, table, work, version, made, ids, log, txLog, inserted>>
    BY DEF Transaction, Call, At
  <1> QED
    BY <1>1, <1>2 DEF TxInv, TxTypeOK, Places, LockInv, LogInv, IdInv, WorkInv

(* begin() and its exception: the transaction starts on the table as it is. *)
LEMMA BeginInv ==
    ASSUME TxInv, NEW t \in Threads, Begin(t) \/ BeginRaises(t)
    PROVE  TxInv'
  <1>1. /\ pc[t] = "begin" /\ ~active /\ lock = t
        /\ \A u \in Threads \ {t} : pc[u] = "out"
    BY OneInside DEF Begin, BeginRaises, At
  <1>2. CASE Begin(t)
    BY <1>1, <1>2
       DEF Begin, At, TxInv, TxTypeOK, Places, LockInv, LogInv, IdInv, WorkInv
  <1>3. CASE BeginRaises(t)
    BY <1>1, <1>3
       DEF BeginRaises, At, TxInv, TxTypeOK, Places, LockInv, LogInv, IdInv, WorkInv
  <1> QED
    BY <1>2, <1>3

(* The statements bring the open transaction to what the relation makes of  *)
(* the table.                                                               *)
LEMMA StatementsInv ==
    ASSUME TxInv, NEW t \in Threads,
           Write(t) \/ UpsertDelete(t) \/ UpsertInsert(t)
    PROVE  TxInv'
  <1>1. /\ pc[t] \in {"write", "insert"} /\ active /\ lock = t
        /\ \A u \in Threads \ {t} : pc[u] = "out"
    BY OneInside DEF Write, UpsertDelete, UpsertInsert, At, TxInv, LockInv
  <1>2. UNCHANGED <<lock, active, rel, table, version, made, ids, log, txLog, inserted>>
    BY DEF Write, UpsertDelete, UpsertInsert
  <1>3. /\ pc' = [pc EXCEPT ![t] = pc'[t]]
        /\ pc'[t] \in {"insert", "commit"}
    BY DEF Write, UpsertDelete, UpsertInsert, At, TxInv, TxTypeOK
  <1>4. /\ pc'[t] = "insert" => Upserts(table, rel[t])
                                /\ work' = DeleteMatching(table, rel[t])
        /\ pc'[t] = "commit" => work' = Written(table, rel[t])
    <2>1. CASE Write(t)
      BY <2>1 DEF Write, At, TxInv, TxTypeOK, WorkInv
    <2>2. CASE UpsertDelete(t)
      BY <2>2 DEF UpsertDelete, At, TxInv, TxTypeOK, WorkInv
    <2>3. CASE UpsertInsert(t)
      BY <2>3, UpsertIsWritten DEF UpsertInsert, At, TxInv, TxTypeOK, WorkInv
    <2> QED
      BY <2>1, <2>2, <2>3
  <1>5. WorkInv'
    BY <1>1, <1>2, <1>3, <1>4 DEF WorkInv, TxInv, TxTypeOK
  <1> QED
    BY <1>1, <1>2, <1>3, <1>5
       DEF TxInv, TxTypeOK, Places, LockInv, LogInv, IdInv

(* Whatever raises in a block leads to its end, with the lock still held.   *)
LEMMA RaisesInv ==
    ASSUME TxInv, NEW t \in Threads,
           \/ ColumnsDoNotBind(t) \/ WriteRaises(t)
           \/ ConCommitRaises(t) \/ AssignRaises(t)
    PROVE  TxInv'
  <1>1. /\ pc[t] # "out" /\ lock = t
        /\ \A u \in Threads \ {t} : pc[u] = "out"
    BY OneInside
       DEF ColumnsDoNotBind, WriteRaises, ConCommitRaises, AssignRaises, At
  <1>2. /\ pc' = [pc EXCEPT ![t] = "exit"]
        /\ active' = active \/ active' = FALSE
        /\ txLog' = txLog \/ txLog' = 0
        /\ UNCHANGED <<lock, rel, table, work, version, made, ids, log, inserted>>
    BY DEF ColumnsDoNotBind, WriteRaises, ConCommitRaises, AssignRaises, At
  <1>3. TxTypeOK'
    <2>1. pc' \in [Threads -> Places] /\ txLog' \in Nat
      BY <1>2 DEF TxInv, TxTypeOK, Places
    <2>2. active' \in BOOLEAN
      BY <1>2 DEF TxInv, TxTypeOK
    <2> QED
      BY <1>2, <2>1, <2>2 DEF TxInv, TxTypeOK
  <1>4. active => pc[t] \in {"write", "insert", "commit", "exit"}
    BY <1>1, OneInside
  <1>5. LockInv'
    BY <1>1, <1>2, <1>4 DEF TxInv, TxTypeOK, LockInv
  <1>6. (LogInv /\ IdInv /\ WorkInv)'
    BY <1>1, <1>2 DEF TxInv, TxTypeOK, LogInv, IdInv, WorkInv
  <1> QED
    BY <1>3, <1>5, <1>6 DEF TxInv

(* The commit makes a version newer than every id given so far.             *)
LEMMA ConCommitInv ==
    ASSUME TxInv, NEW t \in Threads, ConCommit(t)
    PROVE  TxInv'
  <1>1. /\ pc[t] = "commit" /\ lock = t
        /\ \A u \in Threads \ {t} : pc[u] = "out"
    BY OneInside DEF ConCommit, At
  <1>2. TxTypeOK' /\ LogInv'
    <2>1. pc' \in [Threads -> Places]
      BY DEF ConCommit, At, TxInv, TxTypeOK, Places
    <2>2. version' \in Nat /\ made' \in [Threads -> Nat]
      BY DEF ConCommit, TxInv, TxTypeOK
    <2>3. log' \in Nat /\ txLog' = 0 /\ log' = inserted'
      BY DEF ConCommit, TxInv, TxTypeOK, LogInv
    <2> QED
      BY <2>1, <2>2, <2>3 DEF ConCommit, TxInv, TxTypeOK, LogInv
  <1>3. LockInv' /\ WorkInv'
    BY <1>1 DEF ConCommit, At, TxInv, TxTypeOK, LockInv, WorkInv
  <1>4. IdInv'
    BY <1>1 DEF ConCommit, At, TxInv, TxTypeOK, IdInv
  <1> QED
    BY <1>2, <1>3, <1>4 DEF TxInv

(* The latest version is asked for before the lock is released.             *)
LEMMA AssignIdsInv ==
    ASSUME TxInv, NEW t \in Threads, AssignIds(t)
    PROVE  TxInv'
  <1>1. /\ pc[t] = "assign" /\ lock = t /\ ~active
        /\ \A u \in Threads \ {t} : pc[u] = "out"
    BY OneInside DEF AssignIds, At
  <1> QED
    BY <1>1
       DEF AssignIds, At, TxInv, TxTypeOK, Places, LockInv, LogInv, IdInv, WorkInv

(* The end of a block that is not closed; the lock may stay with a thread   *)
(* that is outside.                                                         *)
LEMMA ExitInv ==
    ASSUME TxInv, NEW t \in Threads, Exit(t)
    PROVE  TxInv'
  <1>1. /\ pc[t] = "exit" /\ lock = t
        /\ \A u \in Threads \ {t} : pc[u] = "out"
    BY OneInside DEF Exit, At
  <1> QED
    BY <1>1 DEF Exit, At, TxInv, TxTypeOK, Places, LockInv, LogInv, IdInv, WorkInv

(* record_run waits for the lock, so its row is committed at once.          *)
LEMMA RecordRunInv ==
    ASSUME TxInv, NEW t \in Threads, RecordRun(t)
    PROVE  TxInv'
  <1>1. ~active /\ pc' = [pc EXCEPT ![t] = "out"] /\ pc[t] = "out"
    BY NobodyInside DEF RecordRun, Call, At
  <1>2. pc' = pc
    BY <1>1 DEF TxInv, TxTypeOK
  <1> QED
    BY <1>1, <1>2
       DEF RecordRun, TxInv, TxTypeOK, Places, LockInv, LogInv, IdInv, WorkInv

(* Every step keeps the invariant.                                          *)
LEMMA NextInv ==
    ASSUME TxInv, [Next]_vars
    PROVE  TxInv'
  <1>1. ASSUME NEW t \in Threads, NEW r \in Relations, Transaction(t, r)
        PROVE  TxInv'
    BY <1>1, TransactionInv
  <1>2. ASSUME NEW t \in Threads, Begin(t) \/ BeginRaises(t)
        PROVE  TxInv'
    BY <1>2, BeginInv
  <1>3. ASSUME NEW t \in Threads, Write(t) \/ UpsertDelete(t) \/ UpsertInsert(t)
        PROVE  TxInv'
    BY <1>3, StatementsInv
  <1>4. ASSUME NEW t \in Threads,
               \/ ColumnsDoNotBind(t) \/ WriteRaises(t)
               \/ ConCommitRaises(t) \/ AssignRaises(t)
        PROVE  TxInv'
    BY <1>4, RaisesInv
  <1>5. ASSUME NEW t \in Threads, ConCommit(t) \/ AssignIds(t)
        PROVE  TxInv'
    BY <1>5, ConCommitInv, AssignIdsInv
  <1>6. ASSUME NEW t \in Threads, Exit(t) \/ RecordRun(t)
        PROVE  TxInv'
    BY <1>6, ExitInv, RecordRunInv
  <1>7. CASE UNCHANGED vars
    BY <1>7 DEF vars, TxInv, TxTypeOK, LockInv, LogInv, IdInv, WorkInv
  <1> QED
    BY <1>1, <1>2, <1>3, <1>4, <1>5, <1>6, <1>7 DEF Next

(* The invariant holds of every reachable state.                            *)
LEMMA AlwaysInv == Spec => []TxInv
  BY InitInv, NextInv, PTL DEF Spec

-----------------------------------------------------------------------------

(* A snapshot has the id of the version its own commit made, though the id  *)
(* is asked for afterwards (catalog/local.py:86-99).                        *)
THEOREM SnapshotIdsAreOwn == Spec => []SnapshotIdIsOwn
  <1>1. TxInv => SnapshotIdIsOwn
    BY DEF TxInv, TxTypeOK, IdInv, SnapshotIdIsOwn
  <1> QED
    BY <1>1, AlwaysInv, PTL

(* An inserted run record is never rolled back with the transaction of      *)
(* another thread (catalog/local.py:251-270).                               *)
THEOREM RecordsStay == Spec => []RecordsAreDurable
  <1>1. TxInv => RecordsAreDurable
    BY DEF TxInv, LogInv, RecordsAreDurable
  <1> QED
    BY <1>1, AlwaysInv, PTL

(* The table only ever changes to what the whole of one relation makes of   *)
(* it, whichever statement or commit raises (catalog/base.py:36-69).        *)
THEOREM WritesAreAtomic == Spec => FailedWriteLeavesTable
  <1>1. ASSUME TxInv, [Next]_vars
        PROVE  table' # table =>
                  \E t \in Threads :
                      /\ pc[t] = "commit"
                      /\ table' = Written(table, rel[t])
    <2>1. ASSUME NEW t \in Threads, ConCommit(t)
          PROVE  pc[t] = "commit" /\ table' = Written(table, rel[t])
      BY <1>1, <2>1 DEF ConCommit, At, TxInv, WorkInv
    <2>2. CASE UNCHANGED vars
      BY <2>2 DEF vars
    <2>3. ASSUME NEW t \in Threads,
                 \/ \E r \in Relations : Transaction(t, r)
                 \/ Begin(t) \/ BeginRaises(t) \/ Write(t) \/ UpsertDelete(t)
                 \/ UpsertInsert(t) \/ ColumnsDoNotBind(t) \/ WriteRaises(t)
                 \/ ConCommitRaises(t) \/ AssignIds(t) \/ AssignRaises(t)
                 \/ Exit(t) \/ RecordRun(t)
          PROVE  UNCHANGED table
      BY <2>3
         DEF Transaction, Begin, BeginRaises, Write, UpsertDelete, UpsertInsert,
             ColumnsDoNotBind, WriteRaises, ConCommitRaises, AssignIds,
             AssignRaises, Exit, RecordRun
    <2> QED
      BY <1>1, <2>1, <2>2, <2>3 DEF Next
  <1> QED
    BY <1>1, AlwaysInv, PTL DEF Spec, FailedWriteLeavesTable

-----------------------------------------------------------------------------
(***************************************************************************)
(* S3RunLog. While nothing is lost, a record is in the bucket or about to  *)
(* be saved by the process that made it, and what the memory of a          *)
(* scheduler lacks was made by a command that had not saved it before.     *)
(***************************************************************************)

S3TypeOK ==
    /\ DOMAIN memory = Processes /\ DOMAIN unsaved = Processes
    /\ failures \in Nat
    /\ killed \in BOOLEAN

\* A record is new: those made before have smaller numbers.
Numbered ==
    /\ IsFiniteSet(history)
    /\ \A r \in history : r.at \in Nat /\ r.at <= Cardinality(history)

\* A process saves one record before it makes the next, a worker makes none, and
\* a process that ends takes its record along.
OneUnsaved ==
    \A p \in Processes :
        /\ \A r, q \in unsaved[p] : r = q
        /\ p \in Workers \/ p \notin open => unsaved[p] = {}

\* A record is saved once, by the process that made it.
SavedOnce ==
    /\ objects \subseteq history /\ missed \subseteq history
    /\ \A p \in Processes :
          /\ unsaved[p] \subseteq history /\ unsaved[p] \cap objects = {}
          /\ \A q \in Processes \ {p} : unsaved[p] \cap unsaved[q] = {}

NothingLost ==
    failures = 0 /\ ~killed =>
        /\ \A r \in history : r \in objects \/ \E p \in Processes : r \in unsaved[p]
        /\ "scheduler" \in open => memory["scheduler"] = history \ missed

S3Inv == S3TypeOK /\ Numbered /\ OneUnsaved /\ SavedOnce /\ NothingLost

LEMMA TheScheduler ==
    /\ "scheduler" \in Processes
    /\ \A c \in Commands : c \in Processes /\ c # "scheduler" /\ c \notin Workers
    /\ "scheduler" \notin Workers /\ "scheduler" \notin Commands
    /\ \A p \in Processes : p = "scheduler" \/ p \in Workers \/ p \in Commands
  BY S3Assumption DEF Processes

LEMMA S3Start ==
    ASSUME S3Init
    PROVE  S3Inv
  <1>1. /\ DOMAIN memory = Processes /\ DOMAIN unsaved = Processes
        /\ \A p \in Processes : unsaved[p] = {}
        /\ objects = {} /\ open = {} /\ history = {} /\ missed = {}
        /\ killed = FALSE /\ failures = 0
    BY DEF S3Init
  <1>2. Numbered
    BY <1>1, FS_EmptySet DEF Numbered
  <1> QED
    BY <1>1, <1>2 DEF S3Inv, S3TypeOK, OneUnsaved, SavedOnce, NothingLost

\* What changes neither the objects nor anything of the scheduler.
LEMMA ElsewhereKeepsS3 ==
    ASSUME S3Inv,
           UNCHANGED <<objects, open, unsaved, history, missed, killed, failures>>,
           DOMAIN memory' = Processes,
           memory'["scheduler"] = memory["scheduler"]
    PROVE  S3Inv'
  BY DEF S3Inv, S3TypeOK, Numbered, OneUnsaved, SavedOnce, NothingLost

LEMMA OpenKeepsS3 ==
    ASSUME S3Inv, NEW p \in Processes, Open(p)
    PROVE  S3Inv'
  <1>1. /\ p \notin open /\ open' = open \cup {p}
        /\ UNCHANGED <<objects, unsaved, history, killed>>
        /\ p # "scheduler" => missed' = missed
        /\ p = "scheduler" => missed' = UNION {unsaved[c] : c \in Commands}
    BY DEF Open
  <1>2. /\ DOMAIN memory' = Processes /\ failures' \in Nat
        /\ p # "scheduler" => memory'["scheduler"] = memory["scheduler"]
        /\ failures' = 0 => failures = 0 /\ memory'[p] = objects
    BY TheScheduler DEF Open, S3Inv, S3TypeOK
  <1>3. S3TypeOK' /\ Numbered' /\ OneUnsaved'
    BY <1>1, <1>2 DEF S3Inv, S3TypeOK, Numbered, OneUnsaved
  <1>4. missed' \subseteq history
    BY <1>1, TheScheduler DEF S3Inv, SavedOnce
  <1>5. SavedOnce'
    BY <1>1, <1>4 DEF S3Inv, SavedOnce
  <1>6. ASSUME failures' = 0, ~killed
        PROVE  /\ \A r \in history : r \in objects \/ \E q \in Processes : r \in unsaved[q]
               /\ "scheduler" \in open' => memory'["scheduler"] = history \ missed'
    <2>1. /\ \A r \in history : r \in objects \/ \E q \in Processes : r \in unsaved[q]
          /\ "scheduler" \in open => memory["scheduler"] = history \ missed
      BY <1>2, <1>6 DEF S3Inv, NothingLost
    <2>2. CASE p = "scheduler"
      <3>1. \A q \in Processes : unsaved[q] # {} => q \in Commands
        BY <1>1, <2>2, TheScheduler DEF S3Inv, OneUnsaved
      <3>2. \A r \in history : r \notin objects => r \in missed'
        BY <1>1, <2>1, <2>2, <3>1
      <3>3. \A r \in missed' : r \notin objects
        <4>1. \A q \in Processes : unsaved[q] \cap objects = {}
          BY DEF S3Inv, SavedOnce
        <4>2. \A r \in missed' : \E c \in Commands : r \in unsaved[c]
          BY <1>1, <2>2
        <4> QED
          BY <4>1, <4>2, TheScheduler
      <3>4. objects = history \ missed'
        BY <3>2, <3>3 DEF S3Inv, SavedOnce
      <3> QED
        BY <1>2, <1>6, <2>1, <2>2, <3>4
    <2>3. CASE p # "scheduler"
      BY <1>1, <1>2, <2>1, <2>3
    <2> QED
      BY <2>2, <2>3
  <1>7. NothingLost'
    BY <1>1, <1>6 DEF NothingLost
  <1> QED
    BY <1>3, <1>5, <1>7 DEF S3Inv

LEMMA CloseKeepsS3 ==
    ASSUME S3Inv, NEW p \in Processes, Close(p)
    PROVE  S3Inv'
  <1>1. /\ open' = open \ {p} /\ UNCHANGED <<objects, history, missed, failures>>
        /\ memory' = [memory EXCEPT ![p] = {}]
        /\ unsaved' = [unsaved EXCEPT ![p] = {}]
        /\ killed' = (killed \/ unsaved[p] # {})
    BY DEF Close
  <1>2. S3TypeOK' /\ Numbered'
    BY <1>1 DEF S3Inv, S3TypeOK, Numbered
  <1>3. /\ unsaved'[p] = {}
        /\ \A q \in Processes \ {p} : unsaved'[q] = unsaved[q]
    BY <1>1 DEF S3Inv, S3TypeOK
  <1>4. OneUnsaved'
    BY <1>1, <1>3 DEF S3Inv, OneUnsaved
  <1>5. SavedOnce'
    BY <1>1, <1>3 DEF S3Inv, SavedOnce
  <1>6. NothingLost'
    <2> SUFFICES ASSUME failures = 0, ~killed, unsaved[p] = {}
                 PROVE  /\ \A r \in history :
                              r \in objects \/ \E q \in Processes : r \in unsaved'[q]
                        /\ "scheduler" \in open' =>
                              memory'["scheduler"] = history \ missed
      BY <1>1 DEF NothingLost
    <2>1. \A q \in Processes : unsaved'[q] = unsaved[q]
      BY <1>3
    <2>2. "scheduler" \in open' =>
             "scheduler" \in open /\ memory'["scheduler"] = memory["scheduler"]
      BY <1>1, TheScheduler DEF S3Inv, S3TypeOK
    <2> QED
      BY <2>1, <2>2 DEF S3Inv, NothingLost
  <1> QED
    BY <1>2, <1>4, <1>5, <1>6 DEF S3Inv

\* A command that records makes the open scheduler miss its record.
LEMMA RecordKeepsS3 ==
    ASSUME S3Inv, NEW p \in Processes \ Workers, NEW s, NEW status, NEW in, NEW read,
           RecordInMemory(p, s, status, in, read)
    PROVE  S3Inv'
  <1> DEFINE r == [at |-> Cardinality(history) + 1, step |-> s, table |-> s,
                   status |-> status,
                   snapshot |-> IF status = "success" THEN Cardinality(history) + 1
                                ELSE NoSnapshot,
                   in |-> in, read |-> read]
  <1>1. /\ r.at = Cardinality(history) + 1
        /\ memory' = [memory EXCEPT ![p] = @ \cup {r}]
        /\ unsaved' = [unsaved EXCEPT ![p] = {r}]
        /\ history' = history \cup {r}
        /\ missed' = IF p = "scheduler" THEN missed ELSE missed \cup {r}
        /\ unsaved[p] = {} /\ p \in open
        /\ UNCHANGED <<objects, open, killed, failures>>
    BY DEF RecordInMemory
  <1> HIDE DEF r
  <1>2. IsFiniteSet(history) /\ Cardinality(history) \in Nat
    BY FS_CardinalityType DEF S3Inv, Numbered
  <1>3. r \notin history
    BY <1>1, <1>2 DEF S3Inv, Numbered
  <1>4. S3TypeOK'
    BY <1>1 DEF S3Inv, S3TypeOK
  <1>5. Numbered'
    <2>1. IsFiniteSet(history') /\ Cardinality(history') = Cardinality(history) + 1
      BY <1>1, <1>2, <1>3, FS_AddElement
    <2>2. \A q \in history : q.at \in Nat /\ q.at <= Cardinality(history')
      BY <1>2, <2>1 DEF S3Inv, Numbered
    <2>3. r.at \in Nat /\ r.at <= Cardinality(history')
      BY <1>1, <1>2, <2>1
    <2> QED
      BY <1>1, <2>1, <2>2, <2>3 DEF Numbered
  <1>6. /\ unsaved'[p] = {r} /\ memory'[p] = memory[p] \cup {r}
        /\ \A q \in Processes \ {p} :
              unsaved'[q] = unsaved[q] /\ memory'[q] = memory[q]
    BY <1>1 DEF S3Inv, S3TypeOK
  <1>7. OneUnsaved'
    BY <1>1, <1>6 DEF S3Inv, OneUnsaved
  <1>8. SavedOnce'
    BY <1>1, <1>3, <1>6 DEF S3Inv, SavedOnce
  <1>9. NothingLost'
    <2> SUFFICES ASSUME failures = 0, ~killed
                 PROVE  /\ \A q \in history' :
                              q \in objects \/ \E o \in Processes : q \in unsaved'[o]
                        /\ "scheduler" \in open =>
                              memory'["scheduler"] = history' \ missed'
      BY <1>1 DEF NothingLost
    <2>1. /\ \A q \in history : q \in objects \/ \E o \in Processes : q \in unsaved[o]
          /\ "scheduler" \in open => memory["scheduler"] = history \ missed
      BY DEF S3Inv, NothingLost
    <2>2. \A q \in history' : q \in objects \/ \E o \in Processes : q \in unsaved'[o]
      BY <1>1, <1>6, <2>1
    <2>3. missed \subseteq history
      BY DEF S3Inv, SavedOnce
    <2>4. "scheduler" \in open => memory'["scheduler"] = history' \ missed'
      BY <1>1, <1>3, <1>6, <2>1, <2>3, TheScheduler
    <2> QED
      BY <2>2, <2>4
  <1> QED
    BY <1>4, <1>5, <1>7, <1>8, <1>9 DEF S3Inv

LEMMA PersistKeepsS3 ==
    ASSUME S3Inv, NEW p \in Processes, Persist(p)
    PROVE  S3Inv'
  <1>1. PICK r \in unsaved[p] :
          /\ unsaved' = [unsaved EXCEPT ![p] = {}]
          /\ \/ objects' = objects \cup {r} /\ UNCHANGED failures
             \/ failures' = failures + 1 /\ UNCHANGED objects
          /\ UNCHANGED <<open, memory, history, missed, killed>>
    BY DEF Persist
  <1>2. unsaved[p] = {r}
    BY <1>1 DEF S3Inv, OneUnsaved
  <1>3. S3TypeOK' /\ Numbered'
    BY <1>1 DEF S3Inv, S3TypeOK, Numbered
  <1>4. unsaved'[p] = {} /\ \A q \in Processes \ {p} : unsaved'[q] = unsaved[q]
    BY <1>1 DEF S3Inv, S3TypeOK
  <1>5. OneUnsaved'
    BY <1>1, <1>4 DEF S3Inv, OneUnsaved
  <1>6. SavedOnce'
    BY <1>1, <1>2, <1>4 DEF S3Inv, SavedOnce
  <1>7. failures' = 0 => failures = 0 /\ objects' = objects \cup {r}
    BY <1>1 DEF S3Inv, S3TypeOK
  <1>8. NothingLost'
    BY <1>1, <1>2, <1>4, <1>7 DEF S3Inv, NothingLost
  <1> QED
    BY <1>3, <1>5, <1>6, <1>8 DEF S3Inv

LEMMA S3Invariant == S3Spec => []S3Inv
  <1>1. ASSUME S3Inv, [S3Next]_s3Vars
        PROVE  S3Inv'
    <2>1. ASSUME UNCHANGED <<objects, open, memory, unsaved, history, missed, killed,
                             failures>>
          PROVE  S3Inv'
      BY <1>1, <2>1, ElsewhereKeepsS3 DEF S3Inv, S3TypeOK
    <2>2. CASE RunSource \/ JobDone \/ JobFails
      BY <1>1, <2>2, RecordKeepsS3, TheScheduler DEF RunSource, JobDone, JobFails
    <2>3. CASE Submit \/ UNCHANGED s3Vars \/ \E w \in Workers : Execute(w)
      BY <2>1, <2>3 DEF Submit, s3Vars, Execute
    <2>4. CASE \E p \in Processes : Open(p) \/ Close(p) \/ Persist(p)
      BY <1>1, <2>4, OpenKeepsS3, CloseKeepsS3, PersistKeepsS3
    <2>5. CASE \E c \in Commands : \E s \in {"src", "out"} : Backfill(c, s)
      BY <1>1, <2>5, RecordKeepsS3, TheScheduler DEF Backfill
    <2>6. CASE \E c \in Commands :
                 \/ \E s \in {"src", "out"} : Invalidate(c, s)
                 \/ \E cutoff \in 1..MaxRuns : Gc(c, cutoff)
      <3>1. PICK c \in Commands : \E m : memory' = [memory EXCEPT ![c] = m]
        BY <2>6 DEF Invalidate, Gc
      <3>2. /\ memory'["scheduler"] = memory["scheduler"]
            /\ DOMAIN memory' = Processes
        BY <1>1, <3>1, TheScheduler DEF S3Inv, S3TypeOK
      <3>3. UNCHANGED <<objects, open, unsaved, history, missed, killed, failures>>
        BY <2>6 DEF Invalidate, Gc
      <3> QED
        BY <1>1, <3>2, <3>3, ElsewhereKeepsS3
    <2> QED
      BY <1>1, <2>2, <2>3, <2>4, <2>5, <2>6 DEF S3Next
  <1> QED
    BY <1>1, S3Start, PTL DEF S3Spec

\* As long as no request to S3 has failed and no process ended before it saved
\* its record, the scheduler that has the catalog open, after however many
\* restarts, sees every run, but for those that a command recorded itself
\* (cli.py:684) and had not saved when the scheduler loaded the objects
\* (s3.py:165-188, 273-283).
THEOREM SchedulerHasHistory == S3Spec => []SchedulerSeesHistory
  <1>1. S3Inv => SchedulerSeesHistory
    BY DEF S3Inv, NothingLost, SchedulerSeesHistory
  <1> QED
    BY <1>1, S3Invariant, PTL
=============================================================================
