--------------------------- MODULE Delivery_proofs ---------------------------
(***************************************************************************)
(* Proofs about Delivery, for any rows, keys, executions and number of     *)
(* faults: a recorded run of a sink that adds has published its rows, and  *)
(* an upsert converges unless another call of the sink met it.             *)
(***************************************************************************)
EXTENDS Delivery, TLAPS

Places == {"idle", "produce", "flush", "delete", "insert", "replace", "parquet",
           "done", "failed"}

Calls == [pc : Places, current : BOOLEAN, rows : SUBSET Rows,
          pending : SUBSET Rows, errors : BOOLEAN]

DTypeOK ==
    /\ Kind \in Kinds
    /\ table \in SUBSET Rows
    /\ exec \in [Executions -> Calls]
    /\ target \in [Rows -> Nat]
    /\ recorded \in SUBSET Rows
    /\ unconfirmed \in SUBSET Rows

\* The places of a call are those of its kind of sink.
PlacesOf == [kafka |-> {"produce", "flush"}, append |-> {"insert"},
             upsert |-> {"delete", "insert"}, replace |-> {"replace"},
             parquet |-> {"parquet"}]

KindInv ==
    \A e \in Executions :
        exec[e].pc \in {"idle", "done", "failed"} \cup PlacesOf[Kind]

\* How much of the rows of a call is outside. Both kinds of sink only add.
PublishInv ==
    Kind \in {"kafka", "append"} =>
        /\ \A e \in Executions :
              /\ exec[e].pc = "flush" /\ ~exec[e].errors
                 => \A r \in exec[e].rows \ exec[e].pending : target[r] >= 1
              /\ exec[e].pc = "done"
                 => \A r \in exec[e].rows \ unconfirmed : target[r] >= 1
        /\ \A r \in recorded \ unconfirmed : target[r] >= 1

\* The rows outside, of the keys of S, are none; or are those of S, each once.
HasKeyOf(r, S) == \E s \in S : KeyOf[s] = KeyOf[r]
Erased(copies, S) == \A r \in Rows : HasKeyOf(r, S) => copies[r] = 0
Exact(copies, S) ==
    \A r \in Rows : HasKeyOf(r, S) => copies[r] = IF r \in S THEN 1 ELSE 0

\* Unless the call was doubled there is one, and the sink is out of date while it
\* is under way. If the tick waits for it, it has the table as it is.
UpsertInv ==
    Kind = "upsert" /\ ~doubled =>
        /\ \A e \in Executions : exec[e] # Idle =>
              /\ stale
              /\ exec[e].current => phase = "wait" /\ exec[e].rows = table
              /\ \A f \in Executions : exec[f] # Idle => e = f
        /\ \A e \in Executions :
              /\ exec[e].pc = "insert" => Erased(target, exec[e].rows)
              /\ exec[e].pc = "done" => Exact(target, exec[e].rows)
        /\ ~stale => Exact(target, table)

DInv == DTypeOK /\ KindInv /\ PublishInv /\ UpsertInv

-----------------------------------------------------------------------------

(* Copies counts one more, up to its bound.                                 *)
LEMMA CopiesFact ==
    ASSUME NEW n \in Nat
    PROVE  /\ Copies(n + 1) \in Nat /\ Copies(n + 1) >= 1
           /\ n = 0 => Copies(n + 1) = 1
  <1> DEFINE S == {n + 1, MaxCopies}
             P(x) == \A y \in S : x <= y
  <1>1. S = {n + 1, 2}
    BY DEF MaxCopies
  <1>2. \E x \in S : P(x)
    BY <1>1
  <1>3. Copies(n + 1) = CHOOSE x \in S : P(x)
    BY DEF Copies, Min
  <1>4. Copies(n + 1) \in S /\ P(Copies(n + 1))
    BY <1>2, <1>3
  <1> QED
    BY <1>1, <1>4

LEMMA IdleType == Idle \in Calls
  BY DEF Idle, Calls, Places

(* Each kind of sink has a place to start from.                             *)
LEMMA FirstStepType ==
    ASSUME Kind \in Kinds
    PROVE  /\ FirstStep \in PlacesOf[Kind]
           /\ FirstStep \in Places
           /\ FirstStep \notin {"idle", "flush", "done", "failed"}
           /\ Kind = "upsert" => FirstStep = "delete"
  <1>1. Kind \in {"kafka", "append", "upsert", "replace", "parquet"}
    BY DeliveryAssumption
  <1> QED
    BY <1>1 DEF FirstStep, PlacesOf, Places

LEMMA InitInv == Init => DInv
  <1> SUFFICES ASSUME Init PROVE DInv
    OBVIOUS
  <1>1. DTypeOK
    BY IdleType DEF Init, DTypeOK
  <1>2. KindInv /\ PublishInv
    BY DEF Init, KindInv, PublishInv, Idle
  <1>3. UpsertInv
    BY DEF Init, UpsertInv, Idle, Exact, HasKeyOf
  <1> QED
    BY <1>1, <1>2, <1>3 DEF DInv

-----------------------------------------------------------------------------
(* Steps of the tick and of the environment                                *)

(* The table changes in phase "source" only, when the tick waits for no call. *)
LEMMA SourceInv ==
    ASSUME DInv,
           \/ StartTick \/ SourceNotDue \/ SourceRuns \/ SourceFails \/ SkipSink
           \/ \E r \in Rows : Arrive(r)
    PROVE  DInv'
  <1>1. /\ UNCHANGED <<Kind, exec, target, recorded, unconfirmed, doubled>>
        /\ \/ UNCHANGED <<table, stale>>
           \/ table' \in SUBSET Rows /\ stale' = TRUE /\ phase = "source"
        /\ phase' = phase \/ phase # "wait"
    <2>1. CASE StartTick \/ SkipSink
      BY <2>1 DEF StartTick, SkipSink
    <2>2. CASE \E r \in Rows : Arrive(r)
      BY <2>2 DEF Arrive
    <2>3. CASE SourceNotDue \/ MessageBatch \/ SourceFails
      BY <2>3 DEF SourceNotDue, MessageBatch, SourceFails, SourceStep
    <2>4. CASE EmptyBatch
      BY <2>4 DEF EmptyBatch, SourceStep
    <2>5. ASSUME NEW rows \in Answers, Query(rows)
          PROVE  /\ UNCHANGED <<Kind, exec, target, recorded, unconfirmed, doubled>>
                 /\ table' \in SUBSET Rows /\ stale' = TRUE /\ phase = "source"
      BY <2>5, DeliveryAssumption DEF Query, SourceStep
    <2> QED
      BY <2>1, <2>2, <2>3, <2>4, <2>5 DEF SourceRuns
  <1>2. DTypeOK' /\ KindInv' /\ PublishInv'
    BY <1>1 DEF DInv, DTypeOK, KindInv, PublishInv
  <1>3. UpsertInv'
    <2> SUFFICES ASSUME Kind = "upsert", ~doubled
                 PROVE  UpsertInv'
      BY <1>1 DEF UpsertInv
    <2>1. ASSUME NEW e \in Executions, exec[e] # Idle
          PROVE  /\ stale'
                 /\ exec[e].current => phase' = "wait" /\ exec[e].rows = table'
      BY <1>1, <2>1 DEF DInv, UpsertInv
    <2>2. ~stale' => table' = table /\ ~stale
      BY <1>1
    <2> QED
      BY <1>1, <2>1, <2>2 DEF DInv, UpsertInv, Erased, Exact
  <1> QED
    BY <1>2, <1>3 DEF DInv

(* A call of the sink starts with the rows of the table.                    *)
LEMMA CalledInv ==
    ASSUME DInv, NEW e \in Executions, NEW current \in BOOLEAN,
           (StartSink(e) /\ current) \/ Reclaim(e, current)
    PROVE  DInv'
  <1> DEFINE c == [Idle EXCEPT !.pc = FirstStep, !.current = current,
                               !.rows = table]
  <1>1. /\ exec[e] = Idle /\ exec' = [exec EXCEPT ![e] = c]
        /\ UNCHANGED <<Kind, table, stale, target, recorded, unconfirmed>>
    BY DEF StartSink, Reclaim, Called
  <1>2. c.pc = FirstStep /\ c.current = current /\ c.rows = table /\ c \in Calls
    BY FirstStepType DEF DInv, DTypeOK, Idle, Calls
  <1>3. DTypeOK' /\ KindInv'
    BY <1>1, <1>2, FirstStepType DEF DInv, DTypeOK, KindInv
  <1>4. PublishInv'
    BY <1>1, <1>2, FirstStepType DEF DInv, DTypeOK, PublishInv
  <1>5. UpsertInv'
    <2> SUFFICES ASSUME Kind = "upsert", StartSink(e), ~doubled'
                 PROVE  UpsertInv'
      BY <1>1 DEF UpsertInv, Reclaim
    <2>1. stale' /\ phase' = "wait" /\ \A f \in Executions \ {e} : exec[f] = Idle
      BY <1>1 DEF StartSink
    <2>2. \A f \in Executions : f # e => exec'[f] = Idle
      BY <1>1, <2>1 DEF DInv, DTypeOK
    <2>3. exec'[e] = c /\ c.pc = "delete"
      BY <1>1, <1>2, FirstStepType DEF DInv, DTypeOK
    <2>4. Idle.pc = "idle"
      BY DEF Idle
    <2> QED
      BY <1>1, <1>2, <2>1, <2>2, <2>3, <2>4 DEF UpsertInv
  <1> QED
    BY <1>3, <1>4, <1>5 DEF DInv

\* Call d is call c, but for whether the tick waits for it; or has ended.
SameOrEnded(c, d) ==
    /\ d \in Calls
    /\ \/ d = Idle
       \/ /\ d.pc = c.pc /\ d.rows = c.rows
          /\ d.pending = c.pending /\ d.errors = c.errors
    /\ c = Idle => d = Idle

LEMMA AbandonedCall ==
    ASSUME NEW c \in Calls, NEW d \in {Idle, [c EXCEPT !.current = FALSE]}
    PROVE  SameOrEnded(c, d) /\ ~d.current
  <1>1. Idle \in Calls /\ ~Idle.current
    BY IdleType DEF Idle
  <1>2. CASE d = [c EXCEPT !.current = FALSE]
    <2>1. d \in Calls /\ ~d.current /\ (~c.current => d = c)
      BY <1>2 DEF Calls
    <2> QED
      BY <1>1, <1>2, <2>1 DEF Calls, SameOrEnded
  <1> QED
    BY <1>1, <1>2 DEF SameOrEnded

(* The process ends, and some of its calls; nobody waits for the others.    *)
LEMMA CrashInv ==
    ASSUME DInv, NEW alive \in SUBSET Executions, Crash(alive)
    PROVE  DInv'
  <1>1. /\ exec' = [e \in Executions |->
                       IF e \in alive THEN [exec[e] EXCEPT !.current = FALSE]
                       ELSE Idle]
        /\ UNCHANGED <<Kind, table, stale, target, recorded, unconfirmed, doubled>>
    BY DEF Crash
  <1>2. \A e \in Executions :
            exec'[e] \in {Idle, [exec[e] EXCEPT !.current = FALSE]}
    BY <1>1
  <1>3. \A e \in Executions :
            SameOrEnded(exec[e], exec'[e]) /\ ~exec'[e].current
    <2>1. \A e \in Executions : exec[e] \in Calls
      BY DEF DInv, DTypeOK
    <2> QED
      BY <1>2, <2>1, AbandonedCall
  <1>4. exec' \in [Executions -> Calls]
    BY <1>1, <1>3 DEF SameOrEnded
  <1>5. Idle.pc = "idle"
    BY DEF Idle
  <1>6. DTypeOK' /\ KindInv'
    BY <1>1, <1>3, <1>4, <1>5 DEF DInv, DTypeOK, KindInv, SameOrEnded
  <1>7. PublishInv'
    BY <1>1, <1>3, <1>5 DEF DInv, PublishInv, SameOrEnded
  <1>8. UpsertInv'
    BY <1>1, <1>3, <1>5 DEF DInv, UpsertInv, Exact, Erased, SameOrEnded
  <1> QED
    BY <1>6, <1>7, <1>8 DEF DInv

-----------------------------------------------------------------------------
(* Steps of a call                                                         *)

(* A step of call e, to c: what remains to be shown of c and of the target. *)
LEMMA StepInv ==
    ASSUME DInv, NEW e \in Executions, NEW from \in Places \ {"idle"},
           NEW c \in Calls, Step(e, from, c),
           c.pc \in {"done", "failed"} \cup PlacesOf[Kind],
           c.rows = exec[e].rows, c.current = exec[e].current,
           target' \in [Rows -> Nat],
           unconfirmed' \in SUBSET Rows, unconfirmed \subseteq unconfirmed',
           Kind \in {"kafka", "append"} =>
               /\ \A r \in Rows : target[r] >= 1 => target'[r] >= 1
               /\ c.pc = "flush" /\ ~c.errors
                  => \A r \in c.rows \ c.pending : target'[r] >= 1
               /\ c.pc = "done"
                  => \A r \in c.rows \ unconfirmed' : target'[r] >= 1,
           Kind = "upsert" /\ ~doubled =>
               /\ c.pc = "insert" => Erased(target', c.rows)
               /\ c.pc = "done" => Exact(target', c.rows)
    PROVE  DInv'
  <1>1. /\ exec[e].pc = from /\ exec' = [exec EXCEPT ![e] = c]
        /\ UNCHANGED <<Kind, table, stale, phase, recorded, doubled>>
    BY DEF Step
  <1>2. exec'[e] = c /\ \A f \in Executions \ {e} : exec'[f] = exec[f]
    BY <1>1 DEF DInv, DTypeOK
  <1>3. DTypeOK' /\ KindInv'
    BY <1>1, <1>2 DEF DInv, DTypeOK, KindInv
  <1>4. PublishInv'
    <2> SUFFICES ASSUME Kind \in {"kafka", "append"} PROVE PublishInv'
      BY <1>1 DEF PublishInv
    <2>1. \A f \in Executions : exec[f].rows \subseteq Rows
      BY DEF DInv, DTypeOK, Calls
    <2> QED
      BY <1>1, <1>2, <2>1 DEF DInv, DTypeOK, PublishInv
  <1>5. UpsertInv'
    <2> SUFFICES ASSUME Kind = "upsert", ~doubled PROVE UpsertInv'
      BY <1>1 DEF UpsertInv
    <2>1. exec[e] # Idle
      BY <1>1 DEF Idle
    <2>2. /\ stale /\ (exec[e].current => phase = "wait" /\ exec[e].rows = table)
          /\ \A f \in Executions \ {e} : exec'[f] = Idle
      BY <1>2, <2>1 DEF DInv, UpsertInv
    <2>3. Idle.pc = "idle"
      BY DEF Idle
    <2> QED
      BY <1>1, <1>2, <2>2, <2>3 DEF UpsertInv
  <1> QED
    BY <1>3, <1>4, <1>5 DEF DInv

(* produce and flush of write_kafka, and whatever raises: the rows outside   *)
(* are as they were.                                                        *)
LEMMA SilentInv ==
    ASSUME DInv, NEW e \in Executions,
           Produce(e) \/ Flush(e) \/ ColumnsDiffer(e) \/ Raise(e)
    PROVE  DInv'
  <1>1. target' = target /\ exec[e] \in Calls
    BY DEF Produce, Flush, ColumnsDiffer, Raise, DInv, DTypeOK
  <1>2. CASE Produce(e)
    <2> DEFINE c == [Goto(e, "flush") EXCEPT !.pending = exec[e].rows]
    <2>1. /\ c \in Calls /\ c.pc = "flush"
          /\ c.rows = exec[e].rows /\ c.current = exec[e].current
          /\ c.pending = exec[e].rows
      BY <1>1 DEF Goto, Calls, Places
    <2>2. exec[e].pc = "produce" /\ Step(e, "produce", c) /\ unconfirmed' = unconfirmed
      BY <1>2 DEF Produce, Step
    <2>3. Kind \in {"kafka", "append", "upsert", "replace", "parquet"}
      BY DeliveryAssumption DEF DInv, DTypeOK
    <2>4. Kind = "kafka"
      BY <2>2, <2>3 DEF DInv, KindInv, PlacesOf
    <2>5. "produce" \in Places \ {"idle"} /\ "flush" \in PlacesOf[Kind]
      BY <2>4 DEF Places, PlacesOf
    <2> HIDE DEF c
    <2> QED
      BY <1>1, <2>1, <2>2, <2>4, <2>5, StepInv DEF DInv, DTypeOK
  <1>3. CASE Flush(e)
    <2> DEFINE c == Goto(e, IF exec[e].errors THEN "failed" ELSE "done")
    <2>1. /\ c \in Calls /\ c.rows = exec[e].rows /\ c.current = exec[e].current
          /\ c.pc \in {"done", "failed"} \cup PlacesOf[Kind] /\ c.pc # "flush"
          /\ c.pc = "done" => ~exec[e].errors
      BY <1>1 DEF Goto, Calls, Places
    <2>2. /\ exec[e].pc = "flush" /\ Step(e, "flush", c)
          /\ unconfirmed' = unconfirmed \cup exec[e].pending
      BY <1>3 DEF Flush, Step
    <2>3. Kind \in {"kafka", "append", "upsert", "replace", "parquet"}
      BY DeliveryAssumption DEF DInv, DTypeOK
    <2>4. Kind = "kafka"
      BY <2>2, <2>3 DEF DInv, KindInv, PlacesOf
    <2>5. "flush" \in Places \ {"idle"} /\ exec[e].pending \in SUBSET Rows
      BY <1>1 DEF Places, Calls
    <2> HIDE DEF c
    <2>6. c.pc = "done" => \A r \in c.rows \ unconfirmed' : target'[r] >= 1
      BY <1>1, <2>1, <2>2, <2>4 DEF DInv, PublishInv
    <2>7. /\ unconfirmed' \in SUBSET Rows /\ unconfirmed \subseteq unconfirmed'
          /\ target' \in [Rows -> Nat]
      BY <1>1, <2>2, <2>5 DEF DInv, DTypeOK
    <2> QED
      BY <1>1, <2>1, <2>2, <2>4, <2>5, <2>6, <2>7, StepInv
  <1>4. CASE ColumnsDiffer(e) \/ Raise(e)
    <2> DEFINE c == Goto(e, "failed")
    <2>1. /\ c \in Calls /\ c.rows = exec[e].rows /\ c.current = exec[e].current
          /\ c.pc = "failed"
      BY <1>1 DEF Goto, Calls, Places
    <2>2. PICK from \in Places \ {"idle"} : Step(e, from, c)
      BY <1>4 DEF ColumnsDiffer, Raise, Places
    <2>3. unconfirmed' = unconfirmed
      BY <1>4 DEF ColumnsDiffer, Raise
    <2> HIDE DEF c
    <2> QED
      BY <1>1, <2>1, <2>2, <2>3, StepInv DEF DInv, DTypeOK
  <1> QED
    BY <1>2, <1>3, <1>4

(* produce raises: the rows handed over before may be outside.              *)
LEMMA ProduceRaisesInv ==
    ASSUME DInv, NEW e \in Executions, NEW sent \in SUBSET Rows,
           ProduceRaises(e, sent)
    PROVE  DInv'
  <1> DEFINE c == Goto(e, "failed")
  <1>1. exec[e] \in Calls /\ \A r \in Rows : target[r] \in Nat
    BY DEF DInv, DTypeOK
  <1>2. /\ c \in Calls /\ c.rows = exec[e].rows /\ c.current = exec[e].current
        /\ c.pc = "failed"
    BY <1>1 DEF Goto, Calls, Places
  <1>3. /\ Step(e, "produce", c) /\ unconfirmed' = unconfirmed
        /\ target' = [r \in Rows |-> IF r \in sent THEN Copies(target[r] + 1)
                                     ELSE target[r]]
    BY DEF ProduceRaises
  <1>4. /\ target' \in [Rows -> Nat]
        /\ \A r \in Rows : target[r] >= 1 => target'[r] >= 1
    BY <1>1, <1>3, CopiesFact
  <1>5. "produce" \in Places \ {"idle"}
    BY DEF Places
  <1> HIDE DEF c
  <1> QED
    BY <1>2, <1>3, <1>4, <1>5, StepInv DEF DInv, DTypeOK

(* A delivery report: one row more is outside, or the call has an error.    *)
LEMMA DeliverInv ==
    ASSUME DInv, NEW e \in Executions, NEW r \in Rows,
           Deliver(e, r) \/ ReportError(e, r)
    PROVE  DInv'
  <1> DEFINE d == [exec[e] EXCEPT !.pending = @ \ {r}]
             c == [exec[e] EXCEPT !.pending = @ \ {r}, !.errors = TRUE]
  <1>1. exec[e] \in Calls /\ target[r] \in Nat
    BY DEF DInv, DTypeOK
  <1>2. exec[e].pc = "flush" /\ unconfirmed' = unconfirmed
    BY DEF Deliver, ReportError, Step
  <1>3. Kind \in {"kafka", "append", "upsert", "replace", "parquet"}
    BY DeliveryAssumption DEF DInv, DTypeOK
  <1>4. Kind = "kafka"
    BY <1>2, <1>3 DEF DInv, KindInv, PlacesOf
  <1>5. "flush" \in Places \ {"idle"} /\ "flush" \in PlacesOf[Kind]
    BY <1>4 DEF Places, PlacesOf
  <1>6. CASE Deliver(e, r)
    <2>1. /\ d \in Calls /\ d.pc = "flush" /\ d.rows = exec[e].rows
          /\ d.current = exec[e].current /\ d.errors = exec[e].errors
          /\ d.pending = exec[e].pending \ {r}
      BY <1>1, <1>2 DEF Calls
    <2>2. Step(e, "flush", d) /\ target' = [target EXCEPT ![r] = Copies(target[r] + 1)]
      BY <1>6 DEF Deliver
    <2>3. /\ target' \in [Rows -> Nat] /\ target'[r] >= 1
          /\ \A q \in Rows \ {r} : target'[q] = target[q]
      BY <1>1, <2>2, CopiesFact DEF DInv, DTypeOK
    <2>4. exec[e].rows \in SUBSET Rows
      BY <1>1 DEF Calls
    <2>5. d.pc = "flush" /\ ~d.errors => \A q \in d.rows \ d.pending : target'[q] >= 1
      BY <1>2, <1>4, <2>1, <2>3, <2>4 DEF DInv, PublishInv
    <2>6. \A q \in Rows : target[q] >= 1 => target'[q] >= 1
      BY <2>3
    <2> HIDE DEF d
    <2> QED
      BY <1>2, <1>4, <1>5, <2>1, <2>2, <2>3, <2>5, <2>6, StepInv DEF DInv, DTypeOK
  <1>7. CASE ReportError(e, r)
    <2>1. /\ c \in Calls /\ c.pc = "flush" /\ c.rows = exec[e].rows
          /\ c.current = exec[e].current /\ c.errors
      BY <1>1, <1>2 DEF Calls
    <2>2. Step(e, "flush", c) /\ target' = target
      BY <1>7 DEF ReportError
    <2> HIDE DEF c
    <2> QED
      BY <1>2, <1>4, <1>5, <2>1, <2>2, StepInv DEF DInv, DTypeOK
  <1> QED
    BY <1>6, <1>7

(* The statements of write_postgres, and write_parquet.                     *)
LEMMA StatementInv ==
    ASSUME DInv, NEW e \in Executions,
           Delete(e) \/ Insert(e) \/ Replace(e) \/ WriteParquet(e)
    PROVE  DInv'
  <1> DEFINE c == Goto(e, "done")
             i == Goto(e, "insert")
  <1>1. exec[e] \in Calls
    BY DEF DInv, DTypeOK
  <1>2. /\ c \in Calls /\ c.rows = exec[e].rows /\ c.current = exec[e].current
        /\ c.pc = "done"
    BY <1>1 DEF Goto, Calls, Places
  <1>3. Kind \in {"kafka", "append", "upsert", "replace", "parquet"}
    BY DeliveryAssumption DEF DInv, DTypeOK
  <1>4. exec[e].rows \in SUBSET Rows
    BY <1>1 DEF Calls
  <1>5. CASE Delete(e)
    <2>1. exec[e].pc = "delete" /\ Step(e, "delete", i) /\ unconfirmed' = unconfirmed
      BY <1>5 DEF Delete, Step
    <2>2. Kind = "upsert"
      BY <1>3, <2>1 DEF DInv, KindInv, PlacesOf
    <2>3. "delete" \in Places \ {"idle"} /\ "insert" \in PlacesOf[Kind]
      BY <2>2 DEF Places, PlacesOf
    <2>4. /\ i \in Calls /\ i.rows = exec[e].rows /\ i.current = exec[e].current
          /\ i.pc = "insert"
      BY <1>1 DEF Goto, Calls, Places
    <2>5. target' = [r \in Rows |-> IF HasKeyOf(r, exec[e].rows) THEN 0 ELSE target[r]]
      BY <1>5 DEF Delete, HasKeyOf
    <2>6. target' \in [Rows -> Nat] /\ Erased(target', i.rows)
      BY <2>1, <2>4, <2>5 DEF Erased, DInv, DTypeOK, HasKeyOf
    <2> HIDE DEF i
    <2> QED
      BY <1>4, <2>1, <2>2, <2>3, <2>4, <2>6, StepInv DEF DInv, DTypeOK
  <1>6. CASE Insert(e)
    <2>1. /\ exec[e].pc = "insert" /\ Step(e, "insert", c) /\ unconfirmed' = unconfirmed
          /\ target' = [r \in Rows |-> IF r \in exec[e].rows
                                       THEN Copies(target[r] + 1) ELSE target[r]]
      BY <1>6 DEF Insert, Step
    <2>2. \A r \in Rows : target[r] \in Nat
      BY DEF DInv, DTypeOK
    <2>3. target' \in [Rows -> Nat]
      BY <2>1, <2>2, CopiesFact
    <2>4. /\ \A r \in exec[e].rows : target'[r] >= 1
          /\ \A r \in Rows : target[r] >= 1 => target'[r] >= 1
      BY <1>4, <2>1, <2>2, CopiesFact
    <2>5. Kind = "upsert" /\ ~doubled => Exact(target', exec[e].rows)
      <3> SUFFICES ASSUME Kind = "upsert", ~doubled, NEW r \in Rows,
                          HasKeyOf(r, exec[e].rows)
                   PROVE  target'[r] = IF r \in exec[e].rows THEN 1 ELSE 0
        BY DEF Exact
      <3>1. target[r] = 0
        BY <2>1 DEF DInv, UpsertInv, Erased
      <3> QED
        BY <2>1, <2>2, <3>1, CopiesFact
    <2>6. "insert" \in Places \ {"idle"}
      BY DEF Places
    <2> HIDE DEF c
    <2> QED
      BY <1>2, <2>1, <2>3, <2>4, <2>5, <2>6, StepInv DEF DInv, DTypeOK
  <1>7. CASE Replace(e) \/ WriteParquet(e)
    <2>1. PICK from \in {"replace", "parquet"} : Step(e, from, c)
      BY <1>7 DEF Replace, WriteParquet
    <2>2. exec[e].pc = from /\ from \in Places \ {"idle"}
      BY <2>1 DEF Step, Places
    <2>3. Kind \in {"replace", "parquet"}
      BY <1>3, <2>1, <2>2 DEF DInv, KindInv, PlacesOf
    <2>4. unconfirmed' = unconfirmed /\ target' \in [Rows -> Nat]
      BY <1>7 DEF Replace, WriteParquet, Contents
    <2> HIDE DEF c
    <2> QED
      BY <1>2, <2>1, <2>2, <2>3, <2>4, StepInv DEF DInv, DTypeOK
  <1> QED
    BY <1>5, <1>6, <1>7

(* The tick records the first result, or drops a late one.                  *)
LEMMA ReportInv ==
    ASSUME DInv, NEW e \in Executions, Report(e)
    PROVE  DInv'
  <1>1. /\ exec[e].pc \in {"done", "failed"} /\ exec[e] # Idle /\ Idle.pc = "idle"
        /\ UNCHANGED <<Kind, table, target, unconfirmed, doubled>>
    BY DEF Report, Recorded, Idle
  <1>2. \A f \in Executions :
            \/ exec'[f] = exec[f] /\ ~exec[e].current /\ f # e
            \/ exec'[f] \in {Idle, [exec[f] EXCEPT !.current = FALSE]}
               /\ (f = e => exec'[f] = Idle)
    BY DEF Report, Recorded, DInv, DTypeOK
  <1>3. \A f \in Executions :
            SameOrEnded(exec[f], exec'[f]) /\ (f = e => exec'[f] = Idle)
    <2> SUFFICES ASSUME NEW f \in Executions
                 PROVE  SameOrEnded(exec[f], exec'[f]) /\ (f = e => exec'[f] = Idle)
      OBVIOUS
    <2>1. exec[f] \in Calls
      BY DEF DInv, DTypeOK
    <2>2. CASE exec'[f] = exec[f] /\ f # e
      BY <2>1, <2>2 DEF SameOrEnded
    <2>3. CASE /\ exec'[f] \in {Idle, [exec[f] EXCEPT !.current = FALSE]}
               /\ f = e => exec'[f] = Idle
      BY <2>1, <2>3, AbandonedCall
    <2> QED
      BY <1>2, <2>2, <2>3
  <1>4. exec' \in [Executions -> Calls]
    <2>1. exec' = [f \in Executions |-> exec'[f]]
      BY DEF Report, Recorded, DInv, DTypeOK
    <2> QED
      BY <1>3, <2>1 DEF SameOrEnded
  <1>5. /\ \/ recorded' = recorded
           \/ exec[e].pc = "done" /\ recorded' = recorded \cup exec[e].rows
        /\ exec[e].rows \in SUBSET Rows
    <2>1. exec[e].rows \in SUBSET Rows
      BY DEF DInv, DTypeOK, Calls
    <2> QED
      BY <2>1 DEF Report, Recorded
  <1>6. DTypeOK' /\ KindInv'
    BY <1>1, <1>3, <1>4, <1>5 DEF DInv, DTypeOK, KindInv, SameOrEnded
  <1>7. PublishInv'
    BY <1>1, <1>3, <1>5 DEF DInv, PublishInv, SameOrEnded
  <1>8. UpsertInv'
    <2> SUFFICES ASSUME Kind = "upsert", ~doubled PROVE UpsertInv'
      BY <1>1 DEF UpsertInv
    <2>1. stale /\ \A f \in Executions : f # e => exec[f] = Idle
      BY <1>1 DEF DInv, UpsertInv
    <2>2. \A f \in Executions : exec'[f] = Idle
      BY <1>3, <2>1 DEF SameOrEnded
    <2>3. ~stale' => exec[e].pc = "done" /\ exec[e].rows = table
      BY <1>1, <2>1 DEF Report, Recorded, DInv, UpsertInv
    <2>4. ~stale' => Exact(target, table)
      BY <2>3 DEF DInv, UpsertInv
    <2> QED
      BY <1>1, <2>2, <2>4 DEF UpsertInv, Exact
  <1> QED
    BY <1>6, <1>7, <1>8 DEF DInv

(* Every step keeps the invariant.                                          *)
LEMMA NextInv ==
    ASSUME DInv, [Next]_vars
    PROVE  DInv'
  <1>1. CASE \/ StartTick \/ SourceNotDue \/ SourceRuns \/ SourceFails \/ SkipSink
             \/ \E r \in Rows : Arrive(r)
    BY <1>1, SourceInv
  <1>2. CASE \E alive \in SUBSET Executions : Crash(alive)
    BY <1>2, CrashInv
  <1>3. ASSUME NEW e \in Executions, SinkStep(e) \/ Raise(e)
        PROVE  DInv'
    <2>1. CASE StartSink(e)
      BY <2>1, CalledInv
    <2>2. CASE Produce(e) \/ Flush(e) \/ ColumnsDiffer(e) \/ Raise(e)
      BY <2>2, SilentInv
    <2>3. CASE Delete(e) \/ Insert(e) \/ Replace(e) \/ WriteParquet(e)
      BY <2>3, StatementInv
    <2>4. CASE Report(e)
      BY <2>4, ReportInv
    <2>5. CASE \E r \in Rows : Deliver(e, r) \/ ReportError(e, r)
      BY <2>5, DeliverInv
    <2> QED
      BY <1>3, <2>1, <2>2, <2>3, <2>4, <2>5 DEF SinkStep
  <1>4. ASSUME NEW e \in Executions,
               \/ \E current \in BOOLEAN : Reclaim(e, current)
               \/ \E sent \in SUBSET Rows : ProduceRaises(e, sent)
        PROVE  DInv'
    BY <1>4, CalledInv, ProduceRaisesInv
  <1>5. CASE UNCHANGED vars
    BY <1>5 DEF vars, DInv, DTypeOK, KindInv, PublishInv, UpsertInv, Erased, Exact
  <1> QED
    BY <1>1, <1>2, <1>3, <1>4, <1>5 DEF Next, Tick

(* The invariant holds of every reachable state.                            *)
LEMMA AlwaysInv == Spec => []DInv
  BY InitInv, NextInv, PTL DEF Spec

-----------------------------------------------------------------------------

(* The rows of a recorded run of a sink that adds are outside, unless the    *)
(* flush timed out on them (sinks/kafka.py:70-84, sinks/postgres.py:64-65).  *)
THEOREM RecordedIsPublished == Spec => []RecordedMeansPublished
  <1>1. DInv => RecordedMeansPublished
    BY DEF DInv, PublishInv, RecordedMeansPublished
  <1> QED
    BY <1>1, AlwaysInv, PTL

(* After a recorded upsert, of the keys of its input the input is outside    *)
(* and nothing else, whatever ended between DELETE and INSERT before         *)
(* (sinks/postgres.py:66-74), unless another call met it or came after it.   *)
THEOREM UpsertsConverge == Spec => []UpsertConverges
  <1>1. DInv => UpsertConverges
    BY DEF DInv, UpsertInv, Exact, HasKeyOf, UpsertConverges
  <1> QED
    BY <1>1, AlwaysInv, PTL
=============================================================================
