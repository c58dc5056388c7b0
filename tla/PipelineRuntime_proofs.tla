----------------------- MODULE PipelineRuntime_proofs -----------------------
(***************************************************************************)
(* Proofs about PipelineRuntime and RunLog, for any pipelines, partition   *)
(* values and bounds. The first invariant, Base, says what a record stands *)
(* for: the table at its snapshot is what the step makes of the snapshots  *)
(* that its fingerprint names. The second, Tick, says how far a tick       *)
(* without a fault has come: the steps of its earlier levels are up to     *)
(* date, and those of its level are, or have a job or a record to come.    *)
(* The third, Replay, is about what a run wrote into a table it shares     *)
(* with earlier runs, and the fourth, Fills, follows the rows of an input  *)
(* through the sub-jobs of a partitioned step. The fifth, Once, is about   *)
(* the steps that append what is new in the one table they read. None      *)
(* holds of the log alone: the record of a commit that was made and not    *)
(* yet recorded is part of them.                                           *)
(***************************************************************************)
EXTENDS PipelineRuntime, SequenceFacts

-----------------------------------------------------------------------------
(* Naturals, sums                                                          *)

LEMMA GreatestNatural ==
    ASSUME NEW T \in SUBSET Nat, T # {}, NEW n \in Nat, \A k \in T : k <= n
    PROVE  \E m \in T : \A k \in T : k <= m
  <1> DEFINE B == {u \in Nat : \A k \in T : k <= u}
  <1>1. PICK m \in B : \A u \in B : m <= u
    BY LeastNatural
  <1>2. CASE m \in T
    BY <1>2
  <1>3. CASE m \notin T
    <2>1. \A k \in T : k <= m - 1
      BY <1>3
    <2>2. m - 1 \in Nat
      <3>1. PICK k \in T : TRUE
        OBVIOUS
      <3>2. k \in Nat /\ m \in Nat /\ k <= m /\ k # m
        BY <1>3
      <3> QED
        BY <3>2
    <2>3. m - 1 \in B
      BY <2>1, <2>2
    <2> QED
      BY <1>1, <2>3
  <1> QED
    BY <1>2, <1>3

LEMMA MaxOfBounded ==
    ASSUME NEW T \in SUBSET Nat, T # {}, NEW n \in Nat, \A k \in T : k <= n
    PROVE  Max(T) \in T /\ \A k \in T : k <= Max(T)
  <1>1. PICK m \in T : \A k \in T : k <= m
    BY GreatestNatural
  <1>2. m \in T /\ \A k \in T : m >= k
    BY <1>1
  <1>3. Max(T) \in T /\ \A k \in T : Max(T) >= k
    BY <1>2 DEF Max
  <1> QED
    BY <1>3

LEMMA MinOfNaturals ==
    ASSUME NEW T \in SUBSET Nat, T # {}
    PROVE  Min(T) \in T /\ \A k \in T : Min(T) <= k
  <1>1. PICK m \in T : \A k \in T : m <= k
    BY LeastNatural
  <1> QED
    BY <1>1 DEF Min

LEMMA UnitsAreFinite ==
    ASSUME NEW S, IsFiniteSet(S), NEW f \in [S -> Nat]
    PROVE  IsFiniteSet(UNION {{x} \X (1..f[x]) : x \in S})
  <1> DEFINE g == [x \in S |-> {x} \X (1..f[x])]
             T == {{x} \X (1..f[x]) : x \in S}
  <1>1. g \in Surjection(S, T)
    <2>1. g \in [S -> T]
      OBVIOUS
    <2>2. \A y \in T : \E x \in S : g[x] = y
      OBVIOUS
    <2> QED
      BY <2>1, <2>2 DEF Surjection
  <1>2. IsFiniteSet(T)
    BY <1>1, FS_Surjection
  <1>3. \A U \in T : IsFiniteSet(U)
    <2> SUFFICES ASSUME NEW x \in S
                 PROVE  IsFiniteSet({x} \X (1..f[x]))
      OBVIOUS
    <2>1. IsFiniteSet({x})
      BY FS_Singleton
    <2>2. f[x] \in Int /\ 1 \in Int
      OBVIOUS
    <2>3. IsFiniteSet(1..f[x])
      BY <2>2, FS_Interval
    <2> QED
      BY <2>1, <2>3, FS_Product
  <1> QED
    BY <1>2, <1>3, FS_UNION

LEMMA TotalIsNatural ==
    ASSUME NEW S, IsFiniteSet(S), NEW f \in [S -> Nat]
    PROVE  Total(f) \in Nat
  BY UnitsAreFinite, FS_CardinalityType DEF Total

LEMMA TotalIsZero ==
    ASSUME NEW S, IsFiniteSet(S), NEW f \in [S -> Nat]
    PROVE  Total(f) = 0 <=> \A x \in S : f[x] = 0
  <1> DEFINE U == UNION {{x} \X (1..f[x]) : x \in S}
  <1>1. Total(f) = Cardinality(U) /\ IsFiniteSet(U)
    BY UnitsAreFinite DEF Total
  <1>2. Total(f) = 0 <=> U = {}
    <2> HIDE DEF U
    <2> QED
      BY <1>1, FS_EmptySet
  <1>3. ASSUME NEW x \in S, f[x] # 0
        PROVE  <<x, 1>> \in U
    <2>1. f[x] \in Nat
      OBVIOUS
    <2>2. 1 \in 1..f[x]
      BY <1>3, <2>1
    <2> QED
      BY <2>2
  <1>4. ASSUME \A x \in S : f[x] = 0
        PROVE  U = {}
    <2>1. \A x \in S : 1..f[x] = {}
      BY <1>4
    <2> QED
      BY <2>1
  <1> HIDE DEF U
  <1> QED
    BY <1>2, <1>3, <1>4

LEMMA TotalOfOne ==
    ASSUME NEW x, NEW f \in [{x} -> Nat]
    PROVE  Total(f) = f[x]
  <1>1. UNION {{y} \X (1..f[y]) : y \in DOMAIN f} = {x} \X (1..f[x])
    OBVIOUS
  <1>2. f[x] \in Nat
    OBVIOUS
  <1>3. IsFiniteSet({x}) /\ Cardinality({x}) = 1
    BY FS_Singleton
  <1>4. IsFiniteSet(1..f[x]) /\ Cardinality(1..f[x]) = f[x]
    <2> DEFINE n == f[x]
    <2>1. n \in Nat
      BY <1>2
    <2> HIDE DEF n
    <2>2. /\ IsFiniteSet(1..n)
          /\ Cardinality(1..n) = IF 1 > n THEN 0 ELSE n - 1 + 1
      <3>1. \A a, b \in Int : /\ IsFiniteSet(a..b)
                              /\ Cardinality(a..b) = IF a > b THEN 0 ELSE b - a + 1
        BY FS_Interval, Zenon
      <3>2. 1 \in Int /\ n \in Int
        BY <2>1
      <3> QED
        BY <3>1, <3>2, Zenon
    <2>3. IsFiniteSet(1..n) /\ Cardinality(1..n) = n
      BY <2>1, <2>2
    <2> QED
      BY <2>3 DEF n
  <1>5. Cardinality({x} \X (1..f[x])) = Cardinality({x}) * Cardinality(1..f[x])
    BY <1>3, <1>4, FS_Product
  <1>6. Cardinality({x} \X (1..f[x])) = f[x]
    BY <1>2, <1>3, <1>4, <1>5
  <1>7. Total(f) = Cardinality(UNION {{y} \X (1..f[y]) : y \in DOMAIN f})
    BY DEF Total
  <1> QED
    BY <1>1, <1>6, <1>7

LEMMA SumIsRelation ==
    ASSUME NEW S, IsFiniteSet(S), NEW rels \in [S -> Relation]
    PROVE  SumOf(rels) \in Relation
  <1>1. ASSUME NEW r \in Rows
        PROVE  Total([x \in DOMAIN rels |-> rels[x][r]]) \in Nat
    <2>1. [x \in DOMAIN rels |-> rels[x][r]] \in [S -> Nat]
      BY DEF Relation
    <2> QED
      BY <2>1, TotalIsNatural
  <1>2. SumOf(rels) = [r \in Rows |-> Total([x \in DOMAIN rels |-> rels[x][r]])]
    BY DEF SumOf
  <1> DEFINE f(r) == Total([x \in DOMAIN rels |-> rels[x][r]])
  <1>3. \A r \in Rows : f(r) \in Nat
    BY <1>1
  <1>4. SumOf(rels) = [r \in Rows |-> f(r)]
    BY <1>2
  <1> HIDE DEF f
  <1> QED
    BY <1>3, <1>4 DEF Relation

\* The sum of relations is empty if they all are.
LEMMA SumIsEmpty ==
    ASSUME NEW S, IsFiniteSet(S), NEW rels \in [S -> Relation]
    PROVE  SumOf(rels) = NoRows <=> \A x \in S : rels[x] = NoRows
  <1> DEFINE of(r) == [x \in S |-> rels[x][r]]
  <1>1. \A r \in Rows : of(r) \in [S -> Nat]
    BY DEF Relation
  <1>2. \A r \in Rows : SumOf(rels)[r] = 0 <=> \A x \in S : rels[x][r] = 0
    <2> TAKE r \in Rows
    <2>1. SumOf(rels)[r] = Total(of(r))
      BY DEF SumOf
    <2>2. Total(of(r)) = 0 <=> \A x \in S : of(r)[x] = 0
      <3>1. PICK f : f = of(r)
        OBVIOUS
      <3>2. f \in [S -> Nat]
        BY <1>1, <3>1
      <3>3. Total(f) = 0 <=> \A x \in S : f[x] = 0
        BY <3>2, TotalIsZero
      <3> QED
        BY <3>1, <3>3
    <2> QED
      BY <2>1, <2>2
  <1> HIDE DEF of
  <1>3. \A rel \in Relation : rel = NoRows <=> \A r \in Rows : rel[r] = 0
    BY DEF Relation, NoRows
  <1>4. SumOf(rels) \in Relation /\ \A x \in S : rels[x] \in Relation
    BY SumIsRelation
  <1> QED
    BY <1>2, <1>3, <1>4

-----------------------------------------------------------------------------
(* Tables                                                                  *)

Writes == [version : Nat, merge : {"replace", "append", "upsert"}, rows : Relation]

LEMMA AsOfIsRelation ==
    ASSUME NEW writes \in Seq(Writes), NEW v
    PROVE  AsOf(writes, v) \in Relation
  <1> SUFFICES ASSUME NEW r \in Rows, NEW left \in SUBSET DOMAIN writes
               PROVE  Total([i \in left |-> writes[i].rows[r]]) \in Nat
    BY DEF AsOf, Relation
  <1>1. \A i \in left : writes[i].rows[r] \in Nat
    <2> TAKE i \in left
    <2>1. i \in 1..Len(writes)
      OBVIOUS
    <2>2. writes[i] \in Writes
      BY <2>1
    <2> QED
      BY <2>2 DEF Writes, Relation
  <1>2. IsFiniteSet(left)
    BY FS_Interval, FS_Subset
  <1> QED
    BY <1>1, <1>2, TotalIsNatural

\* A table at an earlier version is what it was after a later write.
LEMMA EarlierVersionStays ==
    ASSUME NEW writes \in Seq(Writes), NEW w \in Writes, NEW v \in Nat,
           w.version > v \/ (w.rows = NoRows /\ w.merge # "replace")
    PROVE  AsOf(Append(writes, w), v) = AsOf(writes, v)
  <1> DEFINE more == Append(writes, w)
             n == Len(writes) + 1
             Seen(ws) == {i \in DOMAIN ws : ws[i].version <= v}
             Left(ws, r) == {i \in Seen(ws) : \A k \in Seen(ws) :
                                TakesAway(ws[k], r) => k <= i}
             Units(ws, r) == UNION {{i} \X (1..ws[i].rows[r]) : i \in Left(ws, r)}
  <1>1. /\ n \in Nat /\ DOMAIN writes = 1..(n - 1) /\ DOMAIN more = 1..n
        /\ more[n] = w /\ \A i \in 1..(n - 1) : more[i] = writes[i]
    OBVIOUS
  <1>2. ASSUME NEW r \in Rows
        PROVE  Units(more, r) = Units(writes, r)
    <2>1. CASE w.version > v
      <3>1. Seen(more) = Seen(writes)
        BY <1>1, <2>1 DEF Writes
      <3>2. Left(more, r) = Left(writes, r)
        BY <1>1, <3>1
      <3> QED
        BY <1>1, <3>1, <3>2
    <2>2. CASE w.rows = NoRows /\ w.merge # "replace"
      <3>1. ~TakesAway(w, r) /\ w.rows[r] = 0
        BY <2>2 DEF TakesAway, NoRows
      <3>2. Seen(writes) = Seen(more) \ {n}
        BY <1>1
      <3>3. Left(writes, r) = Left(more, r) \ {n}
        BY <1>1, <3>1, <3>2
      <3>4. {n} \X (1..more[n].rows[r]) = {}
        BY <1>1, <3>1
      <3>5. Units(more, r) = UNION {{i} \X (1..more[i].rows[r]) : i \in Left(more, r) \ {n}}
        <4> HIDE DEF more, n, Left
        <4> QED
          BY <3>4
      <3>6. \A i \in Left(writes, r) : more[i] = writes[i]
        BY <1>1
      <3> QED
        <4> HIDE DEF more, n, Left
        <4> QED BY <3>3, <3>5, <3>6
    <2> QED
      BY <2>1, <2>2
  <1>3. ASSUME NEW r \in Rows, NEW ws \in {more, writes}
        PROVE  AsOf(ws, v)[r] = Cardinality(Units(ws, r))
    <2>1. AsOf(ws, v)[r] = Total([i \in Left(ws, r) |-> ws[i].rows[r]])
      BY DEF AsOf
    <2> QED
      <3> HIDE DEF more, Left
      <3> QED
        BY <2>1 DEF Total
  <1>4. \A r \in Rows : AsOf(more, v)[r] = AsOf(writes, v)[r]
    <2> HIDE DEF more, Units
    <2> QED
      BY <1>2, <1>3
  <1> QED
    BY <1>4 DEF AsOf

\* A write that replaces the table is the table, at its version.
LEMMA ReplacedTable ==
    ASSUME NEW writes \in Seq(Writes), NEW w \in Writes, w.merge = "replace",
           \A i \in DOMAIN writes : writes[i].version <= w.version
    PROVE  AsOf(Append(writes, w), w.version) = w.rows
  <1> DEFINE more == Append(writes, w)
             n == Len(writes) + 1
             seen == {i \in DOMAIN more : more[i].version <= w.version}
             Left(r) == {i \in seen : \A k \in seen : TakesAway(more[k], r) => k <= i}
  <1>1. /\ n \in Nat /\ DOMAIN more = 1..n /\ more[n] = w
        /\ w.version \in Nat /\ w.rows \in Relation
    BY DEF Writes
  <1>2. n \in seen
    BY <1>1
  <1>3. \A r \in Rows : Left(r) = {n}
    BY <1>1, <1>2 DEF TakesAway
  <1>4. ASSUME NEW r \in Rows
        PROVE  AsOf(more, w.version)[r] = w.rows[r]
    <2>1. AsOf(more, w.version)[r] = Total([i \in Left(r) |-> more[i].rows[r]])
      BY DEF AsOf
    <2>2. AsOf(more, w.version)[r] = Total([i \in {n} |-> more[i].rows[r]])
      BY <1>3, <2>1
    <2>3. [i \in {n} |-> more[i].rows[r]] \in [{n} -> Nat]
      BY <1>1 DEF Relation
    <2> HIDE DEF more, n
    <2>4. Total([i \in {n} |-> more[i].rows[r]]) = more[n].rows[r]
      BY <2>3, TotalOfOne
    <2> QED
      BY <1>1, <2>2, <2>4
  <1> QED
    BY <1>1, <1>4 DEF AsOf, Relation

\* A row that was written into a table which nothing replaces is there for good.
LEMMA RowIsThere ==
    ASSUME NEW writes \in Seq(Writes),
           \A i \in DOMAIN writes : i > 1 => writes[i].merge # "replace",
           NEW v \in Nat, NEW r \in Rows
    PROVE  AsOf(writes, v)[r] > 0 <=>
              \E i \in DOMAIN writes : writes[i].version <= v /\ writes[i].rows[r] > 0
  <1> DEFINE seen == {i \in DOMAIN writes : writes[i].version <= v}
             left == {i \in seen : \A k \in seen :
                         TakesAway(writes[k], r) => k <= i}
             f == [i \in left |-> writes[i].rows[r]]
  <1>1. /\ DOMAIN writes = 1..Len(writes) /\ Len(writes) \in Nat
        /\ \A i \in DOMAIN writes : writes[i].rows[r] \in Nat
    <2>1. /\ DOMAIN writes = 1..Len(writes) /\ Len(writes) \in Nat
          /\ \A i \in 1..Len(writes) : writes[i] \in Writes
      OBVIOUS
    <2>2. \A w \in Writes : w.rows[r] \in Nat
      BY DEF Writes, Relation
    <2> QED
      BY <2>1, <2>2
  <1>2. left \in SUBSET (1..Len(writes))
    BY <1>1
  <1>3. AsOf(writes, v)[r] > 0 <=> \E i \in left : writes[i].rows[r] > 0
    <2>1. IsFiniteSet(left)
      <3> HIDE DEF left
      <3>1. IsFiniteSet(1..Len(writes))
        BY <1>1, FS_Interval
      <3> QED
        BY <1>2, <3>1, FS_Subset
    <2>2. AsOf(writes, v)[r] = Total(f)
      BY DEF AsOf
    <2>3. \A i \in left : writes[i].rows[r] \in Nat
      BY <1>1
    <2> HIDE DEF left
    <2>4. f \in [left -> Nat] /\ \A i \in left : f[i] = writes[i].rows[r]
      BY <2>3
    <2> HIDE DEF f
    <2>5. Total(f) = 0 <=> \A i \in left : f[i] = 0
      BY <2>1, <2>4, TotalIsZero
    <2>6. Total(f) \in Nat
      BY <2>1, <2>4, TotalIsNatural
    <2> QED
      BY <2>2, <2>3, <2>4, <2>5, <2>6
  <1>4. ASSUME NEW i \in seen, writes[i].rows[r] > 0
        PROVE  \E k \in left : writes[k].rows[r] > 0
    <2> DEFINE K == {k \in seen : TakesAway(writes[k], r)}
    <2>1. CASE K = {}
      BY <1>4, <2>1
    <2>2. CASE K # {}
      <3>1. K \in SUBSET Nat /\ \A k \in K : k <= Len(writes)
        BY <1>1
      <3>2. PICK k \in K : \A q \in K : q <= k
        BY <1>1, <2>2, <3>1, GreatestNatural
      <3>3. k \in left
        BY <3>2
      <3>4. CASE k > 1
        <4>1. writes[k].merge # "replace"
          BY <3>4
        <4>2. writes[k].rows[r] > 0
          BY <4>1 DEF TakesAway
        <4> QED
          BY <3>3, <4>2
      <3>5. CASE k = 1
        <4>1. \A q \in seen : TakesAway(writes[q], r) => q <= i
          BY <1>1, <1>4, <3>2, <3>5
        <4> QED
          BY <1>4, <4>1
      <3> QED
        BY <1>1, <3>1, <3>4, <3>5
    <2> QED
      BY <2>1, <2>2
  <1>5. left \in SUBSET seen
    OBVIOUS
  <1> QED
    BY <1>3, <1>4, <1>5

\* Such a table is never emptied again.
LEMMA NonemptyStays ==
    ASSUME NEW writes \in Seq(Writes),
           \A i \in DOMAIN writes : i > 1 => writes[i].merge # "replace",
           NEW v \in Nat, NEW w \in Nat, v <= w
    PROVE  /\ \A r \in Rows : AsOf(writes, v)[r] > 0 => AsOf(writes, w)[r] > 0
           /\ AsOf(writes, v) # NoRows => AsOf(writes, w) # NoRows
  <1>1. \A i \in DOMAIN writes : writes[i].version \in Nat
    <2>1. \A i \in 1..Len(writes) : writes[i] \in Writes
      OBVIOUS
    <2> QED
      BY <2>1 DEF Writes
  <1>2. ASSUME NEW r \in Rows, AsOf(writes, v)[r] > 0
        PROVE  AsOf(writes, w)[r] > 0
    <2>1. PICK i \in DOMAIN writes : writes[i].version <= v /\ writes[i].rows[r] > 0
      BY <1>2, RowIsThere
    <2>2. writes[i].version <= w
      BY <1>1, <2>1
    <2> QED
      BY <2>1, <2>2, RowIsThere
  <1>3. ASSUME AsOf(writes, v) # NoRows
        PROVE  AsOf(writes, w) # NoRows
    <2>1. AsOf(writes, v) \in Relation
      BY AsOfIsRelation
    <2>2. PICK r \in Rows : AsOf(writes, v)[r] # 0
      BY <1>3, <2>1 DEF NoRows, Relation
    <2>3. AsOf(writes, v)[r] > 0
      BY <2>1, <2>2 DEF Relation
    <2>4. AsOf(writes, w)[r] > 0
      BY <1>2, <2>3
    <2> QED
      BY <2>4 DEF NoRows
  <1> QED
    BY <1>2, <1>3

\* What was written in a version: nothing that is empty or of another version.
LEMMA WrittenStays ==
    ASSUME NEW writes \in Seq(Writes), NEW w \in Writes, NEW v \in Nat,
           w.version # v \/ w.rows = NoRows
    PROVE  WrittenIn(Append(writes, w), v) = WrittenIn(writes, v)
  <1> DEFINE more == Append(writes, w)
             n == Len(writes) + 1
             In(ws) == {i \in DOMAIN ws : ws[i].version = v}
             Units(ws, r) == UNION {{i} \X (1..ws[i].rows[r]) : i \in In(ws)}
  <1>1. /\ n \in Nat /\ DOMAIN writes = 1..(n - 1) /\ DOMAIN more = 1..n
        /\ more[n] = w /\ \A i \in 1..(n - 1) : more[i] = writes[i]
    OBVIOUS
  <1>2. ASSUME NEW r \in Rows
        PROVE  Units(more, r) = Units(writes, r)
    <2>1. In(writes) = In(more) \ {n} /\ \A i \in In(writes) : more[i] = writes[i]
      BY <1>1
    <2>2. CASE w.version # v
      <3>1. In(more) = In(writes)
        BY <1>1, <2>1, <2>2
      <3> HIDE DEF more, In
      <3> QED
        BY <2>1, <3>1
    <2>3. CASE w.rows = NoRows
      <3>1. more[n].rows[r] = 0
        BY <1>1, <2>3 DEF NoRows
      <3>2. {n} \X (1..more[n].rows[r]) = {}
        BY <3>1
      <3> HIDE DEF more, n, In
      <3>3. Units(more, r) = UNION {{i} \X (1..more[i].rows[r]) : i \in In(more) \ {n}}
        BY <3>2
      <3> QED
        BY <2>1, <3>3
    <2> QED
      BY <2>2, <2>3
  <1>3. ASSUME NEW r \in Rows, NEW ws \in {more, writes}
        PROVE  WrittenIn(ws, v)[r] = Cardinality(Units(ws, r))
    <2>1. WrittenIn(ws, v) = SumOf([i \in In(ws) |-> ws[i].rows])
      BY DEF WrittenIn
    <2> HIDE DEF more, In
    <2>2. WrittenIn(ws, v)[r] = Total([i \in In(ws) |-> ws[i].rows[r]])
      BY <2>1 DEF SumOf
    <2> QED
      BY <2>2 DEF Total
  <1>4. \A r \in Rows : WrittenIn(more, v)[r] = WrittenIn(writes, v)[r]
    <2> HIDE DEF more, Units
    <2> QED
      BY <1>2, <1>3
  <1> QED
    BY <1>4 DEF WrittenIn, SumOf

LEMMA NothingWritten ==
    ASSUME NEW writes, NEW v, \A i \in DOMAIN writes : writes[i].version # v
    PROVE  WrittenIn(writes, v) = NoRows
  <1> DEFINE rels == [i \in {i \in DOMAIN writes : writes[i].version = v} |-> writes[i].rows]
  <1>1. DOMAIN rels = {} /\ rels \in [{} -> Relation]
    OBVIOUS
  <1>2. IsFiniteSet({})
    BY FS_EmptySet
  <1>3. WrittenIn(writes, v) = SumOf(rels)
    BY DEF WrittenIn
  <1> HIDE DEF rels
  <1> QED
    BY <1>1, <1>2, <1>3, SumIsEmpty

LEMMA WrittenLast ==
    ASSUME NEW writes \in Seq(Writes), NEW w \in Writes,
           \A i \in DOMAIN writes : writes[i].version # w.version
    PROVE  WrittenIn(Append(writes, w), w.version) = w.rows
  <1> DEFINE more == Append(writes, w)
             n == Len(writes) + 1
  <1>1. {i \in DOMAIN more : more[i].version = w.version} = {n} /\ more[n].rows = w.rows
    OBVIOUS
  <1>2. WrittenIn(more, w.version) = SumOf([i \in {n} |-> more[i].rows])
    BY <1>1 DEF WrittenIn
  <1>3. w.rows \in Relation
    BY DEF Writes
  <1> HIDE DEF more, n
  <1>4. ASSUME NEW r \in Rows
        PROVE  SumOf([i \in {n} |-> more[i].rows])[r] = w.rows[r]
    <2>1. [i \in {n} |-> w.rows[r]] \in [{n} -> Nat]
      BY <1>3 DEF Relation
    <2>2. Total([i \in {n} |-> w.rows[r]]) = w.rows[r]
      <3>1. PICK f : f = [i \in {n} |-> w.rows[r]]
        OBVIOUS
      <3>2. f \in [{n} -> Nat] /\ f[n] = w.rows[r]
        BY <2>1, <3>1
      <3> QED
        BY <3>1, <3>2, TotalOfOne
    <2>3. [x \in DOMAIN [i \in {n} |-> more[i].rows] |-> [i \in {n} |-> more[i].rows][x][r]]
             = [i \in {n} |-> w.rows[r]]
      BY <1>1
    <2> QED
      BY <2>2, <2>3 DEF SumOf
  <1>5. SumOf([i \in {n} |-> more[i].rows]) = w.rows
    BY <1>3, <1>4 DEF SumOf, Relation
  <1> QED
    BY <1>2, <1>5 DEF more

-----------------------------------------------------------------------------
(* The run log                                                             *)

\* What every log is: finite, and no two of its records of one time.
Dated(L) ==
    /\ IsFiniteSet(L)
    /\ \E n \in Nat : \A r \in L : r.at <= n
    /\ \A r \in L : r.at \in Nat
    /\ \A r, q \in L : r.at = q.at => r = q

LEMMA NewestIsOne ==
    ASSUME NEW L, Dated(L), NEW S \in SUBSET L, S # {}
    PROVE  \E m \in S : Newest(S) = {m} /\ \A r \in S : r.at <= m.at
  <1> DEFINE T == {r.at : r \in S}
  <1>1. T \in SUBSET Nat /\ T # {}
    BY DEF Dated
  <1>2. PICK n \in Nat : \A k \in T : k <= n
    BY DEF Dated
  <1>3. PICK k \in T : \A i \in T : i <= k
    BY <1>1, <1>2, GreatestNatural
  <1>4. PICK m \in S : m.at = k
    BY <1>3
  <1>5. \A r \in S : r.at <= m.at
    BY <1>3, <1>4
  <1>6. m \in Newest(S)
    BY <1>5 DEF Newest
  <1>7. \A r \in Newest(S) : r = m
    <2> TAKE r \in Newest(S)
    <2>1. r \in S /\ m.at <= r.at /\ r.at <= m.at
      BY <1>5 DEF Newest
    <2>2. r.at = m.at
      BY <2>1 DEF Dated
    <2> QED
      BY <2>1, <2>2 DEF Dated
  <1> QED
    BY <1>5, <1>6, <1>7

LEMMA SubsetIsDated ==
    ASSUME NEW L, Dated(L), NEW M \in SUBSET L
    PROVE  Dated(M)
  <1>1. IsFiniteSet(M)
    BY FS_Subset DEF Dated
  <1> QED
    BY <1>1 DEF Dated

LEMMA LaterIsDated ==
    ASSUME NEW L, Dated(L), NEW r, r.at \in Nat, \A q \in L : q.at < r.at
    PROVE  Dated(L \cup {r})
  <1>1. IsFiniteSet(L \cup {r})
    BY FS_AddElement DEF Dated
  <1>2. \A q \in L \cup {r} : q.at <= r.at
    BY DEF Dated
  <1>3. \A p, q \in L \cup {r} : p.at = q.at => p = q
    BY DEF Dated
  <1> QED
    BY <1>1, <1>2, <1>3 DEF Dated

\* _record writes the time of a record that no other has.
LEMMA NextTime ==
    ASSUME NEW L, Dated(L)
    PROVE  /\ 1 + Max({0} \cup {r.at : r \in L}) \in Nat
           /\ \A r \in L : r.at < 1 + Max({0} \cup {q.at : q \in L})
  <1> DEFINE T == {0} \cup {r.at : r \in L}
  <1>1. T \in SUBSET Nat /\ T # {}
    BY DEF Dated
  <1>2. PICK n \in Nat : \A r \in L : r.at <= n
    BY DEF Dated
  <1>3. \A k \in T : k <= n
    BY <1>2
  <1>4. Max(T) \in T /\ \A k \in T : k <= Max(T)
    BY <1>1, <1>3, MaxOfBounded
  <1> HIDE DEF T
  <1>5. Max(T) \in Nat /\ \A r \in L : r.at <= Max(T) /\ r.at \in Nat
    BY <1>1, <1>4 DEF T
  <1>6. 1 + Max(T) \in Nat /\ \A r \in L : r.at < 1 + Max(T)
    BY <1>5
  <1> QED
    BY <1>6 DEF T

LEMMA LatestIsNewest ==
    ASSUME NEW L, Dated(L), NEW t, Snapshots(L, t) # {}
    PROVE  \E m \in Snapshots(L, t) :
              /\ Newest(Snapshots(L, t)) = {m}
              /\ LatestSnapshot(L, t) = m.snapshot
              /\ \A r \in Snapshots(L, t) : r.at <= m.at
  <1>1. Snapshots(L, t) \in SUBSET L
    BY DEF Snapshots
  <1>2. PICK m \in Snapshots(L, t) :
           /\ Newest(Snapshots(L, t)) = {m}
           /\ \A r \in Snapshots(L, t) : r.at <= m.at
    BY <1>1, NewestIsOne
  <1>3. (CHOOSE r \in Newest(Snapshots(L, t)) : TRUE) = m
    BY <1>2
  <1>4. LatestSnapshot(L, t) = m.snapshot
    BY <1>3 DEF LatestSnapshot
  <1> QED
    BY <1>2, <1>4

\* What a later record changes, and what it leaves.
LEMMA LaterRecord ==
    ASSUME NEW L, Dated(L), NEW r, r.at \in Nat, \A q \in L : q.at < r.at
    PROVE  /\ Succeeded(r) => LastRun(L \cup {r}, r.step) = {r}
           /\ \A s : ~(Succeeded(r) /\ r.step = s) =>
                 LastRun(L \cup {r}, s) = LastRun(L, s)
           /\ Succeeded(r) /\ r.snapshot # NoSnapshot =>
                 LatestSnapshot(L \cup {r}, r.table) = r.snapshot
           /\ \A t : ~(Succeeded(r) /\ r.table = t) =>
                 LatestSnapshot(L \cup {r}, t) = LatestSnapshot(L, t)
  <1>1. ASSUME NEW S \in SUBSET (L \cup {r}), r \in S
        PROVE  Newest(S) = {r}
    <2>1. \A q \in S : q.at <= r.at
      BY DEF Dated
    <2>2. \A q \in S : r.at <= q.at => q = r
      BY DEF Dated
    <2> QED
      BY <1>1, <2>1, <2>2 DEF Newest
  <1>2. ASSUME Succeeded(r)
        PROVE  LastRun(L \cup {r}, r.step) = {r}
    <2> DEFINE S == {q \in L \cup {r} : q.step = r.step /\ Succeeded(q)}
    <2>1. S \in SUBSET (L \cup {r}) /\ r \in S
      BY <1>2
    <2> QED
      BY <1>1, <2>1 DEF LastRun
  <1>3. ASSUME NEW s, ~(Succeeded(r) /\ r.step = s)
        PROVE  LastRun(L \cup {r}, s) = LastRun(L, s)
    <2>1. {q \in L \cup {r} : q.step = s /\ Succeeded(q)}
             = {q \in L : q.step = s /\ Succeeded(q)}
      BY <1>3
    <2> QED
      BY <2>1 DEF LastRun
  <1>4. ASSUME Succeeded(r), r.snapshot # NoSnapshot
        PROVE  LatestSnapshot(L \cup {r}, r.table) = r.snapshot
    <2>1. r \in Snapshots(L \cup {r}, r.table)
      BY <1>4 DEF Snapshots
    <2>2. Snapshots(L \cup {r}, r.table) \in SUBSET (L \cup {r})
      BY DEF Snapshots
    <2>3. Newest(Snapshots(L \cup {r}, r.table)) = {r}
      BY <1>1, <2>1, <2>2
    <2> QED
      BY <2>1, <2>3 DEF LatestSnapshot
  <1>5. ASSUME NEW t, ~(Succeeded(r) /\ r.table = t)
        PROVE  LatestSnapshot(L \cup {r}, t) = LatestSnapshot(L, t)
    <2>1. Snapshots(L \cup {r}, t) = Snapshots(L, t)
      BY <1>5 DEF Snapshots
    <2>2. CASE Snapshots(L, t) = {}
      BY <2>1, <2>2 DEF LatestSnapshot
    <2>3. CASE Snapshots(L, t) # {}
      <3>1. Dated(L \cup {r})
        BY LaterIsDated
      <3>2. PICK m \in Snapshots(L, t) :
               Newest(Snapshots(L, t)) = {m} /\ LatestSnapshot(L, t) = m.snapshot
        BY <2>3, LatestIsNewest
      <3>3. PICK k \in Snapshots(L \cup {r}, t) :
               /\ Newest(Snapshots(L \cup {r}, t)) = {k}
               /\ LatestSnapshot(L \cup {r}, t) = k.snapshot
        BY <2>1, <2>3, <3>1, LatestIsNewest
      <3>4. k = m
        BY <2>1, <3>2, <3>3
      <3> QED
        BY <3>2, <3>3, <3>4
    <2> QED
      BY <2>2, <2>3
  <1> QED
    BY <1>2, <1>3, <1>4, <1>5

\* gc: what is newest stays, and with it everything that a tick reads.
LEMMA GcKeepsNewest ==
    ASSUME NEW L, Dated(L), NEW cutoff,
           \A r \in L : r.table = r.step /\ (Succeeded(r) => r.snapshot # NoSnapshot)
    PROVE  \A s : /\ LastRun(DeleteOldRuns(L, cutoff), s) = LastRun(L, s)
                  /\ LatestSnapshot(DeleteOldRuns(L, cutoff), s) = LatestSnapshot(L, s)
  <1> TAKE s
  <1> DEFINE K == DeleteOldRuns(L, cutoff)
             S == Snapshots(L, s)
             T == Snapshots(K, s)
  <1>1. K \in SUBSET L
    BY DEF DeleteOldRuns
  <1>2. T \in SUBSET S
    BY <1>1 DEF Snapshots
  <1>3. /\ {r \in L : r.step = s /\ Succeeded(r)} = S
        /\ {r \in K : r.step = s /\ Succeeded(r)} = T
    BY <1>1 DEF Snapshots
  <1>4. CASE S = {}
    BY <1>2, <1>3, <1>4 DEF LastRun, LatestSnapshot
  <1>5. CASE S # {}
    <2>1. PICK m \in S : /\ Newest(S) = {m} /\ LatestSnapshot(L, s) = m.snapshot
                         /\ \A r \in S : r.at <= m.at
      BY <1>5, LatestIsNewest
    <2>2. m \in L /\ m.table = s
      BY DEF Snapshots
    <2>3. m \in K
      BY <2>1, <2>2 DEF DeleteOldRuns
    <2>4. m \in T
      BY <2>3 DEF Snapshots
    <2>5. Newest(T) = {m}
      <3>1. \A r \in T : r.at <= m.at
        BY <1>2, <2>1
      <3>2. \A r \in T : m.at <= r.at => r \in Newest(S)
        <4> SUFFICES ASSUME NEW r \in T, m.at <= r.at
                     PROVE  \A q \in S : q.at <= r.at
          BY <1>2 DEF Newest
        <4> TAKE q \in S
        <4>1. q \in L /\ r \in L /\ m \in L
          BY <1>2 DEF Snapshots
        <4>2. q.at \in Nat /\ r.at \in Nat /\ m.at \in Nat /\ q.at <= m.at
          BY <2>1, <4>1 DEF Dated
        <4> QED
          BY <4>2
      <3>3. \A r \in T : m.at <= r.at => r = m
        BY <2>1, <3>2
      <3> QED
        BY <2>4, <3>1, <3>3 DEF Newest
    <2>6. LatestSnapshot(K, s) = m.snapshot
      BY <2>4, <2>5 DEF LatestSnapshot
    <2> QED
      BY <1>3, <2>1, <2>5, <2>6 DEF LastRun
  <1> QED
    BY <1>4, <1>5

\* The two ways of cli.py and local.py to tell what is stale agree.
LEMMA DryRunAgrees ==
    ASSUME NEW L, Dated(L), NEW cutoff
    PROVE  DeleteOldRuns(L, cutoff) = L \ WouldDelete(L, cutoff)
  <1>1. \A r \in L : RowsBefore(L, r) \in Nat
    <2> TAKE r \in L
    <2>1. IsFiniteSet({q \in L : q.at > r.at})
      BY FS_Subset DEF Dated
    <2> QED
      BY <2>1, FS_CardinalityType DEF RowsBefore
  <1>2. ASSUME NEW r \in L, NEW q \in L, q.at < r.at
        PROVE  RowsBefore(L, r) < RowsBefore(L, q)
    <2> DEFINE A == {p \in L : p.at > r.at}
               B == {p \in L : p.at > q.at}
    <2>1. IsFiniteSet(B) /\ A \in SUBSET B /\ A # B
      <3>1. r \in B /\ r \notin A
        BY <1>2 DEF Dated
      <3>2. A \in SUBSET B
        BY <1>2 DEF Dated
      <3>3. IsFiniteSet(B)
        BY FS_Subset DEF Dated
      <3> QED
        BY <3>1, <3>2, <3>3
    <2>2. Cardinality(A) <= Cardinality(B) /\ (Cardinality(A) = Cardinality(B) => A = B)
      BY <2>1, FS_Subset
    <2>3. Cardinality(A) # Cardinality(B)
      BY <2>1, <2>2
    <2>4. RowsBefore(L, r) = Cardinality(A) /\ RowsBefore(L, q) = Cardinality(B)
      BY DEF RowsBefore
    <2> QED
      BY <1>1, <2>2, <2>3, <2>4
  <1>3. ASSUME NEW r \in L, r \in Snapshots(L, r.table)
        PROVE  (\E q \in Snapshots(L, r.table) :
                    /\ RowsBefore(L, q)
                         = Min({RowsBefore(L, p) : p \in Snapshots(L, r.table)})
                    /\ q.snapshot # r.snapshot)
               <=> r.snapshot # LatestSnapshot(L, r.table)
    <2> DEFINE S == Snapshots(L, r.table)
               N == {RowsBefore(L, p) : p \in S}
    <2>1. PICK m \in S : /\ LatestSnapshot(L, r.table) = m.snapshot
                         /\ \A q \in S : q.at <= m.at
      BY <1>3, LatestIsNewest
    <2>2. S \in SUBSET L
      BY DEF Snapshots
    <2>3. N \in SUBSET Nat /\ N # {}
      BY <1>1, <1>3, <2>2
    <2>4. Min(N) \in N /\ \A k \in N : Min(N) <= k
      BY <2>3, MinOfNaturals
    <2>5. \A q \in S : q # m => RowsBefore(L, m) < RowsBefore(L, q)
      <3> TAKE q \in S
      <3> HAVE q # m
      <3>1. q \in L /\ m \in L /\ q.at <= m.at /\ q.at # m.at
        BY <2>1, <2>2 DEF Dated
      <3>2. q.at < m.at
        BY <3>1 DEF Dated
      <3> QED
        BY <1>2, <3>1, <3>2
    <2>6. Min(N) = RowsBefore(L, m)
      <3>1. PICK q \in S : Min(N) = RowsBefore(L, q)
        BY <2>4
      <3>2. Min(N) <= RowsBefore(L, m)
        BY <2>4
      <3>3. RowsBefore(L, m) \in Nat /\ RowsBefore(L, q) \in Nat
        BY <1>1, <2>2
      <3>4. q = m
        BY <2>5, <3>1, <3>2, <3>3
      <3> QED
        BY <3>1, <3>4
    <2>7. \A q \in S : RowsBefore(L, q) = Min(N) <=> q = m
      <3> HIDE DEF N
      <3> TAKE q \in S
      <3>1. RowsBefore(L, m) \in Nat /\ RowsBefore(L, q) \in Nat
        BY <1>1, <2>2
      <3> QED
        BY <2>5, <2>6, <3>1
    <2> QED
      BY <2>1, <2>7
  <1>4. ASSUME NEW r \in L
        PROVE  r \in WouldDelete(L, cutoff) <=>
                  /\ r \in Snapshots(L, r.table)
                  /\ r.at < cutoff
                  /\ r.snapshot # LatestSnapshot(L, r.table)
    BY <1>3 DEF WouldDelete
  <1> QED
    BY <1>4 DEF DeleteOldRuns

-----------------------------------------------------------------------------
(* The invariant: records and jobs that name what they have read           *)

\* A step that reads its inputs whole and in one job.
Whole(s) == Def[s].kind # "source" /\ ~Def[s].incremental /\ ~Def[s].partitioned

\* The inputs of step s at the snapshots of a fingerprint.
InputsAt(s, in) == SumOf([t \in Def[s].inputs |-> At(t, in[t])])

\* How tables are written: the first write creates the table.
Merges ==
    \A t \in Steps : \A i \in DOMAIN lake[t] :
        lake[t][i].merge = IF i = 1 THEN "replace" ELSE Def[t].merge

LakeOK ==
    /\ Def \in Pipelines
    /\ version \in Nat
    /\ lake \in [Steps -> Seq(Writes)]
    /\ \A t \in Steps : \A i \in DOMAIN lake[t] : lake[t][i].version \in 1..version
    /\ \A t \in Steps : lake[t] # <<>> => Def[t].returns = "relation"
    /\ Merges

PhaseOK ==
    /\ phase \in {"idle", "level", "commit", "record", "backfill"}
    /\ level \in Nat
    /\ phase \in {"level", "commit", "record"} => level >= 1
    /\ phase \notin {"commit", "record"} => jobs = {}
    /\ phase \notin {"record", "backfill"} => open = {}
    /\ phase = "backfill" => ~clean

GoodRecord(r) ==
    /\ r.at \in Nat
    /\ r.step \in Steps
    /\ r.table = r.step
    /\ r.fp.in \in [Def[r.step].inputs -> 0..version]
    /\ Succeeded(r) => r.snapshot \in 1..version

LogOK ==
    /\ Dated(log)
    /\ \A r \in log \cup open : GoodRecord(r)
    /\ \A r \in open : /\ Succeeded(r)
                       /\ \A q \in log : q.at < r.at
                       /\ open = {r}
                       /\ phase = "record" => Def[r.step].level = level

JobsOK ==
    \A j \in jobs :
        /\ j.step \in Steps
        /\ Def[j.step].level = level
        /\ j.rows \in Relation
        /\ j.fp.in \in [Def[j.step].inputs -> 0..version]
        /\ Whole(j.step) => j.rows = InputsAt(j.step, j.fp.in)

Faithful ==
    \A r \in log \cup open :
        Succeeded(r) /\ Whole(r.step) /\ Def[r.step].merge = "replace" =>
            At(r.table, r.snapshot) = InputsAt(r.step, r.fp.in)

LEMMA PipelineFacts ==
    ASSUME LakeOK
    PROVE  /\ IsFiniteSet(Steps)
           /\ \A s \in Steps :
                 /\ Def[s] \in StepDef(Steps)
                 /\ Def[s].inputs \in SUBSET Steps
                 /\ Def[s].level \in Nat /\ Def[s].level >= 1
                 /\ \A t \in Def[s].inputs : Def[t].level < Def[s].level
                 /\ IsFiniteSet(Def[s].inputs)
  <1>1. IsPipeline(Def)
    BY RuntimeAssumption DEF LakeOK
  <1>2. IsFiniteSet(Steps)
    BY <1>1 DEF IsPipeline, Steps
  <1>3. ASSUME NEW s \in Steps
        PROVE  /\ Def[s] \in StepDef(Steps)
               /\ \A t \in Def[s].inputs : Def[t].level < Def[s].level
    BY <1>1 DEF IsPipeline, Steps
  <1>4. ASSUME NEW s \in Steps
        PROVE  Def[s].inputs \in SUBSET Steps /\ Def[s].level \in Nat \ {0}
    BY <1>3 DEF StepDef
  <1>5. ASSUME NEW s \in Steps
        PROVE  IsFiniteSet(Def[s].inputs)
    BY <1>2, <1>4, FS_Subset
  <1>6. ASSUME NEW s \in Steps
        PROVE  Def[s].level \in Nat /\ Def[s].level >= 1
    BY <1>4
  <1> QED
    BY <1>2, <1>3, <1>4, <1>5, <1>6

LEMMA TablesAreRelations ==
    ASSUME LakeOK, NEW t \in Steps, NEW v
    PROVE  AsOf(lake[t], v) \in Relation /\ InsertsSince(t, v) \in Relation
  <1>1. lake[t] \in Seq(Writes)
    BY DEF LakeOK
  <1>2. AsOf(lake[t], v) \in Relation
    BY <1>1, AsOfIsRelation
  <1> DEFINE new == {i \in DOMAIN lake[t] :
                       /\ lake[t][i].version > v
                       /\ \A k \in DOMAIN lake[t] :
                             lake[t][k].merge = "replace" => k <= i}
  <1>3. new \in SUBSET (1..Len(lake[t])) /\ Len(lake[t]) \in Nat
    BY <1>1
  <1>4. IsFiniteSet(1..Len(lake[t]))
    BY <1>3, FS_Interval
  <1>5. IsFiniteSet(new)
    BY <1>3, <1>4, FS_Subset
  <1>6. ASSUME NEW i \in new
        PROVE  lake[t][i].rows \in Relation
    <2>1. lake[t][i] \in Writes
      BY <1>1, <1>3
    <2> QED
      BY <2>1 DEF Writes
  <1>7. [i \in new |-> lake[t][i].rows] \in [new -> Relation]
    BY <1>6
  <1>8. SumOf([i \in new |-> lake[t][i].rows]) \in Relation
    <2> HIDE DEF new
    <2> QED
      BY <1>5, <1>7, SumIsRelation
  <1>9. InsertsSince(t, v) = SumOf([i \in new |-> lake[t][i].rows])
    BY DEF InsertsSince
  <1> QED
    BY <1>2, <1>8, <1>9

LEMMA LatestIsAVersion ==
    ASSUME LakeOK, LogOK, NEW t
    PROVE  LatestSnapshot(log, t) \in 0..version
  <1>1. CASE Snapshots(log, t) = {}
    BY <1>1 DEF LatestSnapshot, NoSnapshot, LakeOK
  <1>2. CASE Snapshots(log, t) # {}
    <2>1. PICK m \in Snapshots(log, t) : LatestSnapshot(log, t) = m.snapshot
      BY <1>2, LatestIsNewest DEF LogOK
    <2>2. m \in log /\ Succeeded(m)
      BY DEF Snapshots
    <2>3. m.snapshot \in 1..version
      BY <2>2 DEF LogOK, GoodRecord
    <2> QED
      BY <2>1, <2>3 DEF LakeOK
  <1> QED
    BY <1>1, <1>2

\* Where the table is that of the step, the latest snapshot is of the last run.
LEMMA LatestIsOfLastRun ==
    ASSUME LakeOK, LogOK, NEW s, NEW r \in LastRun(log, s)
    PROVE  /\ r \in log /\ r.step = s /\ Succeeded(r)
           /\ LastRun(log, s) = {r}
           /\ LatestSnapshot(log, s) = r.snapshot
           /\ r.snapshot # NoSnapshot
  <1>1. {q \in log : q.step = s /\ Succeeded(q)} = Snapshots(log, s)
    <2>1. \A q \in log : Succeeded(q) => q.snapshot # NoSnapshot
      BY DEF LogOK, GoodRecord, NoSnapshot, LakeOK
    <2>2. \A q \in log : q.table = q.step
      BY DEF LogOK, GoodRecord
    <2> QED
      BY <2>1, <2>2 DEF Snapshots
  <1>2. LastRun(log, s) = Newest(Snapshots(log, s))
    BY <1>1 DEF LastRun
  <1>3. r \in Snapshots(log, s)
    BY <1>2 DEF Newest
  <1>4. PICK m \in Snapshots(log, s) :
           /\ Newest(Snapshots(log, s)) = {m}
           /\ LatestSnapshot(log, s) = m.snapshot
    BY <1>3, LatestIsNewest DEF LogOK
  <1>5. m = r
    BY <1>2, <1>4
  <1> QED
    BY <1>1, <1>2, <1>3, <1>4, <1>5 DEF Snapshots

LEMMA SomeRunIsLast ==
    ASSUME LogOK, NEW r \in log, Succeeded(r)
    PROVE  LastRun(log, r.step) # {}
  <1> DEFINE S == {q \in log : q.step = r.step /\ Succeeded(q)}
  <1>1. S \in SUBSET log /\ S # {}
    OBVIOUS
  <1>2. Newest(S) # {}
    BY <1>1, NewestIsOne DEF LogOK
  <1> QED
    BY <1>2 DEF LastRun

LEMMA FingerprintIsGood ==
    ASSUME LakeOK, LogOK, NEW s \in Steps
    PROVE  Fingerprint(s).in \in [Def[s].inputs -> 0..version]
  <1>1. \A t \in Def[s].inputs : LatestSnapshot(log, t) \in 0..version
    BY LatestIsAVersion
  <1>2. Fingerprint(s).in = [t \in Def[s].inputs |-> LatestSnapshot(log, t)]
    BY DEF Fingerprint
  <1> QED
    BY <1>1, <1>2

LEMMA WholeInputsAreNamed ==
    ASSUME LakeOK, LogOK, NEW s \in Steps
    PROVE  /\ WholeInputs(s) \in Relation
           /\ WholeInputs(s) = InputsAt(s, Fingerprint(s).in)
  <1>1. Fingerprint(s).in = [t \in Def[s].inputs |-> LatestSnapshot(log, t)]
    BY DEF Fingerprint
  <1>2. [t \in Def[s].inputs |-> At(t, Fingerprint(s).in[t])]
          = [t \in Def[s].inputs |-> At(t, LatestSnapshot(log, t))]
    BY <1>1
  <1>3. WholeInputs(s) = InputsAt(s, Fingerprint(s).in)
    BY <1>2 DEF WholeInputs, InputsAt
  <1>4. \A t \in Def[s].inputs : At(t, LatestSnapshot(log, t)) \in Relation
    BY PipelineFacts, TablesAreRelations DEF At
  <1>5. [t \in Def[s].inputs |-> At(t, LatestSnapshot(log, t))]
          \in [Def[s].inputs -> Relation]
    BY <1>4
  <1>6. IsFiniteSet(Def[s].inputs)
    BY PipelineFacts
  <1>7. WholeInputs(s) \in Relation
    BY <1>5, <1>6, SumIsRelation DEF WholeInputs
  <1> QED
    BY <1>3, <1>7

LEMMA PartitionIsRelation ==
    ASSUME NEW rel \in Relation, NEW p
    PROVE  Partition(rel, p) \in Relation
  BY DEF Partition, Relation

LEMMA PulledIsRelation == Pulled \in Relation
  BY DEF Pulled, Relation

LEMMA JobIsGood ==
    ASSUME LakeOK, LogOK, NEW s \in Steps, NEW p,
           Whole(s) => p = NoPart
    PROVE  /\ Job(s, p).step = s
           /\ Job(s, p).rows \in Relation
           /\ Job(s, p).fp.in \in [Def[s].inputs -> 0..version]
           /\ Whole(s) => /\ Job(s, p).rows = InputsAt(s, Job(s, p).fp.in)
                          /\ Job(s, p).fp = Fingerprint(s)
  <1>1. \A t \in Def[s].inputs : ResolveInput(s, t) \in Relation
    BY PipelineFacts, TablesAreRelations DEF ResolveInput, At
  <1>2. [t \in Def[s].inputs |-> ResolveInput(s, t)] \in [Def[s].inputs -> Relation]
    BY <1>1
  <1>3. SumOf([t \in Def[s].inputs |-> ResolveInput(s, t)]) \in Relation
    BY <1>2, PipelineFacts, SumIsRelation
  <1>4. Result(s) \in Relation
    BY <1>3, PulledIsRelation DEF Result
  <1>5. JobRows(s, p) \in Relation
    BY <1>4, PartitionIsRelation, WholeInputsAreNamed DEF JobRows
  <1>6. /\ Job(s, p).step = s
        /\ Job(s, p).rows = JobRows(s, p)
        /\ Job(s, p).fp = [Fingerprint(s) EXCEPT !.part = p]
    BY DEF Job
  <1>7. [Fingerprint(s) EXCEPT !.part = p].in = Fingerprint(s).in
    BY DEF Fingerprint
  <1>8. ASSUME Whole(s)
        PROVE  /\ JobRows(s, p) = WholeInputs(s)
               /\ [Fingerprint(s) EXCEPT !.part = p] = Fingerprint(s)
    <2>1. p = NoPart /\ Def[s].kind # "source" /\ ~Def[s].incremental
      BY <1>8 DEF Whole
    <2>2. \A t \in Def[s].inputs : ResolveInput(s, t) = At(t, LatestSnapshot(log, t))
      BY <2>1 DEF ResolveInput
    <2>3. [t \in Def[s].inputs |-> ResolveInput(s, t)]
            = [t \in Def[s].inputs |-> At(t, LatestSnapshot(log, t))]
      BY <2>2
    <2>4. Result(s) = WholeInputs(s)
      BY <2>1, <2>3 DEF Result, WholeInputs
    <2>5. JobRows(s, p) = WholeInputs(s)
      BY <2>1, <2>4 DEF JobRows
    <2>6. [Fingerprint(s) EXCEPT !.part = p] = Fingerprint(s)
      BY <2>1 DEF Fingerprint
    <2> QED
      BY <2>5, <2>6
  <1> QED
    BY <1>5, <1>6, <1>7, <1>8, FingerprintIsGood, WholeInputsAreNamed

\* A commit adds a version to one table; what was to be read at an earlier
\* version of any table stays.
LEMMA CommitEffect ==
    ASSUME LakeOK, NEW s \in Steps, NEW rows \in Relation, Commit(s, rows),
           Def[s].returns = "relation", UNCHANGED Def
    PROVE  /\ LakeOK'
           /\ version <= version' /\ version' >= 1
           /\ \A t \in Steps : \A v \in 0..version :
                 /\ AsOf(lake'[t], v) = AsOf(lake[t], v)
                 /\ WrittenIn(lake'[t], v) = WrittenIn(lake[t], v)
           /\ \/ version' = version + 1
              \/ version' = version /\ rows = NoRows /\ Def[s].merge # "replace"
           /\ version' = version + 1 =>
                 /\ WrittenIn(lake'[s], version') = rows
                 /\ \A t \in Steps \ {s} : WrittenIn(lake'[t], version') = NoRows
           /\ Def[s].merge = "replace" => AsOf(lake'[s], version') = rows
           /\ Def[s].merge # "replace" =>
                 \A r \in Rows : rows[r] > 0 => AsOf(lake'[s], version')[r] > 0
  <1> DEFINE merge == IF lake[s] = <<>> THEN "replace" ELSE Def[s].merge
             w == [version |-> version', merge |-> merge, rows |-> rows]
             more == Append(lake[s], w)
  <1>1. /\ lake' = [lake EXCEPT ![s] = more]
        /\ \/ version' = version + 1
           \/ merge # "replace" /\ rows = NoRows /\ version' = version
    BY DEF Commit
  <1>2. /\ version \in Nat /\ lake \in [Steps -> Seq(Writes)]
        /\ lake[s] \in Seq(Writes)
        /\ \A t \in Steps : \A i \in DOMAIN lake[t] : lake[t][i].version \in 1..version
    BY DEF LakeOK
  <1>3. /\ version' \in Nat /\ version <= version' /\ version' >= 1
    <2>1. CASE version' = version + 1
      BY <1>2, <2>1
    <2>2. CASE merge # "replace" /\ version' = version
      <3>1. lake[s] # <<>>
        BY <2>2
      <3>2. 1 \in DOMAIN lake[s]
        BY <1>2, <3>1
      <3>3. lake[s][1].version \in 1..version
        BY <1>2, <3>2
      <3> QED
        BY <1>2, <2>2, <3>3
    <2> QED
      BY <1>1, <2>1, <2>2
  <1>4. merge \in {"replace", "append", "upsert"}
    BY PipelineFacts DEF StepDef
  <1>5. w \in Writes
    BY <1>3, <1>4 DEF Writes
  <1> HIDE DEF merge
  <1>8. w.version = version' /\ w.rows = rows /\ w.merge = merge
    OBVIOUS
  <1> HIDE DEF w
  <1>6. /\ more \in Seq(Writes) /\ more # <<>>
        /\ Len(lake[s]) \in Nat /\ DOMAIN lake[s] = 1..Len(lake[s])
        /\ DOMAIN more = 1..(Len(lake[s]) + 1)
        /\ more[Len(lake[s]) + 1] = w
        /\ \A i \in 1..Len(lake[s]) : more[i] = lake[s][i]
    BY <1>2, <1>5
  <1>7. /\ lake' \in [Steps -> Seq(Writes)]
        /\ lake'[s] = more
        /\ \A t \in Steps : t # s => lake'[t] = lake[t]
    BY <1>1, <1>2, <1>6
  <1>9. ASSUME NEW v \in 0..version
        PROVE  w.version > v \/ (w.rows = NoRows /\ w.merge # "replace")
    <2>1. CASE version' = version + 1
      <3>1. w.version = version + 1
        BY <1>8, <2>1
      <3>2. version \in Nat /\ v \in Nat /\ v <= version
        BY <1>2
      <3> QED
        BY <3>1, <3>2
    <2>2. CASE merge # "replace" /\ rows = NoRows
      BY <1>8, <2>2
    <2> QED
      BY <1>1, <2>1, <2>2
  <1> HIDE DEF more
  <1>10. \A i \in DOMAIN more : more[i].version \in 1..version'
    <2> TAKE i \in DOMAIN more
    <2>1. CASE i = Len(lake[s]) + 1
      BY <1>3, <1>6, <1>8, <2>1
    <2>2. CASE i \in 1..Len(lake[s])
      <3>1. more[i] = lake[s][i] /\ lake[s][i].version \in 1..version
        BY <1>2, <1>6, <2>2
      <3> QED
        BY <1>2, <1>3, <3>1
    <2> QED
      BY <1>6, <2>1, <2>2
  <1>11. LakeOK'
    <2>1. \A t \in Steps : \A i \in DOMAIN lake'[t] : lake'[t][i].version \in 1..version'
      <3> TAKE t \in Steps
      <3> TAKE i \in DOMAIN lake'[t]
      <3>1. CASE t = s
        BY <1>7, <1>10, <3>1
      <3>2. CASE t # s
        <4>1. lake'[t] = lake[t]
          BY <1>7, <3>2
        <4>2. lake[t][i].version \in 1..version
          BY <1>2, <4>1
        <4> QED
          BY <1>2, <1>3, <4>1, <4>2
      <3> QED
        BY <3>1, <3>2
    <2>2. \A t \in Steps : lake'[t] # <<>> => Def[t].returns = "relation"
      BY <1>7 DEF LakeOK
    <2>3. ASSUME NEW t \in Steps, NEW i \in DOMAIN lake'[t]
          PROVE  lake'[t][i].merge = IF i = 1 THEN "replace" ELSE Def[t].merge
      <3>1. \A k \in DOMAIN lake[t] :
               lake[t][k].merge = IF k = 1 THEN "replace" ELSE Def[t].merge
        BY DEF LakeOK, Merges
      <3>2. CASE t # s \/ i # Len(lake[s]) + 1
        <4>1. i \in DOMAIN lake[t] /\ lake'[t][i] = lake[t][i]
          BY <1>6, <1>7, <3>2
        <4> QED
          BY <3>1, <4>1
      <3>3. CASE t = s /\ i = Len(lake[s]) + 1
        <4>1. lake'[t][i].merge = merge
          BY <1>6, <1>7, <1>8, <3>3
        <4>2. lake[s] = <<>> <=> i = 1
          BY <1>2, <1>6, <3>3
        <4> QED
          BY <3>3, <4>1, <4>2 DEF merge
      <3> QED
        BY <3>2, <3>3
    <2>4. Merges'
      BY <2>3 DEF Merges, Steps
    <2> QED
      BY <1>3, <1>7, <2>1, <2>2, <2>4 DEF LakeOK, Steps
  <1>12. ASSUME NEW t \in Steps, NEW v \in 0..version
         PROVE  AsOf(lake'[t], v) = AsOf(lake[t], v)
    <2>1. CASE t = s
      <3>1. v \in Nat
        BY <1>2
      <3>2. w.version > v \/ (w.rows = NoRows /\ w.merge # "replace")
        BY <1>9
      <3>3. AsOf(Append(lake[s], w), v) = AsOf(lake[s], v)
        BY <1>2, <1>5, <3>1, <3>2, EarlierVersionStays
      <3> QED
        BY <1>7, <2>1, <3>3 DEF more
    <2>2. CASE t # s
      BY <1>7, <2>2
    <2> QED
      BY <2>1, <2>2
  <1>13. ASSUME Def[s].merge = "replace"
         PROVE  merge = "replace" /\ version' = version + 1
    BY <1>1, <1>13 DEF merge
  <1>14. ASSUME NEW t \in Steps, NEW v \in 0..version
         PROVE  WrittenIn(lake'[t], v) = WrittenIn(lake[t], v)
    <2>1. CASE t # s
      BY <1>7, <2>1
    <2>2. CASE t = s
      <3>1. v \in Nat /\ (w.version # v \/ w.rows = NoRows)
        BY <1>2, <1>9
      <3>2. WrittenIn(Append(lake[s], w), v) = WrittenIn(lake[s], v)
        BY <1>2, <1>5, <3>1, WrittenStays
      <3> QED
        BY <1>7, <2>2, <3>2 DEF more
    <2> QED
      BY <2>1, <2>2
  <1>15. ASSUME version' = version + 1
         PROVE  /\ WrittenIn(lake'[s], version') = rows
                /\ \A t \in Steps \ {s} : WrittenIn(lake'[t], version') = NoRows
    <2>1. \A t \in Steps : \A i \in DOMAIN lake[t] : lake[t][i].version # version'
      BY <1>2, <1>15
    <2>2. WrittenIn(Append(lake[s], w), w.version) = w.rows
      BY <1>2, <1>5, <1>8, <2>1, WrittenLast
    <2>3. \A t \in Steps \ {s} : WrittenIn(lake[t], version') = NoRows
      BY <2>1, NothingWritten
    <2> QED
      BY <1>7, <1>8, <2>2, <2>3 DEF more
  <1>16. ASSUME Def[s].merge = "replace"
         PROVE  AsOf(lake'[s], version') = rows
    <2>1. \A i \in DOMAIN lake[s] : lake[s][i].version <= w.version
      BY <1>2, <1>3, <1>8
    <2>2. w.merge = "replace"
      BY <1>8, <1>13, <1>16
    <2>3. AsOf(Append(lake[s], w), w.version) = w.rows
      BY <1>2, <1>5, <2>1, <2>2, ReplacedTable
    <2> QED
      BY <1>7, <1>8, <2>3 DEF more
  <1>17. \/ version' = version + 1
         \/ version' = version /\ rows = NoRows /\ Def[s].merge # "replace"
    <2>1. merge # "replace" => Def[s].merge # "replace"
      BY DEF merge
    <2> QED
      BY <1>1, <2>1
  <1>18. ASSUME Def[s].merge # "replace", NEW r \in Rows, rows[r] > 0
         PROVE  AsOf(lake'[s], version')[r] > 0
    <2> DEFINE i == Len(lake[s]) + 1
    <2>1. i \in DOMAIN more /\ more[i].version <= version' /\ more[i].rows[r] > 0
      BY <1>3, <1>6, <1>8, <1>18
    <2>2. \A k \in DOMAIN more : k > 1 => more[k].merge # "replace"
      <3>1. Merges'
        BY <1>11 DEF LakeOK
      <3> QED
        BY <1>7, <1>18, <3>1 DEF Merges, Steps
    <2>3. AsOf(more, version')[r] > 0
      <3> HIDE DEF i
      <3>1. PICK v : v = version'
        OBVIOUS
      <3> QED
        BY <1>3, <1>6, <2>1, <2>2, <3>1, RowIsThere
    <2> QED
      BY <1>7, <2>3
  <1> QED
    BY <1>3, <1>11, <1>12, <1>14, <1>15, <1>16, <1>17, <1>18

-----------------------------------------------------------------------------
(* The invariant: what a tick without a fault has done so far              *)

InTick == phase \in {"level", "commit", "record"}

\* The steps FreshAfterTick is about.
Eligible(s) ==
    /\ Whole(s)
    /\ Def[s].schedule = "always"
    /\ Def[s].merge = "replace" /\ Def[s].returns = "relation"

UpToDate(s) == \E r \in LastRun(log, s) : r.fp = Fingerprint(s)

\* A job of the step, or the record of it, is still to be handled.
Pending(s) == \E j \in jobs \cup open : j.step = s

\* What a step is submitted with is its fingerprint until it is recorded.
Named ==
    phase \in {"commit", "record"} =>
        \A j \in jobs \cup open : Whole(j.step) => j.fp = Fingerprint(j.step)

TickSkipsRight ==
    clean => \A s \in Steps : Eligible(s) /\ Available(s) =>
        /\ InTick /\ Def[s].level < level => UpToDate(s)
        /\ phase \in {"commit", "record"} /\ Def[s].level = level
              => UpToDate(s) \/ Pending(s)
        /\ phase = "idle" => UpToDate(s)

\* The steps LostRunsAreRedone is about.
Redoable(s) ==
    /\ Def[s].returns = "relation" /\ Def[s].schedule # "cron"
    /\ Available(s)
    /\ {} \notin Fanouts(s)

TickRedoes ==
    clean => \A s \in Steps : Redoable(s) =>
        /\ InTick /\ Def[s].level < level => HasRun(s)
        /\ phase \in {"commit", "record"} /\ Def[s].level = level
              => HasRun(s) \/ Pending(s)
        /\ phase = "idle" => HasRun(s)

-----------------------------------------------------------------------------
(* The first part is an invariant                                          *)

Base == LakeOK /\ PhaseOK /\ LogOK /\ JobsOK /\ Faithful

LEMMA LakeUnchanged ==
    ASSUME LakeOK, UNCHANGED <<Def, lake, version>>
    PROVE  /\ LakeOK'
           /\ Steps' = Steps
           /\ \A s, in : InputsAt(s, in)' = InputsAt(s, in)
           /\ \A r : GoodRecord(r)' <=> GoodRecord(r)
           /\ \A t, v : At(t, v)' = At(t, v)
           /\ \A s : Whole(s)' <=> Whole(s)
  <1>1. LakeOK' /\ Steps' = Steps
    BY DEF LakeOK, Merges, Steps
  <1>2. \A s, in : InputsAt(s, in)' = InputsAt(s, in)
    BY DEF InputsAt, At
  <1>3. \A r : GoodRecord(r)' <=> GoodRecord(r)
    BY DEF GoodRecord, Steps
  <1>4. \A s : Whole(s)' <=> Whole(s)
    BY DEF Whole
  <1> QED
    BY <1>1, <1>2, <1>3, <1>4 DEF At

\* A step that writes nothing and records nothing.
LEMMA QuietStep ==
    ASSUME Base, UNCHANGED <<Def, lake, version>>, NEW L \in SUBSET log, log' = L,
           open' \in {{}, open},
           phase' = "record" /\ open' # {} => phase = "record" /\ level' = level,
           PhaseOK', JobsOK'
    PROVE  Base'
  <1>1. /\ LakeOK' /\ Steps' = Steps
        /\ \A s, in : InputsAt(s, in)' = InputsAt(s, in)
        /\ \A r : GoodRecord(r)' <=> GoodRecord(r)
        /\ \A t, v : At(t, v)' = At(t, v)
        /\ \A s : Whole(s)' <=> Whole(s)
    BY LakeUnchanged DEF Base
  <1>2. Dated(log')
    BY SubsetIsDated DEF Base, LogOK
  <1>3. log' \cup open' \in SUBSET (log \cup open) /\ open' \in SUBSET open
    OBVIOUS
  <1>4. LogOK'
    <2>1. \A r \in log' \cup open' : GoodRecord(r)'
      BY <1>1, <1>3 DEF Base, LogOK
    <2>2. ASSUME NEW r \in open'
          PROVE  /\ Succeeded(r)
                 /\ \A q \in log' : q.at < r.at
                 /\ open' = {r}
                 /\ phase' = "record" => Def'[r.step].level = level'
      BY <2>2 DEF Base, LogOK
    <2> QED
      BY <1>2, <2>1, <2>2 DEF LogOK
  <1>5. Faithful'
    <2> SUFFICES ASSUME NEW r \in log' \cup open',
                        Succeeded(r), Whole(r.step)', Def'[r.step].merge = "replace"
                 PROVE  At(r.table, r.snapshot)' = InputsAt(r.step, r.fp.in)'
      BY DEF Faithful
    <2>1. r \in log \cup open /\ Whole(r.step) /\ Def[r.step].merge = "replace"
      BY <1>1, <1>3
    <2>2. At(r.table, r.snapshot) = InputsAt(r.step, r.fp.in)
      BY <2>1 DEF Base, Faithful
    <2> QED
      BY <1>1, <2>2
  <1> QED
    BY <1>1, <1>4, <1>5 DEF Base

LEMMA FewerJobs ==
    ASSUME JobsOK, LakeOK, UNCHANGED <<Def, lake, version>>, jobs' \in SUBSET jobs,
           jobs' # {} => level' = level
    PROVE  JobsOK'
  <1>1. /\ Steps' = Steps
        /\ \A s, in : InputsAt(s, in)' = InputsAt(s, in)
        /\ \A s : Whole(s)' <=> Whole(s)
    BY LakeUnchanged
  <1> QED
    BY <1>1 DEF JobsOK

LEMMA RunLevelBase ==
    ASSUME Base, RunLevel
    PROVE  Base'
  <1> USE DEF RunLevel
  <1>1. /\ LakeOK /\ LogOK /\ jobs = {} /\ open = {}
    BY DEF Base, PhaseOK
  <1>2. /\ Steps' = Steps
        /\ \A s, in : InputsAt(s, in)' = InputsAt(s, in)
        /\ \A s : Whole(s)' <=> Whole(s)
    BY <1>1, LakeUnchanged
  <1>3. PICK fanout \in [ReadySteps -> SUBSET (Parts \cup {NoPart})] :
           /\ \A s \in ReadySteps : fanout[s] \in Fanouts(s)
           /\ jobs' = UNION {{Job(s, p) : p \in fanout[s]} : s \in ReadySteps}
    OBVIOUS
  <1>4. JobsOK'
    <2> SUFFICES ASSUME NEW j \in jobs'
                 PROVE  /\ j.step \in Steps'
                        /\ Def'[j.step].level = level'
                        /\ j.rows \in Relation
                        /\ j.fp.in \in [Def'[j.step].inputs -> 0..version']
                        /\ Whole(j.step)' => j.rows = InputsAt(j.step, j.fp.in)'
      BY DEF JobsOK
    <2>1. PICK s \in ReadySteps : \E p \in fanout[s] : j = Job(s, p)
      BY <1>3
    <2>2. PICK p \in fanout[s] : j = Job(s, p)
      BY <2>1
    <2>3. s \in Steps /\ Def[s].level = level
      BY DEF ReadySteps
    <2>4. Whole(s) => p = NoPart
      <3>1. fanout[s] \in Fanouts(s)
        BY <1>3
      <3> QED
        BY <3>1 DEF Fanouts, Whole
    <2>5. /\ j.step = s
          /\ j.rows \in Relation
          /\ j.fp.in \in [Def[s].inputs -> 0..version]
          /\ Whole(s) => j.rows = InputsAt(s, j.fp.in)
      BY <1>1, <2>2, <2>3, <2>4, JobIsGood
    <2>6. level' = level
      BY <2>1
    <2> QED
      BY <1>2, <2>3, <2>5, <2>6
  <1>5. PhaseOK'
    <2>1. /\ level \in Nat /\ level >= 1 /\ phase = "level"
          /\ open' = open /\ clean' = clean
          /\ IF jobs' = {} THEN level' = level + 1 /\ phase' = phase
                           ELSE phase' = "commit" /\ level' = level
      BY DEF Base, PhaseOK
    <2> HIDE DEF RunLevel
    <2>2. CASE jobs' = {}
      BY <1>1, <2>1, <2>2 DEF PhaseOK
    <2>3. CASE jobs' # {}
      BY <1>1, <2>1, <2>3 DEF PhaseOK
    <2> QED
      BY <2>2, <2>3
  <1> QED
    BY <1>1, <1>4, <1>5, QuietStep

\* What _record makes of a job is a later record.
LEMMA RecordIsLater ==
    ASSUME LogOK, NEW j, NEW status, NEW snapshot, NEW error
    PROVE  LET r == Record(j, status, snapshot, error)
           IN  /\ r.at \in Nat /\ \A q \in log : q.at < r.at
               /\ r.step = j.step /\ r.table = j.step /\ r.status = status
               /\ r.snapshot = snapshot /\ r.fp = j.fp
  <1>1. /\ 1 + Max({0} \cup {r.at : r \in log}) \in Nat
        /\ \A r \in log : r.at < 1 + Max({0} \cup {q.at : q \in log})
    BY NextTime DEF LogOK
  <1> DEFINE at == 1 + Max({0} \cup {r.at : r \in log})
  <1>2. Record(j, status, snapshot, error) =
          [at |-> at, step |-> j.step, table |-> j.step, status |-> status,
           snapshot |-> snapshot, fp |-> j.fp, error |-> error]
    BY DEF Record
  <1>3. at \in Nat /\ \A q \in log : q.at < at
    BY <1>1
  <1> HIDE DEF at
  <1> QED
    BY <1>2, <1>3

LEMMA FailedBase ==
    ASSUME Base, NEW j \in jobs, NEW error, JobFailed(j, error), PhaseOK'
    PROVE  Base'
  <1> DEFINE r == Record(j, "failed", NoSnapshot, error)
  <1>1. /\ UNCHANGED <<Def, lake, version, open>> /\ phase = "commit"
        /\ log' = log \cup {r} /\ jobs' = jobs \ {j}
        /\ jobs' # {} => level' = level
    BY DEF JobFailed, Handled, NextFuture
  <1>2. LakeOK /\ LogOK /\ JobsOK /\ Faithful /\ open = {}
    BY <1>1 DEF Base, PhaseOK
  <1>3. /\ LakeOK' /\ Steps' = Steps
        /\ \A s, in : InputsAt(s, in)' = InputsAt(s, in)
        /\ \A q : GoodRecord(q)' <=> GoodRecord(q)
        /\ \A t, v : At(t, v)' = At(t, v)
        /\ \A s : Whole(s)' <=> Whole(s)
    BY <1>1, <1>2, LakeUnchanged
  <1>4. /\ r.at \in Nat /\ \A q \in log : q.at < r.at
        /\ r.step = j.step /\ r.table = j.step /\ r.status = "failed" /\ r.fp = j.fp
    BY <1>2, RecordIsLater
  <1> HIDE DEF r
  <1>5. ~Succeeded(r) /\ GoodRecord(r)
    BY <1>2, <1>4 DEF Succeeded, GoodRecord, JobsOK
  <1>6. LogOK'
    <2>1. Dated(log')
      BY <1>1, <1>2, <1>4, LaterIsDated DEF LogOK
    <2>2. \A q \in log' \cup open' : GoodRecord(q)'
      BY <1>1, <1>2, <1>3, <1>5 DEF LogOK
    <2> QED
      BY <1>1, <1>2, <2>1, <2>2 DEF LogOK
  <1>7. Faithful'
    <2> SUFFICES ASSUME NEW q \in log' \cup open',
                        Succeeded(q), Whole(q.step)', Def'[q.step].merge = "replace"
                 PROVE  At(q.table, q.snapshot)' = InputsAt(q.step, q.fp.in)'
      BY DEF Faithful
    <2>1. q \in log /\ Whole(q.step) /\ Def[q.step].merge = "replace"
      BY <1>1, <1>2, <1>3, <1>5
    <2>2. At(q.table, q.snapshot) = InputsAt(q.step, q.fp.in)
      BY <1>2, <2>1 DEF Faithful
    <2> QED
      BY <1>1, <1>3, <2>2
  <1>8. JobsOK'
    BY <1>1, <1>2, FewerJobs
  <1> QED
    BY <1>3, <1>6, <1>7, <1>8 DEF Base

LEMMA InputsStay ==
    ASSUME LakeOK, UNCHANGED Def,
           \A t \in Steps : \A v \in 0..version : AsOf(lake'[t], v) = AsOf(lake[t], v),
           NEW s \in Steps, NEW in \in [Def[s].inputs -> 0..version]
    PROVE  InputsAt(s, in)' = InputsAt(s, in)
  <1>1. \A u \in Def[s].inputs : u \in Steps /\ in[u] \in 0..version
    BY PipelineFacts
  <1>2. \A u \in Def[s].inputs : AsOf(lake'[u], in[u]) = AsOf(lake[u], in[u])
    BY <1>1
  <1>3. [u \in Def[s].inputs |-> AsOf(lake'[u], in[u])]
          = [u \in Def[s].inputs |-> AsOf(lake[u], in[u])]
    BY <1>2
  <1> QED
    BY <1>3 DEF InputsAt, At

\* A commit, of a job or of backfill, with the record of it still to be made.
LEMMA CommittedBase ==
    ASSUME Base, NEW s \in Steps, NEW rows \in Relation, NEW r,
           Commit(s, rows), Def[s].returns = "relation", UNCHANGED <<Def, log>>,
           open = {}, open' = {r},
           r.at \in Nat, \A q \in log : q.at < r.at,
           r.step = s, r.table = s, r.status = "success", r.snapshot = version',
           r.fp.in \in [Def[s].inputs -> 0..version],
           Whole(s) => rows = InputsAt(s, r.fp.in),
           phase' = "record" => Def[s].level = level',
           jobs' \in SUBSET jobs, jobs' # {} => level' = level,
           PhaseOK'
    PROVE  Base'
  <1>1. LakeOK /\ LogOK /\ JobsOK /\ Faithful
    BY DEF Base
  <1>2. /\ LakeOK'
        /\ version <= version' /\ version' >= 1
        /\ \A t \in Steps : \A v \in 0..version : AsOf(lake'[t], v) = AsOf(lake[t], v)
        /\ Def[s].merge = "replace" => AsOf(lake'[s], version') = rows
    BY <1>1, CommitEffect
  <1>3. /\ Steps' = Steps /\ version \in Nat /\ version' \in Nat
        /\ \A t : Whole(t)' <=> Whole(t)
    BY <1>1, <1>2 DEF Steps, LakeOK, Whole
  <1>4. 0..version \in SUBSET (0..version') /\ 1..version \in SUBSET (1..version')
    BY <1>2, <1>3
  <1>5. ASSUME NEW t \in Steps, NEW in \in [Def[t].inputs -> 0..version]
        PROVE  InputsAt(t, in)' = InputsAt(t, in)
    BY <1>1, <1>2, InputsStay
  <1>6. ASSUME NEW q, GoodRecord(q)
        PROVE  GoodRecord(q)'
    BY <1>3, <1>4, <1>6 DEF GoodRecord
  <1>7. GoodRecord(r)'
    <2>1. r.fp.in \in [Def[s].inputs -> 0..version']
      BY <1>4
    <2>2. version' \in 1..version'
      BY <1>2, <1>3
    <2> QED
      BY <1>3, <2>1, <2>2 DEF GoodRecord
  <1>8. LogOK'
    <2>1. Dated(log')
      BY <1>1 DEF LogOK
    <2>2. \A q \in log' \cup open' : GoodRecord(q)'
      BY <1>1, <1>6, <1>7 DEF LogOK
    <2> QED
      BY <2>1, <2>2 DEF LogOK, Succeeded
  <1>9. JobsOK'
    <2> SUFFICES ASSUME NEW j \in jobs'
                 PROVE  /\ j.step \in Steps
                        /\ Def[j.step].level = level'
                        /\ j.rows \in Relation
                        /\ j.fp.in \in [Def[j.step].inputs -> 0..version']
                        /\ Whole(j.step) => j.rows = InputsAt(j.step, j.fp.in)'
      BY <1>3 DEF JobsOK
    <2>1. /\ j.step \in Steps /\ Def[j.step].level = level /\ level' = level
          /\ j.rows \in Relation
          /\ j.fp.in \in [Def[j.step].inputs -> 0..version]
          /\ Whole(j.step) => j.rows = InputsAt(j.step, j.fp.in)
      BY <1>1 DEF JobsOK
    <2>2. j.fp.in \in [Def[j.step].inputs -> 0..version']
      BY <1>4, <2>1
    <2> QED
      BY <1>5, <2>1, <2>2
  <1>10. Faithful'
    <2> SUFFICES ASSUME NEW q \in log' \cup open',
                        Succeeded(q), Whole(q.step)', Def'[q.step].merge = "replace"
                 PROVE  At(q.table, q.snapshot)' = InputsAt(q.step, q.fp.in)'
      BY DEF Faithful
    <2>1. CASE q \in log
      <3>1. /\ q.step \in Steps /\ q.table = q.step
            /\ q.fp.in \in [Def[q.step].inputs -> 0..version]
            /\ q.snapshot \in 1..version
        BY <1>1, <2>1 DEF LogOK, GoodRecord
      <3>2. q.snapshot \in 0..version
        BY <1>3, <3>1
      <3>3. AsOf(lake[q.table], q.snapshot) = InputsAt(q.step, q.fp.in)
        BY <1>1, <1>3, <2>1 DEF Faithful, At
      <3>4. AsOf(lake'[q.table], q.snapshot) = AsOf(lake[q.table], q.snapshot)
        BY <1>2, <3>1, <3>2
      <3>5. InputsAt(q.step, q.fp.in)' = InputsAt(q.step, q.fp.in)
        BY <1>5, <3>1
      <3> QED
        BY <3>3, <3>4, <3>5 DEF At
    <2>2. CASE q = r
      <3>1. AsOf(lake'[s], version') = rows
        BY <1>2, <2>2
      <3>2. rows = InputsAt(s, r.fp.in)
        BY <1>3, <2>2
      <3>3. InputsAt(s, r.fp.in)' = InputsAt(s, r.fp.in)
        BY <1>5
      <3> QED
        BY <2>2, <3>1, <3>2, <3>3 DEF At
    <2> QED
      BY <2>1, <2>2
  <1> QED
    BY <1>2, <1>8, <1>9, <1>10 DEF Base

LEMMA CommitResultBase ==
    ASSUME Base, NEW j \in jobs, CommitResult(j), PhaseOK'
    PROVE  Base'
  <1> USE DEF CommitResult
  <1>1. /\ LakeOK /\ LogOK /\ JobsOK /\ open = {}
    BY DEF Base, PhaseOK
  <1>2. PICK v : v = version'
    OBVIOUS
  <1> DEFINE rec == Record(j, "success", v, "")
  <1>3. /\ rec.at \in Nat /\ \A q \in log : q.at < rec.at
        /\ rec.step = j.step /\ rec.table = j.step /\ rec.status = "success"
        /\ rec.snapshot = v /\ rec.fp = j.fp
    <2>1. rec.at \in Nat /\ \A q \in log : q.at < rec.at
      BY <1>1, RecordIsLater
    <2> QED
      BY <2>1 DEF Record
  <1>4. PICK r : r = rec
    OBVIOUS
  <1>5. /\ j.step \in Steps /\ Def[j.step].level = level
        /\ j.rows \in Relation
        /\ j.fp.in \in [Def[j.step].inputs -> 0..version]
        /\ Whole(j.step) => j.rows = InputsAt(j.step, j.fp.in)
    BY <1>1 DEF JobsOK
  <1>6. open' = {r}
    BY <1>2, <1>4
  <1>7. /\ jobs' \in SUBSET jobs /\ level' = level /\ UNCHANGED <<Def, log>>
        /\ Commit(j.step, j.rows) /\ Def[j.step].returns = "relation"
    OBVIOUS
  <1> HIDE DEF rec
  <1> QED
    BY <1>1, <1>2, <1>3, <1>4, <1>5, <1>6, <1>7, CommittedBase

LEMMA BackfillBase ==
    ASSUME Base, NEW s \in Steps, NEW p, Backfill(s, p), PhaseOK'
    PROVE  Base'
  <1> DEFINE rows == CASE Def[s].kind = "source" -> Pulled
                       [] Def[s].partitioned -> Partition(WholeInputs(s), p)
                       [] OTHER -> WholeInputs(s)
             job == [step |-> s, fp |-> [Fingerprint(s) EXCEPT !.backfill = TRUE]]
  <1>1. /\ phase = "idle" /\ jobs' = jobs /\ level' = level /\ phase' = "backfill"
        /\ UNCHANGED <<Def, log>>
        /\ Commit(s, rows) /\ Def[s].returns = "relation"
        /\ open' = {Record(job, "success", version', "")}
    BY DEF Backfill, Operation
  <1>2. /\ LakeOK /\ LogOK /\ open = {}
    BY <1>1 DEF Base, PhaseOK
  <1>3. /\ WholeInputs(s) \in Relation
        /\ WholeInputs(s) = InputsAt(s, Fingerprint(s).in)
        /\ Fingerprint(s).in \in [Def[s].inputs -> 0..version]
    BY <1>2, WholeInputsAreNamed, FingerprintIsGood
  <1>4. Partition(WholeInputs(s), p) \in Relation /\ Pulled \in Relation
    BY <1>3, PartitionIsRelation, PulledIsRelation
  <1>5. rows \in Relation
    BY <1>3, <1>4
  <1>6. Whole(s) => rows = InputsAt(s, Fingerprint(s).in)
    BY <1>3 DEF Whole
  <1>7. job.step = s /\ job.fp.in = Fingerprint(s).in
    BY DEF Fingerprint
  <1> HIDE DEF rows, job
  <1>8. PICK v : v = version'
    OBVIOUS
  <1> DEFINE rec == Record(job, "success", v, "")
  <1>9. /\ rec.at \in Nat /\ \A q \in log : q.at < rec.at
        /\ rec.step = job.step /\ rec.table = job.step /\ rec.status = "success"
        /\ rec.snapshot = v /\ rec.fp = job.fp
    <2>1. rec.at \in Nat /\ \A q \in log : q.at < rec.at
      BY <1>2, RecordIsLater
    <2> QED
      BY <2>1 DEF Record
  <1>10. PICK r : r = rec
    OBVIOUS
  <1>11. /\ r.at \in Nat /\ \A q \in log : q.at < r.at
         /\ r.step = s /\ r.table = s /\ r.status = "success"
         /\ r.snapshot = version' /\ r.fp.in = Fingerprint(s).in
    <2> HIDE DEF rec
    <2> QED
      BY <1>7, <1>8, <1>9, <1>10
  <1>12. open' = {r}
    BY <1>1, <1>8, <1>10
  <1>13. PICK rel : rel = rows
    OBVIOUS
  <1>14. /\ Commit(s, rel) /\ rel \in Relation
         /\ Whole(s) => rel = InputsAt(s, r.fp.in)
         /\ r.fp.in \in [Def[s].inputs -> 0..version]
    BY <1>1, <1>3, <1>5, <1>6, <1>11, <1>13
  <1> QED
    BY <1>1, <1>2, <1>11, <1>12, <1>14, CommittedBase

LEMMA RecordRunBase ==
    ASSUME Base, RecordRun, PhaseOK'
    PROVE  Base'
  <1>1. /\ UNCHANGED <<Def, lake, version, jobs>>
        /\ log' = log \cup open /\ open' = {}
        /\ phase \in {"record", "backfill"}
        /\ jobs # {} => level' = level
    BY DEF RecordRun, NextFuture, Base, PhaseOK
  <1>2. LakeOK /\ LogOK /\ JobsOK /\ Faithful
    BY DEF Base
  <1>3. /\ LakeOK' /\ Steps' = Steps
        /\ \A s, in : InputsAt(s, in)' = InputsAt(s, in)
        /\ \A q : GoodRecord(q)' <=> GoodRecord(q)
        /\ \A t, v : At(t, v)' = At(t, v)
        /\ \A s : Whole(s)' <=> Whole(s)
    BY <1>1, <1>2, LakeUnchanged
  <1>4. Dated(log')
    <2>1. CASE open = {}
      BY <1>1, <1>2, <2>1 DEF LogOK
    <2>2. CASE open # {}
      <3>1. PICK r \in open : /\ open = {r} /\ r.at \in Nat
                              /\ \A q \in log : q.at < r.at
        BY <1>2, <2>2 DEF LogOK, GoodRecord
      <3> QED
        BY <1>1, <1>2, <3>1, LaterIsDated DEF LogOK
    <2> QED
      BY <2>1, <2>2
  <1>5. LogOK'
    BY <1>1, <1>2, <1>3, <1>4 DEF LogOK
  <1>6. Faithful'
    BY <1>1, <1>2, <1>3 DEF Faithful
  <1>7. JobsOK'
    BY <1>1, <1>2, FewerJobs
  <1> QED
    BY <1>3, <1>5, <1>6, <1>7 DEF Base

LEMMA PhaseNext ==
    ASSUME Base, [Next]_vars
    PROVE  PhaseOK'
  <1> USE DEF Base, PhaseOK
  <1>1. CASE StartTick
    BY <1>1 DEF StartTick
  <1>2. CASE RunLevel
    BY <1>2 DEF RunLevel
  <1>3. CASE EndTick
    BY <1>3 DEF EndTick
  <1>4. CASE RecordRun
    BY <1>4 DEF RecordRun, NextFuture
  <1>5. CASE Crash
    BY <1>5 DEF Crash
  <1>6. CASE \E j \in jobs : StepRaises(j) \/ WriteFails(j) \/ ReturnedNone(j)
    <2>1. PICK j \in jobs : \E error : JobFailed(j, error)
      BY <1>6 DEF StepRaises, WriteFails, ReturnedNone
    <2>2. /\ phase = "commit" /\ UNCHANGED open
          /\ jobs' = jobs \ {j} /\ NextFuture(jobs')
      BY <2>1 DEF JobFailed, Handled
    <2> QED
      BY <2>2 DEF NextFuture
  <1>7. CASE \E j \in jobs : CommitResult(j)
    BY <1>7 DEF CommitResult
  <1>8. CASE \E s \in Steps : \E p \in Parts : Backfill(s, p)
    BY <1>8 DEF Backfill, Operation
  <1>9. CASE \E S : Invalidate(S)
    BY <1>9 DEF Invalidate, Operation
  <1>10. CASE \E cutoff : Gc(cutoff)
    BY <1>10 DEF Gc, Operation
  <1>11. CASE \E s \in Steps : EditCode(s)
    BY <1>11 DEF EditCode, Operation
  <1>12. CASE UNCHANGED vars
    BY <1>12 DEF vars
  <1> QED
    BY <1>1, <1>2, <1>3, <1>4, <1>5, <1>6, <1>7, <1>8, <1>9, <1>10, <1>11, <1>12
       DEF Next, TickNext

LEMMA BaseNext ==
    ASSUME Base, [Next]_vars
    PROVE  Base'
  <1>1. PhaseOK'
    BY PhaseNext
  <1>2. LakeOK /\ PhaseOK /\ LogOK /\ JobsOK
    BY DEF Base
  <1>3. ASSUME UNCHANGED <<Def, lake, version>>, log' \in SUBSET log,
               open' \in {{}, open},
               phase' = "record" => phase = "record" /\ level' = level,
               jobs' \in SUBSET jobs, jobs' # {} => level' = level
        PROVE  Base'
    BY <1>1, <1>2, <1>3, FewerJobs, QuietStep
  <1>4. CASE StartTick
    BY <1>2, <1>3, <1>4 DEF StartTick, PhaseOK
  <1>5. CASE RunLevel
    BY <1>5, RunLevelBase
  <1>6. CASE EndTick
    BY <1>2, <1>3, <1>6 DEF EndTick, PhaseOK
  <1>7. CASE RecordRun
    BY <1>1, <1>7, RecordRunBase
  <1>8. CASE Crash
    BY <1>2, <1>3, <1>8 DEF Crash, PhaseOK
  <1>9. CASE \E j \in jobs : StepRaises(j) \/ WriteFails(j) \/ ReturnedNone(j)
    <2>1. PICK j \in jobs : \E error : JobFailed(j, error)
      BY <1>9 DEF StepRaises, WriteFails, ReturnedNone
    <2> QED
      BY <1>1, <2>1, FailedBase
  <1>10. CASE \E j \in jobs : CommitResult(j)
    BY <1>1, <1>10, CommitResultBase
  <1>11. CASE \E s \in Steps : \E p \in Parts : Backfill(s, p)
    BY <1>1, <1>11, BackfillBase
  <1>12. CASE \E S : Invalidate(S)
    <2>1. log' \in SUBSET log
      BY <1>12 DEF Invalidate, InvalidateRuns
    <2> QED
      BY <1>3, <1>12, <2>1 DEF Invalidate, Operation
  <1>13. CASE \E cutoff : Gc(cutoff)
    <2>1. log' \in SUBSET log
      BY <1>13 DEF Gc, DeleteOldRuns
    <2> QED
      BY <1>3, <1>13, <2>1 DEF Gc, Operation
  <1>14. CASE \E s \in Steps : EditCode(s)
    BY <1>3, <1>14 DEF EditCode, Operation
  <1>15. CASE UNCHANGED vars
    BY <1>3, <1>15 DEF vars
  <1> QED
    BY <1>4, <1>5, <1>6, <1>7, <1>8, <1>9, <1>10, <1>11, <1>12, <1>13, <1>14, <1>15
       DEF Next, TickNext

LEMMA BaseInit ==
    ASSUME Init
    PROVE  Base
  <1> USE DEF Init
  <1>1. LakeOK
    BY DEF LakeOK, Merges, Steps
  <1>2. Dated(log)
    BY FS_EmptySet DEF Dated
  <1> QED
    BY <1>1, <1>2 DEF Base, PhaseOK, LogOK, JobsOK, Faithful

LEMMA BaseInvariant == Spec => []Base
  <1>1. Init => Base
    BY BaseInit
  <1>2. Base /\ [Next]_vars => Base'
    BY BaseNext
  <1> QED
    BY <1>1, <1>2, PTL DEF Spec

-----------------------------------------------------------------------------
(* What follows of this part                                               *)

\* gc (delete_old_runs) never takes away the last success of a step nor the
\* latest snapshot of a table, for any pipeline and any cutoff.
THEOREM GcKeepsReads == Spec => GcKeepsWhatIsRead
  <1> DEFINE GcStep ==
        (\E cutoff \in {r.at : r \in log} : Gc(cutoff))
        => \A s \in Steps :
              /\ LastRun(log', s) = LastRun(log, s)
              /\ LatestSnapshot(log', s) = LatestSnapshot(log, s)
  <1>1. Base => GcStep
    <2> SUFFICES ASSUME Base, NEW cutoff, Gc(cutoff)
                 PROVE  \A s \in Steps :
                           /\ LastRun(log', s) = LastRun(log, s)
                           /\ LatestSnapshot(log', s) = LatestSnapshot(log, s)
      OBVIOUS
    <2>1. log' = DeleteOldRuns(log, cutoff)
      BY DEF Gc
    <2>2. /\ Dated(log)
          /\ \A r \in log : r.table = r.step /\ (Succeeded(r) => r.snapshot # NoSnapshot)
      BY DEF Base, LogOK, GoodRecord, NoSnapshot, LakeOK
    <2>3. \A s : /\ LastRun(DeleteOldRuns(log, cutoff), s) = LastRun(log, s)
                 /\ LatestSnapshot(DeleteOldRuns(log, cutoff), s) = LatestSnapshot(log, s)
      BY <2>2, GcKeepsNewest
    <2> QED
      BY <2>1, <2>3
  <1>2. [][GcStep]_vars <=> GcKeepsWhatIsRead
    BY DEF GcKeepsWhatIsRead
  <1> HIDE DEF GcStep
  <1>3. Base => [GcStep]_vars
    BY <1>1
  <1> QED
    BY <1>2, <1>3, BaseInvariant, PTL

\* gc --dry-run reports exactly the records that gc deletes: the loop of
\* cli._do_gc over run_log() and the query of delete_old_runs agree.
THEOREM DryRunIsExact == Spec => []DryRunTellsTruth
  <1>1. Base => DryRunTellsTruth
    BY DryRunAgrees DEF Base, LogOK, DryRunTellsTruth
  <1> QED
    BY <1>1, BaseInvariant, PTL

-----------------------------------------------------------------------------
(* The second part is an invariant                                         *)

Tick == Named /\ TickSkipsRight /\ TickRedoes

\* The levels of a pipeline have no gap: a tick that finds no step of its level
\* has run them all.
LEMMA LastLevel ==
    ASSUME LakeOK, level \in Nat, level >= 1, level \notin Levels
    PROVE  \A s \in Steps : Def[s].level < level
  <1> SUFFICES ASSUME NEW s \in Steps, Def[s].level >= level
               PROVE  FALSE
    BY PipelineFacts
  <1> DEFINE T == {Def[t].level : t \in {t \in Steps : Def[t].level >= level}}
  <1>1. T \in SUBSET Nat /\ T # {}
    BY PipelineFacts
  <1>2. PICK m \in T : \A k \in T : m <= k
    BY <1>1, LeastNatural
  <1>3. PICK t \in Steps : Def[t].level = m /\ m >= level
    BY <1>2
  <1>4. m # level
    BY <1>3 DEF Levels
  <1>5. m \in Nat /\ m > level /\ m > 1
    BY <1>1, <1>3, <1>4
  <1>6. PICK u \in Def[t].inputs : Def[u].level = m - 1
    <2>1. IsPipeline(Def)
      BY RuntimeAssumption DEF LakeOK
    <2> QED
      BY <1>3, <1>5, <2>1 DEF IsPipeline, Steps
  <1>7. u \in Steps
    BY <1>3, PipelineFacts
  <1>8. m - 1 \in T
    BY <1>5, <1>6, <1>7
  <1> QED
    BY <1>2, <1>5, <1>8

\* Where the inputs of a step keep their snapshots and tables, and the step its
\* last run, the runtime judges it as before.
LEMMA SameInputs ==
    ASSUME LakeOK, NEW s \in Steps, UNCHANGED <<Def, code>>,
           \A t \in Def[s].inputs : LatestSnapshot(log', t) = LatestSnapshot(log, t)
    PROVE  /\ Fingerprint(s)' = Fingerprint(s)
           /\ Available(s)' <=> Available(s)
           /\ Eligible(s)' <=> Eligible(s)
           /\ (/\ LastRun(log', s) = LastRun(log, s)
               /\ \A t \in Def[s].inputs : lake'[t] = lake[t])
              => (Redoable(s)' <=> Redoable(s))
  <1>1. [t \in Def[s].inputs |-> LatestSnapshot(log', t)]
          = [t \in Def[s].inputs |-> LatestSnapshot(log, t)]
    OBVIOUS
  <1>2. Fingerprint(s)' = Fingerprint(s)
    BY <1>1 DEF Fingerprint
  <1>3. Available(s)' <=> Available(s)
    BY DEF Available
  <1>4. Eligible(s)' <=> Eligible(s)
    BY DEF Eligible, Whole
  <1>5. ASSUME LastRun(log', s) = LastRun(log, s),
               \A t \in Def[s].inputs : lake'[t] = lake[t]
        PROVE  Redoable(s)' <=> Redoable(s)
    <2>1. ASSUME NEW t \in Def[s].inputs
          PROVE  ResolveInput(s, t)' = ResolveInput(s, t)
      <3>1. LastSeen(s, t)' = LastSeen(s, t)
        BY <1>5 DEF LastSeen
      <3>2. \A v : InsertsSince(t, v)' = InsertsSince(t, v)
        BY <1>5 DEF InsertsSince
      <3>3. \A v : At(t, v)' = At(t, v)
        BY <1>5 DEF At
      <3> QED
        BY <3>1, <3>2, <3>3 DEF ResolveInput
    <2>2. Fanouts(s)' = Fanouts(s)
      <3>1. CASE ~Def[s].partitioned
        BY <3>1 DEF Fanouts
      <3>2. CASE Def[s].partitioned
        <4>1. Def[s].inputs # {}
          <5>1. IsPipeline(Def)
            BY RuntimeAssumption DEF LakeOK
          <5> QED
            BY <3>2, <5>1 DEF IsPipeline, Steps
        <4>2. PICK t \in Def[s].inputs : t = CHOOSE u \in Def[s].inputs : TRUE
          BY <4>1
        <4>3. PartitionValues(s) = Values(ResolveInput(s, t))
          BY <4>2 DEF PartitionValues
        <4>4. PartitionValues(s)' = Values(ResolveInput(s, t)')
          BY <4>2 DEF PartitionValues, Values
        <4>5. PartitionValues(s)' = PartitionValues(s)
          BY <2>1, <4>3, <4>4
        <4> QED
          BY <3>2, <4>5 DEF Fanouts
      <3> QED
        BY <3>1, <3>2
    <2> QED
      BY <1>3, <2>2 DEF Redoable
  <1> QED
    BY <1>2, <1>3, <1>4, <1>5

\* A record of a step of the tick's level leaves the inputs of that level alone.
LEMMA SameLevelInputs ==
    ASSUME Base, NEW r, r.at \in Nat, \A q \in log : q.at < r.at, r.table = r.step,
           r.step \in Steps, Def[r.step].level = level,
           NEW s \in Steps, Def[s].level <= level
    PROVE  /\ \A t \in Def[s].inputs :
                 LatestSnapshot(log \cup {r}, t) = LatestSnapshot(log, t)
           /\ \A t \in Def[s].inputs : t # r.step
  <1>1. \A t \in Def[s].inputs : t # r.step
    <2> TAKE t \in Def[s].inputs
    <2>1. /\ Def[t].level < Def[s].level /\ t \in Steps
          /\ Def[t].level \in Nat /\ Def[s].level \in Nat /\ level \in Nat
      BY PipelineFacts DEF Base, PhaseOK
    <2> QED
      BY <2>1
  <1>2. \A t : ~(Succeeded(r) /\ r.table = t) =>
           LatestSnapshot(log \cup {r}, t) = LatestSnapshot(log, t)
    BY LaterRecord DEF Base, LogOK
  <1> QED
    BY <1>1, <1>2

\* The steps of a level are submitted, unless they are up to date.
LEMMA RunLevelTick ==
    ASSUME Base, Tick, RunLevel
    PROVE  Tick'
  <1>1. /\ phase = "level" /\ UNCHANGED <<Def, open, log, lake, version, code, clean>>
        /\ IF jobs' = {} THEN level' = level + 1 /\ phase' = "level"
                         ELSE phase' = "commit" /\ level' = level
    BY DEF RunLevel
  <1>2. /\ LakeOK /\ LogOK /\ open = {} /\ jobs = {} /\ level \in Nat
    BY <1>1 DEF Base, PhaseOK
  <1>3. PICK fanout \in [ReadySteps -> SUBSET (Parts \cup {NoPart})] :
           /\ \A s \in ReadySteps : fanout[s] \in Fanouts(s)
           /\ jobs' = UNION {{Job(s, p) : p \in fanout[s]} : s \in ReadySteps}
    BY DEF RunLevel
  <1>4. ASSUME NEW s \in Steps
        PROVE  /\ Fingerprint(s)' = Fingerprint(s)
               /\ Available(s)' <=> Available(s)
               /\ Eligible(s)' <=> Eligible(s)
               /\ Redoable(s)' <=> Redoable(s)
               /\ UpToDate(s)' <=> UpToDate(s)
               /\ HasRun(s)' <=> HasRun(s)
               /\ Def[s].level \in Nat
    <2>1. /\ Fingerprint(s)' = Fingerprint(s)
          /\ Available(s)' <=> Available(s)
          /\ Eligible(s)' <=> Eligible(s)
          /\ Redoable(s)' <=> Redoable(s)
      BY <1>1, <1>2, SameInputs
    <2>2. (UpToDate(s)' <=> UpToDate(s)) /\ (HasRun(s)' <=> HasRun(s))
      BY <1>1, <2>1 DEF UpToDate, HasRun
    <2> QED
      BY <1>2, <2>1, <2>2, PipelineFacts
  <1>5. ASSUME NEW s \in ReadySteps, NEW p \in fanout[s]
        PROVE  Pending(s)'
    <2>1. Job(s, p) \in jobs'
      BY <1>3
    <2>2. Job(s, p).step = s
      BY DEF Job
    <2> QED
      BY <2>1, <2>2 DEF Pending
  <1>6. Named'
    <2> SUFFICES ASSUME NEW j \in jobs', Whole(j.step)'
                 PROVE  j.fp = Fingerprint(j.step)'
      BY <1>1, <1>2 DEF Named
    <2>1. PICK s \in ReadySteps : \E p \in fanout[s] : j = Job(s, p)
      BY <1>3
    <2>2. PICK p \in fanout[s] : j = Job(s, p)
      BY <2>1
    <2>3. s \in Steps /\ j.step = s
      BY <2>2 DEF ReadySteps, Job
    <2>4. Whole(s)
      BY <1>1, <2>3 DEF Whole
    <2>5. p = NoPart
      <3>1. fanout[s] \in Fanouts(s)
        BY <1>3
      <3> QED
        BY <2>4, <3>1 DEF Fanouts, Whole
    <2>6. j.fp = Fingerprint(s)
      BY <1>2, <2>2, <2>3, <2>4, <2>5, JobIsGood
    <2> QED
      BY <1>4, <2>3, <2>6
  <1>7. ASSUME clean, NEW s \in Steps, Eligible(s), Available(s), Def[s].level = level
        PROVE  UpToDate(s) \/ Pending(s)'
    <2>1. CASE s \in ReadySteps
      <3>1. fanout[s] = {NoPart}
        BY <1>3, <1>7, <2>1 DEF Fanouts, Eligible, Whole
      <3> QED
        BY <1>5, <2>1, <3>1
    <2>2. CASE s \notin ReadySteps
      <3>1. ~FingerprintChanged(s)
        BY <1>7, <2>2 DEF ReadySteps, Ready, IsDue, Eligible, Available
      <3> QED
        BY <3>1 DEF FingerprintChanged, UpToDate
    <2> QED
      BY <2>1, <2>2
  <1>8. ASSUME clean, NEW s \in Steps, Redoable(s), Def[s].level = level
        PROVE  HasRun(s) \/ Pending(s)'
    <2>1. CASE s \in ReadySteps
      <3>1. fanout[s] \in Fanouts(s) /\ fanout[s] # {}
        BY <1>3, <1>8, <2>1 DEF Redoable
      <3> QED
        BY <1>5, <2>1, <3>1
    <2>2. CASE s \notin ReadySteps
      <3> SUFFICES ASSUME ~HasRun(s)
                   PROVE  FALSE
        OBVIOUS
      <3>1. FingerprintChanged(s)
        BY DEF HasRun, FingerprintChanged
      <3>2. Def[s].schedule \in {"always", "interval"}
        BY <1>2, <1>8, PipelineFacts DEF StepDef, Redoable
      <3>3. IsDue(s)
        BY <3>2 DEF IsDue
      <3> QED
        BY <1>8, <2>2, <3>1, <3>3 DEF ReadySteps, Ready, Redoable, Available
    <2> QED
      BY <2>1, <2>2
  <1>9. jobs' = {} => \A s : ~Pending(s)'
    BY <1>1, <1>2 DEF Pending
  <1>10. InTick /\ InTick' /\ phase' # "idle"
    BY <1>1 DEF InTick
  <1>11. TickSkipsRight'
    <2> SUFFICES ASSUME clean, NEW s \in Steps, Eligible(s), Available(s)
                 PROVE  /\ Def[s].level < level' => UpToDate(s)
                        /\ phase' = "commit" /\ Def[s].level = level'
                              => UpToDate(s) \/ Pending(s)'
      BY <1>1, <1>4, <1>10 DEF TickSkipsRight, Steps
    <2>1. Def[s].level < level => UpToDate(s)
      BY <1>10 DEF Tick, TickSkipsRight
    <2>2. Def[s].level = level => UpToDate(s) \/ Pending(s)'
      BY <1>7
    <2>3. Def[s].level < level + 1 => Def[s].level < level \/ Def[s].level = level
      BY <1>2, <1>4
    <2> QED
      BY <1>1, <1>9, <2>1, <2>2, <2>3
  <1>12. TickRedoes'
    <2> SUFFICES ASSUME clean, NEW s \in Steps, Redoable(s)
                 PROVE  /\ Def[s].level < level' => HasRun(s)
                        /\ phase' = "commit" /\ Def[s].level = level'
                              => HasRun(s) \/ Pending(s)'
      BY <1>1, <1>4, <1>10 DEF TickRedoes, Steps
    <2>1. Def[s].level < level => HasRun(s)
      BY <1>10 DEF Tick, TickRedoes
    <2>2. Def[s].level = level => HasRun(s) \/ Pending(s)'
      BY <1>8
    <2>3. Def[s].level < level + 1 => Def[s].level < level \/ Def[s].level = level
      BY <1>2, <1>4
    <2> QED
      BY <1>1, <1>9, <2>1, <2>2, <2>3
  <1> QED
    BY <1>6, <1>11, <1>12 DEF Tick

\* The loop over the futures: what is left of the level is still pending.
LEMMA HandledTick ==
    ASSUME Base, Tick, UNCHANGED <<Def, code>>,
           phase \in {"commit", "record"}, phase' \in {"level", "commit", "record"},
           phase' = "level" => level' = level + 1 /\ jobs' = {} /\ open' = {},
           phase' # "level" => level' = level,
           clean' => clean,
           \A s \in Steps : Def[s].level <= level =>
               /\ Fingerprint(s)' = Fingerprint(s)
               /\ Available(s)' <=> Available(s)
               /\ Redoable(s)' => Redoable(s) \/ HasRun(s)'
               /\ Eligible(s) /\ UpToDate(s) => UpToDate(s)'
               /\ HasRun(s) => HasRun(s)',
           \A s \in Steps : clean' /\ Pending(s) /\ Def[s].returns = "relation" =>
               /\ Pending(s)' \/ HasRun(s)'
               /\ Eligible(s) => Pending(s)' \/ UpToDate(s)',
           Named'
    PROVE  Tick'
  <1>1. level \in Nat /\ \A s \in Steps : Def[s].level \in Nat
    BY PipelineFacts DEF Base, PhaseOK
  <1>2. /\ InTick /\ InTick' /\ phase' # "idle" /\ Steps' = Steps
        /\ \A s : Eligible(s)' <=> Eligible(s)
    BY DEF InTick, Steps, Eligible, Whole
  <1>3. phase' = "level" => \A s : ~Pending(s)'
    BY DEF Pending
  <1>4. \A s \in Steps : Def[s].level < level => Def[s].level <= level
    BY <1>1
  <1>5. \A s \in Steps : Def[s].level = level => Def[s].level <= level
    BY <1>1
  <1>6. TickSkipsRight'
    <2> SUFFICES ASSUME clean', NEW s \in Steps, Eligible(s), Available(s)'
                 PROVE  /\ Def[s].level < level' => UpToDate(s)'
                        /\ phase' \in {"commit", "record"} /\ Def[s].level = level'
                              => UpToDate(s)' \/ Pending(s)'
      BY <1>2 DEF TickSkipsRight
    <2>1. ASSUME Def[s].level < level
          PROVE  UpToDate(s)'
      <3>1. Available(s)
        BY <1>4, <2>1
      <3>2. UpToDate(s)
        BY <1>2, <2>1, <3>1 DEF Tick, TickSkipsRight
      <3> QED
        BY <1>4, <2>1, <3>2
    <2>2. ASSUME Def[s].level = level
          PROVE  UpToDate(s)' \/ Pending(s)'
      <3>1. Available(s)
        BY <1>5, <2>2
      <3>2. UpToDate(s) \/ Pending(s)
        BY <2>2, <3>1 DEF Tick, TickSkipsRight
      <3> QED
        BY <1>5, <2>2, <3>2 DEF Eligible
    <2>3. CASE phase' = "level"
      <3>1. Def[s].level < level' => Def[s].level < level \/ Def[s].level = level
        BY <1>1, <2>3
      <3> QED
        BY <1>3, <2>1, <2>2, <2>3, <3>1
    <2>4. CASE phase' # "level"
      BY <2>1, <2>2, <2>4
    <2> QED
      BY <2>3, <2>4
  <1>7. TickRedoes'
    <2> SUFFICES ASSUME clean', NEW s \in Steps, Redoable(s)'
                 PROVE  /\ Def[s].level < level' => HasRun(s)'
                        /\ phase' \in {"commit", "record"} /\ Def[s].level = level'
                              => HasRun(s)' \/ Pending(s)'
      BY <1>2 DEF TickRedoes
    <2>1. ASSUME Def[s].level < level
          PROVE  HasRun(s)'
      <3>1. Redoable(s) => HasRun(s)
        BY <1>2, <2>1 DEF Tick, TickRedoes
      <3> QED
        BY <1>4, <2>1, <3>1
    <2>2. ASSUME Def[s].level = level
          PROVE  HasRun(s)' \/ Pending(s)'
      <3>1. Redoable(s) => HasRun(s) \/ Pending(s)
        BY <2>2 DEF Tick, TickRedoes
      <3>2. Def[s].returns = "relation"
        BY DEF Redoable
      <3> QED
        BY <1>5, <2>2, <3>1, <3>2
    <2>3. CASE phase' = "level"
      <3>1. Def[s].level < level' => Def[s].level < level \/ Def[s].level = level
        BY <1>1, <2>3
      <3> QED
        BY <1>3, <2>1, <2>2, <2>3, <3>1
    <2>4. CASE phase' # "level"
      BY <2>1, <2>2, <2>4
    <2> QED
      BY <2>3, <2>4
  <1> QED
    BY <1>6, <1>7 DEF Tick

LEMMA CommitResultTick ==
    ASSUME Base, Tick, NEW j \in jobs, CommitResult(j)
    PROVE  Tick'
  <1>1. /\ UNCHANGED <<Def, code, log, level, clean>>
        /\ phase = "commit" /\ phase' = "record"
        /\ jobs' = jobs \ {j}
        /\ open' = {Record(j, "success", version', "")}
        /\ Commit(j.step, j.rows)
    BY DEF CommitResult
  <1>2. LakeOK /\ LogOK /\ JobsOK /\ open = {} /\ level \in Nat
    BY <1>1 DEF Base, PhaseOK
  <1>3. PICK r : open' = {r} /\ r.step = j.step /\ r.fp = j.fp
    <2>1. PICK v : v = version'
      OBVIOUS
    <2> DEFINE rec == Record(j, "success", v, "")
    <2>2. rec.step = j.step /\ rec.fp = j.fp
      BY DEF Record
    <2>3. open' = {rec}
      BY <1>1, <2>1
    <2> HIDE DEF rec
    <2> QED
      BY <2>2, <2>3
  <1>4. j.step \in Steps /\ Def[j.step].level = level
    BY <1>2 DEF JobsOK
  <1>5. \A t \in Steps : t # j.step => lake'[t] = lake[t]
    BY <1>1, <1>2 DEF Commit, LakeOK
  <1>6. ASSUME NEW s \in Steps
        PROVE  /\ Fingerprint(s)' = Fingerprint(s)
               /\ Available(s)' <=> Available(s)
               /\ UpToDate(s)' <=> UpToDate(s)
               /\ HasRun(s)' <=> HasRun(s)
    <2>1. /\ Fingerprint(s)' = Fingerprint(s)
          /\ Available(s)' <=> Available(s)
      BY <1>1, <1>2, SameInputs
    <2> QED
      BY <1>1, <2>1 DEF UpToDate, HasRun
  <1>7. ASSUME NEW s \in Steps, Def[s].level <= level
        PROVE  Redoable(s)' <=> Redoable(s)
    <2>1. \A t \in Def[s].inputs : t # j.step /\ t \in Steps
      <3> TAKE t \in Def[s].inputs
      <3>1. /\ Def[t].level < Def[s].level /\ t \in Steps
            /\ Def[t].level \in Nat /\ Def[s].level \in Nat
        BY <1>2, PipelineFacts
      <3> QED
        BY <1>2, <1>4, <1>7, <3>1
    <2>2. \A t \in Def[s].inputs : lake'[t] = lake[t]
      BY <1>5, <2>1
    <2> QED
      BY <1>1, <1>2, <2>2, SameInputs
  <1>8. ASSUME NEW s \in Steps, Pending(s)
        PROVE  Pending(s)'
    <2>1. PICK k \in jobs : k.step = s
      BY <1>2, <1>8 DEF Pending
    <2>2. CASE k = j
      BY <1>3, <2>1, <2>2 DEF Pending
    <2>3. CASE k # j
      BY <1>1, <2>1, <2>3 DEF Pending
    <2> QED
      BY <2>2, <2>3
  <1>9. Named'
    <2> SUFFICES ASSUME NEW k \in jobs' \cup open', Whole(k.step)'
                 PROVE  k.fp = Fingerprint(k.step)'
      BY DEF Named
    <2>1. PICK i \in jobs : i.step = k.step /\ i.fp = k.fp
      BY <1>1, <1>3
    <2>2. i.step \in Steps /\ Whole(i.step)
      BY <1>1, <1>2, <2>1 DEF JobsOK, Whole
    <2>3. i.fp = Fingerprint(i.step)
      BY <1>1, <2>2 DEF Tick, Named
    <2> QED
      BY <1>6, <2>1, <2>2, <2>3
  <1> QED
    BY <1>1, <1>6, <1>7, <1>8, <1>9, HandledTick

LEMMA FailedTick ==
    ASSUME Base, Tick, NEW j \in jobs, NEW error, JobFailed(j, error),
           clean' => clean /\ Def[j.step].returns = "none"
    PROVE  Tick'
  <1> DEFINE r == Record(j, "failed", NoSnapshot, error)
  <1>1. /\ UNCHANGED <<Def, code, lake, version, open>>
        /\ phase = "commit" /\ jobs' = jobs \ {j} /\ log' = log \cup {r}
        /\ IF jobs' = {} THEN phase' = "level" /\ level' = level + 1
                         ELSE phase' = "commit" /\ level' = level
    BY DEF JobFailed, Handled, NextFuture
  <1>2. LakeOK /\ LogOK /\ JobsOK /\ open = {} /\ level \in Nat
    BY <1>1 DEF Base, PhaseOK
  <1>3. /\ r.at \in Nat /\ \A q \in log : q.at < r.at
        /\ r.step = j.step /\ r.table = j.step /\ r.status = "failed"
    BY <1>2, RecordIsLater
  <1> HIDE DEF r
  <1>4. j.step \in Steps /\ Def[j.step].level = level
    BY <1>2 DEF JobsOK
  <1>5. /\ \A s : LastRun(log', s) = LastRun(log, s)
        /\ \A t : LatestSnapshot(log', t) = LatestSnapshot(log, t)
    <2>1. Dated(log) /\ ~Succeeded(r)
      BY <1>2, <1>3 DEF LogOK, Succeeded
    <2>2. /\ \A s : LastRun(log \cup {r}, s) = LastRun(log, s)
          /\ \A t : LatestSnapshot(log \cup {r}, t) = LatestSnapshot(log, t)
      <3>1. r.at \in Nat /\ (\A q \in log : q.at < r.at) /\ Dated(log)
        BY <1>3, <2>1
      <3>2. /\ \A s : ~(Succeeded(r) /\ r.step = s) =>
                  LastRun(log \cup {r}, s) = LastRun(log, s)
            /\ \A t : ~(Succeeded(r) /\ r.table = t) =>
                  LatestSnapshot(log \cup {r}, t) = LatestSnapshot(log, t)
        BY <3>1, LaterRecord
      <3> QED
        BY <2>1, <3>2
    <2> QED
      BY <1>1, <2>2
  <1>6. ASSUME NEW s \in Steps
        PROVE  /\ Fingerprint(s)' = Fingerprint(s)
               /\ Available(s)' <=> Available(s)
               /\ Redoable(s)' <=> Redoable(s)
               /\ UpToDate(s)' <=> UpToDate(s)
               /\ HasRun(s)' <=> HasRun(s)
    <2>1. /\ Fingerprint(s)' = Fingerprint(s)
          /\ Available(s)' <=> Available(s)
          /\ Redoable(s)' <=> Redoable(s)
      BY <1>1, <1>2, <1>5, SameInputs
    <2> QED
      BY <1>5, <2>1 DEF UpToDate, HasRun
  <1>7. ASSUME NEW s \in Steps, clean', Pending(s), Def[s].returns = "relation"
        PROVE  Pending(s)'
    <2>1. PICK k \in jobs : k.step = s
      BY <1>2, <1>7 DEF Pending
    <2>2. k # j
      BY <1>7, <2>1
    <2> QED
      BY <1>1, <2>1, <2>2 DEF Pending
  <1>8. Named'
    <2> SUFFICES ASSUME NEW k \in jobs', Whole(k.step)'
                 PROVE  k.fp = Fingerprint(k.step)'
      BY <1>1, <1>2 DEF Named
    <2>1. k \in jobs /\ k.step \in Steps /\ Whole(k.step)
      BY <1>1, <1>2 DEF JobsOK, Whole
    <2>2. k.fp = Fingerprint(k.step)
      BY <1>1, <2>1 DEF Tick, Named
    <2> QED
      BY <1>6, <2>1, <2>2
  <1> QED
    BY <1>1, <1>2, <1>6, <1>7, <1>8, HandledTick

LEMMA RecordRunTick ==
    ASSUME Base, Tick, RecordRun
    PROVE  Tick'
  <1>1. /\ UNCHANGED <<Def, code, lake, version, jobs, clean>>
        /\ log' = log \cup open /\ open' = {}
        /\ \/ phase = "backfill" /\ phase' = "idle"
           \/ /\ phase = "record"
              /\ IF jobs = {} THEN phase' = "level" /\ level' = level + 1
                              ELSE phase' = "commit" /\ level' = level
    BY DEF RecordRun, NextFuture
  <1>2. LakeOK /\ LogOK /\ JobsOK /\ level \in Nat
    BY DEF Base, PhaseOK
  <1>3. CASE phase = "backfill"
    BY <1>1, <1>3 DEF Base, PhaseOK, Tick, Named, TickSkipsRight, TickRedoes
  <1>4. CASE phase = "record" /\ open = {}
    <2>1. ASSUME NEW s \in Steps
          PROVE  /\ Fingerprint(s)' = Fingerprint(s)
                 /\ Available(s)' <=> Available(s)
                 /\ Redoable(s)' <=> Redoable(s)
                 /\ UpToDate(s)' <=> UpToDate(s)
                 /\ HasRun(s)' <=> HasRun(s)
      <3>1. /\ Fingerprint(s)' = Fingerprint(s)
            /\ Available(s)' <=> Available(s)
            /\ Redoable(s)' <=> Redoable(s)
        BY <1>1, <1>2, <1>4, SameInputs
      <3> QED
        BY <1>1, <1>4, <3>1 DEF UpToDate, HasRun
    <2>2. Named'
      <3> SUFFICES ASSUME NEW k \in jobs, Whole(k.step)'
                   PROVE  k.fp = Fingerprint(k.step)'
        BY <1>1 DEF Named
      <3>1. k.step \in Steps /\ Whole(k.step)
        BY <1>1, <1>2 DEF JobsOK, Whole
      <3>2. k.fp = Fingerprint(k.step)
        BY <1>4, <3>1 DEF Tick, Named
      <3> QED
        BY <2>1, <3>1, <3>2
    <2>3. \A s : Pending(s) => Pending(s)'
      BY <1>1, <1>4 DEF Pending
    <2> QED
      BY <1>1, <1>2, <1>4, <2>1, <2>2, <2>3, HandledTick
  <1>5. CASE phase = "record" /\ open # {}
    <2>1. PICK r \in open : /\ open = {r} /\ Succeeded(r) /\ r.at \in Nat
                            /\ \A q \in log : q.at < r.at
                            /\ r.step \in Steps /\ r.table = r.step
                            /\ Def[r.step].level = level
      BY <1>2, <1>5 DEF LogOK, GoodRecord
    <2>2. /\ LastRun(log', r.step) = {r}
          /\ \A s : s # r.step => LastRun(log', s) = LastRun(log, s)
      <3>1. Dated(log) /\ log' = log \cup {r}
        BY <1>1, <1>2, <2>1 DEF LogOK
      <3>2. /\ LastRun(log \cup {r}, r.step) = {r}
            /\ \A s : s # r.step => LastRun(log \cup {r}, s) = LastRun(log, s)
        <4>1. r.at \in Nat /\ Dated(log) /\ \A q \in log : q.at < r.at
          BY <2>1, <3>1
        <4>2. Succeeded(r) => LastRun(log \cup {r}, r.step) = {r}
          BY <4>1, LaterRecord
        <4>3. \A s : ~(Succeeded(r) /\ r.step = s) =>
                 LastRun(log \cup {r}, s) = LastRun(log, s)
          BY <4>1, LaterRecord
        <4> QED
          BY <2>1, <4>2, <4>3
      <3> QED
        BY <3>1, <3>2
    <2>3. ASSUME NEW s \in Steps, Def[s].level <= level
          PROVE  /\ Fingerprint(s)' = Fingerprint(s)
                 /\ Available(s)' <=> Available(s)
                 /\ s # r.step => (Redoable(s)' <=> Redoable(s))
      <3>1. \A t \in Def[s].inputs : LatestSnapshot(log', t) = LatestSnapshot(log, t)
        BY <1>1, <2>1, <2>3, SameLevelInputs
      <3> QED
        BY <1>1, <1>2, <2>2, <3>1, SameInputs
    <2>4. level <= level
      BY <1>2
    <2>5. HasRun(r.step)'
      BY <2>2 DEF HasRun
    <2>6. Whole(r.step) => UpToDate(r.step)'
      <3>1. Whole(r.step) => r.fp = Fingerprint(r.step)
        BY <1>5, <2>1 DEF Tick, Named
      <3>2. Whole(r.step) => r.fp = Fingerprint(r.step)'
        BY <2>1, <2>3, <2>4, <3>1
      <3> QED
        BY <2>2, <3>2 DEF UpToDate
    <2>7. ASSUME NEW s \in Steps, Def[s].level <= level
          PROVE  /\ Fingerprint(s)' = Fingerprint(s)
                 /\ Available(s)' <=> Available(s)
                 /\ Redoable(s)' => Redoable(s) \/ HasRun(s)'
                 /\ HasRun(s) => HasRun(s)'
      BY <2>2, <2>3, <2>5, <2>7 DEF HasRun
    <2>8. ASSUME NEW s \in Steps, Def[s].level <= level, Eligible(s)
          PROVE  UpToDate(s) => UpToDate(s)'
      <3>1. CASE s = r.step
        BY <2>6, <2>8, <3>1 DEF Eligible
      <3>2. CASE s # r.step
        BY <2>2, <2>3, <2>8, <3>2 DEF UpToDate
      <3> QED
        BY <3>1, <3>2
    <2>9. ASSUME NEW s \in Steps, Pending(s)
          PROVE  /\ Pending(s)' \/ HasRun(s)'
                 /\ Eligible(s) => Pending(s)' \/ UpToDate(s)'
      <3>1. PICK k \in jobs \cup open : k.step = s
        BY <2>9 DEF Pending
      <3>2. CASE k = r
        BY <2>5, <2>6, <3>1, <3>2 DEF Eligible
      <3>3. CASE k # r
        BY <1>1, <2>1, <3>1, <3>3 DEF Pending
      <3> QED
        BY <3>2, <3>3
    <2>10. Named'
      <3> SUFFICES ASSUME NEW k \in jobs, Whole(k.step)'
                   PROVE  k.fp = Fingerprint(k.step)'
        BY <1>1 DEF Named
      <3>1. k.step \in Steps /\ Whole(k.step) /\ Def[k.step].level = level
        BY <1>1, <1>2 DEF JobsOK, Whole
      <3>2. k.fp = Fingerprint(k.step)
        BY <1>5, <3>1 DEF Tick, Named
      <3> QED
        BY <2>3, <2>4, <3>1, <3>2
    <2> QED
      BY <1>1, <1>2, <1>5, <2>7, <2>8, <2>9, <2>10, HandledTick
  <1> QED
    BY <1>1, <1>3, <1>4, <1>5

LEMMA TickNextOK ==
    ASSUME Base, Tick, [Next]_vars
    PROVE  Tick'
  <1>1. ASSUME ~clean', phase' \notin {"commit", "record"}
        PROVE  Tick'
    BY <1>1 DEF Tick, Named, TickSkipsRight, TickRedoes
  <1>2. CASE StartTick
    <2>1. /\ phase' = "level" /\ level' = 1 /\ UNCHANGED Def
      BY <1>2 DEF StartTick
    <2>2. \A s \in Steps : Def[s].level \in Nat /\ Def[s].level >= 1
      BY PipelineFacts DEF Base
    <2>3. \A s \in Steps' : ~(Def'[s].level < level')
      BY <2>1, <2>2 DEF Steps
    <2> QED
      BY <2>1, <2>3 DEF Tick, Named, TickSkipsRight, TickRedoes
  <1>3. CASE RunLevel
    BY <1>3, RunLevelTick
  <1>4. CASE EndTick
    <2>1. /\ phase = "level" /\ phase' = "idle" /\ level \notin Levels
          /\ UNCHANGED <<Def, level, due, jobs, open, log, lake, version, code, clean>>
      BY <1>4 DEF EndTick
    <2>2. LakeOK /\ LogOK /\ level \in Nat /\ level >= 1
      BY <2>1 DEF Base, PhaseOK
    <2>3. \A s \in Steps : Def[s].level < level
      BY <2>1, <2>2, LastLevel
    <2>4. ASSUME NEW s \in Steps
          PROVE  /\ Available(s)' <=> Available(s)
                 /\ Eligible(s)' <=> Eligible(s)
                 /\ Redoable(s)' <=> Redoable(s)
                 /\ UpToDate(s)' <=> UpToDate(s)
                 /\ HasRun(s)' <=> HasRun(s)
      <3>1. /\ Fingerprint(s)' = Fingerprint(s)
            /\ Available(s)' <=> Available(s)
            /\ Eligible(s)' <=> Eligible(s)
            /\ Redoable(s)' <=> Redoable(s)
        BY <2>1, <2>2, SameInputs
      <3> QED
        BY <2>1, <3>1 DEF UpToDate, HasRun
    <2>5. Steps' = Steps /\ InTick /\ ~InTick'
      BY <2>1 DEF Steps, InTick
    <2>6. TickSkipsRight'
      BY <2>1, <2>3, <2>4, <2>5 DEF Tick, TickSkipsRight
    <2>7. TickRedoes'
      BY <2>1, <2>3, <2>4, <2>5 DEF Tick, TickRedoes
    <2> QED
      BY <2>1, <2>6, <2>7 DEF Tick, Named
  <1>5. CASE RecordRun
    BY <1>5, RecordRunTick
  <1>6. CASE Crash
    BY <1>1, <1>6 DEF Crash
  <1>7. CASE \E j \in jobs : StepRaises(j) \/ WriteFails(j) \/ ReturnedNone(j)
    <2>1. PICK j \in jobs : StepRaises(j) \/ WriteFails(j) \/ ReturnedNone(j)
      BY <1>7
    <2>2. CASE StepRaises(j)
      BY <2>2, FailedTick DEF StepRaises
    <2>3. CASE WriteFails(j)
      BY <2>3, FailedTick DEF WriteFails
    <2>4. CASE ReturnedNone(j)
      <3>1. clean' = clean /\ Def[j.step].returns = "none" /\ JobFailed(j, "returned None")
        BY <2>4 DEF ReturnedNone
      <3> QED
        BY <3>1, FailedTick
    <2> QED
      BY <2>1, <2>2, <2>3, <2>4
  <1>8. CASE \E j \in jobs : CommitResult(j)
    BY <1>8, CommitResultTick
  <1>9. CASE \E s \in Steps : \E p \in Parts : Backfill(s, p)
    BY <1>1, <1>9 DEF Backfill, Operation
  <1>10. CASE \E S : Invalidate(S)
    BY <1>1, <1>10 DEF Invalidate, Operation
  <1>11. CASE \E cutoff : Gc(cutoff)
    BY <1>1, <1>11 DEF Gc, Operation
  <1>12. CASE \E s \in Steps : EditCode(s)
    BY <1>1, <1>12 DEF EditCode, Operation
  <1>13. CASE UNCHANGED vars
    <2>1. UNCHANGED <<Def, phase, level, jobs, open, log, lake, code, clean>>
      BY <1>13 DEF vars
    <2>2. /\ Steps' = Steps /\ (InTick' <=> InTick)
          /\ \A s : (Whole(s)' <=> Whole(s)) /\ (Pending(s)' <=> Pending(s))
      BY <2>1 DEF Steps, InTick, Whole, Pending
    <2>3. ASSUME NEW s \in Steps
          PROVE  /\ Fingerprint(s)' = Fingerprint(s)
                 /\ Available(s)' <=> Available(s)
                 /\ Eligible(s)' <=> Eligible(s)
                 /\ Redoable(s)' <=> Redoable(s)
                 /\ UpToDate(s)' <=> UpToDate(s)
                 /\ HasRun(s)' <=> HasRun(s)
      <3>1. /\ Fingerprint(s)' = Fingerprint(s)
            /\ Available(s)' <=> Available(s)
            /\ Eligible(s)' <=> Eligible(s)
            /\ Redoable(s)' <=> Redoable(s)
        BY <2>1, SameInputs DEF Base
      <3> QED
        BY <2>1, <3>1 DEF UpToDate, HasRun
    <2>4. Named'
      <3>1. \A j \in jobs \cup open : j.step \in Steps
        BY DEF Base, JobsOK, LogOK, GoodRecord
      <3> QED
        BY <2>1, <2>2, <2>3, <3>1 DEF Tick, Named
    <2>5. TickSkipsRight'
      BY <2>1, <2>2, <2>3 DEF Tick, TickSkipsRight
    <2>6. TickRedoes'
      BY <2>1, <2>2, <2>3 DEF Tick, TickRedoes
    <2> QED
      BY <2>4, <2>5, <2>6 DEF Tick
  <1> QED
    BY <1>2, <1>3, <1>4, <1>5, <1>6, <1>7, <1>8, <1>9, <1>10, <1>11, <1>12, <1>13
       DEF Next, TickNext

LEMMA TickInvariant == Spec => [](Base /\ Tick)
  <1> DEFINE Inv == Base /\ Tick
  <1>1. Init => Inv
    <2> SUFFICES ASSUME Init
                 PROVE  Base /\ Tick
      OBVIOUS
    <2>1. Tick
      BY DEF Init, Tick, Named, TickSkipsRight, TickRedoes
    <2> QED
      BY <2>1, BaseInit
  <1>2. Inv /\ [Next]_vars => Inv'
    <2> SUFFICES ASSUME Base, Tick, [Next]_vars
                 PROVE  Base' /\ Tick'
      OBVIOUS
    <2> QED
      BY BaseNext, TickNextOK
  <1> HIDE DEF Inv
  <1>3. Spec => []Inv
    BY <1>1, <1>2, PTL DEF Spec
  <1> QED
    BY <1>3 DEF Inv

-----------------------------------------------------------------------------
(* The invariant: what a run wrote, however its table is written. A commit *)
(* that changes nothing adds to the version that is the latest already: it *)
(* has to be shown that a step which read nothing but empty tables adds to *)
(* nothing that it wrote itself, of inputs that were not empty.            *)

\* The table is not empty at its latest snapshot, nor will it be at one to come.
StaysFilled(u) ==
    /\ LatestSnapshot(log, u) # NoSnapshot => At(u, LatestSnapshot(log, u)) # NoRows
    /\ Def[u].merge # "replace" => At(u, version) # NoRows

WrittenFromRows ==
    \A s \in Steps : Whole(s) /\ WrittenIn(lake[s], version) # NoRows =>
        \E u \in Def[s].inputs : StaysFilled(u)

OpenIsLast ==
    \A r \in open :
        /\ r.snapshot = version
        /\ Def[r.step].merge = "replace" =>
              \A s \in Steps \ {r.step} : WrittenIn(lake[s], version) = NoRows

JobsAvailable == \A j \in jobs : j.step \in Steps /\ Available(j.step)

Reproduced ==
    \A r \in log \cup open : Succeeded(r) /\ Whole(r.step) =>
        WrittenIn(lake[r.table], r.snapshot) = InputsAt(r.step, r.fp.in)

Replay == WrittenFromRows /\ OpenIsLast /\ JobsAvailable /\ Reproduced

LEMMA InputsAreEmpty ==
    ASSUME LakeOK, NEW s \in Steps, NEW in \in [Def[s].inputs -> 0..version]
    PROVE  InputsAt(s, in) = NoRows <=> \A u \in Def[s].inputs : At(u, in[u]) = NoRows
  <1>1. IsFiniteSet(Def[s].inputs) /\ Def[s].inputs \in SUBSET Steps
    BY PipelineFacts
  <1>2. \A u \in Def[s].inputs : At(u, in[u]) \in Relation
    BY <1>1, TablesAreRelations DEF At
  <1>3. PICK rels : rels = [u \in Def[s].inputs |-> At(u, in[u])]
    OBVIOUS
  <1>4. rels \in [Def[s].inputs -> Relation]
    BY <1>2, <1>3
  <1>5. SumOf(rels) = NoRows <=> \A u \in Def[s].inputs : rels[u] = NoRows
    BY <1>1, <1>4, SumIsEmpty
  <1> QED
    BY <1>3, <1>5 DEF InputsAt

\* What was once in a table that nothing replaces is there at the latest version.
LEMMA FilledUpTo ==
    ASSUME LakeOK, NEW u \in Steps, Def[u].merge # "replace", NEW v \in Nat, v <= version
    PROVE  /\ AsOf(lake[u], v) # NoRows => AsOf(lake[u], version) # NoRows
           /\ \A r \in Rows : AsOf(lake[u], v)[r] > 0 => AsOf(lake[u], version)[r] > 0
  <1>1. lake[u] \in Seq(Writes) /\ version \in Nat
    BY DEF LakeOK
  <1>2. \A i \in DOMAIN lake[u] : i > 1 => lake[u][i].merge # "replace"
    <2> TAKE i \in DOMAIN lake[u]
    <2>1. lake[u][i].merge = IF i = 1 THEN "replace" ELSE Def[u].merge
      BY DEF LakeOK, Merges
    <2> QED
      BY <2>1
  <1> QED
    BY <1>1, <1>2, NonemptyStays

LEMMA FilledLater ==
    ASSUME LakeOK', UNCHANGED Def, NEW u \in Steps, Def[u].merge # "replace",
           NEW v \in Nat, v <= version', AsOf(lake'[u], v) # NoRows
    PROVE  AsOf(lake'[u], version') # NoRows
  <1>1. lake'[u] \in Seq(Writes) /\ version' \in Nat
    BY DEF LakeOK, Steps
  <1>2. \A i \in DOMAIN lake'[u] : i > 1 => lake'[u][i].merge # "replace"
    <2> TAKE i \in DOMAIN lake'[u]
    <2>1. lake'[u][i].merge = IF i = 1 THEN "replace" ELSE Def[u].merge
      BY DEF LakeOK, Merges, Steps
    <2> QED
      BY <2>1
  <1>3. PICK writes : writes = lake'[u]
    OBVIOUS
  <1>4. PICK w : w = version'
    OBVIOUS
  <1> QED
    BY <1>1, <1>2, <1>3, <1>4, NonemptyStays

\* A commit, of a job or of backfill, with the record of it still to be made.
LEMMA CommittedReplay ==
    ASSUME Base, Replay, NEW s \in Steps, NEW rows \in Relation, NEW r,
           Commit(s, rows), Def[s].returns = "relation", UNCHANGED <<Def, log>>,
           open = {}, open' = {r},
           r.step = s, r.table = s, r.snapshot = version',
           Whole(s) => rows = InputsAt(s, r.fp.in) /\ r.fp.in = Fingerprint(s).in,
           Available(s), jobs' \in SUBSET jobs
    PROVE  Replay'
  <1>1. LakeOK /\ LogOK /\ version \in Nat
    BY DEF Base, LakeOK
  <1>2. /\ LakeOK'
        /\ version <= version' /\ version' >= 1
        /\ \A t \in Steps : \A v \in 0..version :
              /\ AsOf(lake'[t], v) = AsOf(lake[t], v)
              /\ WrittenIn(lake'[t], v) = WrittenIn(lake[t], v)
        /\ \/ version' = version + 1
           \/ version' = version /\ rows = NoRows /\ Def[s].merge # "replace"
        /\ version' = version + 1 =>
              /\ WrittenIn(lake'[s], version') = rows
              /\ \A t \in Steps \ {s} : WrittenIn(lake'[t], version') = NoRows
    BY <1>1, CommitEffect
  <1>3. /\ Steps' = Steps /\ version' \in Nat
        /\ \A t : Whole(t)' <=> Whole(t)
        /\ \A t : LatestSnapshot(log', t) = LatestSnapshot(log, t)
        /\ \A t : LatestSnapshot(log, t) \in 0..version
        /\ \A t \in Steps : Def[t].inputs \in SUBSET Steps
    BY <1>1, <1>2, LatestIsAVersion, PipelineFacts DEF Steps, LakeOK, Whole
  <1>4. ASSUME NEW t \in Steps, NEW in \in [Def[t].inputs -> 0..version]
        PROVE  InputsAt(t, in)' = InputsAt(t, in)
    BY <1>1, <1>2, <1>4, InputsStay
  <1>5. /\ Fingerprint(s).in \in [Def[s].inputs -> 0..version]
        /\ \A u \in Def[s].inputs : Fingerprint(s).in[u] = LatestSnapshot(log, u)
    BY <1>1, FingerprintIsGood DEF Fingerprint
  <1>6. ASSUME Whole(s)
        PROVE  rows = NoRows <=>
                  \A u \in Def[s].inputs : At(u, LatestSnapshot(log, u)) = NoRows
    BY <1>1, <1>5, <1>6, InputsAreEmpty
  <1>7. ASSUME NEW u \in Steps, StaysFilled(u)
        PROVE  StaysFilled(u)'
    <2>1. LatestSnapshot(log', u) # NoSnapshot =>
             AsOf(lake'[u], LatestSnapshot(log', u)) # NoRows
      BY <1>2, <1>3, <1>7 DEF StaysFilled, At
    <2>2. ASSUME Def[u].merge # "replace"
          PROVE  At(u, version)' # NoRows
      <3>1. At(u, version) # NoRows /\ version \in 0..version
        BY <1>1, <1>7, <2>2 DEF StaysFilled
      <3>2. AsOf(lake'[u], version) # NoRows
        BY <1>2, <3>1 DEF At
      <3> QED
        BY <1>1, <1>2, <2>2, <3>2, FilledLater DEF At
    <2> QED
      BY <2>1, <2>2 DEF StaysFilled, At
  <1>8. ASSUME version' = version
        PROVE  WrittenFromRows' /\ (Whole(s) => WrittenIn(lake'[s], version') = rows)
    <2>1. rows = NoRows /\ Def[s].merge # "replace" /\ version \in 0..version
      BY <1>1, <1>2, <1>8
    <2>2. \A t \in Steps : WrittenIn(lake'[t], version') = WrittenIn(lake[t], version)
      BY <1>2, <1>8, <2>1
    <2>3. WrittenFromRows'
      <3> SUFFICES ASSUME NEW t \in Steps, Whole(t), WrittenIn(lake'[t], version') # NoRows
                   PROVE  \E u \in Def[t].inputs : StaysFilled(u)'
        BY <1>3 DEF WrittenFromRows
      <3>1. PICK u \in Def[t].inputs : StaysFilled(u)
        BY <2>2 DEF Replay, WrittenFromRows
      <3> QED
        BY <1>3, <1>7, <3>1
    <2>4. Whole(s) => WrittenIn(lake'[s], version') = rows
      <3> SUFFICES ASSUME Whole(s), WrittenIn(lake[s], version) # NoRows
                   PROVE  FALSE
        BY <2>1, <2>2
      <3>1. PICK u \in Def[s].inputs : StaysFilled(u)
        BY DEF Replay, WrittenFromRows
      <3>2. At(u, LatestSnapshot(log, u)) # NoRows
        BY <3>1 DEF StaysFilled, Available
      <3> QED
        BY <1>6, <2>1, <3>2
    <2> QED
      BY <2>3, <2>4
  <1>9. ASSUME version' = version + 1
        PROVE  WrittenFromRows'
    <2> SUFFICES ASSUME NEW t \in Steps, Whole(t), WrittenIn(lake'[t], version') # NoRows
                 PROVE  \E u \in Def[t].inputs : StaysFilled(u)'
      BY <1>3 DEF WrittenFromRows
    <2>1. t = s /\ rows # NoRows
      BY <1>2, <1>9
    <2>2. PICK u \in Def[s].inputs : At(u, LatestSnapshot(log, u)) # NoRows
      BY <1>6, <2>1
    <2>3. /\ u \in Steps /\ LatestSnapshot(log, u) \in Nat
          /\ LatestSnapshot(log, u) <= version'
          /\ AsOf(lake'[u], LatestSnapshot(log, u)) # NoRows
      BY <1>1, <1>2, <1>3, <2>2 DEF At
    <2>4. Def[u].merge # "replace" => AsOf(lake'[u], version') # NoRows
      BY <1>2, <2>3, FilledLater
    <2>5. StaysFilled(u)'
      BY <1>3, <2>3, <2>4 DEF StaysFilled, At
    <2> QED
      BY <2>1, <2>5
  <1>10. /\ WrittenFromRows'
         /\ Whole(s) => WrittenIn(lake'[s], version') = rows
         /\ Def[s].merge = "replace" =>
               \A t \in Steps \ {s} : WrittenIn(lake'[t], version') = NoRows
    BY <1>2, <1>8, <1>9
  <1>11. OpenIsLast'
    BY <1>3, <1>10 DEF OpenIsLast
  <1>12. JobsAvailable'
    BY <1>3 DEF Replay, JobsAvailable, Available
  <1>13. Reproduced'
    <2> SUFFICES ASSUME NEW q \in log' \cup open', Succeeded(q), Whole(q.step)
                 PROVE  WrittenIn(lake'[q.table], q.snapshot) = InputsAt(q.step, q.fp.in)'
      BY <1>3 DEF Reproduced
    <2>1. CASE q \in log
      <3>1. /\ q.step \in Steps /\ q.table = q.step /\ q.snapshot \in 0..version
            /\ q.fp.in \in [Def[q.step].inputs -> 0..version]
        BY <1>1, <2>1 DEF LogOK, GoodRecord
      <3>2. WrittenIn(lake[q.table], q.snapshot) = InputsAt(q.step, q.fp.in)
        BY <2>1 DEF Replay, Reproduced
      <3> QED
        BY <1>2, <1>4, <3>1, <3>2
    <2>2. CASE q = r
      <3>1. r.fp.in \in [Def[s].inputs -> 0..version] /\ rows = InputsAt(s, r.fp.in)
        BY <1>5, <2>2
      <3>2. WrittenIn(lake'[s], version') = rows
        BY <1>10, <2>2
      <3> QED
        BY <1>4, <2>2, <3>1, <3>2
    <2> QED
      BY <2>1, <2>2
  <1> QED
    BY <1>10, <1>11, <1>12, <1>13 DEF Replay

\* A step that commits nothing.
LEMMA ReplayKept ==
    ASSUME Base, Replay, UNCHANGED <<Def, lake, version>>, open' \in SUBSET open,
           \A r \in log' : Succeeded(r) => r \in log \cup open,
           WrittenFromRows', JobsAvailable'
    PROVE  Replay'
  <1>1. /\ Steps' = Steps
        /\ \A s, in : InputsAt(s, in)' = InputsAt(s, in)
        /\ \A s : Whole(s)' <=> Whole(s)
    BY LakeUnchanged DEF Base
  <1>2. OpenIsLast'
    BY <1>1 DEF Replay, OpenIsLast
  <1>3. Reproduced'
    BY <1>1 DEF Replay, Reproduced
  <1> QED
    BY <1>2, <1>3 DEF Replay

\* Of a table the latest snapshot stays, or there is none any more.
LEMMA FewerSnapshots ==
    ASSUME Base, Replay, UNCHANGED <<Def, lake, version>>, open' \in SUBSET open,
           \A r \in log' : Succeeded(r) => r \in log,
           \A u \in Steps :
              LatestSnapshot(log', u) \in {NoSnapshot, LatestSnapshot(log, u)},
           JobsAvailable'
    PROVE  Replay'
  <1>1. /\ Steps' = Steps
        /\ \A t, v : At(t, v)' = At(t, v)
        /\ \A s : Whole(s)' <=> Whole(s)
        /\ \A s \in Steps : Def[s].inputs \in SUBSET Steps
    BY LakeUnchanged, PipelineFacts DEF Base
  <1>2. ASSUME NEW u \in Steps, StaysFilled(u)
        PROVE  StaysFilled(u)'
    BY <1>2 DEF StaysFilled, At
  <1>3. WrittenFromRows'
    BY <1>1, <1>2 DEF Replay, WrittenFromRows
  <1> QED
    BY <1>3, ReplayKept

\* The record of a commit makes its version the latest snapshot.
LEMMA RecordRunReplay ==
    ASSUME Base, Replay, RecordRun
    PROVE  Replay'
  <1>1. /\ UNCHANGED <<Def, lake, version, jobs>>
        /\ log' = log \cup open /\ open' = {}
    BY DEF RecordRun
  <1>2. /\ LakeOK /\ LogOK /\ Steps' = Steps
        /\ \A s : Whole(s)' <=> Whole(s)
    BY <1>1, LakeUnchanged DEF Base
  <1>3. CASE open = {}
    <2>1. log' = log
      BY <1>1, <1>3
    <2>2. JobsAvailable'
      BY <1>1, <1>2, <2>1 DEF Replay, JobsAvailable, Available
    <2> QED
      BY <1>1, <2>1, <2>2, FewerSnapshots
  <1>4. CASE open # {}
    <2>1. PICK r \in open :
             /\ open = {r} /\ Succeeded(r) /\ r.at \in Nat
             /\ \A q \in log : q.at < r.at
             /\ r.step \in Steps /\ r.table = r.step
             /\ r.snapshot = version /\ r.snapshot # NoSnapshot
             /\ Def[r.step].merge = "replace" =>
                   \A s \in Steps \ {r.step} : WrittenIn(lake[s], version) = NoRows
      BY <1>2, <1>4 DEF LogOK, GoodRecord, Replay, OpenIsLast, NoSnapshot, LakeOK
    <2>2. /\ LatestSnapshot(log', r.step) = version
          /\ \A t : t # r.step => LatestSnapshot(log', t) = LatestSnapshot(log, t)
      <3>1. Dated(log) /\ log' = log \cup {r}
        BY <1>1, <1>2, <2>1 DEF LogOK
      <3>2. /\ LatestSnapshot(log \cup {r}, r.table) = r.snapshot
            /\ \A t : ~(Succeeded(r) /\ r.table = t) =>
                  LatestSnapshot(log \cup {r}, t) = LatestSnapshot(log, t)
        BY <2>1, <3>1, LaterRecord
      <3> QED
        BY <2>1, <3>1, <3>2
    <2>3. JobsAvailable'
      <3>1. version # NoSnapshot
        BY <2>1
      <3>2. \A t : LatestSnapshot(log, t) # NoSnapshot => LatestSnapshot(log', t) # NoSnapshot
        BY <2>2, <3>1
      <3> QED
        BY <1>1, <1>2, <3>2 DEF Replay, JobsAvailable, Available
    <2>4. WrittenFromRows'
      <3> SUFFICES ASSUME NEW s \in Steps, Whole(s), WrittenIn(lake[s], version) # NoRows
                   PROVE  \E u \in Def[s].inputs : StaysFilled(u)'
        BY <1>1, <1>2 DEF WrittenFromRows
      <3>1. PICK u \in Def[s].inputs : StaysFilled(u)
        BY DEF Replay, WrittenFromRows
      <3>2. u \in Steps /\ u # s
        BY <1>2, PipelineFacts
      <3>3. CASE u # r.step
        BY <1>1, <2>2, <3>1, <3>3 DEF StaysFilled, At
      <3>4. CASE u = r.step
        <4>1. Def[u].merge # "replace"
          BY <2>1, <3>2, <3>4
        <4>2. AsOf(lake[u], version) # NoRows
          BY <3>1, <4>1 DEF StaysFilled, At
        <4> QED
          BY <1>1, <2>2, <3>1, <3>4, <4>2 DEF StaysFilled, At
      <3> QED
        BY <3>3, <3>4
    <2> QED
      BY <1>1, <2>3, <2>4, ReplayKept
  <1> QED
    BY <1>3, <1>4

LEMMA CommitResultReplay ==
    ASSUME Base, Tick, Replay, NEW j \in jobs, CommitResult(j)
    PROVE  Replay'
  <1> USE DEF CommitResult
  <1>1. LakeOK /\ LogOK /\ JobsOK /\ open = {}
    BY DEF Base, PhaseOK
  <1>2. /\ j.step \in Steps /\ j.rows \in Relation /\ Available(j.step)
        /\ Whole(j.step) => /\ j.rows = InputsAt(j.step, j.fp.in)
                            /\ j.fp = Fingerprint(j.step)
    BY <1>1 DEF JobsOK, Tick, Named, Replay, JobsAvailable
  <1>3. PICK r : r = Record(j, "success", version', "")
    OBVIOUS
  <1>4. r.step = j.step /\ r.table = j.step /\ r.snapshot = version' /\ r.fp = j.fp
    BY <1>3 DEF Record
  <1>5. /\ open' = {r} /\ jobs' \in SUBSET jobs /\ UNCHANGED <<Def, log>>
        /\ Commit(j.step, j.rows) /\ Def[j.step].returns = "relation"
    BY <1>3
  <1> QED
    BY <1>1, <1>2, <1>4, <1>5, CommittedReplay

LEMMA BackfillReplay ==
    ASSUME Base, Replay, NEW s \in Steps, NEW p, Backfill(s, p)
    PROVE  Replay'
  <1> DEFINE rows == CASE Def[s].kind = "source" -> Pulled
                       [] Def[s].partitioned -> Partition(WholeInputs(s), p)
                       [] OTHER -> WholeInputs(s)
             job == [step |-> s, fp |-> [Fingerprint(s) EXCEPT !.backfill = TRUE]]
  <1>1. /\ phase = "idle" /\ jobs' = jobs /\ UNCHANGED <<Def, log>>
        /\ Commit(s, rows) /\ Def[s].returns = "relation" /\ Available(s)
        /\ open' = {Record(job, "success", version', "")}
    BY DEF Backfill, Operation, Available
  <1>2. LakeOK /\ LogOK /\ open = {}
    BY <1>1 DEF Base, PhaseOK
  <1>3. /\ WholeInputs(s) \in Relation
        /\ WholeInputs(s) = InputsAt(s, Fingerprint(s).in)
    BY <1>2, WholeInputsAreNamed
  <1>4. rows \in Relation
    BY <1>3, PartitionIsRelation, PulledIsRelation
  <1>5. Whole(s) => rows = InputsAt(s, Fingerprint(s).in)
    BY <1>3 DEF Whole
  <1>6. job.step = s /\ job.fp.in = Fingerprint(s).in
    BY DEF Fingerprint
  <1> HIDE DEF rows, job
  <1>7. PICK r : r = Record(job, "success", version', "")
    OBVIOUS
  <1>8. r.step = s /\ r.table = s /\ r.snapshot = version' /\ r.fp.in = Fingerprint(s).in
    BY <1>6, <1>7 DEF Record
  <1>9. open' = {r} /\ jobs' \in SUBSET jobs
    BY <1>1, <1>7
  <1> QED
    BY <1>1, <1>2, <1>4, <1>5, <1>8, <1>9, CommittedReplay

LEMMA ReplayNext ==
    ASSUME Base, Tick, Replay, [Next]_vars
    PROVE  Replay'
  <1>1. LakeOK /\ LogOK /\ PhaseOK
    BY DEF Base
  <1>2. ASSUME UNCHANGED <<Def, lake, version, log>>, open' \in SUBSET open,
               jobs' \in SUBSET jobs
        PROVE  Replay'
    <2>1. JobsAvailable'
      BY <1>2 DEF Replay, JobsAvailable, Available, Steps
    <2> QED
      BY <1>2, <2>1, FewerSnapshots
  <1>3. CASE StartTick
    BY <1>2, <1>3 DEF StartTick
  <1>4. CASE RunLevel
    <2>1. /\ UNCHANGED <<Def, lake, version, log, open>>
          /\ \A j \in jobs' : j.step \in ReadySteps
      <3>1. PICK fanout \in [ReadySteps -> SUBSET (Parts \cup {NoPart})] :
               jobs' = UNION {{Job(s, p) : p \in fanout[s]} : s \in ReadySteps}
        BY <1>4 DEF RunLevel
      <3>2. \A s, p : Job(s, p).step = s
        BY DEF Job
      <3> QED
        BY <1>4, <3>1, <3>2 DEF RunLevel
    <2>2. JobsAvailable'
      BY <2>1 DEF JobsAvailable, Available, ReadySteps, Ready, Steps
    <2> QED
      BY <2>1, <2>2, FewerSnapshots
  <1>5. CASE EndTick
    BY <1>2, <1>5 DEF EndTick
  <1>6. CASE RecordRun
    BY <1>6, RecordRunReplay
  <1>7. CASE Crash
    BY <1>2, <1>7 DEF Crash
  <1>8. CASE \E j \in jobs : StepRaises(j) \/ WriteFails(j) \/ ReturnedNone(j)
    <2>1. PICK j \in jobs : \E error : JobFailed(j, error)
      BY <1>8 DEF StepRaises, WriteFails, ReturnedNone
    <2>2. PICK error : JobFailed(j, error)
      BY <2>1
    <2>3. PICK r : r = Record(j, "failed", NoSnapshot, error)
      OBVIOUS
    <2>4. /\ UNCHANGED <<Def, lake, version, open>> /\ jobs' \in SUBSET jobs
          /\ log' = log \cup {r}
      BY <2>2, <2>3 DEF JobFailed, Handled
    <2>5. /\ r.at \in Nat /\ \A q \in log : q.at < r.at
          /\ ~Succeeded(r)
      BY <1>1, <2>3, RecordIsLater DEF Succeeded
    <2>6. \A t : LatestSnapshot(log', t) = LatestSnapshot(log, t)
      <3>1. Dated(log)
        BY <1>1 DEF LogOK
      <3>2. \A t : ~(Succeeded(r) /\ r.table = t) =>
               LatestSnapshot(log \cup {r}, t) = LatestSnapshot(log, t)
        BY <2>5, <3>1, LaterRecord
      <3> QED
        BY <2>4, <2>5, <3>2
    <2>7. JobsAvailable'
      BY <2>4, <2>6 DEF Replay, JobsAvailable, Available, Steps
    <2> QED
      BY <2>4, <2>5, <2>6, <2>7, FewerSnapshots
  <1>9. CASE \E j \in jobs : CommitResult(j)
    BY <1>9, CommitResultReplay
  <1>10. CASE \E s \in Steps : \E p \in Parts : Backfill(s, p)
    BY <1>10, BackfillReplay
  <1>11. CASE \E S : Invalidate(S)
    <2>1. PICK S : Invalidate(S)
      BY <1>11
    <2>2. /\ log' = InvalidateRuns(log, S) /\ jobs' = {}
          /\ UNCHANGED <<Def, open, lake, version>>
      BY <1>1, <2>1 DEF Invalidate, Operation, PhaseOK
    <2>3. ASSUME NEW u \in Steps
          PROVE  LatestSnapshot(log', u) \in {NoSnapshot, LatestSnapshot(log, u)}
      <3>1. \A r \in log : r.table = r.step
        BY <1>1 DEF LogOK, GoodRecord
      <3>2. Snapshots(log', u) = IF u \in S THEN {} ELSE Snapshots(log, u)
        BY <2>2, <3>1 DEF Snapshots, InvalidateRuns
      <3>3. CASE u \in S
        BY <3>2, <3>3 DEF LatestSnapshot
      <3>4. CASE u \notin S
        <4>1. Snapshots(log', u) = Snapshots(log, u)
          BY <3>2, <3>4
        <4> QED
          BY <4>1 DEF LatestSnapshot
      <3> QED
        BY <3>3, <3>4
    <2>4. log' \in SUBSET log
      BY <2>2 DEF InvalidateRuns
    <2> QED
      BY <2>2, <2>3, <2>4, FewerSnapshots DEF JobsAvailable
  <1>12. CASE \E cutoff : Gc(cutoff)
    <2>1. PICK cutoff : Gc(cutoff)
      BY <1>12
    <2>2. /\ log' = DeleteOldRuns(log, cutoff) /\ jobs' = {}
          /\ UNCHANGED <<Def, open, lake, version>>
      BY <1>1, <2>1 DEF Gc, Operation, PhaseOK
    <2>3. \A u : LatestSnapshot(log', u) = LatestSnapshot(log, u)
      <3>1. \A r \in log : r.table = r.step /\ (Succeeded(r) => r.snapshot # NoSnapshot)
        BY <1>1 DEF LogOK, GoodRecord, NoSnapshot, LakeOK
      <3> QED
        BY <1>1, <2>2, <3>1, GcKeepsNewest DEF LogOK
    <2>4. log' \in SUBSET log
      BY <2>2 DEF DeleteOldRuns
    <2> QED
      BY <2>2, <2>3, <2>4, FewerSnapshots DEF JobsAvailable
  <1>13. CASE \E s \in Steps : EditCode(s)
    BY <1>2, <1>13 DEF EditCode, Operation
  <1>14. CASE UNCHANGED vars
    BY <1>2, <1>14 DEF vars
  <1> QED
    BY <1>3, <1>4, <1>5, <1>6, <1>7, <1>8, <1>9, <1>10, <1>11, <1>12, <1>13, <1>14
       DEF Next, TickNext

LEMMA ReplayInvariant == Spec => []Replay
  <1>1. Init => Replay
    <2> SUFFICES ASSUME Init
                 PROVE  Replay
      OBVIOUS
    <2> USE DEF Init
    <2>1. \A s \in Steps : WrittenIn(lake[s], version) = NoRows
      <3> TAKE s \in Steps
      <3>1. lake[s] = <<>>
        OBVIOUS
      <3>2. DOMAIN lake[s] = {}
        BY <3>1
      <3> QED
        BY <3>2, NothingWritten
    <2> QED
      BY <2>1 DEF Replay, WrittenFromRows, OpenIsLast, JobsAvailable, Reproduced
  <1>2. Base /\ Tick /\ Replay /\ [Next]_vars => Replay'
    BY ReplayNext
  <1> QED
    BY <1>1, <1>2, TickInvariant, PTL DEF Spec

-----------------------------------------------------------------------------
(* The invariant: what a tick without a fault has added so far to a table  *)
(* that is written partition by partition, row by row of its input.        *)

\* The steps PartitionsComplete is about.
Fillable(s) == Appends(s) /\ ~Def[s].incremental

\* A job, or a commit that is not yet recorded, brings the row into the table.
Coming(s, r) ==
    \/ \E j \in jobs : j.step = s /\ j.rows[r] > 0
    \/ \E q \in open : q.step = s /\ At(s, q.snapshot)[r] > 0

TickFills ==
    clean => \A s \in Steps : Fillable(s) =>
        /\ InTick /\ Def[s].level < level => AllIn(s)
        /\ phase \in {"commit", "record"} /\ Def[s].level = level =>
              \A r \in Rows : WholeInputs(s)[r] > 0 => Current(s)[r] > 0 \/ Coming(s, r)
        /\ phase = "idle" => AllIn(s)

\* The fingerprint of a sub-job is never that of its step, which has no
\* partition: a partitioned step is never skipped.
SubJobsDiffer ==
    \A j \in jobs \cup open \cup log :
        Def[j.step].partitioned => j.fp.part # NoPart \/ j.fp.backfill

Fills == SubJobsDiffer /\ TickFills

\* A step with one input reads it and nothing else.
LEMMA SingleInput ==
    ASSUME LakeOK, NEW s \in Steps, Fillable(s)
    PROVE  \E t \in Steps :
              /\ Def[s].inputs = {t} /\ Def[s].kind # "source"
              /\ PartitionValues(s) = Values(At(t, LatestSnapshot(log, t)))
              /\ \A r \in Rows :
                    /\ WholeInputs(s)[r] = At(t, LatestSnapshot(log, t))[r]
                    /\ Result(s)[r] = WholeInputs(s)[r]
  <1>1. PICK t : Def[s].inputs = {t}
    <2>1. IsFiniteSet(Def[s].inputs) /\ Cardinality(Def[s].inputs) = 1
      BY PipelineFacts DEF Fillable, Appends
    <2> QED
      BY <2>1, FS_CardinalityType, FS_Singleton
  <1>2. t \in Steps
    BY <1>1, PipelineFacts
  <1>3. Def[s].kind # "source"
    <2>1. IsPipeline(Def)
      BY RuntimeAssumption DEF LakeOK
    <2> QED
      BY <1>1, <2>1 DEF IsPipeline, Steps
  <1>4. ResolveInput(s, t) = At(t, LatestSnapshot(log, t))
    BY DEF ResolveInput, Fillable
  <1>5. PartitionValues(s) = Values(At(t, LatestSnapshot(log, t)))
    BY <1>1, <1>4 DEF PartitionValues
  <1>6. At(t, LatestSnapshot(log, t)) \in Relation
    BY <1>2, TablesAreRelations DEF At
  <1>7. ASSUME NEW r \in Rows
        PROVE  /\ WholeInputs(s)[r] = At(t, LatestSnapshot(log, t))[r]
               /\ Result(s)[r] = WholeInputs(s)[r]
    <2> DEFINE f == [u \in {t} |-> At(u, LatestSnapshot(log, u))[r]]
               g == [u \in {t} |-> At(u, LatestSnapshot(log, u))]
    <2>1. Total(f) = At(t, LatestSnapshot(log, t))[r]
      <3>1. f \in [{t} -> Nat]
        BY <1>6, <1>7 DEF Relation
      <3>2. f[t] = At(t, LatestSnapshot(log, t))[r]
        OBVIOUS
      <3> HIDE DEF f
      <3> QED
        BY <3>1, <3>2, TotalOfOne
    <2>2. [u \in DOMAIN g |-> g[u][r]] = f
      OBVIOUS
    <2>3. SumOf(g)[r] = Total(f)
      <3> HIDE DEF g, f
      <3> QED
        BY <2>2 DEF SumOf
    <2>4. WholeInputs(s) = SumOf(g)
      BY <1>1 DEF WholeInputs
    <2>5. [u \in Def[s].inputs |-> ResolveInput(s, u)] = g
      BY <1>1, <1>4
    <2>6. Result(s) = SumOf(g)
      <3> HIDE DEF g
      <3> QED
        BY <1>3, <2>5 DEF Result
    <2> HIDE DEF f, g
    <2> QED
      BY <2>1, <2>3, <2>4, <2>6
  <1> QED
    BY <1>1, <1>2, <1>3, <1>5, <1>7

\* Where the tables it reads stay, a step is as fillable as before.
LEMMA SameWholeInputs ==
    ASSUME UNCHANGED Def, NEW s \in Steps, LakeOK,
           \A t \in Def[s].inputs :
              At(t, LatestSnapshot(log, t))' = At(t, LatestSnapshot(log, t))
    PROVE  /\ WholeInputs(s)' = WholeInputs(s)
           /\ Fillable(s)' <=> Fillable(s)
  <1>1. WholeInputs(s)' = WholeInputs(s)
    <2>1. [t \in Def[s].inputs |-> At(t, LatestSnapshot(log, t))]'
            = [t \in Def[s].inputs |-> At(t, LatestSnapshot(log, t))]
      OBVIOUS
    <2> QED
      BY <2>1 DEF WholeInputs, SumOf
  <1>2. ASSUME ~Def[s].incremental, Def[s].partitioned
        PROVE  PartitionValues(s)' = PartitionValues(s)
    <2>1. Def[s].inputs # {}
      <3>1. IsPipeline(Def)
        BY RuntimeAssumption DEF LakeOK
      <3> QED
        BY <1>2, <3>1 DEF IsPipeline, Steps
    <2>2. PICK t \in Def[s].inputs : t = CHOOSE u \in Def[s].inputs : TRUE
      BY <2>1
    <2>3. /\ ResolveInput(s, t) = At(t, LatestSnapshot(log, t))
          /\ ResolveInput(s, t)' = At(t, LatestSnapshot(log, t))'
      BY <1>2 DEF ResolveInput
    <2>4. PartitionValues(s) = Values(ResolveInput(s, t))
      BY <2>2 DEF PartitionValues
    <2>5. PartitionValues(s)' = Values(ResolveInput(s, t)')
      BY <2>2 DEF PartitionValues, Values
    <2> QED
      BY <2>3, <2>4, <2>5
  <1> QED
    BY <1>1, <1>2 DEF Fillable, Appends

\* No table has rows before its first version.
LEMMA TableAtStart ==
    ASSUME LakeOK, NEW t \in Steps, NEW r \in Rows
    PROVE  At(t, NoSnapshot)[r] = 0
  <1> DEFINE seen == {i \in DOMAIN lake[t] : lake[t][i].version <= NoSnapshot}
             left == {i \in seen : \A k \in seen : TakesAway(lake[t][k], r) => k <= i}
             f == [i \in left |-> lake[t][i].rows[r]]
  <1>1. \A i \in DOMAIN lake[t] : lake[t][i].version \in 1..version
    BY DEF LakeOK
  <1>2. left = {}
    BY <1>1 DEF NoSnapshot, LakeOK
  <1>3. At(t, NoSnapshot)[r] = Total(f)
    BY DEF At, AsOf
  <1> HIDE DEF left
  <1>4. IsFiniteSet(left) /\ f \in [left -> Nat] /\ \A i \in left : f[i] = 0
    BY <1>2, FS_EmptySet
  <1> HIDE DEF f
  <1> QED
    BY <1>3, <1>4, TotalIsZero

\* A step whose inputs have rows is submitted for each of their partitions.
LEMMA RunLevelFills ==
    ASSUME Base, Fills, RunLevel
    PROVE  Fills'
  <1>1. /\ phase = "level" /\ UNCHANGED <<Def, open, log, lake, version, code, clean>>
        /\ IF jobs' = {} THEN level' = level + 1 /\ phase' = "level"
                         ELSE phase' = "commit" /\ level' = level
    BY DEF RunLevel
  <1>2. /\ LakeOK /\ LogOK /\ open = {} /\ jobs = {} /\ level \in Nat
    BY <1>1 DEF Base, PhaseOK
  <1>3. PICK fanout \in [ReadySteps -> SUBSET (Parts \cup {NoPart})] :
           /\ \A s \in ReadySteps : fanout[s] \in Fanouts(s)
           /\ jobs' = UNION {{Job(s, p) : p \in fanout[s]} : s \in ReadySteps}
    BY DEF RunLevel
  <1>4. \A s, p : /\ Job(s, p).step = s
                  /\ Job(s, p).rows = JobRows(s, p)
                  /\ Job(s, p).fp.part = p
    BY DEF Job, Fingerprint
  <1>5. SubJobsDiffer'
    <2> SUFFICES ASSUME NEW j \in jobs', Def[j.step].partitioned
                 PROVE  j.fp.part # NoPart
      BY <1>1, <1>2 DEF Fills, SubJobsDiffer
    <2>1. PICK s \in ReadySteps : \E p \in fanout[s] : j = Job(s, p)
      BY <1>3
    <2>2. PICK p \in fanout[s] : j = Job(s, p)
      BY <2>1
    <2>3. j.step = s /\ j.fp.part = p
      BY <1>4, <2>2
    <2>4. p \in PartitionValues(s)
      BY <1>3, <2>3 DEF Fanouts
    <2>5. p \in Parts
      BY <2>4 DEF PartitionValues, Values, Rows
    <2> QED
      BY <2>3, <2>5, RuntimeAssumption
  <1>6. ASSUME NEW s \in Steps
        PROVE  /\ Fillable(s)' <=> Fillable(s)
               /\ WholeInputs(s)' = WholeInputs(s)
               /\ Current(s)' = Current(s)
               /\ AllIn(s)' <=> AllIn(s)
               /\ Def[s].level \in Nat
    <2>1. \A t, v : At(t, v)' = At(t, v)
      BY <1>1 DEF At
    <2>2. /\ Fillable(s)' <=> Fillable(s)
          /\ WholeInputs(s)' = WholeInputs(s)
      BY <1>1, <1>2, <2>1, SameWholeInputs
    <2>3. Current(s)' = Current(s)
      BY <1>1, <2>1 DEF Current
    <2> QED
      BY <1>2, <2>2, <2>3, PipelineFacts DEF AllIn
  <1>7. ASSUME NEW s \in Steps, Fillable(s), Def[s].level = level,
               NEW r \in Rows, WholeInputs(s)[r] > 0
        PROVE  Coming(s, r)'
    <2>1. PICK t \in Steps :
             /\ Def[s].inputs = {t} /\ Def[s].kind # "source"
             /\ PartitionValues(s) = Values(At(t, LatestSnapshot(log, t)))
             /\ At(t, LatestSnapshot(log, t))[r] > 0
             /\ Result(s)[r] = WholeInputs(s)[r]
      BY <1>2, <1>7, SingleInput
    <2>2. LatestSnapshot(log, t) # NoSnapshot
      <3> SUFFICES ASSUME LatestSnapshot(log, t) = NoSnapshot
                   PROVE  FALSE
        OBVIOUS
      <3>1. At(t, NoSnapshot)[r] = 0
        BY <1>2, TableAtStart DEF NoRows
      <3> QED
        BY <2>1, <3>1
    <2>3. FingerprintChanged(s)
      <3> SUFFICES ASSUME NEW q \in LastRun(log, s), q.fp = Fingerprint(s)
                   PROVE  FALSE
        BY DEF FingerprintChanged
      <3>1. q \in log /\ q.step = s
        BY DEF LastRun, Newest
      <3>2. q.fp.part # NoPart \/ q.fp.backfill
        BY <1>7, <3>1 DEF Fills, SubJobsDiffer, Fillable, Appends
      <3> QED
        BY <3>2 DEF Fingerprint
    <2>4. s \in ReadySteps
      BY <1>7, <2>1, <2>2, <2>3 DEF ReadySteps, Ready, IsDue, Fillable, Appends
    <2>5. fanout[s] = PartitionValues(s)
      <3>1. Def[s].partitioned /\ Cardinality(PartitionValues(s)) <= MaxPartitions
        BY <1>7 DEF Fillable, Appends
      <3>2. /\ fanout[s] \in SUBSET PartitionValues(s)
            /\ Cardinality(fanout[s])
                 = Min({MaxPartitions, Cardinality(PartitionValues(s))})
        BY <1>3, <2>4, <3>1 DEF Fanouts
      <3>3. PartitionValues(s) \in SUBSET Parts
        BY DEF PartitionValues, Values, Rows
      <3>4. IsFiniteSet(PartitionValues(s))
        BY <3>3, RuntimeAssumption, FS_Subset
      <3>5. /\ MaxPartitions \in Nat /\ Cardinality(PartitionValues(s)) \in Nat
        BY <3>4, RuntimeAssumption, FS_CardinalityType
      <3>6. PICK n \in Nat : n = Cardinality(PartitionValues(s))
        BY <3>5
      <3>7. Min({MaxPartitions, n}) = n
        <4>1. /\ Min({MaxPartitions, n}) \in {MaxPartitions, n}
              /\ \A k \in {MaxPartitions, n} : Min({MaxPartitions, n}) <= k
          BY <3>5, <3>6, MinOfNaturals
        <4> QED
          BY <3>1, <3>5, <3>6, <4>1
      <3> QED
        BY <3>2, <3>4, <3>6, <3>7, FS_Subset
    <2>6. r[2] \in PartitionValues(s) /\ r[2] \in Parts
      BY <2>1 DEF Values, Rows
    <2>7. JobRows(s, r[2])[r] > 0
      <3>1. CASE Distributed
        BY <1>7, <2>1, <3>1 DEF JobRows
      <3>2. CASE ~Distributed
        <4>1. r[2] # NoPart
          BY <2>6, RuntimeAssumption
        <4>2. JobRows(s, r[2]) = Partition(Result(s), r[2])
          BY <3>2, <4>1 DEF JobRows
        <4>3. Partition(Result(s), r[2])[r] = Result(s)[r]
          BY DEF Partition
        <4> QED
          BY <1>7, <2>1, <4>2, <4>3
      <3> QED
        BY <3>1, <3>2
    <2>8. Job(s, r[2]) \in jobs'
      BY <1>3, <2>4, <2>5, <2>6
    <2> QED
      BY <1>4, <2>7, <2>8 DEF Coming
  <1>8. TickFills'
    <2> SUFFICES ASSUME clean, NEW s \in Steps, Fillable(s)
                 PROVE  /\ Def[s].level < level' => AllIn(s)
                        /\ phase' = "commit" /\ Def[s].level = level' =>
                              \A r \in Rows : WholeInputs(s)[r] > 0 =>
                                 Current(s)[r] > 0 \/ Coming(s, r)'
      BY <1>1, <1>6 DEF TickFills, Steps
    <2>1. Def[s].level < level => AllIn(s)
      BY <1>1 DEF Fills, TickFills, InTick
    <2>2. jobs' = {} /\ Def[s].level = level => AllIn(s)
      BY <1>1, <1>2, <1>7 DEF Coming, AllIn
    <2>3. Def[s].level < level + 1 => Def[s].level < level \/ Def[s].level = level
      BY <1>2, <1>6
    <2> QED
      BY <1>1, <1>7, <2>1, <2>2, <2>3
  <1> QED
    BY <1>5, <1>8 DEF Fills

\* The loop over the futures: what is there stays, and what is coming comes.
LEMMA HandledFills ==
    ASSUME Base, Fills, UNCHANGED Def,
           phase \in {"commit", "record"}, phase' \in {"level", "commit", "record"},
           phase' = "level" => level' = level + 1 /\ jobs' = {} /\ open' = {},
           phase' # "level" => level' = level,
           clean' => clean,
           \A s \in Steps : Def[s].level <= level =>
               /\ WholeInputs(s)' = WholeInputs(s)
               /\ Fillable(s)' <=> Fillable(s)
               /\ \A r \in Rows : Fillable(s) /\ clean' =>
                     /\ Current(s)[r] > 0 => (Current(s)[r] > 0)'
                     /\ Coming(s, r) => Coming(s, r)' \/ (Current(s)[r] > 0)',
           SubJobsDiffer'
    PROVE  Fills'
  <1>1. level \in Nat /\ \A s \in Steps : Def[s].level \in Nat
    BY PipelineFacts DEF Base, PhaseOK
  <1>2. InTick /\ phase' # "idle" /\ Steps' = Steps
    BY DEF InTick, Steps
  <1>3. TickFills'
    <2> SUFFICES ASSUME clean', NEW s \in Steps, Fillable(s)'
                 PROVE  /\ Def[s].level < level' => AllIn(s)'
                        /\ phase' \in {"commit", "record"} /\ Def[s].level = level' =>
                              \A r \in Rows : (WholeInputs(s)[r] > 0)' =>
                                 (Current(s)[r] > 0)' \/ Coming(s, r)'
      BY <1>2 DEF TickFills, Rows
    <2>1. ASSUME Def[s].level < level
          PROVE  AllIn(s)'
      <3>1. Def[s].level <= level
        BY <1>1, <2>1
      <3>2. AllIn(s)
        BY <1>2, <2>1, <3>1 DEF Fills, TickFills
      <3> QED
        BY <3>1, <3>2 DEF AllIn, Rows
    <2>2. ASSUME Def[s].level = level, NEW r \in Rows, (WholeInputs(s)[r] > 0)'
          PROVE  (Current(s)[r] > 0)' \/ Coming(s, r)'
      <3>1. Def[s].level <= level
        BY <1>1, <2>2
      <3>2. Current(s)[r] > 0 \/ Coming(s, r)
        BY <2>2, <3>1 DEF Fills, TickFills
      <3> QED
        BY <3>1, <3>2
    <2>3. CASE phase' = "level"
      <3>1. \A r : ~Coming(s, r)'
        BY <2>3 DEF Coming
      <3>2. Def[s].level < level' => Def[s].level < level \/ Def[s].level = level
        BY <1>1, <2>3
      <3>3. Def[s].level = level => AllIn(s)'
        BY <2>2, <3>1 DEF AllIn, Rows
      <3> QED
        BY <2>1, <2>3, <3>2, <3>3
    <2>4. CASE phase' # "level"
      BY <2>1, <2>2, <2>4
    <2> QED
      BY <2>3, <2>4
  <1> QED
    BY <1>3 DEF Fills

LEMMA CommitResultFills ==
    ASSUME Base, Fills, NEW j \in jobs, CommitResult(j)
    PROVE  Fills'
  <1>1. /\ UNCHANGED <<Def, log, level, clean>>
        /\ phase = "commit" /\ phase' = "record"
        /\ jobs' = jobs \ {j}
        /\ Commit(j.step, j.rows) /\ Def[j.step].returns = "relation"
    BY DEF CommitResult
  <1>2. LakeOK /\ LogOK /\ JobsOK /\ open = {} /\ level \in Nat
    BY <1>1 DEF Base, PhaseOK
  <1>3. PICK r : /\ open' = {r} /\ r.step = j.step /\ r.fp = j.fp
                 /\ r.snapshot = version'
    <2>1. PICK v : v = version'
      OBVIOUS
    <2> DEFINE rec == Record(j, "success", v, "")
    <2>2. rec.step = j.step /\ rec.fp = j.fp /\ rec.snapshot = v
      BY DEF Record
    <2>3. open' = {rec}
      BY <2>1 DEF CommitResult
    <2> HIDE DEF rec
    <2> QED
      BY <2>1, <2>2, <2>3
  <1>4. j.step \in Steps /\ j.rows \in Relation
    BY <1>2 DEF JobsOK
  <1>5. /\ \A t \in Steps : \A v \in 0..version : AsOf(lake'[t], v) = AsOf(lake[t], v)
        /\ Def[j.step].merge # "replace" =>
              \A r1 \in Rows : j.rows[r1] > 0 => AsOf(lake'[j.step], version')[r1] > 0
    BY <1>1, <1>2, <1>4, CommitEffect
  <1>6. ASSUME NEW t \in Steps
        PROVE  At(t, LatestSnapshot(log, t))' = At(t, LatestSnapshot(log, t))
    <2>1. LatestSnapshot(log, t) \in 0..version
      BY <1>2, LatestIsAVersion
    <2> QED
      BY <1>1, <1>5, <2>1 DEF At
  <1>7. ASSUME NEW s \in Steps
        PROVE  /\ WholeInputs(s)' = WholeInputs(s)
               /\ Fillable(s)' <=> Fillable(s)
               /\ Current(s)' = Current(s)
    <2>1. Def[s].inputs \in SUBSET Steps
      BY <1>2, PipelineFacts
    <2>2. /\ WholeInputs(s)' = WholeInputs(s)
          /\ Fillable(s)' <=> Fillable(s)
      BY <1>1, <1>2, <1>6, <2>1, SameWholeInputs
    <2> QED
      BY <1>6, <2>2 DEF Current
  <1>8. ASSUME NEW s \in Steps, NEW r1 \in Rows, Fillable(s), Coming(s, r1)
        PROVE  Coming(s, r1)'
    <2>1. PICK k \in jobs : k.step = s /\ k.rows[r1] > 0
      BY <1>2, <1>8 DEF Coming
    <2>2. CASE k = j
      <3>1. AsOf(lake'[s], version')[r1] > 0
        BY <1>5, <1>8, <2>1, <2>2 DEF Fillable, Appends
      <3> QED
        BY <1>3, <2>1, <2>2, <3>1 DEF Coming, At
    <2>3. CASE k # j
      BY <1>1, <2>1, <2>3 DEF Coming
    <2> QED
      BY <2>2, <2>3
  <1>9. SubJobsDiffer'
    BY <1>1, <1>3 DEF Fills, SubJobsDiffer
  <1> QED
    BY <1>1, <1>7, <1>8, <1>9, HandledFills

LEMMA FailedFills ==
    ASSUME Base, Fills, NEW j \in jobs, NEW error, JobFailed(j, error),
           clean' => clean /\ Def[j.step].returns = "none"
    PROVE  Fills'
  <1> DEFINE r == Record(j, "failed", NoSnapshot, error)
  <1>1. /\ UNCHANGED <<Def, code, lake, version, open>>
        /\ phase = "commit" /\ jobs' = jobs \ {j} /\ log' = log \cup {r}
        /\ IF jobs' = {} THEN phase' = "level" /\ level' = level + 1
                         ELSE phase' = "commit" /\ level' = level
    BY DEF JobFailed, Handled, NextFuture
  <1>2. LakeOK /\ LogOK /\ JobsOK /\ open = {} /\ level \in Nat
    BY <1>1 DEF Base, PhaseOK
  <1>3. /\ r.at \in Nat /\ \A q \in log : q.at < r.at
        /\ r.step = j.step /\ r.status = "failed" /\ r.fp = j.fp
    BY <1>2, RecordIsLater
  <1> HIDE DEF r
  <1>4. \A t : LatestSnapshot(log', t) = LatestSnapshot(log, t)
    <2>1. Dated(log) /\ ~Succeeded(r)
      BY <1>2, <1>3 DEF LogOK, Succeeded
    <2>2. \A t : ~(Succeeded(r) /\ r.table = t) =>
             LatestSnapshot(log \cup {r}, t) = LatestSnapshot(log, t)
      BY <1>3, <2>1, LaterRecord
    <2> QED
      BY <1>1, <2>1, <2>2
  <1>5. \A t : At(t, LatestSnapshot(log, t))' = At(t, LatestSnapshot(log, t))
    BY <1>1, <1>4 DEF At
  <1>6. ASSUME NEW s \in Steps
        PROVE  /\ WholeInputs(s)' = WholeInputs(s)
               /\ Fillable(s)' <=> Fillable(s)
               /\ Current(s)' = Current(s)
    <2>1. /\ WholeInputs(s)' = WholeInputs(s)
          /\ Fillable(s)' <=> Fillable(s)
      BY <1>1, <1>2, <1>5, SameWholeInputs
    <2> QED
      BY <1>5, <2>1 DEF Current
  <1>7. ASSUME NEW s \in Steps, NEW r1 \in Rows, Fillable(s), clean', Coming(s, r1)
        PROVE  Coming(s, r1)'
    <2>1. PICK k \in jobs : k.step = s /\ k.rows[r1] > 0
      BY <1>2, <1>7 DEF Coming
    <2>2. k # j
      BY <1>7, <2>1 DEF Fillable, Appends
    <2> QED
      BY <1>1, <2>1, <2>2 DEF Coming
  <1>8. SubJobsDiffer'
    BY <1>1, <1>3 DEF Fills, SubJobsDiffer
  <1> QED
    BY <1>1, <1>2, <1>6, <1>7, <1>8, HandledFills

\* The record of a commit makes its version the latest snapshot: of a table that
\* is appended to, with all that was there before.
LEMMA RecordRunFills ==
    ASSUME Base, Replay, Fills, RecordRun
    PROVE  Fills'
  <1>1. /\ UNCHANGED <<Def, lake, version, jobs, clean>>
        /\ log' = log \cup open /\ open' = {}
        /\ \/ phase = "backfill" /\ phase' = "idle"
           \/ /\ phase = "record"
              /\ IF jobs = {} THEN phase' = "level" /\ level' = level + 1
                              ELSE phase' = "commit" /\ level' = level
    BY DEF RecordRun, NextFuture
  <1>2. LakeOK /\ LogOK /\ level \in Nat /\ version \in Nat
    BY DEF Base, PhaseOK, LakeOK
  <1>3. SubJobsDiffer'
    BY <1>1 DEF Fills, SubJobsDiffer
  <1>4. CASE phase = "backfill"
    BY <1>1, <1>3, <1>4 DEF Base, PhaseOK, Fills, TickFills
  <1>5. \A t, v : At(t, v)' = At(t, v)
    BY <1>1 DEF At
  <1>6. ASSUME phase = "record", NEW s \in Steps, Def[s].level <= level
        PROVE  /\ WholeInputs(s)' = WholeInputs(s)
               /\ Fillable(s)' <=> Fillable(s)
               /\ \A r1 \in Rows : Fillable(s) =>
                     /\ Current(s)[r1] > 0 => (Current(s)[r1] > 0)'
                     /\ Coming(s, r1) => Coming(s, r1)' \/ (Current(s)[r1] > 0)'
    <2>1. CASE open = {}
      <3>1. log' = log
        BY <1>1, <2>1
      <3>2. \A t : At(t, LatestSnapshot(log, t))' = At(t, LatestSnapshot(log, t))
        BY <1>5, <3>1
      <3>3. /\ WholeInputs(s)' = WholeInputs(s)
            /\ Fillable(s)' <=> Fillable(s)
        BY <1>1, <1>2, <3>2, SameWholeInputs
      <3>4. Current(s)' = Current(s)
        BY <3>2 DEF Current
      <3>5. \A r1 : Coming(s, r1) => Coming(s, r1)'
        BY <1>1, <2>1 DEF Coming
      <3> QED
        BY <3>3, <3>4, <3>5
    <2>2. CASE open # {}
      <3>1. PICK r \in open : /\ open = {r} /\ Succeeded(r) /\ r.at \in Nat
                              /\ \A q \in log : q.at < r.at
                              /\ r.step \in Steps /\ r.table = r.step
                              /\ Def[r.step].level = level
                              /\ r.snapshot = version /\ r.snapshot # NoSnapshot
        BY <1>2, <1>6, <2>2 DEF LogOK, GoodRecord, Replay, OpenIsLast, NoSnapshot, LakeOK
      <3>2. \A t \in Def[s].inputs : LatestSnapshot(log', t) = LatestSnapshot(log, t)
        BY <1>1, <1>6, <3>1, SameLevelInputs
      <3>3. /\ LatestSnapshot(log', r.step) = version
            /\ \A t : t # r.step => LatestSnapshot(log', t) = LatestSnapshot(log, t)
        <4>1. Dated(log) /\ log' = log \cup {r}
          BY <1>1, <1>2, <3>1 DEF LogOK
        <4>2. /\ LatestSnapshot(log \cup {r}, r.table) = r.snapshot
              /\ \A t : ~(Succeeded(r) /\ r.table = t) =>
                    LatestSnapshot(log \cup {r}, t) = LatestSnapshot(log, t)
          BY <3>1, <4>1, LaterRecord
        <4> QED
          BY <3>1, <4>1, <4>2
      <3>4. /\ WholeInputs(s)' = WholeInputs(s)
            /\ Fillable(s)' <=> Fillable(s)
        BY <1>1, <1>2, <1>5, <3>2, SameWholeInputs
      <3>5. ASSUME NEW r1 \in Rows, Fillable(s), Current(s)[r1] > 0
            PROVE  (Current(s)[r1] > 0)'
        <4>1. CASE s # r.step
          BY <1>5, <3>3, <3>5, <4>1 DEF Current
        <4>2. CASE s = r.step
          <5>1. LatestSnapshot(log, s) \in 0..version
            BY <1>2, LatestIsAVersion
          <5>2. Def[s].merge # "replace"
            BY <3>5 DEF Fillable, Appends
          <5>3. At(s, version)[r1] > 0
            BY <1>2, <3>5, <5>1, <5>2, FilledUpTo DEF Current, At
          <5> QED
            BY <1>5, <3>3, <4>2, <5>3 DEF Current
        <4> QED
          BY <4>1, <4>2
      <3>6. ASSUME NEW r1 \in Rows, Coming(s, r1)
            PROVE  Coming(s, r1)' \/ (Current(s)[r1] > 0)'
        <4>1. CASE \E j \in jobs : j.step = s /\ j.rows[r1] > 0
          BY <1>1, <4>1 DEF Coming
        <4>2. CASE r.step = s /\ At(s, r.snapshot)[r1] > 0
          BY <1>5, <3>1, <3>3, <4>2 DEF Current
        <4> QED
          BY <3>1, <3>6, <4>1, <4>2 DEF Coming
      <3> QED
        BY <3>4, <3>5, <3>6
    <2> QED
      BY <2>1, <2>2
  <1>7. CASE phase = "record"
    BY <1>1, <1>2, <1>3, <1>6, <1>7, HandledFills
  <1> QED
    BY <1>1, <1>4, <1>7

LEMMA FillsNext ==
    ASSUME Base, Replay, Fills, [Next]_vars
    PROVE  Fills'
  <1>1. LakeOK /\ LogOK /\ PhaseOK
    BY DEF Base
  <1>2. ASSUME UNCHANGED Def, ~clean', phase' \notin {"commit", "record"},
               jobs' \in SUBSET jobs, open' \in SUBSET open, log' \in SUBSET log
        PROVE  Fills'
    BY <1>2 DEF Fills, SubJobsDiffer, TickFills
  <1>3. CASE StartTick
    <2>1. /\ phase' = "level" /\ level' = 1 /\ UNCHANGED <<Def, jobs, open, log>>
      BY <1>3 DEF StartTick
    <2>2. \A s \in Steps : Def[s].level \in Nat /\ Def[s].level >= 1
      BY <1>1, PipelineFacts
    <2>3. \A s \in Steps' : ~(Def'[s].level < level')
      BY <2>1, <2>2 DEF Steps
    <2> QED
      BY <2>1, <2>3 DEF Fills, SubJobsDiffer, TickFills
  <1>4. CASE RunLevel
    BY <1>4, RunLevelFills
  <1>5. CASE EndTick \/ UNCHANGED vars
    <2>1. UNCHANGED <<Def, level, jobs, open, log, lake, clean>>
      BY <1>5 DEF EndTick, vars
    <2>2. Steps' = Steps /\ \A t, v : At(t, v)' = At(t, v)
      BY <2>1 DEF Steps, At
    <2>3. ASSUME NEW s \in Steps
          PROVE  /\ Fillable(s)' <=> Fillable(s)
                 /\ WholeInputs(s)' = WholeInputs(s)
                 /\ Current(s)' = Current(s)
                 /\ AllIn(s)' <=> AllIn(s)
                 /\ \A r : Coming(s, r)' <=> Coming(s, r)
      <3>1. /\ WholeInputs(s)' = WholeInputs(s)
            /\ Fillable(s)' <=> Fillable(s)
        BY <1>1, <2>1, <2>2, SameWholeInputs
      <3>2. Current(s)' = Current(s)
        BY <2>1, <2>2 DEF Current
      <3>3. \A r : Coming(s, r)' <=> Coming(s, r)
        BY <2>1, <2>2 DEF Coming
      <3> QED
        BY <3>1, <3>2, <3>3 DEF AllIn
    <2>4. SubJobsDiffer'
      BY <2>1 DEF Fills, SubJobsDiffer
    <2>5. CASE EndTick
      <3>1. phase = "level" /\ phase' = "idle" /\ level \notin Levels
        BY <2>5 DEF EndTick
      <3>2. \A s \in Steps : Def[s].level < level
        BY <1>1, <3>1, LastLevel DEF PhaseOK
      <3>3. InTick /\ ~InTick'
        BY <3>1 DEF InTick
      <3>4. TickFills'
        BY <2>1, <2>2, <2>3, <3>1, <3>2, <3>3 DEF Fills, TickFills
      <3> QED
        BY <2>4, <3>4 DEF Fills
    <2>6. CASE UNCHANGED vars
      <3>1. phase' = phase /\ (InTick' <=> InTick)
        BY <2>6 DEF vars, InTick
      <3>2. TickFills'
        BY <2>1, <2>2, <2>3, <3>1 DEF Fills, TickFills
      <3> QED
        BY <2>4, <3>2 DEF Fills
    <2> QED
      BY <1>5, <2>5, <2>6
  <1>6. CASE RecordRun
    BY <1>6, RecordRunFills
  <1>7. CASE Crash
    BY <1>2, <1>7 DEF Crash
  <1>8. CASE \E j \in jobs : StepRaises(j) \/ WriteFails(j) \/ ReturnedNone(j)
    <2>1. PICK j \in jobs : StepRaises(j) \/ WriteFails(j) \/ ReturnedNone(j)
      BY <1>8
    <2>2. CASE StepRaises(j)
      BY <2>2, FailedFills DEF StepRaises
    <2>3. CASE WriteFails(j)
      BY <2>3, FailedFills DEF WriteFails
    <2>4. CASE ReturnedNone(j)
      <3>1. clean' = clean /\ Def[j.step].returns = "none" /\ JobFailed(j, "returned None")
        BY <2>4 DEF ReturnedNone
      <3> QED
        BY <3>1, FailedFills
    <2> QED
      BY <2>1, <2>2, <2>3, <2>4
  <1>9. CASE \E j \in jobs : CommitResult(j)
    BY <1>9, CommitResultFills
  <1>10. CASE \E s \in Steps : \E p \in Parts : Backfill(s, p)
    <2>1. PICK s \in Steps, p \in Parts : Backfill(s, p)
      BY <1>10
    <2>2. PICK r : /\ open' = {r} /\ r.fp.backfill
      <3> DEFINE job == [step |-> s, fp |-> [Fingerprint(s) EXCEPT !.backfill = TRUE]]
      <3>1. PICK v : v = version'
        OBVIOUS
      <3>2. open' = {Record(job, "success", v, "")}
        BY <2>1, <3>1 DEF Backfill
      <3>3. Record(job, "success", v, "").fp.backfill
        BY DEF Record, Fingerprint
      <3> QED
        BY <3>2, <3>3
    <2>3. /\ ~clean' /\ phase' = "backfill" /\ UNCHANGED <<Def, jobs, log>>
      BY <2>1 DEF Backfill, Operation
    <2> QED
      BY <2>2, <2>3 DEF Fills, SubJobsDiffer, TickFills
  <1>11. CASE \E S : Invalidate(S)
    BY <1>1, <1>2, <1>11 DEF Invalidate, InvalidateRuns, Operation
  <1>12. CASE \E cutoff : Gc(cutoff)
    BY <1>1, <1>2, <1>12 DEF Gc, DeleteOldRuns, Operation
  <1>13. CASE \E s \in Steps : EditCode(s)
    BY <1>2, <1>13 DEF EditCode, Operation
  <1> QED
    BY <1>3, <1>4, <1>5, <1>6, <1>7, <1>8, <1>9, <1>10, <1>11, <1>12, <1>13
       DEF Next, TickNext

-----------------------------------------------------------------------------
(* What follows of it                                                      *)

\* When a tick has ended and nothing failed in it, each step that runs whenever
\* its inputs change, as a whole, and replaces its table has the table that its
\* current function makes of the current tables it reads: for any pipeline, any
\* number of ticks, failures, ends of the process and commands before.
THEOREM FreshAfterGoodTick == Spec => []FreshAfterTick
  <1>1. Base /\ Tick => FreshAfterTick
    <2> SUFFICES ASSUME Base, Tick, phase = "idle", clean,
                        NEW s \in Steps, Eligible(s), Available(s)
                 PROVE  /\ HasRun(s)
                        /\ \A r \in LastRun(log, s) : r.fp.fn = code[s]
                        /\ Current(s) = WholeInputs(s)
      BY DEF FreshAfterTick, Between, Eligible, Whole
    <2>1. UpToDate(s)
      BY DEF Tick, TickSkipsRight
    <2>2. PICK r \in LastRun(log, s) : r.fp = Fingerprint(s)
      BY <2>1 DEF UpToDate
    <2>3. LakeOK /\ LogOK /\ Faithful
      BY DEF Base
    <2>4. /\ r \in log /\ r.step = s /\ Succeeded(r)
          /\ LastRun(log, s) = {r}
          /\ LatestSnapshot(log, s) = r.snapshot
      BY <2>3, LatestIsOfLastRun
    <2>5. r.table = s
      BY <2>3, <2>4 DEF LogOK, GoodRecord
    <2>6. Current(s) = At(r.table, r.snapshot)
      BY <2>4, <2>5 DEF Current
    <2>7. At(r.table, r.snapshot) = InputsAt(s, r.fp.in)
      BY <2>3, <2>4 DEF Faithful, Eligible
    <2>8. WholeInputs(s) = InputsAt(s, Fingerprint(s).in)
      BY <2>3, WholeInputsAreNamed
    <2>9. r.fp.fn = code[s]
      BY <2>2 DEF Fingerprint
    <2>10. HasRun(s)
      BY <2>4 DEF HasRun
    <2> QED
      BY <2>2, <2>4, <2>6, <2>7, <2>8, <2>9, <2>10
  <1> QED
    BY <1>1, TickInvariant, PTL

\* A step that has written its table and lost the record of it, with the process
\* or by invalidate, has run again when the next tick has ended with no failure.
THEOREM LostRunsRunAgain == Spec => []LostRunsAreRedone
  <1>1. Base /\ Tick => LostRunsAreRedone
    <2> SUFFICES ASSUME Base, Tick, phase = "idle", clean, NEW s \in Steps,
                        lake[s] # <<>>, Available(s), Def[s].schedule # "cron",
                        {} \notin Fanouts(s)
                 PROVE  HasRun(s)
      BY DEF LostRunsAreRedone, Between
    <2>1. Def[s].returns = "relation"
      BY DEF Base, LakeOK
    <2>2. Redoable(s)
      BY <2>1 DEF Redoable
    <2> QED
      BY <2>2 DEF Tick, TickRedoes
  <1> QED
    BY <1>1, TickInvariant, PTL

\* What a recorded run of a step that reads its inputs whole and in one job wrote
\* is what the step makes of the snapshots that its fingerprint names, for good:
\* of any pipeline, however the step's table is written.
THEOREM ReplayIsFaithful == Spec => []ReplayReproduces
  <1>1. Replay => ReplayReproduces
    BY DEF Replay, Reproduced, ReplayReproduces, Whole, Reproducible, InputsAt
  <1> QED
    BY <1>1, ReplayInvariant, PTL

\* When a tick has ended and nothing failed in it, a partitioned step that appends
\* has each row of its input in its table, whichever of its sub-jobs failed, or
\* were lost with the process, before.
THEOREM PartitionsAreComplete == Spec => []PartitionsComplete
  <1>1. Init => Fills
    BY DEF Init, Fills, SubJobsDiffer, TickFills
  <1>2. Base /\ Replay /\ Fills /\ [Next]_vars => Fills'
    BY FillsNext
  <1>3. Fills => PartitionsComplete
    BY DEF Fills, TickFills, PartitionsComplete, Between, Fillable
  <1> QED
    BY <1>1, <1>2, <1>3, TickInvariant, ReplayInvariant, PTL DEF Spec

-----------------------------------------------------------------------------
(* The invariant: each row once. A history appends what is new in the one  *)
(* table it reads, which is a history itself or the table of a source.     *)

\* A table that grows by what is new.
History(s) == Def[s].incremental /\ Def[s].merge = "append"

\* A pipeline in which every history reads one source or one other history.
\* Another table may show a row again: one that is replaced by what was in it.
ReadsOnce(def) ==
    \A s \in DOMAIN def : def[s].incremental /\ def[s].merge = "append" =>
        \E t \in DOMAIN def :
            /\ def[s].inputs = {t}
            /\ \/ def[t].kind = "source"
               \/ def[t].incremental /\ def[t].merge = "append"

\* The histories and the tables that they read.
Feed(t) ==
    \/ History(t)
    \/ Def[t].kind = "source" /\ \E s \in Steps : History(s) /\ t \in Def[s].inputs

\* No commit to one of these loses its record, and none of them is backfilled.
\* gc may delete records of theirs, and steps of theirs may fail.
Undisturbed ==
    /\ \A s \in Steps, p \in Parts : Feed(s) => ~Backfill(s, p)
    /\ \A s \in Steps :
          Invalidate({s}) \/ Invalidate(Dependents(s)) =>
              \A r \in log \ log' : ~Feed(r.step)
    /\ Crash => \A r \in open : ~Feed(r.step)

\* No two writes to a feed have a row in common, and none has a row twice.
RowsOnce ==
    \A t \in Steps : Feed(t) => \A r \in Rows : \A i, k \in DOMAIN lake[t] :
        /\ lake[t][i].rows[r] <= 1
        /\ lake[t][i].rows[r] > 0 /\ lake[t][k].rows[r] > 0 => i = k

\* The source is still to pull, in the tick that is on.
Turn(t) ==
    /\ InTick
    /\ \/ level < Def[t].level
       \/ level = Def[t].level /\ phase = "level"
       \/ \E j \in jobs : j.step = t

\* A source pulls once in a tick: what it has is of earlier ticks until it has.
PulledBefore ==
    ticks \in Nat /\ \A t \in Steps : Feed(t) /\ Def[t].kind = "source" =>
        /\ \A i \in DOMAIN lake[t], r \in Rows : lake[t][i].rows[r] > 0 =>
              r[1] <= ticks /\ (Turn(t) => r[1] < ticks)
        /\ \A j, k \in jobs : j.step = t /\ k.step = t => j = k
        /\ \A j \in jobs : j.step = t => j.rows = Pulled

\* Row r is in table t, in a write up to version v.
InBy(t, r, v) == \E i \in DOMAIN lake[t] : lake[t][i].rows[r] > 0 /\ lake[t][i].version <= v

\* What a history has of the table it reads is what it has seen of it.
HasSeen ==
    \A s \in Steps : History(s) => \A t \in Def[s].inputs :
        /\ LastSeen(s, t) <= LatestSnapshot(log, t)
        /\ \A i \in DOMAIN lake[s], r \in Rows : lake[s][i].rows[r] > 0 =>
              \/ InBy(t, r, LastSeen(s, t))
              \/ \E q \in open : q.step = s /\ InBy(t, r, q.fp.in[t])

\* What is in a feed is of its latest snapshot, or will be when the record is written.
AllRecorded ==
    /\ \A q \in open : q.snapshot = version
    /\ \A t \in Steps : Feed(t) => \A i \in DOMAIN lake[t] :
          \/ lake[t][i].version <= LatestSnapshot(log, t)
          \/ \E q \in open : q.step = t

\* A job of a history brings rows of its input that the history lacks and that no
\* other job brings, and it will have seen all of its input.
JobsAreNew ==
    \A s \in Steps : History(s) =>
        /\ \A t \in Def[s].inputs : \A j \in jobs \cup open :
              j.step = s => j.fp.in[t] = LatestSnapshot(log, t)
        /\ \A j \in jobs, r \in Rows : j.step = s =>
              /\ j.rows[r] <= 1
              /\ j.rows[r] > 0 =>
                    /\ \A t \in Def[s].inputs : InBy(t, r, j.fp.in[t])
                    /\ \A i \in DOMAIN lake[s] : lake[s][i].rows[r] = 0
                    /\ \A k \in jobs \ {j} : k.step = s => k.rows[r] = 0

\* The inductive invariant.
Once == RowsOnce /\ PulledBefore /\ HasSeen /\ AllRecorded /\ JobsAreNew

\* One of them at most, and it at most one: so is the sum.
LEMMA TotalAtMostOne ==
    ASSUME NEW S, IsFiniteSet(S), NEW f \in [S -> Nat],
           \A x \in S : f[x] <= 1,
           \A x, y \in S : f[x] > 0 /\ f[y] > 0 => x = y
    PROVE  Total(f) \in Nat /\ Total(f) <= 1 /\ (Total(f) > 0 => \E x \in S : f[x] > 0)
  <1>1. CASE \A x \in S : f[x] = 0
    <2>1. Total(f) = 0
      BY <1>1, TotalIsZero
    <2> QED
      BY <2>1
  <1>2. ASSUME NEW x \in S, f[x] # 0
        PROVE  Total(f) = 1 /\ f[x] > 0
    <2>1. f[x] = 1
      <3>1. f[x] \in Nat /\ f[x] <= 1
        OBVIOUS
      <3> QED
        BY <1>2, <3>1
    <2>2. \A y \in S \ {x} : f[y] = 0
      <3> TAKE y \in S \ {x}
      <3>1. f[y] \in Nat /\ ~(f[y] > 0)
        BY <2>1
      <3> QED
        BY <3>1
    <2>3. UNION {{y} \X (1..f[y]) : y \in S} = {<<x, 1>>}
      <3>1. 1..f[x] = {1}
        BY <2>1
      <3>2. \A y \in S \ {x} : {y} \X (1..f[y]) = {}
        <4> TAKE y \in S \ {x}
        <4>1. 1..f[y] = {}
          BY <2>2
        <4> QED
          BY <4>1
      <3>3. {x} \X (1..f[x]) = {<<x, 1>>}
        BY <3>1
      <3> QED
        BY <3>2, <3>3
    <2>4. Total(f) = Cardinality({<<x, 1>>})
      BY <2>3 DEF Total
    <2>5. Cardinality({<<x, 1>>}) = 1
      BY FS_Singleton
    <2> QED
      BY <2>1, <2>4, <2>5
  <1>3. CASE \E x \in S : f[x] # 0
    <2>1. PICK x \in S : f[x] # 0
      BY <1>3
    <2>2. Total(f) = 1 /\ f[x] > 0
      BY <1>2, <2>1
    <2> QED
      BY <2>2
  <1> QED
    BY <1>1, <1>3

\* What a pipeline of histories is like.
LEMMA HistoryFacts ==
    ASSUME LakeOK, ReadsOnce(Def)
    PROVE  /\ \A s \in Steps : History(s) =>
                 \E t \in Steps : /\ Def[s].inputs = {t} /\ Feed(t)
                                  /\ Def[s].kind = "step"
                                  /\ Def[t].level < Def[s].level
                                  /\ Def[s].merge = "append" /\ Def[s].incremental
           /\ \A t \in Steps : Feed(t) /\ ~History(t) =>
                 /\ Def[t].kind = "source" /\ Def[t].merge = "replace"
                 /\ ~Def[t].partitioned /\ Def[t].inputs = {}
           /\ \A t \in Steps : Feed(t) /\ Def[t].kind = "source" => ~History(t)
  <1>1. IsPipeline(Def)
    BY RuntimeAssumption DEF LakeOK
  <1>2. \A s \in Steps : Def[s].kind # "step" =>
           /\ ~Def[s].incremental /\ ~Def[s].partitioned /\ Def[s].merge = "replace"
    BY <1>1 DEF IsPipeline, Steps
  <1>3. \A s \in Steps : Def[s].kind = "source" <=> Def[s].inputs = {}
    BY <1>1 DEF IsPipeline, Steps
  <1>4. ASSUME NEW s \in Steps, History(s)
        PROVE  \E t \in Steps : /\ Def[s].inputs = {t} /\ Feed(t)
                                /\ Def[s].kind = "step"
                                /\ Def[t].level < Def[s].level
                                /\ Def[s].merge = "append" /\ Def[s].incremental
    <2>1. PICK t \in Steps :
             /\ Def[s].inputs = {t}
             /\ \/ Def[t].kind = "source"
                \/ Def[t].incremental /\ Def[t].merge = "append"
      BY <1>4 DEF ReadsOnce, History, Steps
    <2>2. Feed(t)
      BY <1>4, <2>1 DEF Feed, History
    <2>3. Def[t].level < Def[s].level
      BY <2>1, PipelineFacts
    <2> QED
      BY <1>2, <1>4, <2>1, <2>2, <2>3 DEF History
  <1>5. \A t \in Steps : Feed(t) /\ ~History(t) => Def[t].kind = "source"
    BY DEF Feed
  <1>6. \A t \in Steps : Def[t].kind = "source" => ~History(t)
    BY <1>2 DEF History
  <1> QED
    BY <1>2, <1>3, <1>4, <1>5, <1>6

\* No snapshot is the least of them.
LEMMA MaxWithNone ==
    ASSUME NEW n \in Nat
    PROVE  Max({NoSnapshot} \cup {n}) = n
  <1>1. {0, n} \in SUBSET Nat /\ {0, n} # {} /\ \A k \in {0, n} : k <= n
    OBVIOUS
  <1>2. Max({0, n}) \in {0, n} /\ \A k \in {0, n} : k <= Max({0, n})
    BY <1>1, MaxOfBounded
  <1>3. Max({0, n}) = n
    BY <1>2
  <1>4. {NoSnapshot} \cup {n} = {0, n}
    BY DEF NoSnapshot
  <1> QED
    BY <1>3, <1>4

\* The snapshot that the last success of a step has seen.
LEMMA LastSeenIs ==
    ASSUME LakeOK, LogOK, NEW s \in Steps, NEW t \in Def[s].inputs
    PROVE  /\ LastSeen(s, t) \in Nat
           /\ LastRun(log, s) = {} => LastSeen(s, t) = NoSnapshot
           /\ \A q \in LastRun(log, s) : LastSeen(s, t) = q.fp.in[t]
  <1>1. CASE LastRun(log, s) = {}
    <2>1. LastSeen(s, t) = Max({NoSnapshot})
      BY <1>1 DEF LastSeen
    <2>2. Max({NoSnapshot}) \in {NoSnapshot}
      BY MaxOfBounded DEF NoSnapshot
    <2> QED
      BY <1>1, <2>1, <2>2 DEF NoSnapshot
  <1>2. ASSUME NEW q \in LastRun(log, s)
        PROVE  LastSeen(s, t) \in Nat /\ LastSeen(s, t) = q.fp.in[t]
    <2>1. LastRun(log, s) = {q} /\ q \in log /\ q.step = s
      BY LatestIsOfLastRun
    <2>2. q.fp.in[t] \in Nat
      BY <2>1 DEF LogOK, GoodRecord, LakeOK
    <2>3. PICK n \in Nat : n = q.fp.in[t]
      BY <2>2
    <2>4. LastSeen(s, t) = Max({NoSnapshot} \cup {n})
      BY <2>1, <2>3 DEF LastSeen
    <2> QED
      BY <2>3, <2>4, MaxWithNone
  <1> QED
    BY <1>1, <1>2

\* Where each row is in one write, a version has it once, and so has what was
\* inserted after a version.
LEMMA ReadOnce ==
    ASSUME LakeOK, RowsOnce, NEW t \in Steps, Feed(t), NEW v \in Nat, NEW r \in Rows
    PROVE  /\ At(t, v)[r] \in Nat /\ At(t, v)[r] <= 1
           /\ At(t, v)[r] > 0 => InBy(t, r, v)
           /\ InsertsSince(t, v)[r] \in Nat /\ InsertsSince(t, v)[r] <= 1
           /\ InsertsSince(t, v)[r] > 0 =>
                 \E i \in DOMAIN lake[t] :
                     lake[t][i].rows[r] > 0 /\ lake[t][i].version > v
  <1>1. /\ lake[t] \in Seq(Writes) /\ Len(lake[t]) \in Nat
        /\ DOMAIN lake[t] = 1..Len(lake[t])
    BY DEF LakeOK
  <1>2. \A i \in DOMAIN lake[t] : lake[t][i].rows[r] \in Nat
    <2>1. \A i \in 1..Len(lake[t]) : lake[t][i] \in Writes
      BY <1>1
    <2>2. \A w \in Writes : w.rows[r] \in Nat
      BY DEF Writes, Relation
    <2> QED
      BY <1>1, <2>1, <2>2
  <1>3. \A i, k \in DOMAIN lake[t] :
           /\ lake[t][i].rows[r] <= 1
           /\ lake[t][i].rows[r] > 0 /\ lake[t][k].rows[r] > 0 => i = k
    BY DEF RowsOnce
  <1>4. ASSUME NEW S \in SUBSET DOMAIN lake[t]
        PROVE  /\ Total([i \in S |-> lake[t][i].rows[r]]) \in Nat
               /\ Total([i \in S |-> lake[t][i].rows[r]]) <= 1
               /\ Total([i \in S |-> lake[t][i].rows[r]]) > 0 =>
                     \E i \in S : lake[t][i].rows[r] > 0
    <2>1. PICK f : f = [i \in S |-> lake[t][i].rows[r]]
      OBVIOUS
    <2>2. f \in [S -> Nat] /\ \A i \in S : f[i] = lake[t][i].rows[r]
      BY <1>2, <2>1
    <2>3. IsFiniteSet(S)
      <3>1. IsFiniteSet(1..Len(lake[t]))
        BY <1>1, FS_Interval
      <3> QED
        BY <1>1, <3>1, FS_Subset
    <2>4. Total(f) \in Nat /\ Total(f) <= 1 /\ (Total(f) > 0 => \E x \in S : f[x] > 0)
      BY <1>3, <2>2, <2>3, TotalAtMostOne
    <2> QED
      BY <2>1, <2>2, <2>4
  <1> DEFINE seen == {i \in DOMAIN lake[t] : lake[t][i].version <= v}
             left == {i \in seen : \A k \in seen :
                         TakesAway(lake[t][k], r) => k <= i}
             new == {i \in DOMAIN lake[t] :
                       /\ lake[t][i].version > v
                       /\ \A k \in DOMAIN lake[t] :
                             lake[t][k].merge = "replace" => k <= i}
  <1>5. At(t, v)[r] = Total([i \in left |-> lake[t][i].rows[r]])
    BY DEF At, AsOf
  <1>6. InsertsSince(t, v)[r] = Total([i \in new |-> lake[t][i].rows[r]])
    <2> DEFINE g == [i \in new |-> lake[t][i].rows]
    <2>1. InsertsSince(t, v) = SumOf(g)
      BY DEF InsertsSince
    <2>2. [x \in DOMAIN g |-> g[x][r]] = [i \in new |-> lake[t][i].rows[r]]
      OBVIOUS
    <2> HIDE DEF g, new
    <2> QED
      BY <2>1, <2>2 DEF SumOf
  <1>7. /\ left \in SUBSET DOMAIN lake[t] /\ new \in SUBSET DOMAIN lake[t]
        /\ \A i \in left : lake[t][i].version <= v
        /\ \A i \in new : lake[t][i].version > v
    OBVIOUS
  <1> HIDE DEF left, new
  <1> QED
    BY <1>4, <1>5, <1>6, <1>7 DEF InBy

\* A history hands on what it is given of the one table it reads.
LEMMA HistoryResult ==
    ASSUME LakeOK, NEW s \in Steps, NEW t \in Steps, Def[s].inputs = {t},
           Def[s].kind = "step", NEW r \in Rows
    PROVE  Result(s)[r] = ResolveInput(s, t)[r]
  <1> DEFINE f == [u \in {t} |-> ResolveInput(s, u)[r]]
             g == [u \in {t} |-> ResolveInput(s, u)]
  <1>1. ResolveInput(s, t) \in Relation
    BY TablesAreRelations DEF ResolveInput, At
  <1>2. Total(f) = ResolveInput(s, t)[r]
    <2>1. f \in [{t} -> Nat]
      BY <1>1 DEF Relation
    <2>2. f[t] = ResolveInput(s, t)[r]
      OBVIOUS
    <2> HIDE DEF f
    <2> QED
      BY <2>1, <2>2, TotalOfOne
  <1>3. [u \in DOMAIN g |-> g[u][r]] = f
    OBVIOUS
  <1>4. SumOf(g)[r] = Total(f)
    <2> HIDE DEF g, f
    <2> QED
      BY <1>3 DEF SumOf
  <1>5. [u \in Def[s].inputs |-> ResolveInput(s, u)] = g
    OBVIOUS
  <1>6. Result(s) = SumOf(g)
    <2> HIDE DEF g
    <2> QED
      BY <1>5 DEF Result
  <1> HIDE DEF f, g
  <1> QED
    BY <1>2, <1>4, <1>6

\* What is said of the histories and their inputs stays as the pipeline does.
LEMMA SameFeeds ==
    ASSUME LakeOK, UNCHANGED Def
    PROVE  /\ Steps' = Steps
           /\ \A s : (History(s)' <=> History(s)) /\ (Feed(s)' <=> Feed(s))
           /\ ReadsOnce(Def)' <=> ReadsOnce(Def)
  BY DEF Steps, History, Feed, ReadsOnce

\* What a step has seen depends on its last success only.
LEMMA SameLastSeen ==
    ASSUME UNCHANGED Def, NEW s, NEW t, LastRun(log', s) = LastRun(log, s)
    PROVE  LastSeen(s, t)' = LastSeen(s, t)
  BY DEF LastSeen

\* A step that writes no table and no record that matters to a history.
LEMMA QuietOnce ==
    ASSUME Base, Once, ReadsOnce(Def), UNCHANGED <<Def, lake, version>>,
           jobs' \in SUBSET jobs, open' \in SUBSET open,
           \A q \in open \ open' : ~Feed(q.step),
           \A t \in Steps : Feed(t) =>
               /\ LastRun(log', t) = LastRun(log, t)
               /\ LatestSnapshot(log', t) = LatestSnapshot(log, t),
           ticks' = ticks \/ (ticks' = ticks + 1 /\ jobs' = {}),
           \A t \in Steps : Turn(t)' /\ ticks' = ticks => Turn(t)
    PROVE  Once'
  <1>1. /\ LakeOK /\ LogOK
    BY DEF Base
  <1>2. /\ Steps' = Steps
        /\ \A s : (History(s)' <=> History(s)) /\ (Feed(s)' <=> Feed(s))
    BY <1>1, SameFeeds
  <1>3. \A t, r, v : InBy(t, r, v)' <=> InBy(t, r, v)
    BY DEF InBy
  <1>4. \A s \in Steps : History(s) => \A t \in Def[s].inputs : t \in Steps /\ Feed(t)
    BY <1>1, HistoryFacts
  <1>5. \A s \in Steps : History(s) => \A t : LastSeen(s, t)' = LastSeen(s, t)
    BY SameLastSeen DEF Feed
  <1>6. RowsOnce'
    BY <1>2 DEF Once, RowsOnce
  <1>7. PulledBefore'
    <2>1. ticks \in Nat /\ ticks' \in Nat
      BY DEF Once, PulledBefore
    <2> SUFFICES ASSUME NEW t \in Steps, Feed(t), Def[t].kind = "source"
                 PROVE  /\ \A i \in DOMAIN lake[t], r \in Rows : lake[t][i].rows[r] > 0 =>
                              r[1] <= ticks' /\ (Turn(t)' => r[1] < ticks')
                        /\ \A j, k \in jobs' : j.step = t /\ k.step = t => j = k
                        /\ \A j \in jobs' : j.step = t => j.rows = Pulled'
      BY <1>2, <2>1 DEF PulledBefore, Rows
    <2>2. ASSUME NEW i \in DOMAIN lake[t], NEW r \in Rows, lake[t][i].rows[r] > 0
          PROVE  r[1] <= ticks' /\ (Turn(t)' => r[1] < ticks')
      <3>1. r[1] <= ticks /\ (Turn(t) => r[1] < ticks) /\ r[1] \in Int
        BY <2>2 DEF Once, PulledBefore, Rows
      <3>2. CASE ticks' = ticks
        BY <3>1, <3>2
      <3>3. CASE ticks' = ticks + 1
        BY <2>1, <3>1, <3>3
      <3> QED
        BY <3>2, <3>3
    <2>3. jobs' # {} => Pulled' = Pulled
      BY <2>1 DEF Pulled, Rows
    <2>4. /\ \A j, k \in jobs : j.step = t /\ k.step = t => j = k
          /\ \A j \in jobs : j.step = t => j.rows = Pulled
      BY DEF Once, PulledBefore
    <2> QED
      BY <2>2, <2>3, <2>4
  <1>8. HasSeen'
    <2> SUFFICES ASSUME NEW s \in Steps, History(s), NEW t \in Def[s].inputs
                 PROVE  /\ LastSeen(s, t) <= LatestSnapshot(log, t)'
                        /\ \A i \in DOMAIN lake[s], r \in Rows : lake[s][i].rows[r] > 0 =>
                              \/ InBy(t, r, LastSeen(s, t))
                              \/ \E q \in open' : q.step = s /\ InBy(t, r, q.fp.in[t])
      BY <1>2, <1>3, <1>5 DEF HasSeen, Rows
    <2>1. \A q \in open : q.step = s => q \in open'
      BY DEF Feed
    <2> QED
      BY <1>4, <2>1 DEF Once, HasSeen
  <1>9. AllRecorded'
    <2>1. \A q \in open : Feed(q.step) => q \in open'
      OBVIOUS
    <2> QED
      BY <1>2, <2>1 DEF Once, AllRecorded
  <1>10. JobsAreNew'
    <2> SUFFICES ASSUME NEW s \in Steps, History(s)
                 PROVE  /\ \A t \in Def[s].inputs : \A j \in jobs' \cup open' :
                              j.step = s => j.fp.in[t] = LatestSnapshot(log, t)'
                        /\ \A j \in jobs', r \in Rows : j.step = s =>
                              /\ j.rows[r] <= 1
                              /\ j.rows[r] > 0 =>
                                   /\ \A t \in Def[s].inputs : InBy(t, r, j.fp.in[t])
                                   /\ \A i \in DOMAIN lake[s] : lake[s][i].rows[r] = 0
                                   /\ \A k \in jobs' \ {j} : k.step = s => k.rows[r] = 0
      BY <1>2, <1>3 DEF JobsAreNew, Rows
    <2> QED
      BY <1>4 DEF Once, JobsAreNew
  <1> QED
    BY <1>6, <1>7, <1>8, <1>9, <1>10 DEF Once

\* What a job of a history brings is in the table it reads, and not in its own.
LEMMA NewRowsOnly ==
    ASSUME Base, Once, ReadsOnce(Def), ~Distributed, open = {},
           NEW s \in Steps, History(s), NEW t \in Steps, Def[s].inputs = {t},
           NEW p, NEW r \in Rows
    PROVE  /\ JobRows(s, p)[r] <= 1
           /\ JobRows(s, p)[r] > 0 =>
                 /\ InBy(t, r, LatestSnapshot(log, t))
                 /\ \A i \in DOMAIN lake[s] : lake[s][i].rows[r] = 0
                 /\ p = NoPart \/ r[2] = p
  <1>1. /\ LakeOK /\ LogOK /\ RowsOnce
        /\ Feed(t) /\ Feed(s) /\ Def[s].kind = "step" /\ Def[s].incremental
    <2>1. LakeOK /\ LogOK /\ RowsOnce
      BY DEF Base, Once
    <2>2. \E u \in Steps : /\ Def[s].inputs = {u} /\ Feed(u)
                         /\ Def[s].kind = "step" /\ Def[s].incremental
      BY <2>1, HistoryFacts
    <2>3. Feed(t) /\ Def[s].kind = "step" /\ Def[s].incremental
      BY <2>2
    <2> QED
      BY <2>1, <2>3 DEF Feed
  <1>2. /\ LastSeen(s, t) \in Nat /\ LatestSnapshot(log, t) \in Nat
        /\ \A i \in DOMAIN lake[t] : /\ lake[t][i].version \in Nat
                                      /\ lake[t][i].version > NoSnapshot
                                      /\ lake[t][i].version <= LatestSnapshot(log, t)
    <2>1. LastSeen(s, t) \in Nat
      BY <1>1, LastSeenIs
    <2>2. LatestSnapshot(log, t) \in Nat
      BY <1>1, LatestIsAVersion DEF LakeOK
    <2>3. \A i \in DOMAIN lake[t] : lake[t][i].version \in 1..version
      BY <1>1 DEF LakeOK
    <2>4. \A i \in DOMAIN lake[t] : lake[t][i].version <= LatestSnapshot(log, t)
      BY <1>1 DEF Once, AllRecorded
    <2> QED
      BY <1>1, <2>1, <2>2, <2>3, <2>4 DEF LakeOK, NoSnapshot
  <1>3. \A i, k \in DOMAIN lake[t] :
           lake[t][i].rows[r] > 0 /\ lake[t][k].rows[r] > 0 => i = k
    BY <1>1 DEF RowsOnce
  <1>4. \A i \in DOMAIN lake[s] : /\ lake[s][i].rows[r] \in Nat
                                  /\ lake[s][i].rows[r] > 0 => InBy(t, r, LastSeen(s, t))
    <2>1. \A i \in DOMAIN lake[s] : lake[s][i].rows[r] > 0 => InBy(t, r, LastSeen(s, t))
      BY DEF Once, HasSeen
    <2>2. \A i \in DOMAIN lake[s] : lake[s][i] \in Writes
      <3>1. lake[s] \in Seq(Writes)
        BY <1>1 DEF LakeOK
      <3> QED
        BY <3>1
    <2>3. \A w \in Writes : w.rows[r] \in Nat
      BY DEF Writes, Relation
    <2> QED
      BY <2>1, <2>2, <2>3
  <1>5. /\ ResolveInput(s, t)[r] \in Nat /\ ResolveInput(s, t)[r] <= 1
        /\ ResolveInput(s, t)[r] > 0 =>
              /\ InBy(t, r, LatestSnapshot(log, t))
              /\ ~InBy(t, r, LastSeen(s, t))
    <2>1. CASE LastSeen(s, t) = NoSnapshot
      <3>1. ResolveInput(s, t) = At(t, LatestSnapshot(log, t))
        BY <2>1 DEF ResolveInput
      <3>2. ~InBy(t, r, LastSeen(s, t))
        BY <1>2, <2>1 DEF InBy, NoSnapshot
      <3> QED
        BY <1>1, <1>2, <3>1, <3>2, ReadOnce
    <2>2. CASE LastSeen(s, t) # NoSnapshot
      <3>1. ResolveInput(s, t) = InsertsSince(t, LastSeen(s, t))
        BY <1>1, <2>2 DEF ResolveInput
      <3>2. /\ InsertsSince(t, LastSeen(s, t))[r] \in Nat
            /\ InsertsSince(t, LastSeen(s, t))[r] <= 1
            /\ InsertsSince(t, LastSeen(s, t))[r] > 0 =>
                  \E i \in DOMAIN lake[t] :
                      lake[t][i].rows[r] > 0 /\ lake[t][i].version > LastSeen(s, t)
        BY <1>1, <1>2, ReadOnce
      <3>3. ASSUME NEW i \in DOMAIN lake[t],
                   lake[t][i].rows[r] > 0, lake[t][i].version > LastSeen(s, t)
            PROVE  /\ InBy(t, r, LatestSnapshot(log, t))
                   /\ ~InBy(t, r, LastSeen(s, t))
        <4>1. InBy(t, r, LatestSnapshot(log, t))
          BY <1>2, <3>3 DEF InBy
        <4>2. \A k \in DOMAIN lake[t] : lake[t][k].rows[r] > 0 => k = i
          BY <1>3, <3>3
        <4>3. ~(lake[t][i].version <= LastSeen(s, t))
          BY <1>2, <3>3
        <4> QED
          BY <4>1, <4>2, <4>3 DEF InBy
      <3> QED
        BY <3>1, <3>2, <3>3
    <2> QED
      BY <2>1, <2>2
  <1>6. Result(s)[r] = ResolveInput(s, t)[r]
    BY <1>1, HistoryResult
  <1>7. /\ JobRows(s, p)[r] \in {0, Result(s)[r]}
        /\ JobRows(s, p)[r] > 0 => p = NoPart \/ r[2] = p
    <2>1. CASE p = NoPart
      BY <2>1 DEF JobRows
    <2>2. CASE p # NoPart
      <3>1. JobRows(s, p) = Partition(Result(s), p)
        BY <2>2 DEF JobRows
      <3>2. Partition(Result(s), p)[r] = IF r[2] = p THEN Result(s)[r] ELSE 0
        BY DEF Partition
      <3> QED
        BY <3>1, <3>2
    <2> QED
      BY <2>1, <2>2
  <1>8. \A i \in DOMAIN lake[s] :
           ResolveInput(s, t)[r] > 0 => lake[s][i].rows[r] = 0
    BY <1>4, <1>5
  <1> QED
    BY <1>5, <1>6, <1>7, <1>8

\* The jobs of a level: what is new, cut into partitions or whole.
LEMMA RunLevelOnce ==
    ASSUME Base, Once, ReadsOnce(Def), ~Distributed, RunLevel
    PROVE  Once'
  <1>1. /\ phase = "level"
        /\ UNCHANGED <<Def, open, log, lake, version, code, ticks>>
        /\ IF jobs' = {} THEN level' = level + 1 /\ phase' = "level"
                         ELSE phase' = "commit" /\ level' = level
    BY DEF RunLevel
  <1>2. /\ LakeOK /\ LogOK /\ open = {} /\ jobs = {} /\ level \in Nat
    BY <1>1 DEF Base, PhaseOK
  <1>3. PICK fanout \in [ReadySteps -> SUBSET (Parts \cup {NoPart})] :
           /\ \A s \in ReadySteps : fanout[s] \in Fanouts(s)
           /\ jobs' = UNION {{Job(s, p) : p \in fanout[s]} : s \in ReadySteps}
    BY DEF RunLevel
  <1>4. /\ Steps' = Steps
        /\ \A s : (History(s)' <=> History(s)) /\ (Feed(s)' <=> Feed(s))
    BY <1>1, <1>2, SameFeeds
  <1>5. \A t, r, v : InBy(t, r, v)' <=> InBy(t, r, v)
    BY <1>1 DEF InBy
  <1>6. \A s, t : LastSeen(s, t)' = LastSeen(s, t)
    BY <1>1 DEF LastSeen
  <1>7. ASSUME NEW j \in jobs'
        PROVE  /\ j.step \in Steps /\ Def[j.step].level = level
               /\ \E p \in Parts \cup {NoPart} :
                     /\ j = Job(j.step, p) /\ j.rows = JobRows(j.step, p)
                     /\ p = NoPart <=> ~Def[j.step].partitioned
               /\ \A t \in Def[j.step].inputs : j.fp.in[t] = LatestSnapshot(log, t)
    <2>1. PICK s \in ReadySteps : \E p \in fanout[s] : j = Job(s, p)
      BY <1>3
    <2>2. PICK p \in fanout[s] : j = Job(s, p)
      BY <2>1
    <2>3. /\ j.step = s /\ j.rows = JobRows(s, p)
          /\ j.fp.in = [t \in Def[s].inputs |-> LatestSnapshot(log, t)]
      BY <2>2 DEF Job, Fingerprint
    <2>4. s \in Steps /\ Def[s].level = level
      BY DEF ReadySteps
    <2>5. p \in Parts \cup {NoPart}
      BY <1>3
    <2>6. p = NoPart <=> ~Def[s].partitioned
      <3>1. fanout[s] \in Fanouts(s)
        BY <1>3
      <3>2. CASE ~Def[s].partitioned
        BY <3>1, <3>2 DEF Fanouts
      <3>3. CASE Def[s].partitioned
        <4>1. p \in PartitionValues(s)
          BY <3>1, <3>3 DEF Fanouts
        <4>2. p \in Parts
          BY <4>1 DEF PartitionValues, Values, Rows
        <4> QED
          BY <3>3, <4>2, RuntimeAssumption
      <3> QED
        BY <3>2, <3>3
    <2> QED
      BY <2>2, <2>3, <2>4, <2>5, <2>6
  <1>8. RowsOnce'
    BY <1>1, <1>4 DEF Once, RowsOnce, Rows
  <1>9. PulledBefore'
    <2> SUFFICES ASSUME NEW t \in Steps, Feed(t), Def[t].kind = "source"
                 PROVE  /\ \A i \in DOMAIN lake[t], r \in Rows : lake[t][i].rows[r] > 0 =>
                              r[1] <= ticks /\ (Turn(t)' => r[1] < ticks)
                        /\ \A j, k \in jobs' : j.step = t /\ k.step = t => j = k
                        /\ \A j \in jobs' : j.step = t => j.rows = Pulled'
      BY <1>1, <1>4 DEF Once, PulledBefore, Rows
    <2>1. Turn(t)' => Turn(t)
      <3>1. Def[t].level \in Nat
        BY <1>2, PipelineFacts
      <3>2. \A j \in jobs' : j.step = t => level = Def[t].level
        BY <1>7
      <3> QED
        BY <1>1, <1>2, <3>1, <3>2 DEF Turn, InTick
    <2>2. ASSUME NEW j \in jobs', j.step = t
          PROVE  j = Job(t, NoPart) /\ j.rows = Pulled'
      <3>1. ~Def[t].partitioned
        BY <1>2, HistoryFacts
      <3>2. j = Job(t, NoPart) /\ j.rows = JobRows(t, NoPart)
        BY <1>7, <2>2, <3>1
      <3>3. JobRows(t, NoPart) = Pulled
        BY DEF JobRows, Result
      <3>4. Pulled' = Pulled
        BY <1>1 DEF Pulled, Rows
      <3> QED
        BY <3>2, <3>3, <3>4
    <2> QED
      BY <2>1, <2>2 DEF Once, PulledBefore
  <1>10. HasSeen'
    BY <1>1, <1>4, <1>5, <1>6 DEF Once, HasSeen, Rows
  <1>11. AllRecorded'
    BY <1>1, <1>4 DEF Once, AllRecorded
  <1>12. JobsAreNew'
    <2> SUFFICES ASSUME NEW s \in Steps, History(s)
                 PROVE  /\ \A t \in Def[s].inputs : \A j \in jobs' :
                              j.step = s => j.fp.in[t] = LatestSnapshot(log, t)
                        /\ \A j \in jobs', r \in Rows : j.step = s =>
                              /\ j.rows[r] <= 1
                              /\ j.rows[r] > 0 =>
                                   /\ \A t \in Def[s].inputs : InBy(t, r, j.fp.in[t])
                                   /\ \A i \in DOMAIN lake[s] : lake[s][i].rows[r] = 0
                                   /\ \A k \in jobs' \ {j} : k.step = s => k.rows[r] = 0
      BY <1>1, <1>2, <1>4, <1>5 DEF JobsAreNew, Rows
    <2>1. PICK t \in Steps : Def[s].inputs = {t}
      BY <1>2, HistoryFacts
    <2>2. ASSUME NEW j \in jobs', NEW r \in Rows, j.step = s, j.rows[r] > 0
          PROVE  /\ j.rows[r] <= 1
                 /\ InBy(t, r, j.fp.in[t])
                 /\ \A i \in DOMAIN lake[s] : lake[s][i].rows[r] = 0
                 /\ j = Job(s, NoPart) \/ j = Job(s, r[2])
      <3>1. PICK p \in Parts \cup {NoPart} : j = Job(s, p) /\ j.rows = JobRows(s, p)
        BY <1>7, <2>2
      <3>2. j.fp.in[t] = LatestSnapshot(log, t)
        BY <1>7, <2>1, <2>2
      <3> QED
        BY <1>2, <2>1, <2>2, <3>1, <3>2, NewRowsOnly
    <2>3. ASSUME NEW j \in jobs', NEW k \in jobs', NEW r \in Rows, j.step = s, k.step = s,
                 j.rows[r] > 0, k.rows[r] > 0
          PROVE  j = k
      <3>1. CASE Def[s].partitioned
        <4>1. PICK p \in Parts : j = Job(s, p) /\ j.rows = JobRows(s, p)
          BY <1>7, <2>3, <3>1
        <4>2. PICK q \in Parts : k = Job(s, q) /\ k.rows = JobRows(s, q)
          BY <1>7, <2>3, <3>1
        <4>3. p # NoPart /\ q # NoPart
          BY RuntimeAssumption
        <4>4. p = r[2] /\ q = r[2]
          BY <1>2, <2>1, <2>3, <4>1, <4>2, <4>3, NewRowsOnly
        <4> QED
          BY <4>1, <4>2, <4>4
      <3>2. CASE ~Def[s].partitioned
        BY <1>7, <2>3, <3>2
      <3> QED
        BY <3>1, <3>2
    <2>4. \A j \in jobs', r \in Rows : j.step = s => j.rows[r] \in Nat
      <3> TAKE j \in jobs', r \in Rows
      <3>1. JobsOK'
        BY RunLevelBase DEF Base
      <3>2. j.rows \in Relation
        BY <3>1 DEF JobsOK, Relation, Rows
      <3> QED
        BY <3>2 DEF Relation
    <2>5. \A j \in jobs', r \in Rows : j.step = s => j.rows[r] = 0 \/ j.rows[r] > 0
      BY <2>4
    <2>6. \A j \in jobs' : j.step = s => j.fp.in[t] = LatestSnapshot(log, t)
      BY <1>7, <2>1
    <2> QED
      BY <2>1, <2>2, <2>3, <2>5, <2>6
  <1> QED
    BY <1>8, <1>9, <1>10, <1>11, <1>12 DEF Once

\* A commit adds one write to one table.
LEMMA WriteAdded ==
    ASSUME LakeOK, NEW s \in Steps, NEW rows \in Relation, Commit(s, rows),
           Def[s].returns = "relation", UNCHANGED Def
    PROVE  /\ version \in Nat /\ version' \in Nat /\ version <= version'
           /\ \A t \in Steps \ {s} : lake'[t] = lake[t]
           /\ \E n \in Nat :
                 /\ DOMAIN lake[s] = 1..(n - 1) /\ DOMAIN lake'[s] = 1..n /\ n >= 1
                 /\ \A i \in 1..(n - 1) : lake'[s][i] = lake[s][i]
                 /\ lake'[s][n].rows = rows /\ lake'[s][n].version = version'
  <1> DEFINE w == [version |-> version',
                   merge |-> IF lake[s] = <<>> THEN "replace" ELSE Def[s].merge,
                   rows |-> rows]
             n == Len(lake[s]) + 1
  <1>1. /\ version <= version' /\ version \in Nat /\ version' \in Nat
        /\ lake \in [Steps -> Seq(Writes)]
    BY CommitEffect DEF LakeOK
  <1>2. lake' = [lake EXCEPT ![s] = Append(lake[s], w)]
    BY DEF Commit
  <1>3. w.rows = rows /\ w.version = version'
    OBVIOUS
  <1> HIDE DEF w
  <1>4. lake'[s] = Append(lake[s], w) /\ \A t \in Steps \ {s} : lake'[t] = lake[t]
    BY <1>1, <1>2
  <1>5. lake[s] \in Seq(Writes)
    BY <1>1
  <1>6. /\ n \in Nat /\ n >= 1 /\ DOMAIN lake[s] = 1..(n - 1)
        /\ DOMAIN lake'[s] = 1..n
        /\ lake'[s][n] = w
        /\ \A i \in 1..(n - 1) : lake'[s][i] = lake[s][i]
    BY <1>4, <1>5
  <1> HIDE DEF n
  <1> QED
    BY <1>1, <1>3, <1>4, <1>6

\* A commit, of a job of the tick or of a backfill that no history reads.
LEMMA CommittedOnce ==
    ASSUME Base, Once, ReadsOnce(Def), NEW s \in Steps, NEW rows \in Relation,
           Commit(s, rows), Def[s].returns = "relation",
           UNCHANGED <<Def, log, ticks, level>>, open = {},
           NEW q, open' = {q}, q.step = s, q.snapshot = version',
           jobs' \in SUBSET jobs,
           phase' = "backfill" \/ (phase = "commit" /\ phase' = "record"),
           NEW j, Feed(s) => /\ j \in jobs /\ j.step = s /\ j.rows = rows
                             /\ q.fp = j.fp /\ jobs' = jobs \ {j}
    PROVE  Once'
  <1>1. LakeOK /\ LogOK /\ JobsOK /\ PhaseOK
    BY DEF Base
  <1>2. /\ Steps' = Steps
        /\ \A t : (History(t)' <=> History(t)) /\ (Feed(t)' <=> Feed(t))
    BY <1>1, SameFeeds
  <1>3. /\ version \in Nat /\ version' \in Nat /\ version <= version'
        /\ \A t \in Steps \ {s} : lake'[t] = lake[t]
        /\ \E n \in Nat :
              /\ DOMAIN lake[s] = 1..(n - 1) /\ DOMAIN lake'[s] = 1..n /\ n >= 1
              /\ \A i \in 1..(n - 1) : lake'[s][i] = lake[s][i]
              /\ lake'[s][n].rows = rows /\ lake'[s][n].version = version'
    BY <1>1, WriteAdded
  <1>4. PICK n \in Nat :
           /\ DOMAIN lake[s] = 1..(n - 1) /\ DOMAIN lake'[s] = 1..n /\ n >= 1
           /\ \A i \in 1..(n - 1) : lake'[s][i] = lake[s][i]
           /\ lake'[s][n].rows = rows /\ lake'[s][n].version = version'
    BY <1>3
  <1>5. \A i \in 1..n : i \in 1..(n - 1) \/ i = n
    OBVIOUS
  <1>6. \A t, u : LastSeen(t, u)' = LastSeen(t, u)
    BY DEF LastSeen
  <1>7. \A t \in Steps : \A r, v : InBy(t, r, v) => InBy(t, r, v)'
    <2> SUFFICES ASSUME NEW t \in Steps, NEW r, NEW v, InBy(t, r, v)
                 PROVE  InBy(t, r, v)'
      OBVIOUS
    <2>1. CASE t = s
      <3>1. PICK i \in 1..(n - 1) : lake[s][i].rows[r] > 0 /\ lake[s][i].version <= v
        BY <1>4, <2>1 DEF InBy
      <3>2. i \in 1..n
        OBVIOUS
      <3> QED
        BY <1>4, <2>1, <3>1, <3>2 DEF InBy
    <2>2. CASE t # s
      BY <1>3, <2>2 DEF InBy
    <2> QED
      BY <2>1, <2>2
  <1>8. \A t \in Steps : History(t) =>
           \E u \in Steps : /\ Def[t].inputs = {u} /\ Feed(u) /\ u # t
                            /\ Def[u].level < Def[t].level
    BY <1>1, HistoryFacts, PipelineFacts
  <1>9. Def[s].kind = "source" /\ Feed(s) => Turn(s) /\ ~Turn(s)'
    <2> SUFFICES ASSUME Def[s].kind = "source", Feed(s)
                 PROVE  Turn(s) /\ ~Turn(s)'
      OBVIOUS
    <2>1. phase \in {"commit", "record"}
      BY <1>1 DEF PhaseOK
    <2>2. level = Def[s].level /\ level \in Nat
      BY <1>1 DEF JobsOK, PhaseOK
    <2>3. \A k \in jobs' : k.step # s
      BY DEF Once, PulledBefore
    <2> QED
      BY <2>1, <2>2, <2>3 DEF Turn, InTick
  <1>10. ASSUME Feed(s), NEW r \in Rows
         PROVE  /\ rows[r] <= 1
                /\ rows[r] > 0 => \A i \in 1..(n - 1) : ~(lake[s][i].rows[r] > 0)
    <2>1. CASE History(s)
      BY <1>4, <1>10, <2>1 DEF Once, JobsAreNew
    <2>2. CASE ~History(s)
      <3>1. Def[s].kind = "source"
        BY <1>1, <1>10, <2>2, HistoryFacts
      <3>2. rows = Pulled
        BY <1>10, <3>1 DEF Once, PulledBefore
      <3>3. rows[r] <= 1 /\ (rows[r] > 0 => r[1] = ticks)
        BY <3>2 DEF Pulled
      <3>4. \A i \in DOMAIN lake[s] : lake[s][i].rows[r] > 0 => r[1] < ticks
        BY <1>9, <1>10, <3>1 DEF Once, PulledBefore
      <3>5. ticks \in Nat
        BY DEF Once, PulledBefore
      <3> QED
        BY <1>4, <3>3, <3>4, <3>5
    <2> QED
      BY <2>1, <2>2
  <1>11. RowsOnce'
    <2> SUFFICES ASSUME NEW t \in Steps, Feed(t), NEW r \in Rows,
                        NEW i \in DOMAIN lake'[t], NEW k \in DOMAIN lake'[t]
                 PROVE  /\ lake'[t][i].rows[r] <= 1
                        /\ lake'[t][i].rows[r] > 0 /\ lake'[t][k].rows[r] > 0 => i = k
      BY <1>2 DEF RowsOnce, Rows
    <2>1. CASE t # s
      BY <1>3, <2>1 DEF Once, RowsOnce
    <2>2. CASE t = s
      <3>4. \A m, l \in DOMAIN lake[s] :
               /\ lake[s][m].rows[r] <= 1
               /\ lake[s][m].rows[r] > 0 /\ lake[s][l].rows[r] > 0 => m = l
        BY <2>2 DEF Once, RowsOnce
      <3>5. \A m \in 1..(n - 1) : m \in DOMAIN lake[s] /\ lake'[s][m] = lake[s][m]
        BY <1>4
      <3>1. \A m \in 1..(n - 1) : lake'[s][m].rows[r] <= 1
        BY <3>4, <3>5
      <3>2. \A m, l \in 1..(n - 1) :
               lake'[s][m].rows[r] > 0 /\ lake'[s][l].rows[r] > 0 => m = l
        BY <3>4, <3>5
      <3>3. /\ lake'[s][n].rows[r] <= 1
            /\ lake'[s][n].rows[r] > 0 => \A m \in 1..(n - 1) : ~(lake'[s][m].rows[r] > 0)
        BY <1>4, <1>10, <2>2
      <3> QED
        BY <1>4, <1>5, <2>2, <3>1, <3>2, <3>3
    <2> QED
      BY <2>1, <2>2
  <1>12. PulledBefore'
    <2> SUFFICES ASSUME NEW t \in Steps, Feed(t), Def[t].kind = "source"
                 PROVE  /\ \A i \in DOMAIN lake'[t], r \in Rows : lake'[t][i].rows[r] > 0 =>
                              r[1] <= ticks /\ (Turn(t)' => r[1] < ticks)
                        /\ \A k, l \in jobs' : k.step = t /\ l.step = t => k = l
                        /\ \A k \in jobs' : k.step = t => k.rows = Pulled'
      BY <1>2 DEF Once, PulledBefore, Rows
    <2>1. /\ \A i \in DOMAIN lake[t], r \in Rows : lake[t][i].rows[r] > 0 =>
                r[1] <= ticks /\ (Turn(t) => r[1] < ticks)
          /\ \A k, l \in jobs : k.step = t /\ l.step = t => k = l
          /\ \A k \in jobs : k.step = t => k.rows = Pulled
      BY DEF Once, PulledBefore
    <2>2. Pulled' = Pulled
      BY DEF Pulled, Rows
    <2>3. CASE t = s
      <3>1. rows = Pulled /\ ~Turn(s)'
        BY <1>9, <2>1, <2>3
      <3>2. \A r \in Rows : rows[r] > 0 => r[1] = ticks
        BY <3>1 DEF Pulled
      <3>3. ticks \in Nat
        BY DEF Once, PulledBefore
      <3>4. \A i \in 1..n, r \in Rows : lake'[s][i].rows[r] > 0 => r[1] <= ticks
        BY <1>4, <1>5, <2>1, <2>3, <3>2, <3>3
      <3> QED
        BY <1>4, <2>1, <2>2, <2>3, <3>1, <3>4
    <2>4. CASE t # s
      <3>1. Turn(t)' => Turn(t)
        BY DEF Turn, InTick
      <3> QED
        BY <1>3, <2>1, <2>2, <2>4, <3>1
    <2> QED
      BY <2>3, <2>4
  <1>13. HasSeen'
    <2> SUFFICES ASSUME NEW t \in Steps, History(t), NEW u \in Def[t].inputs
                 PROVE  /\ LastSeen(t, u) <= LatestSnapshot(log, u)
                        /\ \A i \in DOMAIN lake'[t], r \in Rows : lake'[t][i].rows[r] > 0 =>
                              \/ InBy(u, r, LastSeen(t, u))'
                              \/ q.step = t /\ InBy(u, r, q.fp.in[u])'
      BY <1>2, <1>6 DEF HasSeen, Rows
    <2>1. u \in Steps
      BY <1>8
    <2>2. /\ LastSeen(t, u) <= LatestSnapshot(log, u)
          /\ \A i \in DOMAIN lake[t], r \in Rows : lake[t][i].rows[r] > 0 =>
                InBy(u, r, LastSeen(t, u))
      BY DEF Once, HasSeen
    <2>3. \A r : InBy(u, r, LastSeen(t, u)) => InBy(u, r, LastSeen(t, u))'
      <3> TAKE r
      <3>1. PICK v : v = LastSeen(t, u)
        OBVIOUS
      <3>2. InBy(u, r, v) => InBy(u, r, v)'
        BY <1>7, <2>1
      <3>3. v = LastSeen(t, u)'
        BY <1>6, <3>1
      <3> QED
        BY <3>1, <3>2, <3>3 DEF InBy
    <2>4. CASE t # s
      BY <1>3, <2>2, <2>3, <2>4
    <2>5. CASE t = s
      <3>1. /\ j \in jobs /\ j.step = s /\ j.rows = rows /\ q.fp = j.fp
        BY <2>5 DEF Feed
      <3>2. \A r \in Rows : rows[r] > 0 => InBy(u, r, q.fp.in[u])
        BY <2>5, <3>1 DEF Once, JobsAreNew
      <3>3. \A r \in Rows : rows[r] > 0 => InBy(u, r, q.fp.in[u])'
        <4> SUFFICES ASSUME NEW r \in Rows, rows[r] > 0
                     PROVE  InBy(u, r, q.fp.in[u])'
          OBVIOUS
        <4>1. PICK v : v = q.fp.in[u]
          OBVIOUS
        <4>2. InBy(u, r, v)'
          BY <1>7, <2>1, <3>2, <4>1
        <4> QED
          BY <4>1, <4>2 DEF InBy
      <3>4. ASSUME NEW i \in 1..n, NEW r \in Rows, lake'[s][i].rows[r] > 0
            PROVE  InBy(u, r, LastSeen(t, u))' \/ InBy(u, r, q.fp.in[u])'
        <4>1. CASE i = n
          BY <1>4, <3>3, <3>4, <4>1
        <4>2. CASE i \in 1..(n - 1)
          BY <1>4, <2>2, <2>3, <2>5, <3>4, <4>2
        <4> QED
          BY <1>5, <4>1, <4>2
      <3> QED
        BY <1>4, <2>2, <2>5, <3>4
    <2> QED
      BY <2>4, <2>5
  <1>14. AllRecorded'
    <2>1. \A t \in Steps \ {s} : lake'[t] = lake[t]
      BY <1>3
    <2>2. \A t \in Steps : Feed(t) => \A i \in DOMAIN lake[t] :
             lake[t][i].version <= LatestSnapshot(log, t)
      BY DEF Once, AllRecorded
    <2> QED
      BY <1>2, <2>1, <2>2 DEF AllRecorded
  <1>15. JobsAreNew'
    <2> SUFFICES ASSUME NEW t \in Steps, History(t)
                 PROVE  /\ \A u \in Def[t].inputs : \A k \in jobs' \cup {q} :
                              k.step = t => k.fp.in[u] = LatestSnapshot(log, u)
                        /\ \A k \in jobs', r \in Rows : k.step = t =>
                              /\ k.rows[r] <= 1
                              /\ k.rows[r] > 0 =>
                                   /\ \A u \in Def[t].inputs : InBy(u, r, k.fp.in[u])'
                                   /\ \A i \in DOMAIN lake'[t] : lake'[t][i].rows[r] = 0
                                   /\ \A l \in jobs' \ {k} : l.step = t => l.rows[r] = 0
      BY <1>2 DEF JobsAreNew, Rows
    <2>1. /\ \A u \in Def[t].inputs : \A k \in jobs :
                k.step = t => k.fp.in[u] = LatestSnapshot(log, u)
          /\ \A k \in jobs, r \in Rows : k.step = t =>
                /\ k.rows[r] <= 1
                /\ k.rows[r] > 0 =>
                     /\ \A u \in Def[t].inputs : InBy(u, r, k.fp.in[u])
                     /\ \A i \in DOMAIN lake[t] : lake[t][i].rows[r] = 0
                     /\ \A l \in jobs \ {k} : l.step = t => l.rows[r] = 0
      BY DEF Once, JobsAreNew
    <2>2. \A u \in Def[t].inputs : q.step = t => q.fp.in[u] = LatestSnapshot(log, u)
      BY <2>1 DEF Feed
    <2>3. \A u \in Def[t].inputs : \A r, v : InBy(u, r, v) => InBy(u, r, v)'
      BY <1>7, <1>8
    <2>4. ASSUME NEW k \in jobs', NEW r \in Rows, k.step = t, k.rows[r] > 0
          PROVE  /\ \A u \in Def[t].inputs : InBy(u, r, k.fp.in[u])'
                 /\ \A i \in DOMAIN lake'[t] : lake'[t][i].rows[r] = 0
                 /\ \A l \in jobs' \ {k} : l.step = t => l.rows[r] = 0
      <3>1. /\ \A u \in Def[t].inputs : InBy(u, r, k.fp.in[u])
            /\ \A i \in DOMAIN lake[t] : lake[t][i].rows[r] = 0
            /\ \A l \in jobs \ {k} : l.step = t => l.rows[r] = 0
        BY <2>1, <2>4
      <3>2. \A u \in Def[t].inputs : InBy(u, r, k.fp.in[u])'
        <4> TAKE u \in Def[t].inputs
        <4>1. PICK v : v = k.fp.in[u]
          OBVIOUS
        <4>2. InBy(u, r, v)'
          BY <2>3, <3>1, <4>1
        <4> QED
          BY <4>1, <4>2 DEF InBy
      <3>3. CASE t # s
        BY <1>3, <3>1, <3>2, <3>3
      <3>4. CASE t = s
        <4>1. j \in jobs /\ j.step = s /\ j.rows = rows /\ k # j /\ k \in jobs
          BY <2>4, <3>4 DEF Feed
        <4>2. rows[r] = 0
          BY <3>1, <3>4, <4>1
        <4>3. \A i \in 1..n : lake'[s][i].rows[r] = 0
          BY <1>4, <1>5, <3>1, <3>4, <4>2
        <4> QED
          BY <1>4, <3>1, <3>2, <3>4, <4>3
      <3> QED
        BY <3>3, <3>4
    <2> QED
      BY <2>1, <2>2, <2>4
  <1> QED
    BY <1>11, <1>12, <1>13, <1>14, <1>15 DEF Once

\* The record of a commit: what the history has seen is in the log now.
LEMMA RecordRunOnce ==
    ASSUME Base, Once, ReadsOnce(Def), RecordRun
    PROVE  Once'
  <1>1. /\ UNCHANGED <<Def, lake, version, jobs, ticks>>
        /\ log' = log \cup open /\ open' = {}
        /\ \/ phase = "backfill" /\ phase' = "idle"
           \/ phase = "record" /\ jobs = {} /\ phase' = "level" /\ level' = level + 1
           \/ phase = "record" /\ phase' = "commit" /\ level' = level
    BY DEF RecordRun, NextFuture
  <1>2. LakeOK /\ LogOK /\ PhaseOK /\ JobsOK
    BY DEF Base
  <1>3. /\ Steps' = Steps
        /\ \A t : (History(t)' <=> History(t)) /\ (Feed(t)' <=> Feed(t))
    BY <1>1, <1>2, SameFeeds
  <1>4. ASSUME NEW t \in Steps, Turn(t)'
        PROVE  Turn(t)
    <2>1. Def[t].level \in Nat /\ level \in Nat
      BY <1>2, PipelineFacts DEF PhaseOK
    <2> QED
      BY <1>1, <1>4, <2>1 DEF Turn, InTick
  <1>5. CASE open = {}
    <2>1. log' = log /\ jobs' \in SUBSET jobs /\ open' \in SUBSET open
      BY <1>1, <1>5
    <2>2. \A t \in Steps : /\ LastRun(log', t) = LastRun(log, t)
                          /\ LatestSnapshot(log', t) = LatestSnapshot(log, t)
      BY <2>1
    <2>3. \A r \in open \ open' : ~Feed(r.step)
      BY <1>5
    <2>4. \A t \in Steps : Turn(t)' => Turn(t)
      BY <1>4
    <2>5. UNCHANGED <<Def, lake, version>> /\ ticks' = ticks
      BY <1>1
    <2>6. \A t \in Steps : /\ LastRun(log, t)' = LastRun(log, t)
                          /\ LatestSnapshot(log, t)' = LatestSnapshot(log, t)
      BY <2>1
    <2> QED
      BY <2>1, <2>2, <2>3, <2>4, <2>5, QuietOnce
  <1>6. CASE open # {}
    <2>1. PICK q \in open :
             /\ open = {q} /\ q.at \in Nat /\ \A r \in log : r.at < q.at
             /\ Succeeded(q) /\ q.table = q.step /\ q.step \in Steps
             /\ q.snapshot = version /\ q.snapshot # NoSnapshot
             /\ phase = "record" => Def[q.step].level = level
      BY <1>2, <1>6 DEF LogOK, GoodRecord, Once, AllRecorded, NoSnapshot, LakeOK
    <2>2. log' = log \cup {q}
      BY <1>1, <2>1
    <2>3. /\ LastRun(log', q.step) = {q}
          /\ \A t \in Steps \ {q.step} : LastRun(log', t) = LastRun(log, t)
          /\ LatestSnapshot(log', q.step) = version
          /\ \A t \in Steps \ {q.step} : LatestSnapshot(log', t) = LatestSnapshot(log, t)
      <3>1. Dated(log)
        BY <1>2 DEF LogOK
      <3>2. /\ LastRun(log \cup {q}, q.step) = {q}
            /\ \A t : ~(Succeeded(q) /\ q.step = t) =>
                  LastRun(log \cup {q}, t) = LastRun(log, t)
            /\ LatestSnapshot(log \cup {q}, q.table) = q.snapshot
            /\ \A t : ~(Succeeded(q) /\ q.table = t) =>
                  LatestSnapshot(log \cup {q}, t) = LatestSnapshot(log, t)
        BY <2>1, <3>1, LaterRecord
      <3> QED
        BY <2>1, <2>2, <3>2
    <2>4. \A t \in Steps : LatestSnapshot(log, t) <= LatestSnapshot(log', t)
      <3> TAKE t \in Steps
      <3>1. LatestSnapshot(log, t) \in 0..version /\ version \in Nat
        BY <1>2, LatestIsAVersion DEF LakeOK
      <3> QED
        BY <2>3, <3>1
    <2>5. \A s \in Steps \ {q.step} : \A t : LastSeen(s, t)' = LastSeen(s, t)
      BY <1>1, <2>3, SameLastSeen
    <2>6. \A s \in Steps : History(s) =>
             \E t \in Steps : Def[s].inputs = {t} /\ Feed(t) /\ Def[t].level < Def[s].level
      BY <1>2, HistoryFacts
    <2>7. \A t \in Def[q.step].inputs : LastSeen(q.step, t)' = q.fp.in[t]
      <3> TAKE t \in Def[q.step].inputs
      <3>1. q.fp.in[t] \in Nat
        BY <1>2, <2>1 DEF LogOK, GoodRecord, LakeOK
      <3>2. PICK n \in Nat : n = q.fp.in[t]
        BY <3>1
      <3>3. LastSeen(q.step, t)' = Max({NoSnapshot} \cup {n})
        BY <2>3, <3>2 DEF LastSeen
      <3> QED
        BY <3>2, <3>3, MaxWithNone
    <2>8. \A t, r, v : InBy(t, r, v)' <=> InBy(t, r, v)
      BY <1>1 DEF InBy
    <2>9. RowsOnce'
      BY <1>1, <1>3 DEF Once, RowsOnce, Rows
    <2>10. PulledBefore'
      <3>1. Pulled' = Pulled
        BY <1>1 DEF Pulled, Rows
      <3> QED
        BY <1>1, <1>3, <1>4, <3>1 DEF Once, PulledBefore, Rows
    <2>11. HasSeen'
      <3> SUFFICES ASSUME NEW s \in Steps, History(s), NEW t \in Def[s].inputs
                   PROVE  /\ LastSeen(s, t)' <= LatestSnapshot(log', t)
                          /\ \A i \in DOMAIN lake[s], r \in Rows :
                                lake[s][i].rows[r] > 0 =>
                                   \E k \in DOMAIN lake[t] :
                                      /\ lake[t][k].rows[r] > 0
                                      /\ lake[t][k].version <= LastSeen(s, t)'
        <4>1. DOMAIN lake' = DOMAIN lake /\ lake' = lake /\ Def' = Def /\ Rows' = Rows
          BY <1>1 DEF Rows
        <4>2. \A t : LatestSnapshot(log, t)' = LatestSnapshot(log', t)
          OBVIOUS
        <4> QED
          BY <1>3, <4>1, <4>2 DEF HasSeen, InBy
      <3>1. t \in Steps /\ t # s
        BY <2>6, PipelineFacts, <1>2
      <3>2. /\ LastSeen(s, t) <= LatestSnapshot(log, t)
            /\ \A i \in DOMAIN lake[s], r \in Rows : lake[s][i].rows[r] > 0 =>
                  InBy(t, r, LastSeen(s, t)) \/ (q.step = s /\ InBy(t, r, q.fp.in[t]))
        <4>1. /\ LastSeen(s, t) <= LatestSnapshot(log, t)
              /\ \A i \in DOMAIN lake[s], r \in Rows : lake[s][i].rows[r] > 0 =>
                    \/ InBy(t, r, LastSeen(s, t))
                    \/ \E o \in open : o.step = s /\ InBy(t, r, o.fp.in[t])
          BY DEF Once, HasSeen
        <4>2. \A o \in open : o = q
          BY <2>1
        <4> QED
          BY <4>1, <4>2
      <3>3. LastSeen(s, t) \in Nat
        BY <1>2, LastSeenIs
      <3>4. LatestSnapshot(log, t) \in Nat /\ LatestSnapshot(log', t) \in Nat
        <4>1. LatestSnapshot(log, t) \in 0..version /\ version \in Nat
          BY <1>2, LatestIsAVersion DEF LakeOK
        <4> QED
          BY <2>3, <3>1, <4>1
      <3>5. CASE s # q.step
        <4>1. LastSeen(s, t)' = LastSeen(s, t)
          BY <2>5, <3>5
        <4>2. LatestSnapshot(log, t) <= LatestSnapshot(log', t)
          BY <2>4, <3>1
        <4> QED
          BY <3>2, <3>3, <3>4, <3>5, <4>1, <4>2 DEF InBy
      <3>6. CASE s = q.step
        <4>1. LastSeen(s, t)' = q.fp.in[t] /\ q.fp.in[t] = LatestSnapshot(log, t)
          BY <2>1, <2>7, <3>6 DEF Once, JobsAreNew
        <4>2. LatestSnapshot(log', t) = LatestSnapshot(log, t)
          BY <2>3, <3>1, <3>6
        <4>3. \A r : InBy(t, r, LastSeen(s, t)) => InBy(t, r, q.fp.in[t])
          <5> SUFFICES ASSUME NEW r, NEW i \in DOMAIN lake[t],
                              lake[t][i].rows[r] > 0,
                              lake[t][i].version <= LastSeen(s, t)
                       PROVE  lake[t][i].version <= q.fp.in[t]
            BY DEF InBy
          <5>1. lake[t][i].version \in Nat
            BY <1>2, <3>1 DEF LakeOK
          <5> QED
            BY <3>2, <3>3, <3>4, <4>1, <5>1
        <4> QED
          BY <3>2, <3>4, <4>1, <4>2, <4>3 DEF InBy
      <3> QED
        BY <3>5, <3>6
    <2>12. AllRecorded'
      <3> SUFFICES ASSUME NEW t \in Steps, Feed(t), NEW i \in DOMAIN lake[t]
                   PROVE  lake[t][i].version <= LatestSnapshot(log', t)
        BY <1>1, <1>3 DEF AllRecorded
      <3>1. lake[t][i].version \in 1..version /\ version \in Nat
        BY <1>2 DEF LakeOK
      <3>2. CASE t = q.step
        BY <2>3, <3>1, <3>2
      <3>3. CASE t # q.step
        <4>1. lake[t][i].version <= LatestSnapshot(log, t)
          BY <2>1, <3>3 DEF Once, AllRecorded
        <4> QED
          BY <2>3, <3>3, <4>1
      <3> QED
        BY <3>2, <3>3
    <2>13. JobsAreNew'
      <3> SUFFICES ASSUME NEW s \in Steps, History(s)
                   PROVE  /\ \A t \in Def[s].inputs : \A j \in jobs :
                                j.step = s => j.fp.in[t] = LatestSnapshot(log', t)
                          /\ \A j \in jobs, r \in Rows : j.step = s =>
                                /\ j.rows[r] <= 1
                                /\ j.rows[r] > 0 =>
                                     /\ \A t \in Def[s].inputs : InBy(t, r, j.fp.in[t])
                                     /\ \A i \in DOMAIN lake[s] : lake[s][i].rows[r] = 0
                                     /\ \A k \in jobs \ {j} : k.step = s => k.rows[r] = 0
        <4>1. jobs' \cup open' = jobs /\ jobs' = jobs /\ lake' = lake /\ Def' = Def
          BY <1>1
        <4>2. \A t : LatestSnapshot(log, t)' = LatestSnapshot(log', t)
          OBVIOUS
        <4>3. Rows' = Rows
          BY DEF Rows
        <4> QED
          BY <1>3, <2>8, <4>1, <4>2, <4>3 DEF JobsAreNew
      <3>1. ASSUME NEW t \in Def[s].inputs, NEW j \in jobs, j.step = s
            PROVE  LatestSnapshot(log', t) = LatestSnapshot(log, t)
        <4>1. phase = "record"
          BY <1>1, <1>2, <3>1 DEF PhaseOK
        <4>2. Def[s].level = level /\ Def[q.step].level = level
          BY <1>2, <2>1, <3>1, <4>1 DEF JobsOK
        <4>3. t \in Steps /\ Def[t].level < Def[s].level /\ Def[t].level \in Nat
          BY <1>2, PipelineFacts
        <4>4. t # q.step
          BY <4>2, <4>3
        <4> QED
          BY <2>3, <4>3, <4>4
      <3> QED
        BY <3>1 DEF Once, JobsAreNew
    <2> QED
      BY <2>9, <2>10, <2>11, <2>12, <2>13 DEF Once
  <1> QED
    BY <1>5, <1>6

\* The commit of a job of the level.
LEMMA CommitResultOnce ==
    ASSUME Base, Once, ReadsOnce(Def), NEW j \in jobs, CommitResult(j)
    PROVE  Once'
  <1>1. /\ phase = "commit" /\ phase' = "record" /\ jobs' = jobs \ {j}
        /\ UNCHANGED <<Def, log, ticks, level>>
        /\ Commit(j.step, j.rows) /\ Def[j.step].returns = "relation"
        /\ open' = {Record(j, "success", version', "")}
    BY DEF CommitResult
  <1>2. open = {} /\ j.step \in Steps /\ j.rows \in Relation
    BY <1>1 DEF Base, PhaseOK, JobsOK
  <1>3. PICK q : q = Record(j, "success", version', "")
    OBVIOUS
  <1>4. open' = {q} /\ q.step = j.step /\ q.snapshot = version' /\ q.fp = j.fp
    BY <1>1, <1>3 DEF Record
  <1>5. PICK s \in Steps, rows \in Relation : s = j.step /\ rows = j.rows
    BY <1>2
  <1>6. Commit(s, rows) /\ Def[s].returns = "relation" /\ q.step = s
    BY <1>1, <1>4, <1>5
  <1>7. Feed(s) => /\ j \in jobs /\ j.step = s /\ j.rows = rows
                   /\ q.fp = j.fp /\ jobs' = jobs \ {j}
    BY <1>1, <1>4, <1>5
  <1>8. jobs' \in SUBSET jobs
    BY <1>1
  <1> QED
    BY <1>1, <1>2, <1>4, <1>6, <1>7, <1>8, CommittedOnce

\* A backfill of a table that no history reads.
LEMMA BackfillOnce ==
    ASSUME Base, Once, ReadsOnce(Def), NEW s \in Steps, NEW p, Backfill(s, p), ~Feed(s)
    PROVE  Once'
  <1> DEFINE rows == CASE Def[s].kind = "source" -> Pulled
                       [] Def[s].partitioned -> Partition(WholeInputs(s), p)
                       [] OTHER -> WholeInputs(s)
             job == [step |-> s, fp |-> [Fingerprint(s) EXCEPT !.backfill = TRUE]]
  <1>1. /\ phase = "idle" /\ jobs' = jobs /\ phase' = "backfill"
        /\ UNCHANGED <<Def, log, ticks, level>>
        /\ Commit(s, rows) /\ Def[s].returns = "relation"
        /\ open' = {Record(job, "success", version', "")}
    BY DEF Backfill, Operation
  <1>2. LakeOK /\ LogOK /\ open = {}
    BY <1>1 DEF Base, PhaseOK
  <1>3. rows \in Relation
    <2>1. WholeInputs(s) \in Relation
      BY <1>2, WholeInputsAreNamed
    <2>2. Partition(WholeInputs(s), p) \in Relation /\ Pulled \in Relation
      BY <2>1, PartitionIsRelation, PulledIsRelation
    <2> QED
      BY <2>1, <2>2
  <1>4. job.step = s
    OBVIOUS
  <1> HIDE DEF rows, job
  <1>5. PICK q : q = Record(job, "success", version', "")
    OBVIOUS
  <1>6. open' = {q} /\ q.step = s /\ q.snapshot = version'
    BY <1>1, <1>4, <1>5 DEF Record
  <1>7. PICK rel \in Relation : rel = rows
    BY <1>3
  <1>8. Commit(s, rel)
    BY <1>1, <1>7
  <1>9. jobs' \in SUBSET jobs
    BY <1>1
  <1> QED
    BY <1>1, <1>2, <1>6, <1>8, <1>9, CommittedOnce

\* The records of the feeds stay, and with them what the log says of these.
LEMMA FeedsKept ==
    ASSUME LogOK, log' \in SUBSET log, \A r \in log \ log' : ~Feed(r.step)
    PROVE  \A t \in Steps : Feed(t) =>
               /\ LastRun(log', t) = LastRun(log, t)
               /\ LatestSnapshot(log', t) = LatestSnapshot(log, t)
  <1> SUFFICES ASSUME NEW t \in Steps, Feed(t)
               PROVE  /\ LastRun(log', t) = LastRun(log, t)
                      /\ LatestSnapshot(log', t) = LatestSnapshot(log, t)
    OBVIOUS
  <1>1. \A r \in log : r.step = t => r \in log'
    OBVIOUS
  <1>2. {r \in log' : r.step = t /\ Succeeded(r)} = {r \in log : r.step = t /\ Succeeded(r)}
    BY <1>1
  <1>3. \A r \in log : r.table = r.step
    BY DEF LogOK, GoodRecord
  <1>4. Snapshots(log', t) = Snapshots(log, t)
    BY <1>1, <1>3 DEF Snapshots
  <1> QED
    BY <1>2, <1>4 DEF LastRun, LatestSnapshot

\* A job that failed leaves a record that no step looks at.
LEMMA FailedOnce ==
    ASSUME Base, Once, ReadsOnce(Def), NEW j \in jobs, NEW error, JobFailed(j, error),
           UNCHANGED ticks
    PROVE  Once'
  <1>1. /\ UNCHANGED <<Def, lake, version, open>> /\ phase = "commit"
        /\ log' = log \cup {Record(j, "failed", NoSnapshot, error)}
        /\ jobs' = jobs \ {j}
        /\ \/ phase' = "level" /\ level' = level + 1 /\ jobs' = {}
           \/ phase' = "commit" /\ level' = level
    BY DEF JobFailed, Handled, NextFuture
  <1>2. LakeOK /\ LogOK /\ level \in Nat /\ open = {}
    BY <1>1 DEF Base, PhaseOK
  <1>3. PICK r : r = Record(j, "failed", NoSnapshot, error)
    OBVIOUS
  <1>4. r.at \in Nat /\ \A q \in log : q.at < r.at
    BY <1>2, <1>3, RecordIsLater
  <1>5. ~Succeeded(r)
    BY <1>3 DEF Record, Succeeded
  <1>6. Dated(log) /\ log' = log \cup {r}
    BY <1>1, <1>2, <1>3 DEF LogOK
  <1>7. \A t : /\ LastRun(log \cup {r}, t) = LastRun(log, t)
               /\ LatestSnapshot(log \cup {r}, t) = LatestSnapshot(log, t)
    BY <1>4, <1>5, <1>6, LaterRecord
  <1>8. \A t \in Steps : /\ LastRun(log', t) = LastRun(log, t)
                         /\ LatestSnapshot(log', t) = LatestSnapshot(log, t)
    BY <1>6, <1>7
  <1>9. ASSUME NEW t \in Steps, Turn(t)'
        PROVE  Turn(t)
    <2>1. Def[t].level \in Nat
      BY <1>2, PipelineFacts
    <2> QED
      BY <1>1, <1>2, <1>9, <2>1 DEF Turn, InTick
  <1>10. /\ jobs' \in SUBSET jobs /\ open' \in SUBSET open
         /\ \A q \in open \ open' : ~Feed(q.step)
    BY <1>1
  <1> QED
    BY <1>1, <1>8, <1>9, <1>10, QuietOnce

\* Once is kept by every step that disturbs no feed.
LEMMA OnceNext ==
    ASSUME Base, Once, ReadsOnce(Def), ~Distributed, [Next]_vars, [Undisturbed]_vars
    PROVE  Once'
  <1>1. LakeOK /\ PhaseOK /\ LogOK /\ ticks \in Nat
    BY DEF Base, Once, PulledBefore
  <1>2. ASSUME UNCHANGED <<Def, lake, version>>,
               log' \in SUBSET log, \A r \in log \ log' : ~Feed(r.step),
               jobs' \in SUBSET jobs, open' \in SUBSET open,
               \A q \in open \ open' : ~Feed(q.step),
               ticks' = ticks \/ (ticks' = ticks + 1 /\ jobs' = {}),
               \A t \in Steps : Turn(t)' /\ ticks' = ticks => Turn(t)
        PROVE  Once'
    <2>1. \A t \in Steps : Feed(t) =>
             /\ LastRun(log', t) = LastRun(log, t)
             /\ LatestSnapshot(log', t) = LatestSnapshot(log, t)
      BY <1>1, <1>2, FeedsKept
    <2> QED
      BY <1>2, <2>1, QuietOnce
  <1>3. CASE UNCHANGED vars
    <2>1. \A t \in Steps : Turn(t)' => Turn(t)
      BY <1>3 DEF vars, Turn, InTick
    <2> QED
      BY <1>2, <1>3, <2>1 DEF vars
  <1>4. CASE StartTick
    <2>1. jobs' = {} /\ ticks' = ticks + 1 /\ ticks' # ticks
      BY <1>1, <1>4 DEF StartTick, PhaseOK
    <2> QED
      BY <1>2, <1>4, <2>1 DEF StartTick
  <1>5. CASE RunLevel
    BY <1>5, RunLevelOnce
  <1>6. CASE EndTick
    <2>1. \A t \in Steps : ~Turn(t)'
      BY <1>6 DEF EndTick, Turn, InTick
    <2> QED
      BY <1>2, <1>6, <2>1 DEF EndTick
  <1>7. CASE RecordRun
    BY <1>7, RecordRunOnce
  <1>8. CASE Crash
    <2>1. \A t \in Steps : ~Turn(t)'
      BY <1>8 DEF Crash, Turn, InTick
    <2>2. \A q \in open : ~Feed(q.step)
      <3>1. phase' # phase
        BY <1>8 DEF Crash
      <3>2. Undisturbed
        BY <3>1 DEF vars
      <3> QED
        BY <1>8, <3>2 DEF Undisturbed
    <2> QED
      BY <1>2, <1>8, <2>1, <2>2 DEF Crash
  <1>9. CASE \E j \in jobs : StepRaises(j) \/ WriteFails(j) \/ ReturnedNone(j)
    <2>1. PICK j \in jobs : \E error : JobFailed(j, error)
      BY <1>9 DEF StepRaises, WriteFails, ReturnedNone
    <2>2. UNCHANGED ticks
      BY <2>1 DEF JobFailed
    <2> QED
      BY <2>1, <2>2, FailedOnce
  <1>10. CASE \E j \in jobs : CommitResult(j)
    BY <1>10, CommitResultOnce
  <1>11. ASSUME NEW s \in Steps, NEW p \in Parts, Backfill(s, p)
         PROVE  Once'
    <2>1. phase' # phase
      BY <1>11 DEF Backfill, Operation
    <2>2. Undisturbed
      BY <2>1 DEF vars
    <2>3. ~Feed(s)
      BY <1>11, <2>2 DEF Undisturbed
    <2> QED
      BY <1>11, <2>3, BackfillOnce
  <1>12. ASSUME NEW s \in Steps, Invalidate({s}) \/ Invalidate(Dependents(s))
         PROVE  Once'
    <2>1. PICK S : Invalidate(S)
      BY <1>12
    <2>2. /\ UNCHANGED <<Def, lake, version, open, jobs, ticks>>
          /\ phase' = "idle" /\ log' \in SUBSET log
      BY <2>1 DEF Invalidate, Operation, InvalidateRuns
    <2>3. \A r \in log \ log' : ~Feed(r.step)
      <3>1. CASE log' = log
        BY <3>1
      <3>2. CASE log' # log
        <4>1. Undisturbed
          BY <3>2 DEF vars
        <4> QED
          BY <1>12, <4>1 DEF Undisturbed
      <3> QED
        BY <3>1, <3>2
    <2>4. \A t \in Steps : ~Turn(t)'
      BY <2>2 DEF Turn, InTick
    <2> QED
      BY <1>2, <2>2, <2>3, <2>4
  <1>13. CASE \E s \in Steps : EditCode(s)
    <2>1. /\ UNCHANGED <<Def, lake, version, open, jobs, log, ticks>>
          /\ phase' = "idle"
      BY <1>13 DEF EditCode, Operation
    <2>2. \A t \in Steps : ~Turn(t)'
      BY <2>1 DEF Turn, InTick
    <2> QED
      BY <1>2, <2>1, <2>2
  <1>14. CASE \E cutoff : Gc(cutoff)
    <2>1. PICK cutoff : Gc(cutoff)
      BY <1>14
    <2>2. /\ UNCHANGED <<Def, lake, version, open, jobs, ticks>>
          /\ phase' = "idle" /\ log' = DeleteOldRuns(log, cutoff)
      BY <2>1 DEF Gc, Operation
    <2>3. \A t \in Steps : ~Turn(t)'
      BY <2>2 DEF Turn, InTick
    <2>4. \A r \in log : r.table = r.step /\ (Succeeded(r) => r.snapshot # NoSnapshot)
      BY <1>1 DEF LogOK, GoodRecord, LakeOK, NoSnapshot
    <2>5. \A t : /\ LastRun(DeleteOldRuns(log, cutoff), t) = LastRun(log, t)
                 /\ LatestSnapshot(DeleteOldRuns(log, cutoff), t) = LatestSnapshot(log, t)
      BY <1>1, <2>4, GcKeepsNewest DEF LogOK
    <2>6. \A t \in Steps : /\ LastRun(log', t) = LastRun(log, t)
                           /\ LatestSnapshot(log', t) = LatestSnapshot(log, t)
      BY <2>2, <2>5
    <2>7. jobs' \in SUBSET jobs /\ open' \in SUBSET open /\ open \ open' = {}
      BY <2>2
    <2> QED
      BY <2>2, <2>3, <2>6, <2>7, QuietOnce
  <1> QED
    BY <1>3, <1>4, <1>5, <1>6, <1>7, <1>8, <1>9, <1>10, <1>11, <1>12, <1>13, <1>14
       DEF Next, TickNext

\* Once holds before the first tick, of empty tables and an empty log.
LEMMA OnceInit ==
    ASSUME Init
    PROVE  Once
  <1>1. LakeOK /\ LogOK
    BY BaseInit DEF Base
  <1>2. /\ jobs = {} /\ open = {} /\ log = {} /\ ticks = 0
        /\ \A t \in Steps : lake[t] = <<>>
    BY DEF Init
  <1>3. \A t \in Steps : DOMAIN lake[t] = {}
    BY <1>2
  <1>4. \A s \in Steps : \A t \in Def[s].inputs : LastSeen(s, t) <= LatestSnapshot(log, t)
    <2> TAKE s \in Steps
    <2> TAKE t \in Def[s].inputs
    <2>1. LastRun(log, s) = {}
      BY <1>2 DEF LastRun, Newest
    <2>2. LastSeen(s, t) = NoSnapshot
      BY <1>1, <2>1, LastSeenIs
    <2>3. LatestSnapshot(log, t) = NoSnapshot
      BY <1>2 DEF LatestSnapshot, Snapshots
    <2> QED
      BY <2>2, <2>3 DEF NoSnapshot
  <1>5. RowsOnce /\ PulledBefore /\ AllRecorded /\ JobsAreNew
    BY <1>2, <1>3 DEF RowsOnce, PulledBefore, AllRecorded, JobsAreNew
  <1>6. HasSeen
    BY <1>2, <1>3, <1>4 DEF HasSeen
  <1> QED
    BY <1>5, <1>6 DEF Once

\* NoRowTwice (new_rows_since and _resolve_inputs) for every pipeline of
\* histories: if each incremental step that appends reads one source, or one
\* other such step, and the executor is the local one, then such a step never
\* has a row twice, although steps and writes fail, the process ends between the
\* commits of other tables and their records, the code changes, gc deletes old
\* records, and the history is partitioned. What must not happen to it and to the
\* tables it reads from are a backfill, an invalidation, and the loss of the
\* record of a commit: after each of these it reads rows again.
THEOREM HistoriesHaveRowsOnce ==
    ASSUME ~Distributed, \A def \in Pipelines : ReadsOnce(def)
    PROVE  Spec /\ [][Undisturbed]_vars => []NoRowTwice
  <1>1. Init => Base /\ Once
    BY BaseInit, OnceInit
  <1>2. Base /\ Once /\ [Next]_vars /\ [Undisturbed]_vars => Base' /\ Once'
    <2> SUFFICES ASSUME Base, Once, [Next]_vars, [Undisturbed]_vars
                 PROVE  Base' /\ Once'
      OBVIOUS
    <2>1. ReadsOnce(Def)
      BY DEF Base, LakeOK
    <2> QED
      BY <2>1, BaseNext, OnceNext
  <1>3. Base /\ Once => NoRowTwice
    <2> SUFFICES ASSUME Base, Once, NEW s \in Steps, NEW r \in Rows, History(s)
                 PROVE  At(s, version)[r] <= 1
      BY DEF NoRowTwice, History
    <2>1. LakeOK /\ RowsOnce /\ Feed(s) /\ version \in Nat
      BY DEF Base, Once, LakeOK, Feed
    <2> QED
      BY <2>1, ReadOnce
  <1> QED
    BY <1>1, <1>2, <1>3, PTL DEF Spec
=============================================================================
