----------------------------- MODULE Dag_proofs -----------------------------
(***************************************************************************)
(* Proofs about Dag, for any number of steps and any tables they read and  *)
(* write. The levels that the loop of execution_order has built so far,    *)
(* and what the in-degrees count, determine each other: a step is in the   *)
(* queue when its last predecessor was in the last level.                  *)
(***************************************************************************)
EXTENDS Dag, SequenceFacts

Done == UNION {levels[i] : i \in DOMAIN levels}

DagTypeOK ==
    /\ queue \in SUBSET Steps
    /\ levels \in Seq(SUBSET Steps)
    /\ inDegree \in [Steps -> Nat]

\* inDegree counts the predecessors that no level has yet, so the queue has the
\* steps whose predecessors have all been placed.
CountsRemaining ==
    /\ \A s \in Steps : inDegree[s] = Cardinality(Predecessors(s) \ Done)
    /\ queue = {s \in Steps \ Done : Predecessors(s) \subseteq Done}
    /\ visited = Cardinality(Done)

\* Each step of the queue has waited for one of the last level.
QueueIsTight ==
    \A b \in queue : levels # <<>> =>
        Predecessors(b) \cap levels[Len(levels)] # {}

ResultIsRight ==
    result # "none" => queue = {} /\ (result = "CycleError" <=> visited # N)

DagInv ==
    /\ DagTypeOK /\ CountsRemaining /\ QueueIsTight /\ ResultIsRight
    /\ LevelsFollowEdges /\ LevelsAreTight

LEMMA StepsFinite == IsFiniteSet(Steps) /\ Cardinality(Steps) = N
  BY FS_Interval, DagAssumption DEF Steps

LEMMA PredecessorsFinite ==
    ASSUME NEW s \in Steps
    PROVE  /\ Predecessors(s) \subseteq Steps
           /\ IsFiniteSet(Predecessors(s))
  <1>1. Predecessors(s) \subseteq Steps
    BY DEF Predecessors
  <1> QED
    BY <1>1, StepsFinite, FS_Subset

LEMMA DoneFinite ==
    ASSUME DagTypeOK
    PROVE  /\ Done \subseteq Steps
           /\ IsFiniteSet(Done)
  <1>1. \A i \in DOMAIN levels : levels[i] \in SUBSET Steps
    BY ElementOfSeq DEF DagTypeOK
  <1>2. Done \subseteq Steps
    BY <1>1 DEF Done
  <1> QED
    BY <1>2, StepsFinite, FS_Subset

LEMMA GraphUnchanged ==
    ASSUME UNCHANGED <<output, inputs>>, NEW s \in Steps
    PROVE  Predecessors(s)' = Predecessors(s)
  BY DEF Predecessors, Edge, Producer, Steps

LEMMA DagStart == Init => DagInv
  <1> SUFFICES ASSUME Init
               PROVE  DagInv
    OBVIOUS
  <1>1. levels = <<>> /\ Done = {}
    BY DEF Init, Done
  <1>2. \A s \in Steps : inDegree[s] = Cardinality(Predecessors(s))
                         /\ inDegree[s] \in Nat
    BY PredecessorsFinite, FS_CardinalityType DEF Init
  <1>3. DagTypeOK
    BY <1>2, EmptySeq DEF Init, DagTypeOK
  <1>4. CountsRemaining
    <2>1. visited = Cardinality(Done)
      BY <1>1, FS_EmptySet DEF Init
    <2>2. \A s \in Steps : inDegree[s] = Cardinality(Predecessors(s) \ Done)
      BY <1>1, <1>2
    <2>3. \A s \in Steps : inDegree[s] = 0 <=> Predecessors(s) \subseteq Done
      BY <1>1, <1>2, PredecessorsFinite, FS_EmptySet
    <2> QED
      BY <1>1, <2>1, <2>2, <2>3 DEF CountsRemaining, Init
  <1> QED
    BY <1>1, <1>3, <1>4
       DEF Init, DagInv, QueueIsTight, ResultIsRight, LevelsFollowEdges,
           LevelsAreTight, Placed

\* A round of the loop: the queue becomes the last level.
LEMMA NextLevelInv ==
    ASSUME DagInv, NextLevel
    PROVE  DagInv'
  <1> DEFINE n == Len(levels)
  <1>1. /\ levels \in Seq(SUBSET Steps) /\ n \in Nat
        /\ levels' = Append(levels, queue)
        /\ levels' \in Seq(SUBSET Steps)
        /\ DOMAIN levels = 1..n /\ DOMAIN levels' = 1..(n + 1)
        /\ Len(levels') = n + 1
        /\ \A i \in 1..n : levels'[i] = levels[i]
        /\ levels'[n + 1] = queue
    BY AppendProperties, LenProperties DEF DagInv, DagTypeOK, NextLevel
  <1>2. Done' = Done \cup queue
    BY <1>1 DEF Done
  <1>3. \A s \in Steps : Predecessors(s)' = Predecessors(s)
    BY GraphUnchanged DEF NextLevel
  <1>4. Done \subseteq Steps /\ queue \subseteq Steps
        /\ IsFiniteSet(Done) /\ IsFiniteSet(queue) /\ Done \cap queue = {}
    BY DoneFinite, StepsFinite, FS_Subset DEF DagInv, DagTypeOK, CountsRemaining
  <1>5. ASSUME NEW s \in Steps
        PROVE  /\ inDegree'[s] = Cardinality(Predecessors(s) \ Done')
               /\ inDegree'[s] \in Nat
               /\ inDegree[s] = 0 <=> Predecessors(s) \subseteq Done
               /\ inDegree'[s] = 0 <=> Predecessors(s) \subseteq Done'
    <2> DEFINE P == Predecessors(s)
    <2>1. IsFiniteSet(P)
      BY PredecessorsFinite
    <2>2. /\ IsFiniteSet(P \ Done) /\ IsFiniteSet(P \ Done')
          /\ IsFiniteSet(P \cap queue)
      BY <2>1, FS_Subset
    <2>3. Cardinality(P \ Done) = Cardinality(P \cap queue)
                                  + Cardinality(P \ Done')
      <3>1. P \ Done = (P \cap queue) \cup (P \ Done')
            /\ (P \cap queue) \cap (P \ Done') = {}
        BY <1>2, <1>4
      <3> HIDE DEF P
      <3>2. Cardinality((P \cap queue) \cap (P \ Done')) = 0
        BY <3>1, FS_EmptySet
      <3>3. /\ Cardinality(P \cap queue) \in Nat
            /\ Cardinality(P \ Done') \in Nat
        BY <2>2, FS_CardinalityType
      <3>4. Cardinality((P \cap queue) \cup (P \ Done'))
               = Cardinality(P \cap queue) + Cardinality(P \ Done')
                 - Cardinality((P \cap queue) \cap (P \ Done'))
        BY <2>2, FS_Union
      <3> QED
        BY <3>1, <3>2, <3>3, <3>4
    <2>4. inDegree'[s] = inDegree[s] - Cardinality(P \cap queue)
      BY DEF NextLevel
    <2>5. /\ Cardinality(P \ Done) \in Nat /\ Cardinality(P \ Done') \in Nat
          /\ Cardinality(P \cap queue) \in Nat
          /\ Cardinality(P \ Done) = 0 <=> P \ Done = {}
          /\ Cardinality(P \ Done') = 0 <=> P \ Done' = {}
      BY <2>2, FS_CardinalityType, FS_EmptySet
    <2>6. inDegree[s] = Cardinality(P \ Done)
      BY DEF DagInv, CountsRemaining
    <2> HIDE DEF P
    <2>7. inDegree'[s] = Cardinality(P \ Done')
      BY <2>3, <2>4, <2>5, <2>6
    <2> QED
      BY <2>5, <2>6, <2>7 DEF P
  <1>6. LevelsFollowEdges'
    <2>1. ASSUME NEW b \in Steps, NEW i \in 1..(n + 1), b \in levels'[i],
                 NEW a \in Predecessors(b)
          PROVE  \E k \in 1..(i - 1) : a \in levels'[k]
      <3>1. CASE i = n + 1
        <4>1. a \in Done
          BY <1>1, <2>1, <3>1 DEF DagInv, CountsRemaining
        <4> QED
          BY <1>1, <3>1, <4>1 DEF Done
      <3>2. CASE i \in 1..n
        BY <1>1, <2>1, <3>2 DEF DagInv, LevelsFollowEdges, Placed
      <3> QED
        BY <1>1, <3>1, <3>2
    <2> QED
      BY <1>1, <1>3, <2>1 DEF LevelsFollowEdges, Placed
  <1>7. LevelsAreTight'
    <2>2. n \in Nat
      BY <1>1
    <2>1. ASSUME NEW b \in Steps, NEW i \in 1..(n + 1), b \in levels'[i], i > 1
          PROVE  \E a \in Predecessors(b) : a \in levels'[i - 1]
      <3>1. CASE i = n + 1
        <4>1. n \in 1..n /\ i - 1 = n
          BY <2>2, <2>1, <3>1
        <4>2. levels # <<>> /\ levels'[i - 1] = levels[n]
          BY <1>1, <4>1
        <4>3. b \in queue
          BY <1>1, <2>1, <3>1
        <4> QED
          BY <4>2, <4>3 DEF DagInv, QueueIsTight
      <3>2. CASE i \in 1..n
        BY <1>1, <2>1, <3>2 DEF DagInv, LevelsAreTight, Placed
      <3>3. i = n + 1 \/ i \in 1..n
        BY <2>2
      <3> QED
        BY <3>1, <3>2, <3>3
    <2> QED
      BY <1>1, <1>3, <2>1 DEF LevelsAreTight, Placed
  <1>8. \A s \in Done : Predecessors(s) \subseteq Done
    BY <1>1, <1>4 DEF DagInv, LevelsFollowEdges, Placed, Done
  <1>9. queue' = {s \in Steps \ Done' : Predecessors(s) \subseteq Done'}
    <2>1. queue' = {s \in Steps : inDegree'[s] = 0 /\ inDegree[s] # 0}
      BY DEF NextLevel
    <2>2. \A s \in Steps : s \in Done' => inDegree[s] = 0
      BY <1>2, <1>5, <1>8 DEF DagInv, CountsRemaining
    <2>3. \A s \in Steps \ Done' : inDegree[s] # 0
      BY <1>2, <1>5 DEF DagInv, CountsRemaining
    <2> QED
      BY <1>5, <2>1, <2>2, <2>3
  <1>10. CountsRemaining'
    <2>1. visited' = Cardinality(Done')
      <3>1. Cardinality(Done \cap queue) = 0
        BY <1>4, FS_EmptySet
      <3>2. Cardinality(Done) \in Nat /\ Cardinality(queue) \in Nat
        BY <1>4, FS_CardinalityType
      <3>3. Cardinality(Done \cup queue)
               = Cardinality(Done) + Cardinality(queue)
                 - Cardinality(Done \cap queue)
        BY <1>4, FS_Union
      <3>4. visited = Cardinality(Done)
            /\ visited' = visited + Cardinality(queue)
        BY DEF NextLevel, DagInv, CountsRemaining
      <3> QED
        BY <1>2, <3>1, <3>2, <3>3, <3>4
    <2> QED
      BY <1>3, <1>5, <1>9, <2>1 DEF CountsRemaining
  <1>11. QueueIsTight'
    <2>1. ASSUME NEW b \in queue'
          PROVE  Predecessors(b) \cap queue # {}
      BY <1>2, <1>5, <1>9 DEF NextLevel
    <2>2. queue' \subseteq Steps
      BY <1>9
    <2> QED
      BY <1>1, <1>3, <2>1, <2>2 DEF QueueIsTight
  <1>12. DagTypeOK'
    BY <1>1, <1>5, <1>9 DEF DagTypeOK, NextLevel
  <1>13. ResultIsRight'
    BY DEF DagInv, ResultIsRight, NextLevel
  <1> QED
    BY <1>6, <1>7, <1>10, <1>11, <1>12, <1>13 DEF DagInv

LEMMA ReturnInv ==
    ASSUME DagInv, Return \/ UNCHANGED vars
    PROVE  DagInv'
  <1>1. UNCHANGED <<output, inputs, inDegree, queue, levels, visited>>
    BY DEF Return, vars
  <1>2. \A s \in Steps : Predecessors(s)' = Predecessors(s)
    BY <1>1, GraphUnchanged
  <1>3. Done' = Done
    BY <1>1 DEF Done
  <1>4. DagTypeOK' /\ CountsRemaining' /\ QueueIsTight'
    BY <1>1, <1>2, <1>3 DEF DagInv, DagTypeOK, CountsRemaining, QueueIsTight
  <1>5. LevelsFollowEdges' /\ LevelsAreTight'
    BY <1>1, <1>2 DEF DagInv, LevelsFollowEdges, LevelsAreTight, Placed
  <1>6. ResultIsRight'
    BY DEF DagInv, ResultIsRight, Return, vars
  <1> QED
    BY <1>4, <1>5, <1>6 DEF DagInv

LEMMA DagInvariant == Spec => []DagInv
  <1>1. DagInv /\ [Next]_vars => DagInv'
    BY NextLevelInv, ReturnInv DEF Next
  <1> QED
    BY DagStart, <1>1, PTL DEF Spec

\* The steps of a cycle are never placed, and what is never placed has a cycle.
LEMMA CycleRemains ==
    ASSUME DagInv
    PROVE  CycleErrorIsRight
  <1>1. SUFFICES ASSUME result # "none"
                 PROVE  result = "CycleError" <=> Cyclic
    BY DEF CycleErrorIsRight
  <1>2. /\ queue = {}
        /\ result = "CycleError" <=> Cardinality(Done) # N
    BY <1>1 DEF DagInv, ResultIsRight, CountsRemaining
  <1>3. Done \subseteq Steps /\ IsFiniteSet(Done)
    BY DoneFinite DEF DagInv
  <1>4. ASSUME Cardinality(Done) # N
        PROVE  Cyclic
    <2> DEFINE S == Steps \ Done
    <2>1. S \in SUBSET Steps /\ S # {}
      BY <1>3, <1>4, StepsFinite
    <2>2. \A b \in S : Predecessors(b) \cap S # {}
      BY <1>2, PredecessorsFinite DEF DagInv, CountsRemaining
    <2> QED
      BY <2>1, <2>2 DEF Cyclic
  <1>5. ASSUME Cardinality(Done) = N, Cyclic
        PROVE  FALSE
    <2>1. Done = Steps
      BY <1>3, <1>5, StepsFinite, FS_Subset
    <2>2. PICK S \in SUBSET Steps : S # {} /\ \A b \in S : Predecessors(b) \cap S # {}
      BY <1>5 DEF Cyclic
    <2> DEFINE I == {i \in DOMAIN levels : levels[i] \cap S # {}}
    <2>3. I \in SUBSET Nat /\ I # {}
      <3>1. DOMAIN levels \subseteq Nat
        BY LenProperties DEF DagInv, DagTypeOK
      <3>2. PICK b \in S : b \in Done
        BY <2>1, <2>2
      <3> QED
        BY <3>1, <3>2 DEF Done
    <2>4. PICK m \in I : \A k \in I : m <= k
      BY <2>3, LeastNatural
    <2>5. PICK b \in levels[m] \cap S : TRUE
      BY <2>4
    <2>6. PICK a \in Predecessors(b) \cap S : TRUE
      BY <2>2, <2>5
    <2>7. PICK k \in 1..(m - 1) : k \in DOMAIN levels /\ a \in levels[k]
      BY <2>2, <2>4, <2>5, <2>6 DEF DagInv, LevelsFollowEdges, Placed
    <2> QED
      BY <2>3, <2>4, <2>6, <2>7
  <1> QED
    BY <1>2, <1>4, <1>5

\* Each step comes in a level after those of the steps whose tables it reads.
THEOREM LevelsRespectGraph == Spec => []LevelsFollowEdges
  <1>1. DagInv => LevelsFollowEdges
    BY DEF DagInv
  <1> QED
    BY DagInvariant, <1>1, PTL

\* A step of a later level reads a table of the level before it: no step waits
\* for longer than its inputs do.
THEOREM LevelsWasteNothing == Spec => []LevelsAreTight
  <1>1. DagInv => LevelsAreTight
    BY DEF DagInv
  <1> QED
    BY DagInvariant, <1>1, PTL

\* execution_order raises CycleError exactly for graphs with a cycle, and the
\* levels it returns for the others have every step.
THEOREM CycleErrorIffCycle == Spec => []CycleErrorIsRight
  BY DagInvariant, CycleRemains, PTL
=============================================================================
