-------------------------------- MODULE Dag ---------------------------------
(***************************************************************************)
(* The order in which a tick visits the steps (conduit_etl/core/dag.py):   *)
(* the graph is wired by matching the names of inputs with the names of    *)
(* outputs, and Kahn's algorithm groups it into levels. Steps are numbered *)
(* in the order of their registration; the registry (core/registry.py)     *)
(* makes step names unique and says nothing of their outputs. Every        *)
(* pipeline over N steps and the given tables is an initial state.         *)
(***************************************************************************)
EXTENDS Integers, Sequences, FiniteSets, FiniteSetsExt

CONSTANTS N,        \* number of registered steps
          Tables    \* names of tables

ASSUME DagAssumption == N \in Nat /\ IsFiniteSet(Tables)

VARIABLES output,       \* Steps -> the table it writes
          inputs,       \* Steps -> the tables its parameters name
          inDegree,     \* in_degree
          queue,        \* the steps of the next level
          levels,       \* the levels so far, each a set of steps
          visited,      \* number of steps in them
          result        \* "none", "levels" or "CycleError"

vars == <<output, inputs, inDegree, queue, levels, visited, result>>

Steps == 1..N

\* producers: the dict comprehension keeps the last step of those that write t.
Producer(t) == Max({s \in Steps : output[s] = t})

\* build_dag. An input that no step writes is external and has no edge.
Edge(a, b) ==
    \E t \in inputs[b] :
        (\E s \in Steps : output[s] = t) /\ Producer(t) = a

Dependents(a) == {b \in Steps : Edge(a, b)}
Predecessors(b) == {a \in Steps : Edge(a, b)}

Init ==
    /\ output \in [Steps -> Tables]
    /\ inputs \in [Steps -> SUBSET Tables]
    /\ inDegree = [s \in Steps |-> Cardinality(Predecessors(s))]
    /\ queue = {s \in Steps : inDegree[s] = 0}
    /\ levels = <<>>
    /\ visited = 0
    /\ result = "none"

\* Mutant of NextLevel: a dependent enters the queue when it is first reached.
NextLevelEager ==
    /\ queue # {}
    /\ levels' = Append(levels, queue)
    /\ visited' = visited + Cardinality(queue)
    /\ inDegree' = [s \in Steps |->
                      inDegree[s] - Cardinality(Predecessors(s) \cap queue)]
    /\ queue' = {s \in Steps : inDegree'[s] < inDegree[s]}
                    \ UNION {levels[i] : i \in DOMAIN levels}
    /\ UNCHANGED <<output, inputs, result>>

\* Mutant of NextLevel: one step of the queue at a time.
NextLevelSingly ==
    \E n \in queue :
        /\ levels' = Append(levels, {n})
        /\ visited' = visited + 1
        /\ inDegree' = [s \in Steps |->
                          inDegree[s] - Cardinality(Predecessors(s) \cap {n})]
        /\ queue' = (queue \ {n})
               \cup {s \in Steps : inDegree'[s] = 0 /\ inDegree[s] # 0}
        /\ UNCHANGED <<output, inputs, result>>

\* Mutant of NextLevel: the nodes of the last level are not counted.
NextLevelUncounted ==
    /\ queue # {}
    /\ levels' = Append(levels, queue)
    /\ inDegree' = [s \in Steps |->
                      inDegree[s] - Cardinality(Predecessors(s) \cap queue)]
    /\ queue' = {s \in Steps : inDegree'[s] = 0 /\ inDegree[s] # 0}
    /\ visited' = visited + Cardinality(queue')
    /\ UNCHANGED <<output, inputs, result>>

\* One round of the loop of topological_levels.
NextLevel ==
    /\ queue # {}
    /\ levels' = Append(levels, queue)
    /\ visited' = visited + Cardinality(queue)
    /\ inDegree' = [s \in Steps |->
                      inDegree[s] - Cardinality(Predecessors(s) \cap queue)]
    /\ queue' = {s \in Steps : inDegree'[s] = 0 /\ inDegree[s] # 0}
    /\ UNCHANGED <<output, inputs, result>>

Return ==
    /\ queue = {} /\ result = "none"
    /\ result' = IF visited # N THEN "CycleError" ELSE "levels"
    /\ UNCHANGED <<output, inputs, inDegree, queue, levels, visited>>

Next == NextLevel \/ Return

Spec == Init /\ [][Next]_vars

-----------------------------------------------------------------------------
(* Properties                                                              *)

Placed(s, i) == i \in DOMAIN levels /\ s \in levels[i]

\* A step of a level depends on steps of earlier levels only, and on one of the
\* level just before: the levels respect the graph and waste no concurrency.
LevelsFollowEdges ==
    \A b \in Steps, i \in DOMAIN levels : Placed(b, i) =>
        \A a \in Predecessors(b) : \E k \in 1..(i - 1) : Placed(a, k)

LevelsAreTight ==
    \A b \in Steps, i \in DOMAIN levels : Placed(b, i) /\ i > 1 =>
        \E a \in Predecessors(b) : Placed(a, i - 1)

\* CycleError is raised for the pipelines with a cycle and no others: a set of
\* steps in which each has a predecessor.
Cyclic ==
    \E S \in (SUBSET Steps) \ {{}} : \A b \in S : Predecessors(b) \cap S # {}

CycleErrorIsRight ==
    result # "none" => (result = "CycleError" <=> Cyclic)

\* dag.py: steps in the same level have no dependency on each other. A step
\* that reads a table depends on the steps that write it.
SameLevelIndependent ==
    \A i \in DOMAIN levels : \A a, b \in levels[i] : a # b =>
        output[a] \notin inputs[b]
=============================================================================
