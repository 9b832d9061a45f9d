----------------------------- MODULE SagaGraph -----------------------------
(***************************************************************************)
(* The dependency graph of a saga: internal/saga/graph.go.                 *)
(*                                                                         *)
(* Node IDs are positive numbers, in the order in which their strings      *)
(* sort.  A graph is [nodes, requires, edges]: `requires` gives each node  *)
(* its Requires list, `edges` is the list of <<from, to>> pairs.  Lists    *)
(* may repeat an entry: validateGraph does not refuse that.                *)
(***************************************************************************)
EXTENDS Integers, Sequences, FiniteSets, Functions, TLC

NoOrder == <<0>>   \* TopologicalOrder returned an error (0 is no node)

\* sort.Strings of the members of a set.
Sorted(ids) ==
  CHOOSE s \in [1..Cardinality(ids) -> ids] : \A i, j \in DOMAIN s : i < j => s[i] < s[j]

Reversed(s) == [i \in DOMAIN s |-> s[Len(s) - i + 1]]

\* A node's own Requires list wins over the graph's edges.
requiresForNode(graph, node) ==
  IF graph.requires[node] # <<>>
    THEN graph.requires[node]
    ELSE LET into == SelectSeq(graph.edges, LAMBDA edge : edge[2] = node)
         IN SortSeq([i \in DOMAIN into |-> into[i][1]], <)

\* Mutant: a node is ready when as many requirements have completed as its
\* list has entries.
MutantReadyByCount(graph, completed) ==
  Sorted({n \in graph.nodes \ completed :
            LET list == requiresForNode(graph, n)
            IN Cardinality(Range(list) \cap completed) = Len(list)})

\* The nodes to run next, sorted by ID; `completed` is the set of IDs whose
\* result has succeeded.
ReadyNodes(graph, completed) ==
  Sorted({n \in graph.nodes \ completed :
            Range(requiresForNode(graph, n)) \subseteq completed})

-----------------------------------------------------------------------------
(* TopologicalOrder: Kahn's algorithm with a ready list kept sorted.       *)

Occurrences(list, x) == Cardinality({i \in DOMAIN list : list[i] = x})

\* Mutant: a repeated requirement is counted once when it is released.
MutantRelease(graph, indegree, id) ==
  [n \in graph.nodes |->
     indegree[n] - IF Occurrences(requiresForNode(graph, n), id) > 0
                     THEN 1 ELSE 0]

\* The inner loop over outgoing[id]: one decrement per occurrence of id in
\* the requirements of n.
Release(graph, indegree, id) ==
  [n \in graph.nodes |->
     indegree[n] - Occurrences(requiresForNode(graph, n), id)]

\* One round of the outer loop: take the first ready ID, release its
\* successors, sort the ones whose in-degree has just become 0 into `ready`.
KahnStep(graph, s) ==
  LET id  == Head(s.ready)
      deg == Release(graph, s.indegree, id)
  IN [indegree |-> deg,
      ready    |-> Sorted(Range(Tail(s.ready)) \cup
                     {n \in graph.nodes : s.indegree[n] > 0 /\ deg[n] = 0}),
      ordered  |-> Append(s.ordered, id)]

KahnStart(graph) ==
  LET deg == [n \in graph.nodes |-> Len(requiresForNode(graph, n))]
  IN [indegree |-> deg,
      ready    |-> Sorted({n \in graph.nodes : deg[n] = 0}),
      ordered  |-> <<>>]

\* The state after at most k rounds; the loop makes one round per node.
Kahn(graph) ==
  LET after[k \in Nat] ==
        IF k = 0 THEN KahnStart(graph)
        ELSE LET s == after[k - 1]
             IN IF s.ready = <<>> THEN s ELSE KahnStep(graph, s)
  IN after[Cardinality(graph.nodes)]

TopologicalOrder(graph) ==
  LET ordered == Kahn(graph).ordered
  IN IF Len(ordered) # Cardinality(graph.nodes) THEN NoOrder ELSE ordered

\* Mutant: the completed nodes in topological order, not reversed.
MutantReverseTopologicalCompleted(graph, completed) ==
  LET ordered == TopologicalOrder(graph)
  IN IF ordered = NoOrder THEN NoOrder
     ELSE SelectSeq(ordered, LAMBDA n : n \in completed)

\* The completed nodes, dependents before what they require.
ReverseTopologicalCompleted(graph, completed) ==
  LET ordered == TopologicalOrder(graph)
  IN IF ordered = NoOrder THEN NoOrder
     ELSE SelectSeq(Reversed(ordered), LAMBDA n : n \in completed)

-----------------------------------------------------------------------------
(* Reference definitions *)

Requirement(graph) ==
  {p \in graph.nodes \X graph.nodes :
     p[2] \in Range(requiresForNode(graph, p[1]))}

\* Everything n needs, directly or not, in a graph with these nodes.
Needs(graph) ==
  LET R == Requirement(graph)
      reach[k \in Nat] ==
        IF k = 0 THEN R
        ELSE {p \in graph.nodes \X graph.nodes :
                \/ p \in reach[k - 1]
                \/ \E m \in graph.nodes :
                     <<p[1], m>> \in reach[k - 1] /\ <<m, p[2]>> \in R}
  IN reach[Cardinality(graph.nodes)]

HasCycle(graph) == \E n \in graph.nodes : <<n, n>> \in Needs(graph)

\* x comes before y in the list s.
Before(s, x, y) ==
  \E i, j \in DOMAIN s : i < j /\ s[i] = x /\ s[j] = y

=============================================================================
