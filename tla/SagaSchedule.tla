---------------------------- MODULE SagaSchedule ----------------------------
(***************************************************************************)
(* The order in which Executor.Execute visits the nodes of a graph when    *)
(* every step succeeds: a round takes ReadyNodes, runs them one by one in  *)
(* ID order, and asks again.  The runs range over every small graph, with  *)
(* repeated requirements, edges, and cycles, none of which validateGraph   *)
(* refuses.                                                                *)
(***************************************************************************)
EXTENDS SagaGraph, SequencesExt

CONSTANTS
  NodeIDs,      \* the nodes of every graph
  MaxRequires,  \* bound on the length of a node's Requires list
  MaxEdges      \* bound on the length of the Edges list

VARIABLES
  graph,        \* the graph of this saga
  completed,    \* IDs of the nodes whose step has succeeded
  todo,         \* the nodes of the current round still to run
  visited       \* history: the nodes in the order they were run

vars == <<graph, completed, todo, visited>>

Graphs ==
  [nodes : {NodeIDs},
   requires : [NodeIDs -> SeqOf(NodeIDs, MaxRequires)],
   edges : SeqOf(NodeIDs \X NodeIDs, MaxEdges)]

Init ==
  /\ graph \in Graphs
  /\ completed = {}
  /\ todo = ReadyNodes(graph, {})
  /\ visited = <<>>

\* The next node of the round; the last one starts the next round.
RunNode ==
  /\ todo # <<>>
  /\ completed' = completed \cup {Head(todo)}
  /\ visited' = Append(visited, Head(todo))
  /\ todo' = IF Len(todo) > 1 THEN Tail(todo)
                              ELSE ReadyNodes(graph, completed')
  /\ UNCHANGED graph

Next == RunNode

Spec == Init /\ [][Next]_vars

-----------------------------------------------------------------------------
(* Properties *)

\* The executor never runs a step before everything it needs, directly or
\* through other nodes, has succeeded, and never runs a node twice
\* (graph.go ReadyNodes with the round of executor.go:107).  It gets stuck,
\* with nothing ready and nodes left over, only on nodes that are on a cycle
\* or wait for one: ReadyNodes reports no error there, TopologicalOrder does.
ScheduleCorrect ==
  /\ \A i \in DOMAIN visited :
       \A p \in Needs(graph) :
         p[1] = visited[i] => \E j \in 1 .. (i - 1) : visited[j] = p[2]
  /\ IsInjective(visited)
  /\ todo = <<>> =>
       graph.nodes \ completed =
         {n \in graph.nodes : \E m \in graph.nodes :
            /\ <<m, m>> \in Needs(graph)
            /\ n = m \/ <<n, m>> \in Needs(graph)}

\* TopologicalOrder is an error exactly on a cycle, and otherwise lists every
\* node once with its requirements before it, although the in-degree counts
\* repeated requirements (graph.go:59).
TopologicalOrderCorrect ==
  LET ordered == TopologicalOrder(graph)
  IN IF HasCycle(graph) THEN ordered = NoOrder
     ELSE /\ Range(ordered) = graph.nodes
          /\ IsInjective(ordered)
          /\ \A p \in Needs(graph) : Before(ordered, p[2], p[1])

\* Whatever has completed when a step fails, the compensation order undoes
\* each node after all the completed nodes that need it, and leaves none out.
CompensationOrderCorrect ==
  LET order == ReverseTopologicalCompleted(graph, completed)
  IN ~HasCycle(graph) =>
       /\ Range(order) = completed
       /\ IsInjective(order)
       /\ \A p \in Needs(graph) :
            p[1] \in completed => Before(order, p[1], p[2])

=============================================================================
