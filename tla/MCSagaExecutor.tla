--------------------------- MODULE MCSagaExecutor ---------------------------
(* Small graphs for SagaExecutor. *)
EXTENDS SagaExecutor, TLC

\* 2 needs 1; 3 stands alone: after 1 has run, an executor that resumes
\* takes 2 first, one that is in its first round takes 3.
ForkGraph == [nodes |-> {1, 2, 3},
              requires |-> (1 :> <<>> @@ 2 :> <<1>> @@ 3 :> <<>>),
              edges |-> <<>>]

ExecutorSymmetry == Permutations(Executors)

=============================================================================
