--------------------------- MODULE MCWorkerRuntime ---------------------------
(* WorkerRuntime on one job and two worker processes. *)
EXTENDS WorkerRuntime, TLC

MCPriority == [j \in Jobs |-> 0]
MCMaximumAttempts == [j \in Jobs |-> 2]

WorkerSymmetry == Permutations(Workers)

=============================================================================
