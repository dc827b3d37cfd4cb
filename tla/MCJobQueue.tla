----------------------------- MODULE MCJobQueue -----------------------------
(* Two jobs with two attempts and with one, and interchangeable workers. *)
EXTENDS JobQueue, TLC

MCPriority == [j \in Jobs |-> 0]
MCMaximumAttempts == [j \in Jobs |-> IF j = 1 THEN 2 ELSE 1]

WorkerSymmetry == Permutations(Workers)

=============================================================================
