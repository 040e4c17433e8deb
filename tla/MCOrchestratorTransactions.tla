---------------------- MODULE MCOrchestratorTransactions ----------------------
(* Small instances of OrchestratorTransactions for TLC. *)
EXTENDS OrchestratorTransactions, TLC

CONSTANTS w1, a

OneStep(singleton, maxRetries, lease) ==
  [singleton |-> singleton, start |-> a,
   steps |-> a :> [maxRetries |-> maxRetries, lease |-> lease]]

\* A singleton whose step is retried once; and the same workflow registered
\* again as no singleton, with no usable duration and no retry.
Changing == w1 :> {OneStep(TRUE, 1, 1), OneStep(FALSE, 0, None)}

Symmetry == Permutations(Executions) \cup Permutations(Workers)

=============================================================================
