-------------------------- MODULE MCWorkflowWorker --------------------------
(* A small instance of WorkflowWorker for TLC. *)
EXTENDS WorkflowWorker, TLC

CONSTANTS w1, a, x

\* One step, retried once, whose lease outlasts the interval between pings.
LongLease ==
  w1 :> {[singleton |-> FALSE, start |-> a,
          steps |-> a :> [maxRetries |-> 1, lease |-> 2]]}

\* Both threads have the worker id x.
OneId == [t \in Threads |-> x]

Symmetry == Permutations(Threads) \cup Permutations(Inputs)

=============================================================================
