--------------------------- MODULE MCWorkflowHttp ---------------------------
(* A small instance of WorkflowHttp for TLC. *)
EXTENDS WorkflowHttp, TLC

CONSTANTS w1, a, b

Step(l) == [maxRetries |-> 0, lease |-> l]

Steps(onA) == (a :> onA) @@ (b :> None)

\* A singleton of one step, and the same without a usable duration: a next step
\* b is never defined.
Changing ==
  w1 :> {[singleton |-> TRUE, start |-> a, steps |-> Steps(Step(1))],
         [singleton |-> FALSE, start |-> a, steps |-> Steps(Step(None))]}

=============================================================================
