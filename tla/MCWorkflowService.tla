-------------------------- MODULE MCWorkflowService --------------------------
(* Small instances of WorkflowService for TLC. *)
EXTENDS WorkflowService, TLC

CONSTANTS w1, a, b

Step(r, l) == [maxRetries |-> r, lease |-> l]

Workflow(onA, onB) ==
  [singleton |-> FALSE, start |-> a, steps |-> (a :> onA) @@ (b :> onB)]

\* A workflow registered again without its second step.
StepRemoved == w1 :> {Workflow(Step(1, 1), Step(0, 1)),
                      Workflow(Step(1, 1), None)}

\* The same without retries, which leaves room for a second execution.
NoRetries == w1 :> {Workflow(Step(0, 1), Step(0, 1)),
                    Workflow(Step(0, 1), None)}

=============================================================================
