--------------------------- MODULE MCOrchestrator ---------------------------
(* Small instances of Orchestrator for TLC.                                *)
EXTENDS Orchestrator, TLC

CONSTANTS w1, w2, a, b

Step(r, l) == [maxRetries |-> r, lease |-> l]

Workflow(singleton, onA, onB) ==
  [singleton |-> singleton, start |-> a, steps |-> (a :> onA) @@ (b :> onB)]

\* w1 has two steps, of which the first is retried once; w2 is a singleton of
\* one step.
StableDefinitions == w1 :> {Workflow(FALSE, Step(1, 1), Step(0, 2))}
                  @@ w2 :> {Workflow(TRUE, Step(0, 1), None)}

\* A workflow registered again as a singleton.
TurnedSingleton == w1 :> {Workflow(FALSE, Step(0, 1), None),
                          Workflow(TRUE, Step(0, 1), None)}

Symmetry == Permutations(Executions) \cup Permutations(Workers)

=============================================================================
