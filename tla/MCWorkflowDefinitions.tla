----------------------- MODULE MCWorkflowDefinitions -----------------------
(* Documents of WorkflowDefinitions for TLC. *)
EXTENDS WorkflowDefinitions, TLC

CONSTANTS wf, a, b, bad, f

\* The duration with amount n of unit u and no other part.
Only(u, n) == [v \in Units |-> IF v = u THEN n ELSE None]

\* With LongLimit = 2^18 the seconds of 4 days wrap below zero and those of 7
\* days wrap above it.
StepTimes ==
  {None, Only("seconds", 2), Only("seconds", 11), Only("days", 4),
   Only("days", 7), Only("weeks", 1), Only("minutes", 0),
   [Only("hours", 1) EXCEPT !["minutes"] = 2]}

\* With IntLimit = 128, 255 narrows to -1, 257 to 1 and -255 to 1.
Steps ==
  [name : {a, b}, expectedExecutionTime : StepTimes,
   maxRetries : {None, 1, 255, -255}, additionalFields : {f}]

BadSteps ==
  {Wrong,
   [name |-> bad, expectedExecutionTime |-> None, maxRetries |-> 1,
    additionalFields |-> f],
   [name |-> a, expectedExecutionTime |-> Malformed, maxRetries |-> 1,
    additionalFields |-> f],
   [name |-> a, expectedExecutionTime |-> None, maxRetries |-> Wrong,
    additionalFields |-> f]}

GoodSteps ==
  <<[name |-> a, expectedExecutionTime |-> Only("seconds", 11),
     maxRetries |-> 257, additionalFields |-> f]>>

DocumentOf(step, steps) ==
  [hasOtherFields |-> FALSE, workflowName |-> wf, workflowVersion |-> 1,
   startWorkflowStepName |-> step, expectedExecutionTime |-> Only("days", 1),
   singleton |-> None, steps |-> steps]

\* Top-level fields right and wrong in every combination, and one or two steps.
TopLevelVariants ==
  [hasOtherFields : BOOLEAN, workflowName : {wf, bad, EmptyName, None, Wrong},
   workflowVersion : {-255, 0, 2, 255, 257, Wrong},
   startWorkflowStepName : {a, b, Wrong},
   expectedExecutionTime : {Only("days", 1), Malformed},
   singleton : {TRUE, None, Wrong}, steps : {GoodSteps}]

PairedSteps ==
  [name : {a, b}, expectedExecutionTime : {None, Only("days", 7)},
   maxRetries : {None, 1, 255, -255}, additionalFields : {f}]

StepVariants ==
  {DocumentOf(a, steps) :
     steps \in {None, Wrong, << >>} \cup {<<s>> : s \in Steps \cup BadSteps}
                 \cup {<<s, t>> : s, t \in PairedSteps}}

\* A document with nothing wrong beside one whose numbers are negative, and
\* narrow to valid ones, and whose durations are weeks.
Undocumented ==
  {DocumentOf(a, GoodSteps),
   [DocumentOf(a, <<[name |-> a, expectedExecutionTime |-> Only("weeks", 1),
                     maxRetries |-> -255, additionalFields |-> f]>>)
      EXCEPT !.workflowVersion = -255,
             !.expectedExecutionTime = Only("weeks", 1)]}

AllDocuments == {Wrong} \cup TopLevelVariants \cup StepVariants

=============================================================================
